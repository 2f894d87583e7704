----------------------------- MODULE MCWebConsole -----------------------------
(* Instances of WebConsole for TLC.                                         *)
EXTENDS WebConsole, Integers, TLC

CONSTANTS i1, i2, t1, t2

MCRouted  == {1, 2}
MCIssueOf == [r \in Run |-> IF r = 2 THEN i2 ELSE i1]
MCEnded   == {1}
MCPage    == {"/", "/traces", "/drift"}
MCStepCount == <<2, 1, 0>>
MCTestId  == <<t1, t2>>
MCWindow  == {[width |-> 1000, height |-> 700], [width |-> 320, height |-> 250]}
MCBox     == {[top |-> y, left |-> x, width |-> 100, height |-> 40] : x \in {0, 450, 900}, y \in {-80, 330, 900}}
=============================================================================
