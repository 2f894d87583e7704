--------------------------- MODULE MCDriftWarnings ---------------------------
(* Instances of DriftWarnings for TLC.                                      *)
EXTENDS DriftWarnings, TLC

CONSTANTS r1, t1, q1, q2, c1, c2, c3

MCRun == {r1}
MCTool == {t1}

(* A run with tool steps and llm steps.                                     *)
MCOperation == {[kind |-> "tool", run |-> r1, tool |-> t1, index |-> NoIndex],
                [kind |-> "llm", run |-> r1, index |-> NoIndex]}

(* A run whose recorded step is the write tool a replay blocks.             *)
WriteOperation == {[kind |-> "tool", run |-> r1, tool |-> t1, index |-> NoIndex]}

Symmetry == Permutations(Request) \cup Permutations(Check)
=============================================================================
