--------------------------- MODULE MCRegressionPack ---------------------------
(* Instances of RegressionPack for TLC.                                     *)
EXTENDS RegressionPack, TLC

CONSTANTS p1, p2, q1, q2

(* A replay that can be promoted, and one that failed.                      *)
MCReplay == {[mode |-> "exploratory", completed |-> c, steps |-> TRUE] : c \in BOOLEAN}

(* Only the one that can be promoted.                                       *)
Complete == {[mode |-> "exploratory", completed |-> TRUE, steps |-> TRUE]}
=============================================================================
