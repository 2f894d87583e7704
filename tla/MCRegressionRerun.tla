-------------------------- MODULE MCRegressionRerun --------------------------
(* Instances of RegressionRerun for TLC.                                    *)
EXTENDS RegressionRerun, TLC

CONSTANTS b1, b2

MCInitial == {[board |-> b1, recovered |-> FALSE]}

Escalate(b) == [tool |-> "escalate_ticket", board |-> b, priority |-> "High"]
Stop        == [tool |-> "stop", board |-> Nil, priority |-> Nil]

MCFinal == {Escalate(b1), Escalate(b2), Stop}

MCLookupAnswer == {[kind |-> "project", board |-> b1], [kind |-> "error", board |-> Nil]}

(* update_ticket answers with a board, which an upstream service may choose; *)
(* escalate_ticket answers with none.                                       *)
MCWriteAnswer == {[kind |-> "ticket", board |-> b1], [kind |-> "ticket", board |-> Nil]}

(* One patch of each kind, before and at the boundary of the write.         *)
MCPatch == {[step |-> 1, kind |-> "prompt"],
            [step |-> 2, kind |-> "tool", response |-> [kind |-> "project", board |-> b2]],
            [step |-> 3, kind |-> "response", says |-> Escalate(b2)],
            [step |-> 3, kind |-> "prompt"],
            [step |-> 4, kind |-> "tool", response |-> [kind |-> "ticket", board |-> b2]]}
=============================================================================
