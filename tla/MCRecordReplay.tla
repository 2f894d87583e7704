---------------------------- MODULE MCRecordReplay ----------------------------
(* Instances of RecordReplay for TLC.                                       *)
EXTENDS ReplayGraph, TLC

CONSTANTS b1, b2

MCLookupAnswer == {[kind |-> "project", board |-> b1], [kind |-> "error", board |-> Nil],
                   [kind |-> "text", board |-> Nil]}
MCWriteAnswer  == {[kind |-> "ticket", board |-> b1]}

(* Each kind of patch: on the steps it fits, on one it does not, and past   *)
(* the end of the trace.                                                    *)
Stop     == [tool |-> "stop", board |-> Nil, priority |-> Nil]
Escalate == [tool |-> "escalate_ticket", board |-> b2, priority |-> "High"]
MCPatch ==
    {[step |-> 1, kind |-> "response", says |-> [board |-> b2, recovered |-> FALSE]]}
    \cup [step : {3, 4, 5}, kind : {"response"}, says : {Stop}]
    \cup [step : {3}, kind : {"response"}, says : {Escalate}]
    \cup [step : {1, 2, 3, 5}, kind : {"prompt"}]
    \cup [step : {2, 4, 5}, kind : {"tool"}, response : {[kind |-> "error", board |-> Nil]}]

TwoPatches == {[step |-> 1, kind |-> "prompt"],
               [step |-> 2, kind |-> "tool", response |-> [kind |-> "error", board |-> Nil]]}
=============================================================================
