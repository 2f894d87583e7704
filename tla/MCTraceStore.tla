---------------------------- MODULE MCTraceStore ----------------------------
(* Instances of TraceStore for TLC.                                         *)
EXTENDS TraceStore

CONSTANTS r1, r2, t1, t2, q1, q2, q3, q4

MCRun     == {r1, r2}
MCTool    == {t1, t2}
MCSeeded  == {t1}

Call(r, t, i) == [kind |-> "tool", run |-> r, tool |-> t, index |-> i]
Llm(r, i)     == [kind |-> "llm", run |-> r, index |-> i]
Done(r, s, m) == [kind |-> "complete", run |-> r, status |-> s, meta |-> m]

(* One run left to the store, which is also completed with both statuses,  *)
(* with and without metadata; one on which some clients name the index.     *)
RecordingOps == {Call(r1, t1, NoIndex), Call(r1, t2, NoIndex), Llm(r1, NoIndex),
                 Done(r1, "completed", TRUE), Done(r1, "failed", FALSE),
                 Llm(r2, NoIndex), Call(r2, t1, 1), Llm(r2, 3)}

(* Two tool calls of one run, as an agent with parallel calls sends them.   *)
RacingOps == {Call(r1, t1, NoIndex)}
=============================================================================
