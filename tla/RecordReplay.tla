----------------------------- MODULE RecordReplay -----------------------------
(***************************************************************************)
(* A live run of the triage agent and a replay of it, which share the trace *)
(* in the store.  The replay may start at any time: before the run ends,    *)
(* and before its late steps are committed.                                 *)
(***************************************************************************)
EXTENDS LiveAgent, ReplayHarness

allvars == <<trace, livevars, replayvars>>

Init == LiveInit /\ ReplayInit

Next == \/ LiveNext /\ UNCHANGED replayvars
        \/ ReplayNext /\ UNCHANGED livevars

Spec == Init /\ [][Next]_allvars

(* The replay waits for a model: for a decision of the branch, or for the   *)
(* evaluator of a completed exploratory replay.  Their clients are made     *)
(* without a timeout, so this may last for ever.                            *)
AwaitsModel ==
    /\ stage = "running"
    /\ \/ agent.pc \in {"initial", "final"} /\ (AfterPatch \/ IsPatchTarget({"prompt"}))
       \/ agent.pc = "completed" /\ mode = "exploratory"

(* A replay waits for nothing but recorded data, the database and a model;  *)
(* only the last may keep it.                                               *)
FairSpec ==
    Spec /\ WF_allvars(~AwaitsModel /\ (Decide \/ CallTool \/ FinishReplay) /\ UNCHANGED livevars)
-----------------------------------------------------------------------------
Wrote(x) == x.pc = "completed" /\ x.final.tool # "stop"

(* The replay fetched all that the run has done, and the run is over.       *)
FetchedAll == live.pc \in Ended /\ steps = performed

(* The recorded writes among some steps.                                    *)
WriteRows(rows) == {i \in 1..Len(rows) : rows[i].type = "tool" /\ rows[i].tool \in WriteTool}

Decisions == {i \in 1..Len(events) : events[i].type = "llm"}
Calls     == {i \in 1..Len(events) : events[i].type = "tool"}

TypeOK == /\ live \in Execution /\ agent \in Execution
          /\ \A i \in 1..Len(trace) : trace[i] \in RecordedStep /\ trace[i].index = i
          /\ \A i \in 1..Len(performed) : performed[i] \in RecordedStep
          /\ status \in {"running", "completed", "failed"}
          /\ stage \in {"idle", "running", "over", "rejected", "failed"}
          /\ mode \in {"strict", "exploratory"} /\ patch \in Patch \cup {Nil}
          /\ cursor \in 0..4 /\ modelCalls \in 0..2 /\ blocks \in 0..1
          /\ \A i \in 1..Len(events) : events[i].source \in Source

(* A replay in strict mode asks no model, whatever it finds in the trace:   *)
(* also past the end of a short one, or on a step of the wrong type.        *)
StrictNeverLive ==
    mode = "strict" => modelCalls = 0 /\ \A i \in 1..Len(events) : ~events[i].live

(* The firewall counts the writes of a replay and blocks each: one if the   *)
(* replayed workflow ends in a write, none otherwise.                       *)
BlocksEveryWrite ==
    /\ blocks = IF Wrote(agent) THEN 1 ELSE 0
    /\ \A i \in Calls : events[i].data.allowed <=> events[i].tool = Lookup

(* A strict replay of a completed run that was recorded step by step takes  *)
(* the decisions of the run, in the same steps, and every request matches   *)
(* its recording; but for an early trace, where a recovered initial         *)
(* decision has another reason and so changes the next prompt.              *)
FaithfulReplay ==
    stage = "over" /\ mode = "strict" /\ FetchedAll /\ live.pc = "completed" =>
        /\ agent.pc = "completed"
        /\ agent.initial.board = live.initial.board
        /\ agent.lookup = live.lookup
        /\ Len(events) = Len(steps)
        /\ \A i \in 1..Len(steps) : <<events[i].type, events[i].tool>> = Signature(steps[i])
        /\ ~early => agent = live /\ \A i \in 1..Len(events) : events[i].matched

(* Whatever was lost or came late, a strict replay attempts no write but    *)
(* the one the live agent decided.                                          *)
StrictWritesWereDecided ==
    mode = "strict" => \A i \in Calls : events[i].tool \in WriteTool =>
        /\ live.final # Nil
        /\ events[i].tool = live.final.tool
        /\ events[i].data.params = [board |-> live.final.board, priority |-> live.final.priority]

(* An exploratory replay of a whole trace that completes has applied its    *)
(* patch once, to the step that was asked for, after the recorded prefix.   *)
PatchIsApplied ==
    stage = "over" /\ mode = "exploratory" /\ FetchedAll /\ live.pc = "completed" /\ ~early =>
        \/ agent.pc = "failed"
        \/ /\ patch.step <= Len(events)
           /\ \A i \in 1..Len(events) : events[i].patched <=> i = patch.step
           /\ \A i \in 1..(patch.step - 1) :
                 events[i].source = "recorded_interceptor" /\ events[i].matched

(* A patch divides the replay of any trace, also of one with a lost, late   *)
(* or shifted step: before its place, and on it if the workflow gets there  *)
(* with a step of another type, the recording is served; it is applied if   *)
(* the type fits; behind it nothing recorded is served as it was.           *)
PatchDividesReplay ==
    mode = "exploratory" => \A i \in 1..Len(events) :
        /\ events[i].patched <=> i = patch.step /\ events[i].type = PatchedType(patch)
        /\ i <= patch.step /\ ~events[i].patched =>
              events[i].source \in {"recorded_interceptor", "recorded_boundary_recovery"}
        /\ i > patch.step =>
              events[i].source \in {"regenerated_model_decision", "simulated_tool_interceptor"}

(* An accepted replay ends, in a stored verdict or in the error of a        *)
(* repeated warning row, or waits for a model that never answers; so a      *)
(* strict replay always ends, whatever its trace lacks.                     *)
ReplayEnds == [](stage = "running" => <>(stage \in {"over", "failed"} \/ []AwaitsModel))

(* agent_harness.py: a recovered "stop" is "Recovered from a recorded       *)
(* no-write trajectory."                                                    *)
RecoveredStopHadNoWrite ==
    mode = "strict" => \A i \in Decisions :
        /\ events[i].source = "recorded_boundary_recovery"
        /\ events[i].data \in FinalDecision
        /\ events[i].data.tool = "stop"
        => WriteRows(steps) = {}
=============================================================================
