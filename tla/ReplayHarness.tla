---------------------------- MODULE ReplayHarness ----------------------------
(***************************************************************************)
(* A replay of a recorded run: the current workflow runs against an         *)
(* InterceptedReplayRuntime that serves the recorded steps.  A strict       *)
(* replay serves only those; an exploratory replay changes one of them and  *)
(* asks the model again after it.  No tool is ever called.                  *)
(*                                                                         *)
(* One replay runs in one request and writes nothing before it ends, so the *)
(* only thing it shares with the rest is the trace it fetches.              *)
(***************************************************************************)
EXTENDS RecordedTrace

CONSTANTS
    Patch       \* the patches a client may ask for

(* A patch names a step by its index.  "response" replaces what a model     *)
(* said, "prompt" its prompt only, "tool" the response of a tool.           *)
PatchForm == [step : Int, kind : {"response"}, says : FinalDecision \cup InitialDecision \cup {Garbled}]
             \cup [step : Int, kind : {"prompt"}]
             \cup [step : Int, kind : {"tool"}, response : Response]

ASSUME PatchAssumption == Patch \subseteq PatchForm

VARIABLES
    stage,      \* "idle", "running", "over", "rejected" (400, the patch does not fit)
                \* or "failed" (500, nothing is stored)
    steps,      \* the recorded steps the replay has fetched
    mode,       \* "strict" or "exploratory"
    patch,      \* the patch of an exploratory replay, Nil of a strict one
    agent,      \* the workflow as the replay executes it
    cursor,     \* how many recorded steps the runtime has consumed
    events,     \* what the runtime has served
    modelCalls, \* live_model_call_count
    blocks      \* side_effect_block_count

replayvars == <<stage, steps, mode, patch, agent, cursor, events, modelCalls, blocks>>

Source == {"recorded_interceptor", "recorded_boundary_recovery", "regenerated_model_decision",
           "patched_llm_response", "patched_tool_interceptor", "simulated_tool_interceptor"}

(* The firewall: the contracts of the workflow's tools, and what it blocks. *)
ToolType(tool)   == CASE tool = "get_project_key" -> "read"
                      [] tool = "update_ticket"   -> "write"
                      [] tool = "escalate_ticket" -> "destructive"
SideEffect(tool) == tool \in WriteTool

(* Mutant: only the tool type "write" is blocked.                           *)
BlockedByType(tool) == ToolType(tool) = "write"

Blocked(tool) == ToolType(tool) \in {"write", "destructive"} \/ SideEffect(tool)
-----------------------------------------------------------------------------
ReplayInit == /\ stage = "idle"
              /\ steps = <<>>
              /\ mode = "strict"
              /\ patch = Nil
              /\ agent = Begun
              /\ cursor = 0
              /\ events = <<>>
              /\ modelCalls = 0
              /\ blocks = 0

StartReplay(m, p) ==
    /\ stage = "idle"
    /\ stage' = "running"
    /\ steps' = trace
    /\ mode' = m
    /\ patch' = p
    /\ UNCHANGED <<trace, agent, cursor, events, modelCalls, blocks>>

StartStrict == StartReplay("strict", Nil)

(* The type of the step a patch is for.                                     *)
PatchedType(p) == IF p.kind = "tool" THEN "tool" ELSE "llm"

(* Mutant: the type of the step is not compared with that of the patch.     *)
ValidPatchAnyType(p) == p.step >= 1 /\ \E i \in 1..Len(trace) : trace[i].index = p.step

(* PatchEngine.apply, of which only the validation counts.                  *)
ValidPatch(p) ==
    /\ p.step >= 1
    /\ \E i \in 1..Len(trace) :
          /\ trace[i].index = p.step
          /\ trace[i].type = PatchedType(p)

StartExploratory == \E p \in Patch : ValidPatch(p) /\ StartReplay("exploratory", p)

RejectPatch ==
    /\ stage = "idle"
    /\ \E p \in Patch : ~ValidPatch(p)
    /\ stage' = "rejected"
    /\ UNCHANGED <<trace, steps, mode, patch, agent, cursor, events, modelCalls, blocks>>
-----------------------------------------------------------------------------
(* _consume_expected takes the step at the cursor, whatever its type.       *)
HasExpected == cursor < Len(steps)
Expected    == steps[cursor + 1]
HasNext     == cursor + 1 < Len(steps)

(* Mutant: recovery looks at the step just consumed.                        *)
NextStepConsumed == steps[cursor + 1]

NextStep == steps[cursor + 2]

(* Mutant: an event past the end has no place.                              *)
EventIndexOrZero == IF HasExpected THEN Expected.index ELSE 0

(* Mutant: it has the place of the last step.                               *)
EventIndexOfLast == IF HasExpected THEN Expected.index ELSE cursor

(* _event_step_index: of the recorded step, or its place past the end.      *)
EventIndex == IF HasExpected THEN Expected.index ELSE cursor + 1

IsPatchTarget(kinds) == mode = "exploratory" /\ patch.step = EventIndex /\ patch.kind \in kinds

(* Mutant: the mode is not asked, and no patch means a patch at 0.          *)
AfterPatchAnyMode == EventIndex > (IF patch = Nil THEN 0 ELSE patch.step)

(* Mutant: the step of the patch itself counts as after it.                 *)
AfterPatchInclusive == mode = "exploratory" /\ EventIndex >= patch.step

AfterPatch == mode = "exploratory" /\ EventIndex > patch.step

Event(type, tool, source, isLive, patched, matched, data) ==
    [pos |-> IF HasExpected THEN cursor + 1 ELSE 0, index |-> EventIndex, type |-> type,
     tool |-> tool, source |-> source, live |-> isLive, patched |-> patched,
     matched |-> matched, data |-> data]

(* What the recorded step says to parse_decision: a tool step, or none,     *)
(* nothing that is a decision.                                              *)
RecordedSays == IF HasExpected /\ Expected.type = "llm" THEN Expected.says ELSE Garbled

(* The prompt is the recorded one.                                          *)
PromptMatches == HasExpected /\ Expected.type = "llm" /\ Expected.prompt = Prompt(agent)

(* _recover_recorded_decision: what the next recorded step shows of the     *)
(* decision before it.  At most one element.                                *)
RecoveredInitial ==
    IF /\ agent.pc = "initial" /\ HasNext
       /\ NextStep.type = "tool" /\ NextStep.tool = Lookup
    THEN {[board |-> b, recovered |-> TRUE] :
             b \in {IF NextStep.candidate # Nil THEN NextStep.candidate
                    ELSE NextStep.response.board} \ {Nil}}
    ELSE {}

(* Mutant: the priority of the recorded call is not recovered.              *)
RecoveredFinalPlain ==
    IF agent.pc # "final" THEN {}
    ELSE IF ~HasNext THEN {[tool |-> "stop", board |-> Nil, priority |-> Nil]}
    ELSE IF NextStep.type = "tool" /\ NextStep.tool \in WriteTool /\ NextStep.params.board # Nil
    THEN {[tool |-> NextStep.tool, board |-> NextStep.params.board, priority |-> Nil]}
    ELSE {}

RecoveredFinal ==
    IF agent.pc # "final" THEN {}
    ELSE IF ~HasNext THEN {[tool |-> "stop", board |-> Nil, priority |-> Nil]}
    ELSE IF NextStep.type = "tool" /\ NextStep.tool \in WriteTool /\ NextStep.params.board # Nil
    THEN {[tool |-> NextStep.tool, board |-> NextStep.params.board, priority |-> NextStep.params.priority]}
    ELSE {}

(* The event of a decision, and the workflow after it.                      *)
Decided(said, source, isLive, patched, matched) ==
    /\ events' = Append(events, Event("llm", Nil, source, isLive, patched, matched, said))
    /\ agent' = AfterDecision(agent, said)

FromRecording ==
    /\ ~AfterPatch /\ ~IsPatchTarget({"response", "prompt"})
    /\ \/ /\ Parses(agent, RecordedSays)
          /\ Decided(RecordedSays, "recorded_interceptor", FALSE, FALSE, PromptMatches)
       \/ /\ ~Parses(agent, RecordedSays)
          /\ \E said \in RecoveredInitial \cup RecoveredFinal :
                Decided(said, "recorded_boundary_recovery", FALSE, FALSE, PromptMatches)
       \/ /\ ~Parses(agent, RecordedSays)
          /\ RecoveredInitial \cup RecoveredFinal = {}
          /\ Decided(Garbled, "recorded_interceptor", FALSE, FALSE, PromptMatches)
    /\ UNCHANGED modelCalls

FromPatch ==
    /\ IsPatchTarget({"response"})
    /\ Decided(patch.says, "patched_llm_response", FALSE, TRUE, PromptMatches)
    /\ UNCHANGED modelCalls

(* The model is asked again.  Its call counts even if it raises, and then   *)
(* there is no event.                                                       *)
FromModel ==
    /\ AfterPatch \/ IsPatchTarget({"prompt"})
    /\ modelCalls' = modelCalls + 1
    /\ \/ \E said \in (IF agent.pc = "initial" THEN [board : Board, recovered : {FALSE}]
                       ELSE FinalDecision) \cup {Garbled} :
             Decided(said, "regenerated_model_decision", TRUE, IsPatchTarget({"prompt"}),
                     PromptMatches /\ AfterPatch)
       \/ agent' = Fail(agent) /\ UNCHANGED events

Decide ==
    /\ stage = "running"
    /\ agent.pc \in {"initial", "final"}
    /\ FromRecording \/ FromPatch \/ FromModel
    /\ cursor' = cursor + 1
    /\ UNCHANGED <<trace, stage, steps, mode, patch, blocks>>
-----------------------------------------------------------------------------
RecordedResponse ==
    IF ~HasExpected THEN [kind |-> "none", board |-> Nil]
    ELSE IF Expected.type = "llm" THEN [kind |-> "envelope", board |-> Nil]
    ELSE Expected.response

(* _simulate_from_recording: the parameters of the call show in the fields  *)
(* the recorded response has.                                               *)
Simulated(response, params) ==
    IF response.board # Nil /\ params.board # Nil
    THEN [response EXCEPT !.board = params.board] ELSE response

CallMatches == /\ HasExpected /\ Expected.type = "tool"
               /\ Expected.tool = ToolOf(agent) /\ Expected.params = ParamsOf(agent)

Served(response, source, patched) ==
    /\ events' = Append(events, Event("tool", ToolOf(agent), source, FALSE, patched, CallMatches,
                                      [params   |-> ParamsOf(agent),
                                       response |-> response,
                                       allowed  |-> ~Blocked(ToolOf(agent))]))
    /\ agent' = AfterCall(agent, response)

CallTool ==
    /\ stage = "running"
    /\ Calling(agent)
    /\ \/ /\ IsPatchTarget({"tool"})
          /\ Served(patch.response, "patched_tool_interceptor", TRUE)
       \/ /\ ~IsPatchTarget({"tool"}) /\ AfterPatch
          /\ Served(Simulated(RecordedResponse, ParamsOf(agent)), "simulated_tool_interceptor", FALSE)
       \/ /\ ~IsPatchTarget({"tool"}) /\ ~AfterPatch
          /\ Served(RecordedResponse, "recorded_interceptor", FALSE)
    /\ blocks' = blocks + IF Blocked(ToolOf(agent)) THEN 1 ELSE 0
    /\ cursor' = cursor + 1
    /\ UNCHANGED <<trace, stage, steps, mode, patch, modelCalls>>

(* Mutant: a failed execution is an error of the request, not a verdict.    *)
FinishCompleted ==
    /\ stage = "running"
    /\ agent.pc = "completed"
    /\ stage' = "over"
    /\ UNCHANGED <<trace, steps, mode, patch, agent, cursor, events, modelCalls, blocks>>

(* The engine logs the warnings and stores the verdict, of a failed         *)
(* execution too.                                                           *)
FinishReplay ==
    /\ stage = "running"
    /\ agent.pc \in Ended
    /\ stage' = "over"
    /\ UNCHANGED <<trace, steps, mode, patch, agent, cursor, events, modelCalls, blocks>>

(* A blocked write that was served beside a recorded step.                  *)
BlockedAtStep == \E i \in 1..Len(events) : /\ events[i].type = "tool"
                                           /\ ~events[i].data.allowed
                                           /\ events[i].pos # 0

(* Before the verdict, and outside the engine's try, a warning is logged    *)
(* for each blocked write.  If two rows of that step have it already, which *)
(* DriftWarnings shows to happen, log_drift_warning raises: the request is  *)
(* answered 500 and rolled back.  A write past the recorded steps has no    *)
(* step to look up.                                                         *)
FailReplay ==
    /\ stage = "running"
    /\ agent.pc \in Ended
    /\ BlockedAtStep
    /\ stage' = "failed"
    /\ UNCHANGED <<trace, steps, mode, patch, agent, cursor, events, modelCalls, blocks>>

ReplayNext == \/ StartStrict
              \/ StartExploratory
              \/ RejectPatch
              \/ Decide
              \/ CallTool
              \/ FinishReplay
              \/ FailReplay
=============================================================================
