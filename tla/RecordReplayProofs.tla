-------------------------- MODULE RecordReplayProofs --------------------------
(***************************************************************************)
(* What TLAPS proves of replays, for every trace, patch and vocabulary: a   *)
(* replay asks no model and performs no write it may not, follows a run     *)
(* that was recorded whole until its patch, and is drawn whole.             *)
(***************************************************************************)
EXTENDS RecordReplay, ReplayGraph, ReplayHarnessProofs

StrictInv == /\ IsSequence(events)
             /\ stage = "idle" => mode = "strict"
             /\ StrictNeverLive

(* An event that is not live keeps what strict replay promises.             *)
LEMMA AppendKeepsRecorded ==
    ASSUME NEW e, StrictInv, ~e.live, events' = Append(events, e)
    PROVE  /\ IsSequence(events')
           /\ (\A i \in 1..Len(events) : ~events[i].live)
              => \A i \in 1..Len(events') : ~events'[i].live
<1>1. IsSequence(events) BY DEF StrictInv
<1>2. /\ IsSequence(events')
      /\ Len(events') = Len(events) + 1
      /\ \A i \in 1..Len(events) : events'[i] = events[i]
      /\ events'[Len(events) + 1] = e
      /\ Len(events) \in Nat
  BY <1>1, AppendIsSeq
<1> QED BY <1>2

(* A decision that comes from the recording is served as one.               *)
LEMMA RecordingKeepsStrict ==
    ASSUME StrictInv, Decide, FromRecording
    PROVE  StrictInv'
<1> SUFFICES ASSUME NEW e, ~e.live, events' = Append(events, e)
             PROVE  StrictInv'
  <2>1. \E said, source, matched : Decided(said, source, FALSE, FALSE, matched)
    BY DEF FromRecording
  <2>2. PICK said, source, matched : Decided(said, source, FALSE, FALSE, matched) BY <2>1
  <2>3. ~Event("llm", Nil, source, FALSE, FALSE, matched, said).live BY DEF Event
  <2>4. events' = Append(events, Event("llm", Nil, source, FALSE, FALSE, matched, said))
    BY <2>2 DEF Decided
  <2> QED BY <2>3, <2>4
<1>1. UNCHANGED <<stage, mode, modelCalls>> BY DEF Decide, FromRecording
<1>2. /\ IsSequence(events')
      /\ (\A i \in 1..Len(events) : ~events[i].live)
         => \A i \in 1..Len(events') : ~events'[i].live
  BY AppendKeepsRecorded
<1> QED BY <1>1, <1>2 DEF StrictInv, StrictNeverLive

(* A strict replay has no patch, so no step is after it or its target.      *)
LEMMA StrictTakesRecording ==
    ASSUME Decide, mode = "strict"
    PROVE  FromRecording
BY DEF Decide, FromPatch, FromModel, AfterPatch, IsPatchTarget

(* An exploratory replay only has to keep a sequence of events.             *)
LEMMA ExploratoryDecides ==
    ASSUME StrictInv, Decide, mode # "strict"
    PROVE  StrictInv'
<1>1. stage' = stage /\ mode' = mode /\ stage # "idle" BY DEF Decide
<1>2. IsSequence(events) BY DEF StrictInv
<1>3. IsSequence(events')
  <2>1. events' = events \/ \E e : events' = Append(events, e)
    BY DEF Decide, FromRecording, FromPatch, FromModel, Decided
  <2> QED BY <2>1, <1>2, AppendIsSeq
<1> QED BY <1>1, <1>3 DEF StrictInv, StrictNeverLive

LEMMA CallKeepsStrict ==
    ASSUME StrictInv, CallTool
    PROVE  StrictInv'
<1>1. UNCHANGED <<stage, mode, modelCalls>> BY DEF CallTool
<1>2. \E e : ~e.live /\ events' = Append(events, e)
  <2>1. PICK response, source, patched : Served(response, source, patched) BY DEF CallTool
  <2>2. PICK data, matched : events' = Append(events, Event("tool", ToolOf(agent), source, FALSE, patched, matched, data))
    BY <2>1 DEF Served
  <2>3. ~Event("tool", ToolOf(agent), source, FALSE, patched, matched, data).live BY DEF Event
  <2> QED BY <2>2, <2>3
<1>3. /\ IsSequence(events')
      /\ (\A i \in 1..Len(events) : ~events[i].live)
         => \A i \in 1..Len(events') : ~events'[i].live
  BY <1>2, AppendKeepsRecorded
<1> QED BY <1>1, <1>3 DEF StrictInv, StrictNeverLive

LEMMA StrictInit == ASSUME Init PROVE StrictInv
<1>1. IsSequence(events) BY EmptySeq DEF Init, ReplayInit, IsSequence
<1>2. Len(events) = 0 BY EmptySeq DEF Init, ReplayInit
<1> QED BY <1>1, <1>2 DEF Init, ReplayInit, StrictInv, StrictNeverLive

LEMMA StrictStep == ASSUME StrictInv, [Next]_allvars PROVE StrictInv'
<1>1. ASSUME UNCHANGED replayvars PROVE StrictInv'
  BY <1>1 DEF replayvars, StrictInv, StrictNeverLive
<1>2. ASSUME NEW m \in {"strict", "exploratory"}, NEW p, StartReplay(m, p) PROVE StrictInv'
  BY <1>2 DEF StartReplay, StrictInv, StrictNeverLive
<1>3. ASSUME RejectPatch \/ FinishReplay \/ FailReplay PROVE StrictInv'
  BY <1>3 DEF RejectPatch, FinishReplay, FailReplay, StrictInv, StrictNeverLive
<1>4. ASSUME Decide PROVE StrictInv'
  BY <1>4, StrictTakesRecording, RecordingKeepsStrict, ExploratoryDecides
<1>5. ASSUME CallTool PROVE StrictInv'
  BY <1>5, CallKeepsStrict
<1> QED
  BY <1>1, <1>2, <1>3, <1>4, <1>5
     DEF Next, ReplayNext, allvars, StartStrict, StartExploratory

(* A strict replay asks no model and marks no event live: for every         *)
(* recorded trace, however damaged, InterceptedReplayRuntime serves it.     *)
THEOREM StrictNeverLiveCorrect == Spec => []StrictNeverLive
<1>1. StrictInv => StrictNeverLive BY DEF StrictInv
<1> QED BY <1>1, StrictInit, StrictStep, PTL DEF Spec
-----------------------------------------------------------------------------
(* The workflow is a record of its four fields, at a write only by a        *)
(* decision to write; every served call carries the verdict of the firewall.*)
AgentInv == /\ agent = [pc |-> agent.pc, initial |-> agent.initial,
                        lookup |-> agent.lookup, final |-> agent.final]
            /\ agent.pc \in Pc
            /\ agent.pc = "write" => agent.final.tool \in WriteTool

VerdictsInv == \A i \in Calls : events[i].data.allowed <=> events[i].tool = Lookup

BlocksInv == /\ IsSequence(events)
             /\ AgentInv
             /\ VerdictsInv
             /\ blocks = IF Wrote(agent) THEN 1 ELSE 0

(* What the firewall blocks of the workflow's tools.                        *)
LEMMA BlockedIsWrite ==
    ASSUME NEW tool \in Tool
    PROVE  /\ Blocked(tool) <=> tool \in WriteTool
           /\ tool \in WriteTool <=> tool # Lookup
BY DEF Blocked, ToolType, SideEffect, Tool, WriteTool, Lookup

(* A parsed decision moves the workflow to a call, to its end or to failure.*)
LEMMA DecisionStep ==
    ASSUME AgentInv, agent.pc \in {"initial", "final"},
           NEW said, agent' = AfterDecision(agent, said) \/ agent' = Fail(agent)
    PROVE  AgentInv' /\ ~Wrote(agent')
<1>1. CASE agent' = Fail(agent)
  BY <1>1 DEF AgentInv, Fail, Wrote, Pc
<1>2. CASE agent' = AfterDecision(agent, said) /\ ~Parses(agent, said)
  BY <1>2 DEF AgentInv, AfterDecision, Fail, Wrote, Pc
<1>3. CASE agent' = AfterDecision(agent, said) /\ Parses(agent, said) /\ agent.pc = "initial"
  BY <1>3 DEF AgentInv, AfterDecision, Wrote, Pc
<1>4. CASE agent' = AfterDecision(agent, said) /\ Parses(agent, said) /\ agent.pc = "final"
  <2>1. said.tool \in WriteTool \cup {"stop"} BY <1>4 DEF Parses, FinalDecision
  <2>2. agent' = [agent EXCEPT !.final = said,
                               !.pc = IF said.tool = "stop" THEN "completed"
                                      ELSE IF Usable(said) THEN "write" ELSE "failed"]
    BY <1>4 DEF AfterDecision
  <2>3. /\ agent'.final = said
        /\ agent'.pc = IF said.tool = "stop" THEN "completed"
                       ELSE IF Usable(said) THEN "write" ELSE "failed"
        /\ agent' = [pc |-> agent'.pc, initial |-> agent'.initial,
                     lookup |-> agent'.lookup, final |-> agent'.final]
    BY <2>2 DEF AgentInv
  <2> QED BY <2>1, <2>3 DEF AgentInv, Wrote, Pc
<1> QED BY <1>1, <1>2, <1>3, <1>4

(* Appending an event keeps the verdicts if its own is right.               *)
LEMMA AppendKeepsVerdicts ==
    ASSUME BlocksInv, NEW e, events' = Append(events, e),
           e.type = "tool" => (e.data.allowed <=> e.tool = Lookup)
    PROVE  IsSequence(events') /\ VerdictsInv'
<1>1. /\ IsSequence(events')
      /\ Len(events') = Len(events) + 1
      /\ \A i \in 1..Len(events) : events'[i] = events[i]
      /\ events'[Len(events) + 1] = e
      /\ Len(events) \in Nat
  BY AppendIsSeq DEF BlocksInv
<1>2. ASSUME NEW i \in 1..Len(events'), events'[i].type = "tool"
      PROVE  events'[i].data.allowed <=> events'[i].tool = Lookup
  <2>1. CASE i \in 1..Len(events)
    <3>1. events'[i] = events[i] BY <2>1, <1>1
    <3>2. i \in Calls BY <3>1, <2>1, <1>2 DEF Calls
    <3> QED BY <3>1, <3>2 DEF BlocksInv, VerdictsInv
  <2>2. CASE i = Len(events) + 1
    BY <2>2, <1>1, <1>2
  <2> QED BY <2>1, <2>2, <1>1
<1> QED BY <1>1, <1>2 DEF VerdictsInv, Calls

LEMMA DecideKeepsBlocks ==
    ASSUME BlocksInv, Decide
    PROVE  BlocksInv'
<1>1. AgentInv' /\ ~Wrote(agent')
  <2>1. \E said : agent' = AfterDecision(agent, said) \/ agent' = Fail(agent)
    BY DEF Decide, FromRecording, FromPatch, FromModel, Decided
  <2> QED BY <2>1, DecisionStep DEF BlocksInv, Decide
<1>2. IsSequence(events') /\ VerdictsInv'
  <2>1. CASE UNCHANGED events BY <2>1 DEF BlocksInv, VerdictsInv, Calls
  <2>2. ASSUME NEW said, NEW source, NEW isLive, NEW patched, NEW matched,
               Decided(said, source, isLive, patched, matched)
        PROVE  IsSequence(events') /\ VerdictsInv'
    <3>1. events' = Append(events, Event("llm", Nil, source, isLive, patched, matched, said))
      BY <2>2 DEF Decided
    <3>2. Event("llm", Nil, source, isLive, patched, matched, said).type = "llm" BY DEF Event
    <3> QED BY <3>1, <3>2, AppendKeepsVerdicts
  <2> QED BY <2>1, <2>2 DEF Decide, FromRecording, FromPatch, FromModel
<1>3. blocks' = blocks /\ ~Wrote(agent) BY DEF Decide, Wrote
<1> QED BY <1>1, <1>2, <1>3 DEF BlocksInv

LEMMA CallKeepsBlocks ==
    ASSUME BlocksInv, CallTool
    PROVE  BlocksInv'
<1>1. PICK response, source, patched : Served(response, source, patched) BY DEF CallTool
<1>2. AgentInv /\ agent.pc \in {"lookup", "write"} /\ ~Wrote(agent)
  BY DEF CallTool, Calling, Wrote, BlocksInv
<1>3. ToolOf(agent) \in Tool /\ (ToolOf(agent) \in WriteTool <=> agent.pc = "write")
  BY <1>2 DEF AgentInv, ToolOf, Tool, WriteTool, Lookup
<1>4. agent' = AfterCall(agent, response) BY <1>1 DEF Served
<1>5. AgentInv' /\ (Wrote(agent') <=> agent.pc = "write")
  <2>1. CASE agent.pc = "write"
    BY <2>1, <1>2, <1>4 DEF AfterCall, AgentInv, Wrote, Pc, WriteTool
  <2>2. CASE agent.pc = "lookup"
    BY <2>2, <1>2, <1>4 DEF AfterCall, Fail, AgentInv, Wrote, Pc
  <2> QED BY <1>2, <2>1, <2>2
<1>6. blocks = 0 BY <1>2 DEF BlocksInv
<1>7. blocks' = IF agent.pc = "write" THEN 1 ELSE 0
  BY <1>3, <1>6, BlockedIsWrite DEF CallTool
<1>8. IsSequence(events') /\ VerdictsInv'
  <2> DEFINE data == [params |-> ParamsOf(agent), response |-> response, allowed |-> ~Blocked(ToolOf(agent))]
             e == Event("tool", ToolOf(agent), source, FALSE, patched, CallMatches, data)
  <2>1. events' = Append(events, e) BY <1>1 DEF Served
  <2>2. e.tool = ToolOf(agent) /\ e.data.allowed = ~Blocked(ToolOf(agent)) BY DEF Event
  <2>3. e.data.allowed <=> e.tool = Lookup BY <2>2, <1>3, BlockedIsWrite
  <2> HIDE DEF e
  <2> QED BY <2>1, <2>3, AppendKeepsVerdicts
<1> QED BY <1>5, <1>7, <1>8 DEF BlocksInv

LEMMA BlocksStep == ASSUME BlocksInv, [Next]_allvars PROVE BlocksInv'
<1>1. ASSUME UNCHANGED <<agent, events, blocks>> PROVE BlocksInv'
  BY <1>1 DEF BlocksInv, AgentInv, VerdictsInv, Calls
<1> QED
  BY <1>1, DecideKeepsBlocks, CallKeepsBlocks
     DEF Next, ReplayNext, allvars, replayvars, StartStrict, StartExploratory, StartReplay,
         RejectPatch, FinishReplay, FailReplay

LEMMA BlocksInit == ASSUME Init PROVE BlocksInv
<1>1. IsSequence(events) /\ Len(events) = 0
  BY EmptySeq DEF Init, ReplayInit, IsSequence
<1>2. AgentInv /\ ~Wrote(agent) BY DEF Init, ReplayInit, Begun, AgentInv, Wrote, Pc
<1> QED BY <1>1, <1>2 DEF Init, ReplayInit, BlocksInv, VerdictsInv, Calls

(* Every write of a replay is blocked and counted, once, in both modes and  *)
(* for every trace and patch: SideEffectFirewall and call_tool.             *)
THEOREM BlocksEveryWriteCorrect == Spec => []BlocksEveryWrite
<1>1. BlocksInv => BlocksEveryWrite BY DEF BlocksInv, VerdictsInv, BlocksEveryWrite
<1> QED BY <1>1, BlocksInit, BlocksStep, PTL DEF Spec
-----------------------------------------------------------------------------
(* What a live run and its replay are made of at each step of the workflow, *)
(* and from it: the types, the writes a strict replay attempts, and that a  *)
(* replay which asked the model does not go back to the recording.          *)

LiveOK == /\ WellFormed(live)
          /\ Numbered(trace) /\ Numbered(performed)
          /\ inflight \subseteq RecordedStep
          /\ early \in BOOLEAN
          /\ status \in {"running", "completed", "failed"}
-----------------------------------------------------------------------------
LEMMA LiveInitOK == Init => LiveOK
<1> SUFFICES ASSUME Init PROVE LiveOK
    OBVIOUS
<1>1. Numbered(<<>>)
    BY EmptySeq DEF Numbered
<1> QED BY <1>1, BegunOK DEF Init, LiveInit, LiveOK

LEMMA ModelSaysOK ==
    ASSUME WellFormed(live), NEW said \in ModelSays(live)
    PROVE  said \in InitialDecision \cup FinalDecision \cup {Garbled}
BY DEF ModelSays, InitialDecision

LEMMA AnswerOK ==
    ASSUME NEW response \in Answers(live)
    PROVE  response \in Response
BY AnswerAssumption DEF Answers

(* A step that was performed is committed, or lost, or still in flight.     *)
Recorded(row) == \/ Append1(row) /\ UNCHANGED inflight
                 \/ UNCHANGED <<trace, inflight>>
                 \/ inflight' = inflight \cup {row} /\ UNCHANGED trace

Stored(said) == IF early THEN Garbled ELSE said

LEMMA LiveDecideIs ==
    ASSUME LiveOK, LiveDecide
    PROVE  /\ live.pc \in {"initial", "final"} /\ UNCHANGED <<early, status>>
           /\ \E said \in ModelSays(live), row \in RecordedStep :
                 /\ row = LlmRow(0, live, Stored(said))
                 /\ live' = AfterDecision(live, said) /\ Perform(row) /\ Recorded(row)
<1>1. ASSUME NEW said \in ModelSays(live) PROVE LlmRow(0, live, Stored(said)) \in RecordedStep
    BY ModelSaysOK, LlmRowOK DEF LiveOK, Stored
<1> QED BY <1>1 DEF LiveDecide, Recorded, Stored

LEMMA LiveCallIs ==
    ASSUME LiveOK, LiveCall
    PROVE  /\ Calling(live) /\ UNCHANGED <<early, status>>
           /\ \E response \in Answers(live), row \in RecordedStep :
                 /\ row = ToolRow(0, live, response) /\ Perform(row) /\ Recorded(row)
                 /\ \/ live' = AfterCall(live, response) /\ Append1(row) /\ UNCHANGED inflight
                    \/ live' = Fail(live)
<1>1. ASSUME NEW response \in Answers(live)
      PROVE  response \in Response /\ ToolRow(0, live, response) \in RecordedStep
    BY <1>1, AnswerOK, ToolRowOK DEF LiveOK, LiveCall
<1> QED BY <1>1 DEF LiveCall, Recorded

LEMMA RecordedOK ==
    ASSUME LiveOK, NEW row \in RecordedStep, Perform(row) /\ Recorded(row)
    PROVE  Numbered(trace') /\ Numbered(performed') /\ inflight' \subseteq RecordedStep
<1>1. Numbered(performed')
    BY AppendNumbered DEF LiveOK, Perform
<1>2. Append1(row) => Numbered(trace')
    BY AppendNumbered DEF LiveOK, Append1
<1> QED BY <1>1, <1>2 DEF LiveOK, Recorded

LEMMA ReplayKeepsTrace ==
    ASSUME ReplayNext
    PROVE  UNCHANGED trace
BY DEF ReplayNext, StartStrict, StartExploratory, StartReplay, RejectPatch, Decide, CallTool,
       FinishReplay, FailReplay

LEMMA LiveStep == LiveOK /\ [Next]_allvars => LiveOK'
<1> SUFFICES ASSUME LiveOK, [Next]_allvars PROVE LiveOK'
    OBVIOUS
<1> USE DEF LiveOK
<1>1. CASE LiveDecide
    BY <1>1, LiveDecideIs, RecordedOK, DecisionOK
<1>2. CASE LiveCall
    BY <1>2, LiveCallIs, RecordedOK, AnswerOK, CallOK, FailOK
<1>3. CASE ModelFails \/ CallFails
    BY <1>3, FailOK DEF ModelFails, CallFails
<1>4. CASE LateCommit
    <2>1. PICK row \in inflight : inflight' = inflight \ {row} /\ (Append1(row) \/ UNCHANGED trace)
        BY <1>4 DEF LateCommit
    <2>2. Numbered(trace')
        BY <2>1, AppendNumbered DEF Append1
    <2> QED BY <1>4, <2>1, <2>2 DEF LateCommit
<1>5. CASE ReportRun
    BY <1>5 DEF ReportRun, Ended
<1>6. CASE UNCHANGED <<trace, livevars>>
    BY <1>6 DEF livevars
<1> QED BY <1>1, <1>2, <1>3, <1>4, <1>5, <1>6, ReplayKeepsTrace DEF Next, LiveNext, allvars
-----------------------------------------------------------------------------
LEMMA ReplayStep == LiveOK /\ ReplayOK /\ [Next]_allvars => ReplayOK'
<1> SUFFICES ASSUME LiveOK, ReplayOK, [Next]_allvars PROVE ReplayOK'
    OBVIOUS
<1>1. CASE UNCHANGED replayvars
    BY <1>1 DEF replayvars, ReplayOK, EventsOK
<1>2. CASE StartStrict \/ StartExploratory
    BY <1>2, StartKeepsForm DEF StartStrict, StartExploratory, LiveOK
<1>3. CASE RejectPatch \/ FinishReplay \/ FailReplay
    BY <1>3 DEF RejectPatch, FinishReplay, FailReplay, ReplayOK, EventsOK
<1> QED BY <1>1, <1>2, <1>3, DecideKeepsForm, CallKeepsForm DEF Next, ReplayNext, allvars

LEMMA FormInvariant == Spec => [](LiveOK /\ ReplayOK /\ BlocksInv)
<1>1. Init => ReplayOK
    BY ReplayInitOK DEF Init
<1> QED BY <1>1, LiveInitOK, BlocksInit, LiveStep, ReplayStep, BlocksStep, PTL DEF Spec

(* The types of a live run and of its replay: executions, stored steps,     *)
(* and the bounds of cursor, live_model_call_count and                      *)
(* side_effect_block_count that the triage workflow implies.                *)
THEOREM ReplayTypeCorrect == Spec => []TypeOK
<1>1. ASSUME LiveOK, ReplayOK, BlocksInv PROVE TypeOK
    <2>1. /\ \A i \in 1..Len(trace) : trace[i] \in RecordedStep /\ trace[i].index = i
          /\ \A i \in 1..Len(performed) : performed[i] \in RecordedStep
        BY <1>1, ElementOfSeq DEF LiveOK, Numbered
    <2>2. live \in Execution /\ agent \in Execution
        BY <1>1 DEF LiveOK, ReplayOK, WellFormed
    <2>3. cursor \in 0..4 /\ modelCalls \in 0..2
        BY <1>1, <2>2 DEF ReplayOK, Consumed, Asked, Execution, Pc
    <2>4. blocks \in 0..1
        BY <1>1 DEF BlocksInv
    <2> QED BY <1>1, <2>1, <2>2, <2>3, <2>4 DEF TypeOK, LiveOK, ReplayOK, EventsOK
<1> QED BY <1>1, FormInvariant, PTL
-----------------------------------------------------------------------------
(* What a stored step shows of the final decision of an execution.          *)
Agrees(row, x) ==
    /\ row.type = "llm" /\ row.says \in FinalDecision => x.final = row.says
    /\ row.type = "tool" /\ row.tool \in WriteTool =>
          /\ x.final \in FinalDecision
          /\ row.tool = x.final.tool
          /\ row.params = [board |-> x.final.board, priority |-> x.final.priority]

RowsAgree == /\ \A row \in inflight : Agrees(row, live)
             /\ \A i \in 1..Len(trace) : Agrees(trace[i], live)
             /\ \A i \in 1..Len(steps) : Agrees(steps[i], live)

(* A write that a strict replay has decided on is the one of the live run.  *)
AgentAgrees ==
    mode = "strict" /\ agent.final # Nil /\ agent.final.tool \in WriteTool =>
        /\ live.final # Nil
        /\ agent.final.tool = live.final.tool
        /\ agent.final.board = live.final.board /\ agent.final.priority = live.final.priority

WritesInv == RowsAgree /\ AgentAgrees /\ StrictWritesWereDecided

(* The final decision of the live run is taken once.                        *)
LEMMA FinalKept ==
    ASSUME LiveOK, [Next]_allvars, live.final # Nil
    PROVE  live'.final = live.final
<1>1. CASE LiveDecide
    BY <1>1, LiveDecideIs DEF LiveOK, WellFormed, Begun
<1>2. CASE LiveCall
    BY <1>2, LiveCallIs, AnswerOK, CallOK, FailOK DEF LiveOK, WellFormed, Calling
<1>3. CASE ModelFails \/ CallFails
    BY <1>3, FailOK DEF ModelFails, CallFails, LiveOK
<1>4. CASE UNCHANGED live
    BY <1>4
<1> QED BY <1>1, <1>2, <1>3, <1>4 DEF Next, LiveNext, LateCommit, ReportRun, livevars, allvars

LEMMA AgreesKept ==
    ASSUME LiveOK, [Next]_allvars, NEW row, Agrees(row, live)
    PROVE  Agrees(row, live')
<1>1. CASE live.final # Nil
    BY <1>1, FinalKept DEF Agrees
<1>2. CASE live.final = Nil
    <2>1. ~(row.type = "llm" /\ row.says \in FinalDecision) /\ ~(row.type = "tool" /\ row.tool \in WriteTool)
        BY <1>2, NilAssumption DEF Agrees
    <2> QED BY <2>1 DEF Agrees
<1> QED BY <1>1, <1>2

(* A step that is committed tells what it told when it was performed.       *)
LEMMA AgreesRenumbered ==
    ASSUME NEW row \in RecordedStep, NEW n \in Int, NEW x, Agrees(row, x)
    PROVE  Agrees([row EXCEPT !.index = n], x)
BY Renumbered, RowHas DEF Agrees

LEMMA AppendAgrees ==
    ASSUME LiveOK, NEW row \in RecordedStep, Append1(row), NEW x, Agrees(row, x),
           \A i \in 1..Len(trace) : Agrees(trace[i], x)
    PROVE  \A i \in 1..Len(trace') : Agrees(trace'[i], x)
<1>1. /\ Len(trace) \in Nat /\ Len(trace') = Len(trace) + 1
      /\ \A i \in 1..Len(trace) : trace'[i] = trace[i]
      /\ trace'[Len(trace) + 1] = [row EXCEPT !.index = Len(trace) + 1]
    BY AppendNumbered DEF LiveOK, Append1
<1>2. Agrees(trace'[Len(trace) + 1], x)
    BY <1>1, AgreesRenumbered
<1> QED BY <1>1, <1>2

LEMMA RecordedAgrees ==
    ASSUME LiveOK, RowsAgree, [Next]_allvars, NEW row \in RecordedStep, Recorded(row), Agrees(row, live'),
           UNCHANGED steps
    PROVE  RowsAgree'
<1>1. /\ \A r \in inflight : Agrees(r, live')
      /\ \A i \in 1..Len(trace) : Agrees(trace[i], live')
      /\ \A i \in 1..Len(steps) : Agrees(steps[i], live')
    BY AgreesKept DEF RowsAgree
<1>2. Append1(row) => \A i \in 1..Len(trace') : Agrees(trace'[i], live')
    BY <1>1, AppendAgrees
<1> QED BY <1>1, <1>2 DEF Recorded, RowsAgree

LEMMA RowsStep == LiveOK /\ RowsAgree /\ [Next]_allvars => RowsAgree'
<1> SUFFICES ASSUME LiveOK, RowsAgree, [Next]_allvars PROVE RowsAgree'
    OBVIOUS
<1>0. /\ \A r \in inflight : Agrees(r, live')
      /\ \A i \in 1..Len(trace) : Agrees(trace[i], live')
      /\ \A i \in 1..Len(steps) : Agrees(steps[i], live')
    BY AgreesKept DEF RowsAgree
<1>1. CASE LiveDecide /\ UNCHANGED replayvars
    <2>1. PICK said \in ModelSays(live), row \in RecordedStep :
              /\ row = LlmRow(0, live, Stored(said))
              /\ live' = AfterDecision(live, said) /\ Perform(row) /\ Recorded(row)
        BY <1>1, LiveDecideIs
    <2>2. row.type = "llm" /\ row.says = Stored(said)
        BY <2>1 DEF LlmRow
    <2>3. ASSUME row.says \in FinalDecision PROVE live'.final = row.says
        <3>1. said = row.says /\ said \in FinalDecision
            BY <2>2, <2>3, GarbledAssumption DEF Stored
        <3>2. live.pc = "final"
            BY <1>1, <3>1, GarbledAssumption, DecisionsDiffer, LiveDecideIs DEF ModelSays, InitialDecision
        <3> QED BY <2>1, <3>1, <3>2, DecisionOK DEF Parses, LiveOK
    <2>4. Agrees(row, live')
        BY <2>2, <2>3 DEF Agrees
    <2> QED BY <1>1, <2>1, <2>4, RecordedAgrees DEF replayvars
<1>2. CASE LiveCall /\ UNCHANGED replayvars
    <2>1. PICK response \in Answers(live), row \in RecordedStep :
              /\ row = ToolRow(0, live, response) /\ Perform(row) /\ Recorded(row)
              /\ live' = AfterCall(live, response) \/ live' = Fail(live)
        BY <1>2, LiveCallIs
    <2>2. row.type = "tool" /\ row.tool = ToolOf(live) /\ row.params = ParamsOf(live)
        BY <2>1 DEF ToolRow
    <2>3. ASSUME row.tool \in WriteTool
          PROVE  /\ live'.final \in FinalDecision /\ row.tool = live'.final.tool
                 /\ row.params = [board |-> live'.final.board, priority |-> live'.final.priority]
        <3>1. Calling(live) /\ WellFormed(live)
            BY <1>2, LiveCallIs DEF LiveOK
        <3>2. live.pc = "write"
            BY <2>2, <2>3, <3>1, CallIs DEF Calling, WriteTool, Lookup
        <3>3. live.final \in FinalDecision
            BY <3>1, <3>2 DEF WellFormed
        <3>4. live'.final = live.final
            BY <3>3, FinalKept, NilAssumption
        <3> QED BY <2>2, <3>1, <3>2, <3>3, <3>4, CallIs
    <2>4. Agrees(row, live')
        BY <2>2, <2>3 DEF Agrees
    <2> QED BY <1>2, <2>1, <2>4, RecordedAgrees DEF replayvars
<1>3. CASE LateCommit /\ UNCHANGED replayvars
    <2>1. PICK row \in inflight : inflight' = inflight \ {row} /\ (Append1(row) \/ UNCHANGED trace)
        BY <1>3 DEF LateCommit
    <2>2. Append1(row) => \A i \in 1..Len(trace') : Agrees(trace'[i], live')
        BY <1>0, AppendAgrees DEF LiveOK
    <2> QED BY <1>0, <1>3, <2>1, <2>2 DEF RowsAgree, replayvars
<1>4. CASE ReplayNext /\ UNCHANGED livevars
    <2>1. UNCHANGED <<trace, inflight>> /\ (steps' = steps \/ steps' = trace)
        BY <1>4 DEF ReplayNext, StartStrict, StartExploratory, StartReplay, RejectPatch, Decide, CallTool,
                    FinishReplay, FailReplay, livevars
    <2> QED BY <1>0, <2>1 DEF RowsAgree
<1>5. CASE UNCHANGED <<trace, inflight, steps>>
    BY <1>0, <1>5 DEF RowsAgree
<1> QED BY <1>1, <1>2, <1>3, <1>4, <1>5
        DEF Next, LiveNext, ModelFails, CallFails, ReportRun, allvars, livevars, replayvars

(* In strict mode the final decision comes from the trace.                  *)
LEMMA DecideAgrees ==
    ASSUME ReplayOK, RowsAgree, AgentAgrees, Decide, UNCHANGED livevars
    PROVE  AgentAgrees'
<1> SUFFICES ASSUME mode = "strict", agent'.final # Nil, agent'.final.tool \in WriteTool
             PROVE  /\ live.final # Nil
                    /\ agent'.final.tool = live.final.tool
                    /\ agent'.final.board = live.final.board /\ agent'.final.priority = live.final.priority
    BY DEF AgentAgrees, livevars, Decide
<1>1. FromRecording /\ agent.pc \in {"initial", "final"} /\ WellFormed(agent)
    BY StrictTakesRecording DEF Decide, ReplayOK
<1>2. agent.final = Nil
    BY <1>1 DEF WellFormed, Begun
<1>3. PICK said : /\ agent' = AfterDecision(agent, said)
                  /\ said \in {RecordedSays, Garbled} \cup RecoveredInitial \cup RecoveredFinal
    BY <1>1 DEF FromRecording, Decided
<1>4. agent.pc = "final" /\ agent'.final = said /\ said \in FinalDecision
    BY <1>1, <1>2, <1>3, DecisionOK, FailOK
<1>5. CASE said \in {RecordedSays, Garbled}
    <2>1. HasExpected /\ Expected.type = "llm" /\ said = Expected.says
        BY <1>4, <1>5, GarbledAssumption DEF RecordedSays
    <2>2. live.final = said
        BY <2>1, <1>4, CursorIs DEF RowsAgree, Agrees
    <2> QED BY <1>4, <2>2, NilAssumption
<1>6. CASE said \in RecoveredInitial \cup RecoveredFinal
    <2>1. said \in RecoveredFinal
        BY <1>4, <1>6 DEF RecoveredInitial
    <2>2. said.tool # "stop"
        BY <1>4 DEF WriteTool
    <2>3. HasNext /\ NextStep.type = "tool" /\ NextStep.tool \in WriteTool
          /\ said = [tool |-> NextStep.tool, board |-> NextStep.params.board, priority |-> NextStep.params.priority]
        BY <2>1, <2>2 DEF RecoveredFinal
    <2>4. Agrees(NextStep, live)
        BY <2>3, CursorIs DEF RowsAgree
    <2> QED BY <1>4, <2>3, <2>4, NilAssumption DEF Agrees
<1> QED BY <1>3, <1>5, <1>6

LEMMA CallAgrees ==
    ASSUME ReplayOK, AgentAgrees, StrictWritesWereDecided, CallTool, UNCHANGED livevars
    PROVE  AgentAgrees' /\ StrictWritesWereDecided'
<1>1. PICK response \in Response, source \in Source : \E patched : Served(response, source, patched)
    BY ServedIs
<1>2. PICK patched : Served(response, source, patched)
    BY <1>1
<1>3. WellFormed(agent) /\ Calling(agent)
    BY DEF ReplayOK, CallTool
<1>4. agent'.final = agent.final
    <2>1. agent.pc = "lookup" => agent.final = Nil
        BY <1>3 DEF WellFormed
    <2> QED BY <1>2, <1>3, <2>1, CallOK, FailOK DEF Served, Calling
<1>5. AgentAgrees'
    BY <1>4 DEF AgentAgrees, CallTool, livevars
<1> DEFINE e == Event("tool", ToolOf(agent), source, FALSE, patched, CallMatches,
                      [params |-> ParamsOf(agent), response |-> response, allowed |-> ~Blocked(ToolOf(agent))])
<1>6. events' = Append(events, e) /\ e.tool = ToolOf(agent) /\ e.data.params = ParamsOf(agent)
    BY <1>2 DEF Served, Event
<1> HIDE DEF e
<1>7. /\ Len(events') = Len(events) + 1 /\ Len(events) \in Nat
      /\ \A i \in 1..Len(events) : events'[i] = events[i]
      /\ events'[Len(events) + 1] = e
    BY <1>6, AppendIsSeq DEF ReplayOK, EventsOK
<1>8. ASSUME mode = "strict", e.tool \in WriteTool
      PROVE  /\ live.final # Nil /\ e.tool = live.final.tool
             /\ e.data.params = [board |-> live.final.board, priority |-> live.final.priority]
    <2>1. agent.pc = "write"
        BY <1>3, <1>6, <1>8, CallIs DEF Calling, WriteTool, Lookup
    <2>2. e.tool = agent.final.tool /\ e.data.params = [board |-> agent.final.board, priority |-> agent.final.priority]
        BY <1>3, <1>6, <2>1, CallIs
    <2>3. agent.final # Nil
        BY <1>3, <2>1, NilAssumption DEF WellFormed
    <2> QED BY <1>8, <2>2, <2>3 DEF AgentAgrees
<1>9. StrictWritesWereDecided'
    BY <1>7, <1>8 DEF StrictWritesWereDecided, Calls, CallTool, livevars
<1> QED BY <1>5, <1>9

LEMMA WritesStep == LiveOK /\ ReplayOK /\ WritesInv /\ [Next]_allvars => WritesInv'
<1> SUFFICES ASSUME LiveOK, ReplayOK, WritesInv, [Next]_allvars PROVE WritesInv'
    OBVIOUS
<1> USE DEF WritesInv
<1>1. RowsAgree'
    BY RowsStep
<1>2. CASE UNCHANGED replayvars
    BY <1>1, <1>2, FinalKept DEF replayvars, AgentAgrees, StrictWritesWereDecided, Calls
<1>3. CASE CallTool /\ UNCHANGED livevars
    BY <1>1, <1>3, CallAgrees
<1>4. CASE Decide /\ UNCHANGED livevars
    <2>1. StrictWritesWereDecided'
        <3>1. CASE UNCHANGED events
            BY <1>4, <3>1 DEF StrictWritesWereDecided, Calls, Decide, livevars
        <3>2. ASSUME NEW e, e.type = "llm", events' = Append(events, e) PROVE StrictWritesWereDecided'
            <4>1. /\ Len(events') = Len(events) + 1 /\ Len(events) \in Nat
                  /\ \A i \in 1..Len(events) : events'[i] = events[i]
                  /\ events'[Len(events) + 1] = e
                BY <3>2, AppendIsSeq DEF ReplayOK, EventsOK
            <4>2. \A i \in Calls' : i \in Calls /\ events'[i] = events[i]
                BY <3>2, <4>1 DEF Calls
            <4> QED BY <1>4, <4>2 DEF StrictWritesWereDecided, Decide, livevars
        <3>3. ASSUME NEW said, NEW source, NEW isLive, NEW patched, NEW matched,
                     Decided(said, source, isLive, patched, matched)
              PROVE  StrictWritesWereDecided'
            <4>1. /\ events' = Append(events, Event("llm", Nil, source, isLive, patched, matched, said))
                  /\ Event("llm", Nil, source, isLive, patched, matched, said).type = "llm"
                BY <3>3 DEF Decided, Event
            <4> QED BY <4>1, <3>2
        <3> QED BY <1>4, <3>1, <3>3, DecideIs
    <2> QED BY <1>1, <1>4, <2>1, DecideAgrees
<1>5. CASE UNCHANGED livevars /\ (StartStrict \/ StartExploratory)
    <2>1. mode' \in {"strict", "exploratory"} /\ agent = Begun /\ UNCHANGED <<agent, events>> /\ mode = "strict"
        BY <1>5 DEF StartStrict, StartExploratory, StartReplay, ReplayOK
    <2> QED BY <1>1, <1>5, <2>1 DEF AgentAgrees, StrictWritesWereDecided, Calls, livevars
<1>6. CASE UNCHANGED livevars /\ (RejectPatch \/ FinishReplay \/ FailReplay)
    BY <1>1, <1>6 DEF RejectPatch, FinishReplay, FailReplay, AgentAgrees, StrictWritesWereDecided, Calls, livevars
<1> QED BY <1>2, <1>3, <1>4, <1>5, <1>6 DEF Next, ReplayNext, allvars

LEMMA WritesInit == Init => WritesInv
<1> SUFFICES ASSUME Init PROVE WritesInv
    OBVIOUS
<1>1. Len(trace) = 0 /\ Len(steps) = 0 /\ Len(events) = 0
    BY EmptySeq DEF Init, LiveInit, ReplayInit
<1> QED BY <1>1 DEF Init, LiveInit, ReplayInit, WritesInv, RowsAgree, AgentAgrees, StrictWritesWereDecided,
                    Calls, Begun

(* Whatever captures and calls were lost or came late, a strict replay      *)
(* attempts no write but the one the live agent had decided on: recovery    *)
(* from the next recorded step cannot make one up.                          *)
THEOREM StrictWritesWereDecidedCorrect == Spec => []StrictWritesWereDecided
<1>1. WritesInv => StrictWritesWereDecided
    BY DEF WritesInv
<1> QED BY <1>1, FormInvariant, WritesInit, WritesStep, PTL DEF Spec
-----------------------------------------------------------------------------
(* What PatchDividesReplay says of the event in place i.                    *)
Divided(e, i) ==
    /\ e.patched <=> i = patch.step /\ e.type = PatchedType(patch)
    /\ i <= patch.step /\ ~e.patched => e.source \in {"recorded_interceptor", "recorded_boundary_recovery"}
    /\ i > patch.step => e.source \in {"regenerated_model_decision", "simulated_tool_interceptor"}

LEMMA AppendDivides ==
    ASSUME ReplayOK, agent.pc # "failed", PatchDividesReplay, UNCHANGED <<mode, patch>>,
           NEW e, events' = Append(events, e),
           mode = "exploratory" => Divided(e, cursor + 1)
    PROVE  PatchDividesReplay'
<1>1. /\ Len(events') = Len(events) + 1 /\ Len(events) = cursor /\ cursor \in Nat
      /\ \A i \in 1..Len(events) : events'[i] = events[i]
      /\ events'[cursor + 1] = e
    BY AppendIsSeq, CursorIs DEF ReplayOK, EventsOK
<1> SUFFICES ASSUME mode = "exploratory", NEW i \in 1..Len(events') PROVE Divided(events'[i], i)
    BY DEF PatchDividesReplay, Divided
<1>2. CASE i \in 1..Len(events)
    BY <1>1, <1>2 DEF PatchDividesReplay, Divided
<1>3. CASE i = cursor + 1
    BY <1>1, <1>3
<1> QED BY <1>1, <1>2, <1>3

(* A decision is patched by a response or a prompt, a call by a tool.       *)
LEMMA DecideDivides ==
    ASSUME ReplayOK, PatchDividesReplay, Decide
    PROVE  PatchDividesReplay'
<1> DEFINE here   == cursor + 1 = patch.step /\ "llm" = PatchedType(patch)
           before == cursor + 1 <= patch.step
<1>1. /\ UNCHANGED <<mode, patch>> /\ agent.pc # "failed"
      /\ cursor \in Nat /\ EventIndex = cursor + 1
    BY CursorIs DEF Decide
<1>2. mode = "exploratory" => patch.step \in Int /\ patch.kind \in {"response", "prompt", "tool"}
    BY PatchIs
<1>3. ASSUME NEW said, NEW source, NEW isLive, NEW matched,
             Decided(said, source, isLive, TRUE, matched),
             mode = "exploratory" => here,
             mode = "exploratory" /\ ~before => source = "regenerated_model_decision"
      PROVE  PatchDividesReplay'
    <2> DEFINE e == Event("llm", Nil, source, isLive, TRUE, matched, said)
    <2>1. /\ e.source = source /\ e.type = "llm" /\ e.patched = TRUE
          /\ events' = Append(events, e)
        BY <1>3 DEF Decided, Event
    <2> HIDE DEF e
    <2>2. mode = "exploratory" => Divided(e, cursor + 1)
        BY <1>1, <1>2, <1>3, <2>1 DEF Divided
    <2> QED BY <1>1, <2>1, <2>2, AppendDivides
<1>4. ASSUME NEW said, NEW source, NEW isLive, NEW matched,
             Decided(said, source, isLive, FALSE, matched),
             mode = "exploratory" => ~here,
             mode = "exploratory" /\ before => source \in {"recorded_interceptor", "recorded_boundary_recovery"},
             mode = "exploratory" /\ ~before => source = "regenerated_model_decision"
      PROVE  PatchDividesReplay'
    <2> DEFINE e == Event("llm", Nil, source, isLive, FALSE, matched, said)
    <2>1. /\ e.source = source /\ e.type = "llm" /\ e.patched = FALSE
          /\ events' = Append(events, e)
        BY <1>4 DEF Decided, Event
    <2> HIDE DEF e
    <2>2. mode = "exploratory" => Divided(e, cursor + 1)
        BY <1>1, <1>2, <1>4, <2>1 DEF Divided
    <2> QED BY <1>1, <2>1, <2>2, AppendDivides
<1>5. CASE FromRecording
    <2>1. mode = "exploratory" => before /\ ~here
        BY <1>1, <1>2, <1>5 DEF FromRecording, AfterPatch, IsPatchTarget, PatchedType
    <2>2. ASSUME NEW said, NEW matched,
                 NEW source \in {"recorded_interceptor", "recorded_boundary_recovery"},
                 Decided(said, source, FALSE, FALSE, matched)
          PROVE  PatchDividesReplay'
        <3> HIDE DEF here, before
        <3> QED BY <1>4, <2>1, <2>2
    <2> QED BY <1>5, <2>2 DEF FromRecording
<1>6. CASE FromPatch
    <2>1. mode = "exploratory" => before /\ here
        BY <1>1, <1>2, <1>6 DEF FromPatch, IsPatchTarget, PatchedType
    <2>2. Decided(patch.says, "patched_llm_response", FALSE, TRUE, PromptMatches)
        BY <1>6 DEF FromPatch
    <2> HIDE DEF here, before
    <2> QED BY <1>3, <2>1, <2>2
<1>7. CASE FromModel
    <2>1. CASE UNCHANGED events
        BY <1>1, <2>1 DEF PatchDividesReplay
    <2>2. ASSUME NEW said, NEW matched,
                 Decided(said, "regenerated_model_decision", TRUE, IsPatchTarget({"prompt"}), matched)
          PROVE  PatchDividesReplay'
        <3>1. CASE IsPatchTarget({"prompt"})
            <4>1. here /\ IsPatchTarget({"prompt"}) = TRUE
                BY <1>1, <3>1 DEF IsPatchTarget, PatchedType
            <4>2. Decided(said, "regenerated_model_decision", TRUE, TRUE, matched)
                BY <2>2, <4>1
            <4> HIDE DEF here, before
            <4> QED BY <1>3, <4>1, <4>2
        <3>2. CASE ~IsPatchTarget({"prompt"})
            <4>1. mode = "exploratory" /\ cursor + 1 > patch.step
                BY <1>1, <1>7, <3>2 DEF FromModel, AfterPatch
            <4>2. ~here /\ ~before /\ IsPatchTarget({"prompt"}) = FALSE
                BY <1>1, <1>2, <3>2, <4>1 DEF IsPatchTarget
            <4>3. Decided(said, "regenerated_model_decision", TRUE, FALSE, matched)
                BY <2>2, <4>2
            <4> HIDE DEF here, before
            <4> QED BY <1>4, <4>2, <4>3
        <3> QED BY <3>1, <3>2
    <2> QED BY <1>7, <2>1, <2>2 DEF FromModel
<1> QED BY <1>5, <1>6, <1>7 DEF Decide

LEMMA CallDivides ==
    ASSUME ReplayOK, PatchDividesReplay, CallTool
    PROVE  PatchDividesReplay'
<1> DEFINE here   == cursor + 1 = patch.step /\ "tool" = PatchedType(patch)
           before == cursor + 1 <= patch.step
<1>1. /\ UNCHANGED <<mode, patch>> /\ agent.pc # "failed"
      /\ cursor \in Nat /\ EventIndex = cursor + 1
    BY CursorIs DEF CallTool, Calling
<1>2. mode = "exploratory" => patch.step \in Int /\ patch.kind \in {"response", "prompt", "tool"}
    BY PatchIs
<1>3. ASSUME NEW response, NEW source, NEW patched \in BOOLEAN, Served(response, source, patched),
             patched => mode = "exploratory" /\ here,
             ~patched => (mode = "exploratory" => ~here),
             ~patched /\ mode = "exploratory" /\ before => source = "recorded_interceptor",
             mode = "exploratory" /\ ~before => source = "simulated_tool_interceptor"
      PROVE  PatchDividesReplay'
    <2> DEFINE e == Event("tool", ToolOf(agent), source, FALSE, patched, CallMatches,
                          [params |-> ParamsOf(agent), response |-> response, allowed |-> ~Blocked(ToolOf(agent))])
    <2>1. /\ e.source = source /\ e.type = "tool" /\ e.patched = patched
          /\ events' = Append(events, e)
        BY <1>3 DEF Served, Event
    <2> HIDE DEF e
    <2>2. mode = "exploratory" => Divided(e, cursor + 1)
        <3>1. CASE patched = TRUE
            BY <1>1, <1>2, <1>3, <2>1, <3>1 DEF Divided
        <3>2. CASE patched = FALSE
            BY <1>1, <1>2, <1>3, <2>1, <3>2 DEF Divided
        <3> QED BY <1>3, <3>1, <3>2
    <2> QED BY <1>1, <2>1, <2>2, AppendDivides
<1>4. IsPatchTarget({"tool"}) <=> mode = "exploratory" /\ here
    BY <1>1, <1>2 DEF IsPatchTarget, PatchedType
<1>5. AfterPatch <=> mode = "exploratory" /\ ~before
    BY <1>1, <1>2 DEF AfterPatch
<1>6. mode = "exploratory" /\ here => before
    BY <1>1, <1>2
<1> HIDE DEF here, before
<1>7. CASE IsPatchTarget({"tool"}) /\ Served(patch.response, "patched_tool_interceptor", TRUE)
    BY <1>3, <1>4, <1>6, <1>7
<1>8. CASE /\ ~IsPatchTarget({"tool"}) /\ AfterPatch
           /\ Served(Simulated(RecordedResponse, ParamsOf(agent)), "simulated_tool_interceptor", FALSE)
    BY <1>3, <1>4, <1>5, <1>8
<1>9. CASE /\ ~IsPatchTarget({"tool"}) /\ ~AfterPatch
           /\ Served(RecordedResponse, "recorded_interceptor", FALSE)
    BY <1>3, <1>4, <1>5, <1>9
<1> QED BY <1>7, <1>8, <1>9 DEF CallTool

LEMMA DividesStep == ReplayOK /\ PatchDividesReplay /\ [Next]_allvars => PatchDividesReplay'
<1> SUFFICES ASSUME ReplayOK, PatchDividesReplay, [Next]_allvars PROVE PatchDividesReplay'
    OBVIOUS
<1>1. CASE StartStrict \/ StartExploratory
    <2>1. UNCHANGED events /\ agent = Begun
        BY <1>1 DEF StartStrict, StartExploratory, StartReplay, ReplayOK
    <2>2. Len(events) = 0
        BY <2>1 DEF ReplayOK, EventsOK, Consumed, Begun
    <2> QED BY <2>1, <2>2 DEF PatchDividesReplay
<1>2. CASE UNCHANGED <<events, mode, patch>>
    BY <1>2 DEF PatchDividesReplay
<1> QED BY <1>1, <1>2, DecideDivides, CallDivides
        DEF Next, ReplayNext, RejectPatch, FinishReplay, FailReplay, allvars, replayvars

LEMMA DividesInit == Init => PatchDividesReplay
BY DEF Init, ReplayInit, PatchDividesReplay

(* The branches of decide and call_tool: for every trace and patch, the     *)
(* recording is served up to the patch, the patch on a step of its type,    *)
(* and nothing recorded as it was behind it.                                *)
THEOREM PatchDividesReplayCorrect == Spec => []PatchDividesReplay
<1> QED BY FormInvariant, DividesInit, DividesStep, PTL DEF Spec
-----------------------------------------------------------------------------
(* A replay of a whole run.                                                 *)

(* The recorded steps of an execution, as far as it has come: the decision, *)
(* the lookup, the final decision and the write.                            *)
Kept(e, said) == IF e THEN Garbled ELSE said

FirstRow(i, x, e) == LlmRow(i, Begun, Kept(e, x.initial))

LookupRow(x) == [index |-> 2, type |-> "tool", tool |-> Lookup, params |-> NoParams,
                 response |-> x.lookup, candidate |-> x.initial.board]

FinalRow(x, e) == [index |-> 3, type |-> "llm", says |-> Kept(e, x.final), prompt |-> Prompt(x)]

IsWriteRow(row, x) ==
    /\ row.type = "tool" /\ row.tool = x.final.tool
    /\ row.params = [board |-> x.final.board, priority |-> x.final.priority]

RecordOf(rows, x, e) ==
    /\ Len(rows) >= 1 => rows[1] = FirstRow(1, x, e)
    /\ Len(rows) >= 2 => rows[2] = LookupRow(x)
    /\ Len(rows) >= 3 => rows[3] = FinalRow(x, e)
    /\ Len(rows) >= 4 => IsWriteRow(rows[4], x)

StepsOf(x) == CASE x.pc = "initial"   -> 0
                [] x.pc = "lookup"    -> 1
                [] x.pc = "final"     -> 2
                [] x.pc = "write"     -> 3
                [] x.pc = "completed" -> IF x.final.tool = "stop" THEN 3 ELSE 4

PerformedInv ==
    live.pc # "failed" => RecordOf(performed, live, early) /\ Len(performed) = StepsOf(live)

LEMMA PerformIs ==
    ASSUME LiveOK, NEW row \in RecordedStep, Perform(row)
    PROVE  /\ Len(performed) \in Nat /\ Len(performed') = Len(performed) + 1
           /\ \A i \in 1..Len(performed) : performed'[i] = performed[i]
           /\ performed'[Len(performed) + 1] = [row EXCEPT !.index = Len(performed) + 1]
BY AppendNumbered DEF LiveOK, Perform

LEMMA PerformedDecision ==
    ASSUME LiveOK, PerformedInv, LiveDecide
    PROVE  PerformedInv'
<1> SUFFICES ASSUME live'.pc # "failed" PROVE RecordOf(performed', live', early') /\ Len(performed') = StepsOf(live')
    BY DEF PerformedInv
<1>1. PICK said \in ModelSays(live), row \in RecordedStep :
          /\ row = LlmRow(0, live, Kept(early, said))
          /\ live' = AfterDecision(live, said) /\ Perform(row)
    BY LiveDecideIs DEF Kept, Stored
<1>2. live.pc \in {"initial", "final"} /\ WellFormed(live) /\ early' = early
    BY LiveDecideIs DEF LiveOK
<1>3. Parses(live, said)
    BY <1>1, <1>2, DecisionOK, FailOK
<1>5. \A n : [row EXCEPT !.index = n] = [index |-> n, type |-> "llm", says |-> Kept(early, said), prompt |-> Prompt(live)]
    BY <1>1 DEF LlmRow
<1>6. RecordOf(performed, live, early) /\ Len(performed) = StepsOf(live)
    BY <1>2 DEF PerformedInv
<1>7. CASE live.pc = "initial"
    <2>1. live = Begun /\ Len(performed) = 0 /\ live'.pc = "lookup" /\ live'.initial = said
        BY <1>1, <1>2, <1>3, <1>6, <1>7, DecisionOK DEF WellFormed, StepsOf
    <2>2. Len(performed') = 1 /\ performed'[1] = FirstRow(1, live', early)
        BY <1>1, <1>5, <2>1, PerformIs DEF FirstRow, LlmRow
    <2> QED BY <1>2, <2>1, <2>2 DEF RecordOf, StepsOf
<1>8. CASE live.pc = "final"
    <2>1. /\ Len(performed) = 2 /\ live'.pc \in {"completed", "write"} /\ live'.final = said
          /\ live'.initial = live.initial /\ live'.lookup = live.lookup
          /\ live'.pc = "completed" <=> said.tool = "stop"
        BY <1>1, <1>2, <1>3, <1>6, <1>8, DecisionOK DEF StepsOf
    <2>2. FirstRow(1, live', early) = FirstRow(1, live, early) /\ LookupRow(live') = LookupRow(live)
          /\ FinalRow(live', early) = [index |-> 3, type |-> "llm", says |-> Kept(early, said), prompt |-> Prompt(live)]
        BY <2>1 DEF FirstRow, LlmRow, LookupRow, FinalRow, Prompt
    <2>3. /\ Len(performed') = 3 /\ performed'[1] = performed[1] /\ performed'[2] = performed[2]
          /\ performed'[3] = FinalRow(live', early)
        <3>1. performed'[3] = [row EXCEPT !.index = 3]
            BY <1>1, <2>1, PerformIs
        <3>2. performed'[3] = FinalRow(live', early)
            BY <1>5, <2>2, <3>1
        <3>3. /\ Len(performed') = Len(performed) + 1
              /\ \A i \in 1..Len(performed) : performed'[i] = performed[i]
            BY <1>1, PerformIs
        <3> QED BY <2>1, <3>2, <3>3
    <2>4. performed[1] = FirstRow(1, live, early) /\ performed[2] = LookupRow(live)
        BY <1>6, <2>1 DEF RecordOf
    <2> QED BY <1>2, <2>1, <2>2, <2>3, <2>4 DEF RecordOf, StepsOf
<1> QED BY <1>2, <1>7, <1>8

LEMMA PerformedCall ==
    ASSUME LiveOK, PerformedInv, LiveCall
    PROVE  PerformedInv'
<1> SUFFICES ASSUME live'.pc # "failed" PROVE RecordOf(performed', live', early') /\ Len(performed') = StepsOf(live')
    BY DEF PerformedInv
<1>1. PICK response \in Answers(live), row \in RecordedStep :
          /\ row = ToolRow(0, live, response) /\ Perform(row)
          /\ live' = AfterCall(live, response) \/ live' = Fail(live)
    BY LiveCallIs
<1>2. Calling(live) /\ WellFormed(live) /\ early' = early /\ response \in Response
    BY LiveCallIs, AnswerOK DEF LiveOK
<1>3. live' = AfterCall(live, response)
    BY <1>1, <1>2, FailOK
<1>5. \A n : [row EXCEPT !.index = n] =
                 [index |-> n, type |-> "tool", tool |-> ToolOf(live), params |-> ParamsOf(live),
                  response |-> response, candidate |-> live.initial.board]
    BY <1>1 DEF ToolRow, Candidate
<1>6. RecordOf(performed, live, early) /\ Len(performed) = StepsOf(live)
    BY <1>2 DEF PerformedInv, Calling
<1>7. CASE live.pc = "lookup"
    <2>1. /\ live'.pc = "final" /\ live'.initial = live.initial /\ live'.lookup = response
          /\ Len(performed) = 1 /\ ToolOf(live) = Lookup /\ ParamsOf(live) = NoParams
        BY <1>2, <1>3, <1>6, <1>7, CallOK, CallIs, FailOK DEF StepsOf
    <2>2. FirstRow(1, live', early) = FirstRow(1, live, early) /\ performed[1] = FirstRow(1, live, early)
        BY <1>6, <2>1 DEF FirstRow, LlmRow, RecordOf
    <2>3. Len(performed') = 2 /\ performed'[1] = performed[1] /\ performed'[2] = LookupRow(live')
        <3>1. performed'[2] = [row EXCEPT !.index = 2]
            BY <1>1, <2>1, PerformIs
        <3>2. performed'[2] = LookupRow(live')
            BY <1>5, <2>1, <3>1 DEF LookupRow
        <3>3. /\ Len(performed') = Len(performed) + 1
              /\ \A i \in 1..Len(performed) : performed'[i] = performed[i]
            BY <1>1, PerformIs
        <3> QED BY <2>1, <3>2, <3>3
    <2> QED BY <1>2, <2>1, <2>2, <2>3 DEF RecordOf, StepsOf, LookupRow
<1>8. CASE live.pc = "write"
    <2>1. /\ live'.pc = "completed" /\ live'.initial = live.initial /\ live'.lookup = live.lookup
          /\ live'.final = live.final /\ Len(performed) = 3 /\ live.final.tool # "stop"
          /\ ToolOf(live) = live.final.tool
          /\ ParamsOf(live) = [board |-> live.final.board, priority |-> live.final.priority]
        BY <1>2, <1>3, <1>6, <1>8, CallOK, CallIs DEF StepsOf, WriteTool
    <2>2. FirstRow(1, live', early) = FirstRow(1, live, early) /\ LookupRow(live') = LookupRow(live)
          /\ FinalRow(live', early) = FinalRow(live, early)
        BY <2>1 DEF FirstRow, LlmRow, LookupRow, FinalRow, Prompt
    <2>3. /\ Len(performed') = 4 /\ performed'[1] = performed[1] /\ performed'[2] = performed[2]
          /\ performed'[3] = performed[3]
          /\ performed'[4] = [row EXCEPT !.index = 4]
        BY <1>1, <2>1, PerformIs
    <2>4. IsWriteRow(performed'[4], live')
        BY <1>5, <2>1, <2>3 DEF IsWriteRow
    <2>5. performed[1] = FirstRow(1, live, early) /\ performed[2] = LookupRow(live) /\ performed[3] = FinalRow(live, early)
        BY <1>6, <2>1 DEF RecordOf
    <2> QED BY <1>2, <2>1, <2>2, <2>3, <2>4, <2>5 DEF RecordOf, StepsOf, IsWriteRow
<1> QED BY <1>2, <1>7, <1>8 DEF Calling

LEMMA PerformedStep == LiveOK /\ PerformedInv /\ [Next]_allvars => PerformedInv'
<1> SUFFICES ASSUME LiveOK, PerformedInv, [Next]_allvars PROVE PerformedInv'
    OBVIOUS
<1>1. CASE UNCHANGED <<live, performed, early>>
    BY <1>1 DEF PerformedInv, RecordOf, FirstRow, LlmRow, LookupRow, FinalRow, IsWriteRow, StepsOf, Kept, Prompt
<1>2. CASE ModelFails \/ CallFails
    BY <1>2, FailOK DEF ModelFails, CallFails, LiveOK, PerformedInv
<1> QED BY <1>1, <1>2, PerformedDecision, PerformedCall
        DEF Next, LiveNext, LateCommit, ReportRun, allvars, livevars

LEMMA PerformedInit == Init => PerformedInv
<1> SUFFICES ASSUME Init PROVE PerformedInv
    OBVIOUS
<1>1. Len(performed) = 0
    BY EmptySeq DEF Init, LiveInit
<1> QED BY <1>1 DEF Init, LiveInit, PerformedInv, RecordOf, StepsOf, Begun
-----------------------------------------------------------------------------
(* The replay has fetched all steps of a completed execution.               *)
WholeRun(x) == /\ WellFormed(x) /\ x.pc = "completed"
               /\ RecordOf(steps, x, early) /\ Len(steps) = StepsOf(x)

(* The replay has done as the execution did; of an early trace a recovered  *)
(* decision may differ from the one taken in what nothing recorded shows.   *)
OnTrack(x) ==
    /\ agent.pc # "failed"
    /\ agent.pc # "initial" =>
          agent.initial.board = x.initial.board /\ (~early => agent.initial = x.initial)
    /\ agent.pc \in {"final", "write", "completed"} => agent.lookup = x.lookup
    /\ agent.pc \in {"write", "completed"} =>
          agent.final.tool = x.final.tool /\ (~early => agent.final = x.final)
    /\ agent.pc = "completed" => cursor = Len(steps)
    /\ \A i \in 1..Len(events) :
          /\ <<events[i].type, events[i].tool>> = Signature(steps[i])
          /\ ~early => events[i].matched /\ events[i].source = "recorded_interceptor"


(* What a replay on track takes from the recording.                         *)
LEMMA WholeRunIs ==
    ASSUME NEW x, WholeRun(x)
    PROVE  /\ x.initial \in InitialDecision /\ x.initial.board # Nil
           /\ x.lookup \in Response /\ x.lookup.kind # "text"
           /\ x.final \in FinalDecision
           /\ x.final.tool # "stop" => x.final.tool \in WriteTool /\ Usable(x.final)
           /\ Len(steps) = IF x.final.tool = "stop" THEN 3 ELSE 4
           /\ steps[1] = FirstRow(1, x, early) /\ steps[2] = LookupRow(x) /\ steps[3] = FinalRow(x, early)
           /\ x.final.tool # "stop" => IsWriteRow(steps[4], x)
<1>1. x.initial \in InitialDecision /\ x.lookup \in Response /\ x.lookup.kind # "text" /\ x.final \in FinalDecision
      /\ (x.final.tool = "stop" \/ Usable(x.final))
    BY DEF WholeRun, WellFormed
<1>2. x.initial.board # Nil /\ x.final.tool \in WriteTool \cup {"stop"}
    BY <1>1, NilAssumption DEF InitialDecision, FinalDecision
<1>3. Len(steps) = IF x.final.tool = "stop" THEN 3 ELSE 4
    BY DEF WholeRun, StepsOf
<1> QED BY <1>1, <1>2, <1>3 DEF WholeRun, RecordOf

LEMMA InitialFromRecording ==
    ASSUME ReplayOK, NEW x, WholeRun(x), agent.pc = "initial"
    PROVE  /\ HasExpected /\ Expected = steps[1] /\ Expected.type = "llm" /\ cursor = 0
           /\ FromRecording => \E said \in InitialDecision, source \in Source :
                 /\ Decided(said, source, FALSE, FALSE, PromptMatches)
                 /\ said.board = x.initial.board
                 /\ ~early => said = x.initial /\ source = "recorded_interceptor" /\ PromptMatches
<1>1. cursor = 0 /\ agent = Begun
    BY DEF ReplayOK, Consumed, WellFormed
<1>2. /\ HasExpected /\ Expected = steps[1] /\ HasNext /\ NextStep = steps[2]
    BY <1>1, WholeRunIs DEF HasExpected, Expected, HasNext, NextStep
<1>3. Expected.type = "llm" /\ Expected.says = Kept(early, x.initial) /\ Expected.prompt = Prompt(Begun)
    <2>1. Expected = FirstRow(1, x, early)
        BY <1>2, WholeRunIs
    <2> QED BY <2>1 DEF FirstRow, LlmRow
<1>4. PromptMatches /\ RecordedSays = Kept(early, x.initial)
    BY <1>1, <1>2, <1>3 DEF PromptMatches, RecordedSays
<1>5. CASE ~early
    <2>1. RecordedSays = x.initial /\ Parses(agent, RecordedSays)
        BY <1>4, <1>5, WholeRunIs DEF Kept, Parses
    <2> QED BY <1>1, <1>2, <1>3, <1>4, <2>1, WholeRunIs DEF FromRecording, Source
<1>6. CASE early
    <2>1. ~Parses(agent, RecordedSays)
        BY <1>4, <1>6, GarbledAssumption DEF Kept, Parses
    <2> DEFINE d == [board |-> x.initial.board, recovered |-> TRUE]
    <2>2. NextStep.type = "tool" /\ NextStep.tool = Lookup /\ NextStep.candidate = x.initial.board
        <3>1. NextStep = LookupRow(x)
            BY <1>2, WholeRunIs
        <3> QED BY <3>1 DEF LookupRow
    <2>3. RecoveredInitial \cup RecoveredFinal = {d}
        BY <1>2, <2>2, WholeRunIs DEF RecoveredInitial, RecoveredFinal
    <2>4. d \in InitialDecision /\ d.board = x.initial.board
        BY WholeRunIs DEF InitialDecision
    <2> HIDE DEF d
    <2>5. FromRecording => Decided(d, "recorded_boundary_recovery", FALSE, FALSE, PromptMatches)
        BY <2>1, <2>3 DEF FromRecording
    <2> QED BY <1>1, <1>2, <1>3, <1>6, <2>4, <2>5 DEF Source
<1> QED BY <1>5, <1>6

LEMMA FinalFromRecording ==
    ASSUME ReplayOK, NEW x, WholeRun(x), OnTrack(x), agent.pc = "final"
    PROVE  /\ HasExpected /\ Expected = steps[3] /\ Expected.type = "llm" /\ cursor = 2
           /\ FromRecording => \E said \in FinalDecision, source \in Source :
                 /\ Decided(said, source, FALSE, FALSE, PromptMatches)
                 /\ said.tool = x.final.tool /\ (said.tool # "stop" => Usable(said))
                 /\ ~early => said = x.final /\ source = "recorded_interceptor" /\ PromptMatches
<1>1. cursor = 2
    BY DEF ReplayOK, Consumed
<1>2. /\ HasExpected /\ Expected = steps[3]
      /\ HasNext <=> x.final.tool # "stop"
      /\ HasNext => NextStep = steps[4]
    BY <1>1, WholeRunIs DEF HasExpected, Expected, HasNext, NextStep
<1>3. Expected.type = "llm" /\ Expected.says = Kept(early, x.final) /\ Expected.prompt = Prompt(x)
    <2>1. Expected = FinalRow(x, early)
        BY <1>2, WholeRunIs
    <2> QED BY <2>1 DEF FinalRow
<1>4. RecordedSays = Kept(early, x.final) /\ (~early => PromptMatches)
    BY <1>2, <1>3 DEF PromptMatches, RecordedSays, Prompt, OnTrack
<1>5. CASE ~early
    <2>1. RecordedSays = x.final /\ Parses(agent, RecordedSays)
        BY <1>4, <1>5, WholeRunIs DEF Kept, Parses
    <2> QED BY <1>1, <1>2, <1>3, <1>4, <1>5, <2>1, WholeRunIs DEF FromRecording, Source
<1>6. CASE early
    <2>1. ~Parses(agent, RecordedSays) /\ RecoveredInitial = {}
        BY <1>4, <1>6, GarbledAssumption DEF Kept, Parses, RecoveredInitial
    <2>2. PICK d \in FinalDecision : /\ RecoveredFinal = {d}
                                     /\ d.tool = x.final.tool /\ (d.tool # "stop" => Usable(d))
        <3>1. CASE x.final.tool = "stop"
            <4> DEFINE d == [tool |-> "stop", board |-> Nil, priority |-> Nil]
            <4>1. RecoveredFinal = {d} /\ d \in FinalDecision /\ d.tool = "stop"
                BY <1>2, <3>1 DEF RecoveredFinal, FinalDecision
            <4> QED BY <3>1, <4>1
        <3>2. CASE x.final.tool # "stop"
            <4>1. /\ NextStep.type = "tool" /\ NextStep.tool = x.final.tool
                  /\ NextStep.params = [board |-> x.final.board, priority |-> x.final.priority]
                  /\ x.final.tool \in WriteTool /\ Usable(x.final) /\ x.final.board # Nil
                BY <1>2, <3>2, WholeRunIs DEF IsWriteRow, Usable
            <4>2. x.final = [tool |-> x.final.tool, board |-> x.final.board, priority |-> x.final.priority]
                BY WholeRunIs DEF FinalDecision
            <4>3. RecoveredFinal = {x.final}
                BY <1>2, <3>2, <4>1, <4>2 DEF RecoveredFinal
            <4> QED BY <4>1, <4>3, WholeRunIs
        <3> QED BY <3>1, <3>2
    <2>3. FromRecording => Decided(d, "recorded_boundary_recovery", FALSE, FALSE, PromptMatches)
        BY <2>1, <2>2 DEF FromRecording
    <2> QED BY <1>1, <1>2, <1>3, <1>6, <2>2, <2>3 DEF Source
<1> QED BY <1>5, <1>6

LEMMA CallFromRecording ==
    ASSUME ReplayOK, NEW x, WholeRun(x), OnTrack(x), Calling(agent)
    PROVE  /\ HasExpected /\ Expected.type = "tool" /\ Expected.tool = ToolOf(agent)
           /\ ~early => CallMatches
           /\ agent.pc = "lookup" => RecordedResponse = x.lookup /\ cursor = 1
           /\ agent.pc = "write" => cursor = 3 /\ Len(steps) = 4
<1>0. WellFormed(agent)
    BY DEF ReplayOK
<1>1. CASE agent.pc = "lookup"
    <2>1. cursor = 1 /\ HasExpected /\ Expected = steps[2]
        BY <1>1, WholeRunIs DEF ReplayOK, Consumed, HasExpected, Expected
    <2>2. /\ Expected.type = "tool" /\ Expected.tool = Lookup /\ Expected.params = NoParams
          /\ Expected.response = x.lookup
        <3>1. Expected = LookupRow(x)
            BY <2>1, WholeRunIs
        <3> QED BY <3>1 DEF LookupRow
    <2>3. ToolOf(agent) = Lookup /\ ParamsOf(agent) = NoParams
        BY <1>0, <1>1, CallIs
    <2> QED BY <1>1, <2>1, <2>2, <2>3 DEF RecordedResponse, CallMatches
<1>2. CASE agent.pc = "write"
    <2>1. ToolOf(agent) = agent.final.tool /\ agent.final.tool \in WriteTool /\ agent.final.tool = x.final.tool
          /\ ParamsOf(agent) = [board |-> agent.final.board, priority |-> agent.final.priority]
        BY <1>0, <1>2, CallIs DEF OnTrack
    <2>2. x.final.tool # "stop"
        BY <2>1 DEF WriteTool
    <2>3. cursor = 3 /\ HasExpected /\ Expected = steps[4] /\ Len(steps) = 4
        BY <1>2, <2>2, WholeRunIs DEF ReplayOK, Consumed, HasExpected, Expected
    <2>4. IsWriteRow(Expected, x)
        BY <2>2, <2>3, WholeRunIs
    <2>5. ~early => agent.final = x.final
        BY <1>2 DEF OnTrack
    <2> QED BY <1>2, <2>1, <2>3, <2>4, <2>5 DEF IsWriteRow, CallMatches
<1> QED BY <1>1, <1>2 DEF Calling

(* On track, a decision is at a recorded model call and a call at a         *)
(* recorded tool.                                                           *)
LEMMA TypeAtCursor ==
    ASSUME ReplayOK, NEW x, WholeRun(x), OnTrack(x), stage = "running"
    PROVE  /\ agent.pc \in {"initial", "final"} => steps[cursor + 1].type = "llm"
           /\ Calling(agent) => steps[cursor + 1].type = "tool"
BY InitialFromRecording, FinalFromRecording, CallFromRecording DEF Expected

LEMMA EventAppended ==
    ASSUME ReplayOK, agent.pc # "failed", NEW e, events' = Append(events, e)
    PROVE  /\ Len(events) = cursor /\ cursor \in Nat /\ Len(events') = cursor + 1
           /\ \A i \in 1..Len(events) : events'[i] = events[i]
           /\ events'[cursor + 1] = e
BY AppendIsSeq, CursorIs DEF ReplayOK, EventsOK

LEMMA TrackAppends ==
    ASSUME ReplayOK, NEW x, WholeRun(x), OnTrack(x), UNCHANGED <<steps, early>>,
           NEW e, events' = Append(events, e),
           <<e.type, e.tool>> = Signature(steps[cursor + 1]),
           ~early => e.matched /\ e.source = "recorded_interceptor"
    PROVE  \A i \in 1..Len(events') :
              /\ <<events'[i].type, events'[i].tool>> = Signature(steps'[i])
              /\ ~early' => events'[i].matched /\ events'[i].source = "recorded_interceptor"
<1>1. /\ Len(events) = cursor /\ cursor \in Nat /\ Len(events') = cursor + 1
      /\ \A i \in 1..Len(events) : events'[i] = events[i]
      /\ events'[cursor + 1] = e
    BY EventAppended DEF OnTrack
<1>2. ASSUME NEW i \in 1..Len(events')
      PROVE  /\ <<events'[i].type, events'[i].tool>> = Signature(steps[i])
             /\ ~early => events'[i].matched /\ events'[i].source = "recorded_interceptor"
    <2>1. CASE i \in 1..Len(events)
        BY <1>1, <2>1 DEF OnTrack
    <2>2. CASE i = cursor + 1
        BY <1>1, <2>2
    <2> QED BY <1>1, <2>1, <2>2
<1> QED BY <1>2

LEMMA TrackDecide ==
    ASSUME ReplayOK, NEW x, WholeRun(x), OnTrack(x), Decide, FromRecording, UNCHANGED livevars
    PROVE  OnTrack(x)'
<1>1. /\ WellFormed(agent) /\ agent.pc \in {"initial", "final"} /\ cursor' = cursor + 1
      /\ UNCHANGED <<steps, early>>
    BY DEF ReplayOK, Decide, livevars
<1>2. Signature(steps[cursor + 1]) = <<"llm", Nil>>
    BY <1>1, InitialFromRecording, FinalFromRecording DEF Expected, Signature
<1>3. ASSUME NEW said, NEW source, Decided(said, source, FALSE, FALSE, PromptMatches),
             ~early => source = "recorded_interceptor" /\ PromptMatches
      PROVE  /\ agent' = AfterDecision(agent, said)
             /\ \A i \in 1..Len(events') :
                   /\ <<events'[i].type, events'[i].tool>> = Signature(steps'[i])
                   /\ ~early' => events'[i].matched /\ events'[i].source = "recorded_interceptor"
    <2> DEFINE e == Event("llm", Nil, source, FALSE, FALSE, PromptMatches, said)
    <2>1. /\ agent' = AfterDecision(agent, said) /\ events' = Append(events, e)
          /\ e.type = "llm" /\ e.tool = Nil /\ e.matched = PromptMatches /\ e.source = source
        BY <1>3 DEF Decided, Event
    <2> HIDE DEF e
    <2> QED BY <1>1, <1>2, <1>3, <2>1, TrackAppends
<1>4. CASE agent.pc = "initial"
    <2>1. PICK said \in InitialDecision, source \in Source :
              /\ Decided(said, source, FALSE, FALSE, PromptMatches)
              /\ said.board = x.initial.board
              /\ ~early => said = x.initial /\ source = "recorded_interceptor" /\ PromptMatches
        BY <1>4, InitialFromRecording
    <2>2. agent'.pc = "lookup" /\ agent'.initial = said
        <3>1. agent' = AfterDecision(agent, said)
            BY <1>3, <2>1
        <3>2. Parses(agent, said)
            BY <1>4, <2>1 DEF Parses
        <3> QED BY <1>1, <1>4, <3>1, <3>2, DecisionOK
    <2> QED BY <1>1, <1>3, <2>1, <2>2 DEF OnTrack
<1>5. CASE agent.pc = "final"
    <2>1. PICK said \in FinalDecision, source \in Source :
              /\ Decided(said, source, FALSE, FALSE, PromptMatches)
              /\ said.tool = x.final.tool /\ (said.tool # "stop" => Usable(said))
              /\ ~early => said = x.final /\ source = "recorded_interceptor" /\ PromptMatches
        BY <1>5, FinalFromRecording
    <2>2. /\ agent'.pc = IF said.tool = "stop" THEN "completed" ELSE "write"
          /\ agent'.final = said /\ agent'.initial = agent.initial /\ agent'.lookup = agent.lookup
        <3>1. agent' = AfterDecision(agent, said)
            BY <1>3, <2>1
        <3>2. Parses(agent, said)
            BY <1>5, <2>1 DEF Parses
        <3> QED BY <1>1, <1>5, <2>1, <3>1, <3>2, DecisionOK
    <2>3. cursor' = 3 /\ (said.tool = "stop" => Len(steps) = 3)
        <3>1. cursor = 2
            BY <1>5, FinalFromRecording
        <3> QED BY <1>1, <2>1, <3>1, WholeRunIs
    <2> QED BY <1>1, <1>3, <1>5, <2>1, <2>2, <2>3 DEF OnTrack
<1> QED BY <1>1, <1>4, <1>5

LEMMA TrackCall ==
    ASSUME ReplayOK, NEW x, WholeRun(x), OnTrack(x), CallTool, ~IsPatchTarget({"tool"}), ~AfterPatch,
           UNCHANGED livevars
    PROVE  OnTrack(x)'
<1>1. /\ WellFormed(agent) /\ Calling(agent) /\ cursor' = cursor + 1
      /\ UNCHANGED <<steps, early>>
    BY DEF ReplayOK, CallTool, livevars
<1>2. Served(RecordedResponse, "recorded_interceptor", FALSE)
    BY DEF CallTool
<1> DEFINE e == Event("tool", ToolOf(agent), "recorded_interceptor", FALSE, FALSE, CallMatches,
                      [params |-> ParamsOf(agent), response |-> RecordedResponse, allowed |-> ~Blocked(ToolOf(agent))])
<1>3. /\ events' = Append(events, e) /\ agent' = AfterCall(agent, RecordedResponse)
      /\ e.type = "tool" /\ e.tool = ToolOf(agent) /\ e.matched = CallMatches /\ e.source = "recorded_interceptor"
    BY <1>2 DEF Served, Event
<1> HIDE DEF e
<1>4. Signature(steps[cursor + 1]) = <<"tool", ToolOf(agent)>> /\ (~early => CallMatches)
    BY <1>1, CallFromRecording DEF Expected, Signature
<1>5. \A i \in 1..Len(events') :
          /\ <<events'[i].type, events'[i].tool>> = Signature(steps'[i])
          /\ ~early' => events'[i].matched /\ events'[i].source = "recorded_interceptor"
    BY <1>1, <1>3, <1>4, TrackAppends
<1>6. CASE agent.pc = "lookup"
    <2>1. RecordedResponse = x.lookup /\ x.lookup \in Response /\ x.lookup.kind # "text"
        BY <1>1, <1>6, CallFromRecording, WholeRunIs
    <2>2. agent'.pc = "final" /\ agent'.initial = agent.initial /\ agent'.lookup = x.lookup
        BY <1>1, <1>3, <1>6, <2>1, CallOK
    <2> QED BY <1>1, <1>5, <1>6, <2>2 DEF OnTrack
<1>7. CASE agent.pc = "write"
    <2>1. cursor' = 4 /\ Len(steps) = 4
        BY <1>1, <1>7, CallFromRecording
    <2>2. /\ agent'.pc = "completed" /\ agent'.initial = agent.initial
          /\ agent'.lookup = agent.lookup /\ agent'.final = agent.final
        BY <1>1, <1>3, <1>7, CallOK, RecordedResponseOK
    <2> QED BY <1>1, <1>5, <1>7, <2>1, <2>2 DEF OnTrack
<1> QED BY <1>1, <1>6, <1>7 DEF Calling
-----------------------------------------------------------------------------
(* The replay is strict, or has not come to its patch.                      *)
Reaching == mode = "strict" \/ (~early /\ cursor < patch.step)

TrackInv == stage \in {"running", "over"} /\ Reaching => \A x : WholeRun(x) => OnTrack(x)

(* A patch names a fetched step of its own kind.                            *)
PatchFits ==
    mode = "exploratory" =>
        /\ patch.step \in 1..Len(steps)
        /\ steps[patch.step].type = IF patch.kind = "tool" THEN "tool" ELSE "llm"

(* The events before the patch are served from the recording, and the one   *)
(* that is patched is in its place.                                         *)
PatchedInPlace ==
    \A i \in 1..Len(events) :
        /\ events[i].patched <=> i = patch.step
        /\ i < patch.step => events[i].source = "recorded_interceptor" /\ events[i].matched

PatchInv == mode = "exploratory" /\ ~early /\ agent.pc # "failed" /\ (\E x : WholeRun(x)) => PatchedInPlace

OverInv == stage = "over" => agent.pc \in Ended

FidelityInv == TrackInv /\ PatchFits /\ PatchInv /\ OverInv

LEMMA WholeRunKept ==
    ASSUME UNCHANGED <<steps, early>>, NEW x
    PROVE  WholeRun(x)' <=> WholeRun(x)
BY DEF WholeRun

LEMMA TrackNext ==
    ASSUME ReplayOK, TrackInv, Decide \/ CallTool, UNCHANGED livevars
    PROVE  TrackInv'
<1> SUFFICES ASSUME Reaching', NEW x, WholeRun(x)' PROVE OnTrack(x)'
    BY DEF TrackInv
<1>1. /\ stage = "running" /\ cursor' = cursor + 1 /\ UNCHANGED <<steps, early, mode, patch>>
    BY DEF Decide, CallTool, livevars
<1>2. cursor \in Nat /\ EventIndex = cursor + 1 /\ (mode = "strict" \/ mode = "exploratory")
      /\ (mode = "exploratory" => patch.step \in Int)
    BY CursorIs, PatchIs DEF ReplayOK
<1>3. Reaching /\ WholeRun(x)
    BY <1>1, <1>2, WholeRunKept DEF Reaching, PatchFits
<1>4. OnTrack(x)
    BY <1>1, <1>3 DEF TrackInv
<1>5. ~AfterPatch /\ ~IsPatchTarget({"tool"}) /\ ~IsPatchTarget({"response"}) /\ ~IsPatchTarget({"prompt"})
    BY <1>1, <1>2 DEF Reaching, AfterPatch, IsPatchTarget
<1>6. CASE Decide
    BY <1>3, <1>4, <1>5, <1>6, TrackDecide DEF Decide, FromPatch, FromModel
<1>7. CASE CallTool
    BY <1>3, <1>4, <1>5, <1>7, TrackCall
<1> QED BY <1>6, <1>7

(* The next event of an exploratory replay of a whole run.                  *)
LEMMA PatchAppends ==
    ASSUME ReplayOK, PatchedInPlace, agent.pc # "failed", UNCHANGED patch,
           NEW e, events' = Append(events, e),
           e.patched <=> cursor + 1 = patch.step,
           cursor + 1 < patch.step => e.source = "recorded_interceptor" /\ e.matched
    PROVE  PatchedInPlace'
<1>1. /\ Len(events) = cursor /\ cursor \in Nat /\ Len(events') = cursor + 1
      /\ \A i \in 1..Len(events) : events'[i] = events[i]
      /\ events'[cursor + 1] = e
    BY EventAppended
<1>2. ASSUME NEW i \in 1..Len(events')
      PROVE  /\ events'[i].patched <=> i = patch.step
             /\ i < patch.step => events'[i].source = "recorded_interceptor" /\ events'[i].matched
    <2>1. CASE i \in 1..Len(events)
        BY <1>1, <2>1 DEF PatchedInPlace
    <2>2. CASE i = cursor + 1
        BY <1>1, <2>2
    <2> QED BY <1>1, <2>1, <2>2
<1> QED BY <1>2 DEF PatchedInPlace

LEMMA PatchDecide ==
    ASSUME ReplayOK, TrackInv, PatchFits, PatchedInPlace, mode = "exploratory", ~early,
           agent'.pc # "failed", NEW x, WholeRun(x), Decide, UNCHANGED livevars
    PROVE  PatchedInPlace'
<1> DEFINE At == cursor + 1 = patch.step
           Before == cursor + 1 < patch.step
<1>1. /\ stage = "running" /\ agent.pc \in {"initial", "final"} /\ agent.pc # "failed" /\ WellFormed(agent)
      /\ UNCHANGED patch
    BY DEF Decide, ReplayOK
<1>2. cursor \in Nat /\ EventIndex = cursor + 1 /\ patch.step \in Int /\ patch.kind \in {"response", "prompt", "tool"}
    BY CursorIs, PatchIs
<1>3. cursor < patch.step => OnTrack(x)
    BY <1>1 DEF TrackInv, Reaching
<1>4. cursor + 1 = patch.step => patch.kind # "tool"
    BY <1>1, <1>2, <1>3, TypeAtCursor DEF PatchFits
<1>5. ASSUME NEW said, NEW source, NEW isLive, NEW patched, NEW matched,
             Decided(said, source, isLive, patched, matched),
             patched <=> At, Before => source = "recorded_interceptor" /\ matched
      PROVE  PatchedInPlace'
    <2> DEFINE e == Event("llm", Nil, source, isLive, patched, matched, said)
    <2>1. events' = Append(events, e) /\ e.patched = patched /\ e.source = source /\ e.matched = matched
        BY <1>5 DEF Decided, Event
    <2> HIDE DEF e
    <2> QED BY <1>1, <1>5, <2>1, PatchAppends
<1>6. CASE FromRecording
    <2>1. cursor + 1 < patch.step
        BY <1>2, <1>4, <1>6 DEF FromRecording, AfterPatch, IsPatchTarget
    <2>2. PICK said, source : /\ Decided(said, source, FALSE, FALSE, PromptMatches)
                              /\ source = "recorded_interceptor" /\ PromptMatches
        <3>1. OnTrack(x)
            BY <1>2, <1>3, <2>1
        <3> QED BY <1>1, <1>6, <3>1, InitialFromRecording, FinalFromRecording
    <2>3. Before /\ ~At
        BY <1>2, <2>1
    <2> HIDE DEF At, Before
    <2> QED BY <1>5, <2>2, <2>3
<1>7. CASE FromPatch
    <2>1. At /\ ~Before
        BY <1>2, <1>7 DEF FromPatch, IsPatchTarget
    <2> HIDE DEF At, Before
    <2> QED BY <1>5, <1>7, <2>1 DEF FromPatch
<1>8. CASE FromModel
    <2>1. agent' # Fail(agent)
        BY <1>1, FailOK
    <2>2. cursor + 1 >= patch.step /\ (IsPatchTarget({"prompt"}) <=> cursor + 1 = patch.step)
        BY <1>2, <1>8 DEF FromModel, AfterPatch, IsPatchTarget
    <2>3. PICK said : Decided(said, "regenerated_model_decision", TRUE, IsPatchTarget({"prompt"}),
                              PromptMatches /\ AfterPatch)
        BY <1>8, <2>1 DEF FromModel
    <2>4. ~Before /\ (IsPatchTarget({"prompt"}) <=> At)
        BY <1>2, <2>2
    <2> DEFINE e == Event("llm", Nil, "regenerated_model_decision", TRUE, IsPatchTarget({"prompt"}),
                          PromptMatches /\ AfterPatch, said)
    <2>5. events' = Append(events, e) /\ e.patched = IsPatchTarget({"prompt"})
        BY <2>3 DEF Decided, Event
    <2> HIDE DEF e
    <2> QED BY <1>1, <2>4, <2>5, PatchAppends
<1> QED BY <1>6, <1>7, <1>8 DEF Decide

LEMMA PatchCall ==
    ASSUME ReplayOK, TrackInv, PatchFits, PatchedInPlace, mode = "exploratory", ~early,
           NEW x, WholeRun(x), CallTool, UNCHANGED livevars
    PROVE  PatchedInPlace'
<1> DEFINE At == cursor + 1 = patch.step
           Before == cursor + 1 < patch.step
<1>1. stage = "running" /\ Calling(agent) /\ agent.pc # "failed" /\ UNCHANGED patch
    BY DEF CallTool, Calling
<1>2. cursor \in Nat /\ EventIndex = cursor + 1 /\ patch.step \in Int /\ patch.kind \in {"response", "prompt", "tool"}
    BY CursorIs, PatchIs
<1>3. cursor < patch.step => OnTrack(x)
    BY <1>1 DEF TrackInv, Reaching
<1>4. cursor + 1 = patch.step => patch.kind = "tool"
    BY <1>1, <1>2, <1>3, TypeAtCursor DEF PatchFits
<1>5. ASSUME NEW response, NEW source, NEW patched, Served(response, source, patched),
             patched <=> At, Before => source = "recorded_interceptor" /\ CallMatches
      PROVE  PatchedInPlace'
    <2> DEFINE e == Event("tool", ToolOf(agent), source, FALSE, patched, CallMatches,
                          [params |-> ParamsOf(agent), response |-> response, allowed |-> ~Blocked(ToolOf(agent))])
    <2>1. events' = Append(events, e) /\ e.patched = patched /\ e.source = source /\ e.matched = CallMatches
        BY <1>5 DEF Served, Event
    <2> HIDE DEF e
    <2> QED BY <1>1, <1>5, <2>1, PatchAppends
<1>6. IsPatchTarget({"tool"}) <=> cursor + 1 = patch.step
    BY <1>2, <1>4 DEF IsPatchTarget
<1>7. AfterPatch <=> cursor + 1 > patch.step
    BY <1>2 DEF AfterPatch
<1>8. cursor + 1 < patch.step => CallMatches
    BY <1>1, <1>2, <1>3, CallFromRecording
<1>9. /\ IsPatchTarget({"tool"}) => At /\ ~Before
      /\ ~IsPatchTarget({"tool"}) /\ AfterPatch => ~At /\ ~Before
      /\ ~IsPatchTarget({"tool"}) /\ ~AfterPatch => ~At /\ Before /\ CallMatches
    BY <1>2, <1>6, <1>7, <1>8
<1> HIDE DEF At, Before
<1> QED BY <1>5, <1>9 DEF CallTool

LEMMA FidelityStep == LiveOK /\ ReplayOK /\ FidelityInv /\ [Next]_allvars => FidelityInv'
<1> SUFFICES ASSUME LiveOK, ReplayOK, FidelityInv, [Next]_allvars PROVE FidelityInv'
    OBVIOUS
<1> USE DEF FidelityInv
<1>1. CASE UNCHANGED replayvars
    <2>1. early' = early
        BY <1>1 DEF Next, LiveNext, LiveDecide, ModelFails, LiveCall, CallFails, LateCommit, ReportRun,
                    ReplayNext, livevars, allvars
    <2>2. \A x : WholeRun(x)' <=> WholeRun(x)
        BY <1>1, <2>1, WholeRunKept DEF replayvars
    <2>3. \A x : OnTrack(x)' <=> OnTrack(x)
        BY <1>1, <2>1 DEF replayvars, OnTrack
    <2>4. TrackInv'
        BY <1>1, <2>1, <2>2, <2>3 DEF TrackInv, Reaching, replayvars
    <2>5. PatchFits' /\ OverInv' /\ (PatchedInPlace' <=> PatchedInPlace)
        BY <1>1 DEF PatchFits, OverInv, PatchedInPlace, replayvars
    <2> QED BY <1>1, <2>1, <2>2, <2>4, <2>5 DEF PatchInv, replayvars
<1>2. CASE (StartStrict \/ StartExploratory) /\ UNCHANGED livevars
    <2>1. /\ agent' = Begun /\ Len(events') = 0 /\ stage' = "running" /\ steps' = trace
        BY <1>2, EmptySeq DEF StartStrict, StartExploratory, StartReplay, ReplayOK, EventsOK, Consumed, Begun
    <2>2. TrackInv' /\ PatchInv' /\ OverInv'
        BY <2>1 DEF TrackInv, OnTrack, PatchInv, PatchedInPlace, OverInv, Begun
    <2>3. PatchFits'
        <3>1. CASE StartStrict
            BY <3>1 DEF StartStrict, StartReplay, PatchFits
        <3>2. CASE StartExploratory
            <4>1. PICK p \in Patch : ValidPatch(p) /\ StartReplay("exploratory", p)
                BY <3>2 DEF StartExploratory
            <4>2. PICK i \in 1..Len(trace) :
                      /\ trace[i].index = p.step
                      /\ trace[i].type = IF p.kind = "tool" THEN "tool" ELSE "llm"
                BY <4>1 DEF ValidPatch, PatchedType
            <4>3. i = p.step
                BY <4>2 DEF LiveOK, Numbered
            <4> QED BY <4>1, <4>2, <4>3 DEF StartReplay, PatchFits
        <3> QED BY <1>2, <3>1, <3>2
    <2> QED BY <2>2, <2>3
<1>3. CASE (Decide \/ CallTool) /\ UNCHANGED livevars
    <2>0. UNCHANGED <<steps, early, mode, patch>> /\ stage' = "running" /\ agent.pc # "failed"
        BY <1>3 DEF Decide, CallTool, Calling, livevars
    <2>1. TrackInv'
        BY <1>3, TrackNext
    <2>2. PatchFits' /\ OverInv'
        BY <2>0 DEF PatchFits, OverInv
    <2>3. PatchInv'
        <3> SUFFICES ASSUME mode = "exploratory", ~early, agent'.pc # "failed", NEW x, WholeRun(x) PROVE PatchedInPlace'
            BY <2>0, WholeRunKept DEF PatchInv
        <3>1. PatchedInPlace
            BY <2>0 DEF PatchInv
        <3> QED BY <1>3, <3>1, PatchDecide, PatchCall
    <2> QED BY <2>1, <2>2, <2>3
<1>4. CASE (RejectPatch \/ FinishReplay \/ FailReplay) /\ UNCHANGED livevars
    <2>1. UNCHANGED <<steps, mode, patch, agent, cursor, events, early>>
        BY <1>4 DEF RejectPatch, FinishReplay, FailReplay, livevars
    <2>2. \A x : (WholeRun(x)' <=> WholeRun(x)) /\ (OnTrack(x)' <=> OnTrack(x))
        BY <2>1, WholeRunKept DEF OnTrack
    <2>3. TrackInv' /\ OverInv'
        BY <1>4, <2>1, <2>2 DEF TrackInv, OverInv, Reaching, RejectPatch, FinishReplay, FailReplay
    <2>4. PatchFits' /\ (PatchedInPlace' <=> PatchedInPlace)
        BY <2>1 DEF PatchFits, PatchedInPlace
    <2> QED BY <2>1, <2>2, <2>3, <2>4 DEF PatchInv
<1> QED BY <1>1, <1>2, <1>3, <1>4 DEF Next, ReplayNext, allvars

LEMMA FidelityInit == Init => FidelityInv
<1> SUFFICES ASSUME Init PROVE FidelityInv
    OBVIOUS
<1>1. Len(events) = 0
    BY EmptySeq DEF Init, ReplayInit
<1> QED BY <1>1 DEF Init, ReplayInit, FidelityInv, TrackInv, PatchFits, PatchInv, PatchedInPlace, OverInv

LEMMA FidelityInvariant == Spec => [](LiveOK /\ ReplayOK /\ PerformedInv /\ FidelityInv)
BY FormInvariant, PerformedInit, PerformedStep, FidelityInit, FidelityStep, PTL DEF Spec

(* The whole run a replay has fetched is the live one.                      *)
LEMMA FetchedIsWhole ==
    ASSUME LiveOK, PerformedInv, FetchedAll, live.pc = "completed"
    PROVE  WholeRun(live)
BY DEF LiveOK, PerformedInv, FetchedAll, WholeRun

(* A strict replay of a run that was recorded step by step does what the    *)
(* run did, and every request of it matches its recording; an early trace   *)
(* is recovered into the same calls.                                        *)
THEOREM FaithfulReplayCorrect == Spec => []FaithfulReplay
<1>1. ASSUME LiveOK, ReplayOK, PerformedInv, FidelityInv PROVE FaithfulReplay
    <2> SUFFICES ASSUME stage = "over", mode = "strict", FetchedAll, live.pc = "completed"
                 PROVE  /\ agent.pc = "completed"
                        /\ agent.initial.board = live.initial.board
                        /\ agent.lookup = live.lookup
                        /\ Len(events) = Len(steps)
                        /\ \A i \in 1..Len(steps) : <<events[i].type, events[i].tool>> = Signature(steps[i])
                        /\ ~early => agent = live /\ \A i \in 1..Len(events) : events[i].matched
        BY DEF FaithfulReplay
    <2>1. OnTrack(live)
        BY <1>1, FetchedIsWhole DEF FidelityInv, TrackInv, Reaching
    <2>2. agent.pc = "completed"
        BY <1>1, <2>1 DEF FidelityInv, OverInv, Ended, OnTrack
    <2>3. Len(events) = Len(steps)
        BY <1>1, <2>1, <2>2 DEF OnTrack, ReplayOK, EventsOK
    <2>4. ~early => agent = live
        BY <1>1, <2>1, <2>2 DEF OnTrack, LiveOK, ReplayOK, WellFormed, Execution
    <2> QED BY <2>1, <2>2, <2>3, <2>4 DEF OnTrack
<1> QED BY <1>1, FidelityInvariant, PTL

(* An exploratory replay of a whole run that completes has served its patch *)
(* once, at the step asked for, behind the recorded prefix.                 *)
THEOREM PatchIsAppliedCorrect == Spec => []PatchIsApplied
<1>1. ASSUME LiveOK, ReplayOK, PerformedInv, FidelityInv PROVE PatchIsApplied
    <2> SUFFICES ASSUME stage = "over", mode = "exploratory", FetchedAll, live.pc = "completed", ~early,
                        agent.pc # "failed"
                 PROVE  /\ patch.step <= Len(events)
                        /\ \A i \in 1..Len(events) : events[i].patched <=> i = patch.step
                        /\ \A i \in 1..(patch.step - 1) :
                              events[i].source = "recorded_interceptor" /\ events[i].matched
        BY DEF PatchIsApplied
    <2>1. WholeRun(live)
        BY <1>1, FetchedIsWhole
    <2>2. PatchedInPlace
        BY <1>1, <2>1 DEF FidelityInv, PatchInv
    <2>3. agent.pc = "completed" /\ Len(events) = cursor
        BY <1>1 DEF FidelityInv, OverInv, Ended, ReplayOK, EventsOK
    <2>4. cursor \in Nat /\ patch.step \in 1..Len(steps)
        BY <1>1, CursorIs DEF FidelityInv, PatchFits
    <2>5. cursor < patch.step => OnTrack(live)
        BY <1>1, <2>1 DEF FidelityInv, TrackInv, Reaching
    <2>6. Len(steps) \in Nat
        BY <1>1, CursorIs
    <2>7. patch.step <= Len(events)
        BY <2>3, <2>4, <2>5, <2>6 DEF OnTrack
    <2> QED BY <2>2, <2>3, <2>4, <2>7 DEF PatchedInPlace
<1> QED BY <1>1, FidelityInvariant, PTL
-----------------------------------------------------------------------------
(* The trace holds at most one lookup, and before it at most the decision   *)
(* that led to it; one that is still in flight comes to the same place,     *)
(* because the agent that gave it up has failed.                            *)
IsLookup(row) == row.type = "tool" /\ row.tool = Lookup

Opening(i) == FirstRow(i, live, early)

AtOpening == /\ Len(trace) <= 1
             /\ Len(trace) = 1 => trace[1] = Opening(1)
             /\ Opening(0) \in inflight => Len(trace) = 0

LookupInv ==
    /\ live.pc = "initial" => Len(trace) = 0 /\ inflight = {}
    /\ live.pc = "lookup" => AtOpening /\ inflight \subseteq {Opening(0)}
    /\ \A row \in inflight : IsLookup(row) =>
          /\ live.pc = "failed" /\ live.initial \in InitialDecision /\ row.candidate = live.initial.board
          /\ AtOpening /\ inflight \subseteq {row, Opening(0)}
    /\ \A i \in 1..Len(trace) : IsLookup(trace[i]) =>
          /\ i <= 2 /\ live.initial \in InitialDecision /\ trace[i].candidate = live.initial.board
          /\ i = 2 => trace[1] = Opening(1)

LEMMA LookupRenumbered ==
    ASSUME NEW row \in RecordedStep, NEW n \in Int
    PROVE  /\ IsLookup([row EXCEPT !.index = n]) <=> IsLookup(row)
           /\ IsLookup(row) => [row EXCEPT !.index = n].candidate = row.candidate
BY Renumbered, RowHas DEF IsLookup

(* A commit adds the row it commits at the end of the trace.                *)
LEMMA AppendIs ==
    ASSUME LiveOK, NEW row \in RecordedStep, Append1(row)
    PROVE  /\ Len(trace) \in Nat /\ Len(trace') = Len(trace) + 1
           /\ \A i \in 1..Len(trace) : trace'[i] = trace[i]
           /\ trace'[Len(trace) + 1] = [row EXCEPT !.index = Len(trace) + 1]
           /\ IsLookup(trace'[Len(trace) + 1]) <=> IsLookup(row)
           /\ IsLookup(row) => trace'[Len(trace) + 1].candidate = row.candidate
<1>1. /\ Len(trace) \in Nat /\ Len(trace') = Len(trace) + 1
      /\ \A i \in 1..Len(trace) : trace'[i] = trace[i]
      /\ trace'[Len(trace) + 1] = [row EXCEPT !.index = Len(trace) + 1]
    BY AppendNumbered DEF LiveOK, Append1
<1>2. PICK n \in Int : n = Len(trace) + 1
    BY <1>1
<1>3. trace'[n] = [row EXCEPT !.index = n]
    BY <1>1, <1>2
<1>4. (IsLookup(trace'[n]) <=> IsLookup(row)) /\ (IsLookup(row) => trace'[n].candidate = row.candidate)
    BY <1>3, LookupRenumbered
<1> QED BY <1>1, <1>2, <1>4

LEMMA OpeningIsNoLookup == \A i : ~IsLookup(Opening(i))
BY DEF Opening, FirstRow, LlmRow, IsLookup

LEMMA OpeningRenumbered == \A i, n : [Opening(i) EXCEPT !.index = n] = Opening(n)
BY DEF Opening, FirstRow, LlmRow

(* A row that is committed at the opening is the second one at most.        *)
LEMMA AfterOpening ==
    ASSUME AtOpening, Len(trace) \in Nat, \A i \in 1..Len(trace) : trace'[i] = trace[i]
    PROVE  Len(trace) + 1 <= 2 /\ (Len(trace) + 1 = 2 => trace'[1] = Opening(1))
<1>1. Len(trace) <= 1 /\ (Len(trace) = 1 => trace[1] = Opening(1))
    BY DEF AtOpening
<1>2. \A n \in Nat : n <= 1 => n \in {0, 1}
    OBVIOUS
<1>3. Len(trace) \in {0, 1}
    BY <1>1, <1>2
<1>4. Len(trace) = 1 => trace'[1] = trace[1]
    OBVIOUS
<1>5. Len(trace) + 1 <= 2 /\ (Len(trace) + 1 = 2 => Len(trace) = 1)
    BY <1>3
<1> QED BY <1>1, <1>4, <1>5

(* The rows that are no lookup change nothing once the decision is stored.  *)
LEMMA OtherRowKeeps ==
    ASSUME LiveOK, LookupInv, NEW row \in RecordedStep, ~IsLookup(row), Recorded(row),
           live.pc \notin {"initial", "lookup", "failed"},
           live'.pc \notin {"initial", "lookup"}, live'.initial = live.initial, early' = early
    PROVE  LookupInv'
<1>1. Opening(1)' = Opening(1)
    BY DEF Opening, FirstRow, LlmRow
<1>2. \A r \in inflight' : ~IsLookup(r)
    BY DEF LookupInv, Recorded
<1>3. ASSUME Append1(row), NEW i \in 1..Len(trace'), IsLookup(trace'[i])
      PROVE  /\ i <= 2 /\ live.initial \in InitialDecision /\ trace'[i].candidate = live.initial.board
             /\ i = 2 => trace'[1] = Opening(1)
    <2>1. /\ Len(trace) \in Nat /\ Len(trace') = Len(trace) + 1
          /\ \A j \in 1..Len(trace) : trace'[j] = trace[j]
          /\ ~IsLookup(trace'[Len(trace) + 1])
        BY <1>3, AppendIs
    <2>2. i \in 1..Len(trace)
        BY <1>3, <2>1
    <2> QED BY <1>3, <2>1, <2>2 DEF LookupInv
<1> QED BY <1>1, <1>2, <1>3 DEF LookupInv, Recorded

LEMMA LookupDecide ==
    ASSUME LiveOK, LookupInv, LiveDecide
    PROVE  LookupInv'
<1>1. PICK said \in ModelSays(live), row \in RecordedStep :
          /\ row = LlmRow(0, live, Stored(said))
          /\ live' = AfterDecision(live, said) /\ Recorded(row)
    BY LiveDecideIs
<1>2. live.pc \in {"initial", "final"} /\ WellFormed(live) /\ early' = early
    BY LiveDecideIs DEF LiveOK
<1>3. ~IsLookup(row)
    BY <1>1 DEF IsLookup, LlmRow
<1>4. CASE live.pc = "final"
    BY <1>1, <1>2, <1>3, <1>4, DecisionOK, FailOK, OtherRowKeeps
<1>5. CASE live.pc = "initial"
    <2>1. Len(trace) = 0 /\ inflight = {} /\ live = Begun
        BY <1>2, <1>5 DEF LookupInv, WellFormed
    <2>2. \A n : [row EXCEPT !.index = n] = LlmRow(n, Begun, Stored(said))
        BY <1>1, <2>1 DEF LlmRow
    <2>3. \/ inflight' = {} /\ Len(trace') = 1 /\ trace'[1] = LlmRow(1, Begun, Stored(said))
          \/ inflight' = {} /\ Len(trace') = 0
          \/ inflight' = {row} /\ Len(trace') = 0
        <3>1. CASE Append1(row) /\ UNCHANGED inflight
            BY <2>1, <2>2, <3>1, AppendIs
        <3> QED BY <1>1, <2>1, <3>1 DEF Recorded
    <2>4. (\A r \in inflight' : ~IsLookup(r)) /\ (\A i \in 1..Len(trace') : ~IsLookup(trace'[i]))
        BY <1>3, <2>3 DEF IsLookup, LlmRow
    <2>5. live'.pc \in {"lookup", "failed"} /\ (live'.pc = "lookup" => live'.initial = said)
        BY <1>1, <1>2, <1>5, DecisionOK, FailOK
    <2>6. live'.pc = "lookup" => Opening(1)' = LlmRow(1, Begun, Stored(said)) /\ Opening(0)' = row
        BY <1>1, <1>2, <2>1, <2>5 DEF Opening, FirstRow, Kept, Stored
    <2>7. ASSUME live'.pc = "lookup" PROVE AtOpening' /\ inflight' \subseteq {Opening(0)'}
        <3>1. Opening(1)' = LlmRow(1, Begun, Stored(said)) /\ Opening(0)' = row
            BY <2>6, <2>7
        <3> HIDE DEF Opening
        <3> QED BY <2>3, <3>1 DEF AtOpening
    <2> QED BY <2>4, <2>5, <2>7 DEF LookupInv
<1> QED BY <1>2, <1>4, <1>5

LEMMA LookupCall ==
    ASSUME LiveOK, LookupInv, LiveCall
    PROVE  LookupInv'
<1>1. PICK response \in Answers(live), row \in RecordedStep :
          /\ row = ToolRow(0, live, response) /\ Recorded(row)
          /\ \/ live' = AfterCall(live, response) /\ Append1(row) /\ UNCHANGED inflight
             \/ live' = Fail(live)
    BY LiveCallIs
<1>2. Calling(live) /\ WellFormed(live) /\ early' = early /\ response \in Response
    BY LiveCallIs, AnswerOK DEF LiveOK
<1>3. /\ live'.initial = live.initial
      /\ live'.pc \notin {"initial", "lookup"}
      /\ live' # Fail(live) => Append1(row) /\ UNCHANGED inflight
    BY <1>1, <1>2, CallOK, FailOK DEF Calling
<1>4. /\ row.type = "tool" /\ row.tool = ToolOf(live) /\ row.candidate = live.initial.board
    BY <1>1 DEF ToolRow, Candidate
<1>5. CASE live.pc = "write"
    <2>1. ~IsLookup(row)
        BY <1>2, <1>4, <1>5, CallIs DEF IsLookup, WriteTool, Lookup
    <2> QED BY <1>1, <1>2, <1>3, <1>5, <2>1, OtherRowKeeps
<1>6. CASE live.pc = "lookup"
    <2>1. /\ AtOpening /\ inflight \subseteq {Opening(0)} /\ live.initial \in InitialDecision
          /\ \A r \in inflight : ~IsLookup(r)
        BY <1>2, <1>6, OpeningIsNoLookup DEF LookupInv, WellFormed
    <2>2. \A i : Opening(i)' = Opening(i)
        BY <1>2, <1>3 DEF Opening, FirstRow, LlmRow
    <2>3. \A i \in 1..Len(trace) : ~IsLookup(trace[i])
        <3>1. Len(trace) \in Nat
            BY LenProperties DEF LiveOK, Numbered
        <3>2. ASSUME NEW i \in 1..Len(trace) PROVE trace[i] = Opening(1)
            <4>1. Len(trace) <= 1 /\ (Len(trace) = 1 => trace[1] = Opening(1))
                BY <2>1 DEF AtOpening
            <4>2. \A n \in Nat : n <= 1 => \A k \in 1..n : n = 1 /\ k = 1
                OBVIOUS
            <4>3. Len(trace) = 1 /\ i = 1
                BY <3>1, <3>2, <4>1, <4>2
            <4> QED BY <4>1, <4>3
        <3> QED BY <3>2, OpeningIsNoLookup
    <2>4. CASE Append1(row) /\ UNCHANGED inflight
        <3>1. /\ Len(trace) \in Nat /\ Len(trace') = Len(trace) + 1
              /\ \A i \in 1..Len(trace) : trace'[i] = trace[i]
              /\ trace'[Len(trace) + 1].candidate = live.initial.board
            <4>1. IsLookup(row)
                BY <1>2, <1>4, <1>6, CallIs DEF IsLookup
            <4> QED BY <1>4, <2>4, <4>1, AppendIs
        <3>2. ASSUME NEW i \in 1..Len(trace'), IsLookup(trace'[i])
              PROVE  /\ i <= 2 /\ trace'[i].candidate = live.initial.board
                     /\ i = 2 => trace'[1] = Opening(1)
            <4>1. i = Len(trace) + 1
                BY <2>3, <3>1, <3>2
            <4> QED BY <2>1, <3>1, <4>1, AfterOpening
        <3> QED BY <1>3, <2>1, <2>2, <2>4, <3>2 DEF LookupInv
    <2>5. CASE UNCHANGED <<trace, inflight>>
        BY <1>3, <2>1, <2>3, <2>5 DEF LookupInv
    <2>6. CASE inflight' = inflight \cup {row} /\ UNCHANGED trace /\ live' = Fail(live)
        <3>1. row # Opening(0)
            BY <1>2, <1>4, <1>6, CallIs, OpeningIsNoLookup DEF IsLookup
        <3>2. AtOpening'
            BY <2>1, <2>2, <2>6, <3>1 DEF AtOpening
        <3>3. live'.pc = "failed"
            BY <1>2, <2>6, FailOK
        <3> QED BY <1>3, <1>4, <2>1, <2>2, <2>3, <2>6, <3>2, <3>3 DEF LookupInv
    <2>7. live' = Fail(live) \/ (Append1(row) /\ UNCHANGED inflight)
        BY <1>1
    <2> QED BY <1>1, <2>4, <2>5, <2>6, <2>7 DEF Recorded
<1> QED BY <1>2, <1>5, <1>6 DEF Calling

LEMMA LookupCommit ==
    ASSUME LiveOK, LookupInv, LateCommit
    PROVE  LookupInv'
<1>1. PICK row \in inflight : inflight' = inflight \ {row} /\ (Append1(row) \/ UNCHANGED trace)
    BY DEF LateCommit
<1>2. UNCHANGED <<live, early>> /\ row \in RecordedStep /\ Len(trace) \in Nat
    BY LenProperties DEF LateCommit, LiveOK, Numbered
<1>3. \A i : Opening(i)' = Opening(i)
    BY <1>2 DEF Opening, FirstRow, LlmRow
<1>4. live.pc # "initial"
    BY DEF LookupInv
<1>5. CASE UNCHANGED trace
    <2>1. AtOpening => AtOpening'
        BY <1>1, <1>3, <1>5 DEF AtOpening
    <2>2. /\ live'.pc = "lookup" => AtOpening' /\ inflight' \subseteq {Opening(0)'}
          /\ \A r \in inflight' : IsLookup(r) =>
                /\ live'.pc = "failed" /\ live'.initial \in InitialDecision /\ r.candidate = live'.initial.board
                /\ AtOpening' /\ inflight' \subseteq {r, Opening(0)'}
        BY <1>1, <1>2, <1>3, <2>1 DEF LookupInv
    <2> QED BY <1>2, <1>3, <1>4, <1>5, <2>2 DEF LookupInv
<1>6. CASE Append1(row)
    <2>1. /\ Len(trace') = Len(trace) + 1
          /\ \A i \in 1..Len(trace) : trace'[i] = trace[i]
          /\ trace'[Len(trace) + 1] = [row EXCEPT !.index = Len(trace) + 1]
        BY <1>2, <1>6, AppendIs
    <2>2. row = Opening(0) /\ AtOpening => AtOpening'
        <3>1. ASSUME row = Opening(0), AtOpening PROVE Len(trace) = 0 /\ trace'[1] = Opening(1) /\ Opening(0) \notin inflight'
            <4>1. Len(trace) = 0
                BY <3>1 DEF AtOpening
            <4>2. trace'[1] = [Opening(0) EXCEPT !.index = 1]
                BY <2>1, <3>1, <4>1
            <4> QED BY <1>1, <3>1, <4>1, <4>2, OpeningRenumbered
        <3> QED BY <1>3, <2>1, <3>1 DEF AtOpening
    <2>3. live.pc = "lookup" => AtOpening' /\ inflight' = {}
        BY <1>1, <2>2 DEF LookupInv
    <2>4. ASSUME NEW r \in inflight', IsLookup(r)
          PROVE  /\ live'.pc = "failed" /\ live'.initial \in InitialDecision /\ r.candidate = live'.initial.board
                 /\ AtOpening' /\ inflight' \subseteq {r, Opening(0)'}
        <3>1. /\ live.pc = "failed" /\ live.initial \in InitialDecision /\ r.candidate = live.initial.board
              /\ AtOpening /\ inflight \subseteq {r, Opening(0)}
            BY <1>1, <2>4 DEF LookupInv
        <3>2. row = Opening(0)
            BY <1>1, <2>4, <3>1
        <3> QED BY <1>1, <1>2, <1>3, <2>2, <3>1, <3>2
    <2>5. ASSUME NEW i \in 1..Len(trace'), IsLookup(trace'[i])
          PROVE  /\ i <= 2 /\ live'.initial \in InitialDecision /\ trace'[i].candidate = live'.initial.board
                 /\ i = 2 => trace'[1] = Opening(1)'
        <3>1. CASE i \in 1..Len(trace)
            BY <1>2, <1>3, <2>1, <2>5, <3>1 DEF LookupInv
        <3>2. CASE i = Len(trace) + 1
            <4>1. IsLookup(row) /\ trace'[i].candidate = row.candidate
                BY <1>2, <1>6, <2>5, <3>2, AppendIs
            <4>2. live.initial \in InitialDecision /\ row.candidate = live.initial.board /\ AtOpening
                BY <1>1, <4>1 DEF LookupInv
            <4>3. i <= 2 /\ (i = 2 => trace'[1] = Opening(1))
                BY <1>2, <2>1, <3>2, <4>2, AfterOpening
            <4> QED BY <1>2, <1>3, <4>1, <4>2, <4>3
        <3> QED BY <1>2, <2>1, <3>1, <3>2
    <2> QED BY <1>2, <1>3, <1>4, <2>3, <2>4, <2>5 DEF LookupInv
<1> QED BY <1>1, <1>5, <1>6

LEMMA LookupStep == LiveOK /\ LookupInv /\ [Next]_allvars => LookupInv'
<1> SUFFICES ASSUME LiveOK, LookupInv, [Next]_allvars PROVE LookupInv'
    OBVIOUS
<1>1. CASE UNCHANGED <<trace, inflight, live, early>>
    BY <1>1 DEF LookupInv, AtOpening, Opening, FirstRow, LlmRow, IsLookup
<1>2. CASE ModelFails \/ CallFails
    <2>1. UNCHANGED <<trace, inflight, early>> /\ live' = Fail(live) /\ live.pc # "failed"
        BY <1>2 DEF ModelFails, CallFails, Calling
    <2>2. live'.pc = "failed" /\ live'.initial = live.initial
        BY <2>1, FailOK DEF LiveOK
    <2>3. \A i : Opening(i)' = Opening(i)
        BY <2>1, <2>2 DEF Opening, FirstRow, LlmRow
    <2>4. \A r \in inflight : ~IsLookup(r)
        BY <2>1 DEF LookupInv
    <2> QED BY <2>1, <2>2, <2>3, <2>4 DEF LookupInv
<1> QED BY <1>1, <1>2, LookupDecide, LookupCall, LookupCommit, ReplayKeepsTrace
        DEF Next, LiveNext, ReportRun, allvars, livevars

LEMMA LookupInit == Init => LookupInv
<1> SUFFICES ASSUME Init PROVE LookupInv
    OBVIOUS
<1>1. Len(trace) = 0 /\ inflight = {} /\ live.pc = "initial"
    BY EmptySeq DEF Init, LiveInit, Begun
<1> QED BY <1>1 DEF LookupInv
-----------------------------------------------------------------------------
(* A replay has fetched what was committed at its start, and the trace only *)
(* grows behind it.                                                         *)
PrefixInv == Len(steps) <= Len(trace) /\ \A i \in 1..Len(steps) : steps[i] = trace[i]

LEMMA PrefixStep == LiveOK /\ ReplayOK /\ PrefixInv /\ [Next]_allvars => PrefixInv'
<1> SUFFICES ASSUME LiveOK, ReplayOK, PrefixInv, [Next]_allvars PROVE PrefixInv'
    OBVIOUS
<1>1. Len(steps) \in Nat /\ Len(trace) \in Nat
    BY CursorIs, LenProperties DEF LiveOK, Numbered
<1>2. ASSUME NEW row \in RecordedStep, Append1(row), UNCHANGED steps PROVE PrefixInv'
    <2>1. Len(trace') = Len(trace) + 1 /\ \A i \in 1..Len(trace) : trace'[i] = trace[i]
        BY <1>2, AppendIs
    <2> QED BY <1>1, <1>2, <2>1 DEF PrefixInv
<1>3. CASE UNCHANGED <<trace, steps>>
    BY <1>3 DEF PrefixInv
<1>4. CASE steps' = trace /\ UNCHANGED trace
    BY <1>1, <1>4 DEF PrefixInv
<1>5. CASE LiveNext /\ UNCHANGED replayvars
    <2>1. UNCHANGED trace \/ \E row \in RecordedStep : Append1(row)
        BY <1>5, LiveDecideIs, LiveCallIs
           DEF LiveNext, ModelFails, CallFails, LateCommit, ReportRun, Recorded, LiveOK
    <2> QED BY <1>2, <1>3, <1>5, <2>1 DEF replayvars
<1>6. CASE ReplayNext
    BY <1>3, <1>4, <1>6 DEF ReplayNext, StartStrict, StartExploratory, StartReplay, RejectPatch, Decide, CallTool,
       FinishReplay, FailReplay
<1> QED BY <1>3, <1>5, <1>6 DEF Next, allvars, replayvars

LEMMA PrefixInit == Init => PrefixInv
<1> SUFFICES ASSUME Init PROVE PrefixInv
    OBVIOUS
<1>1. Len(trace) = 0 /\ Len(steps) = 0
    BY EmptySeq DEF Init, LiveInit, ReplayInit
<1> QED BY <1>1 DEF PrefixInv
-----------------------------------------------------------------------------
(* A replay whose patch is the lookup that follows the decision for it gets *)
(* to the lookup: the decision is served as it was recorded, or recovered   *)
(* from the candidate of the lookup.                                        *)
LedToLookup(d) ==
    /\ mode = "exploratory" /\ patch.kind = "tool" /\ patch.step = 2
    /\ Len(steps) >= 2 /\ IsLookup(steps[2])
    /\ steps[1] = LlmRow(1, Begun, Kept(early, d)) /\ steps[2].candidate = d.board

Reached == agent.pc \in {"initial", "lookup"} \/ Len(events) >= 2

ReachInv == stage \in {"running", "over"} => \A d \in InitialDecision : LedToLookup(d) => Reached

LEMMA ReachDecide ==
    ASSUME ReplayOK, NEW d \in InitialDecision, LedToLookup(d), Decide, agent.pc = "initial"
    PROVE  agent'.pc = "lookup"
<1>1. cursor = 0 /\ agent = Begun /\ WellFormed(agent) /\ Len(steps) \in Nat
    BY CursorIs DEF ReplayOK, Consumed, WellFormed
<1>2. HasExpected /\ Expected = steps[1] /\ HasNext /\ NextStep = steps[2] /\ EventIndex = 1
    BY <1>1, CursorIs DEF LedToLookup, HasExpected, Expected, HasNext, NextStep
<1>3. FromRecording
    BY <1>2 DEF Decide, FromPatch, FromModel, AfterPatch, IsPatchTarget, LedToLookup
<1>4. RecordedSays = Kept(early, d)
    <2>1. Expected = LlmRow(1, Begun, Kept(early, d))
        BY <1>2 DEF LedToLookup
    <2>2. Expected.type = "llm" /\ Expected.says = Kept(early, d)
        BY <2>1 DEF LlmRow
    <2> QED BY <1>2, <2>2 DEF RecordedSays
<1>5. PICK said \in InitialDecision : agent' = AfterDecision(agent, said)
    <2>1. CASE ~early
        <3>1. RecordedSays = d /\ Parses(agent, RecordedSays)
            BY <1>4, <2>1 DEF Kept, Parses
        <3> QED BY <1>3, <3>1 DEF FromRecording, Decided
    <2>2. CASE early
        <3>1. ~Parses(agent, RecordedSays)
            BY <1>1, <1>4, <2>2, GarbledAssumption DEF Kept, Parses
        <3>2. NextStep.type = "tool" /\ NextStep.tool = Lookup /\ NextStep.candidate = d.board /\ d.board # Nil
            BY <1>2, NilAssumption DEF LedToLookup, IsLookup, InitialDecision
        <3>3. RecoveredInitial \cup RecoveredFinal = {[board |-> d.board, recovered |-> TRUE]}
            BY <1>2, <3>2 DEF RecoveredInitial, RecoveredFinal
        <3>4. [board |-> d.board, recovered |-> TRUE] \in InitialDecision
            BY DEF InitialDecision
        <3> QED BY <1>3, <3>1, <3>3, <3>4 DEF FromRecording, Decided
    <2> QED BY <2>1, <2>2
<1>6. Parses(agent, said)
    BY DEF Parses
<1> QED BY <1>1, <1>5, <1>6, DecisionOK

(* No event is ever taken back, and a call always leaves one.               *)
LEMMA EventsGrow ==
    ASSUME ReplayOK, Decide \/ CallTool
    PROVE  /\ Len(events) \in Nat /\ Len(events') >= Len(events)
           /\ CallTool => Len(events') = Len(events) + 1
<1>1. IsSequence(events) /\ Len(events) \in Nat
    BY AppendIsSeq DEF ReplayOK, EventsOK
<1>2. \A e : events' = Append(events, e) => Len(events') = Len(events) + 1
    BY <1>1, AppendIsSeq
<1>3. CASE CallTool
    <2>1. \E e : events' = Append(events, e)
        BY <1>3, ServedIs DEF Served
    <2> QED BY <1>1, <1>2, <2>1
<1>4. CASE Decide
    <2>1. UNCHANGED events \/ \E e : events' = Append(events, e)
        BY <1>4, DecideIs DEF Decided
    <2>2. ~CallTool
        BY <1>4 DEF Decide, CallTool, Calling
    <2> QED BY <1>1, <1>2, <2>1, <2>2
<1> QED BY <1>3, <1>4

LEMMA ReachStep == LiveOK /\ ReplayOK /\ ReachInv /\ [Next]_allvars => ReachInv'
<1> SUFFICES ASSUME LiveOK, ReplayOK, ReachInv, [Next]_allvars,
                    stage' \in {"running", "over"}, NEW d \in InitialDecision, LedToLookup(d)'
             PROVE  Reached'
    BY DEF ReachInv
<1>1. early' = early
    BY DEF Next, LiveNext, LiveDecide, ModelFails, LiveCall, CallFails, LateCommit, ReportRun,
           ReplayNext, livevars, allvars
<1>2. CASE UNCHANGED replayvars
    BY <1>1, <1>2 DEF replayvars, ReachInv, LedToLookup, Reached
<1>3. CASE StartStrict \/ StartExploratory
    BY <1>3 DEF StartStrict, StartExploratory, StartReplay, ReplayOK, Reached, Begun
<1>4. CASE FinishReplay \/ FailReplay
    BY <1>1, <1>4 DEF FinishReplay, FailReplay, ReachInv, LedToLookup, Reached
<1>5. CASE RejectPatch
    BY <1>5 DEF RejectPatch
<1>6. CASE Decide \/ CallTool
    <2>1. LedToLookup(d) /\ Reached
        BY <1>1, <1>6 DEF Decide, CallTool, LedToLookup, ReachInv
    <2>2. CASE Len(events) >= 2
        BY <1>6, <2>2, EventsGrow DEF Reached
    <2>3. CASE agent.pc = "initial"
        BY <1>6, <2>1, <2>3, ReachDecide DEF CallTool, Calling, Reached
    <2>4. CASE agent.pc = "lookup"
        <3>1. CallTool /\ Len(events) = 1
            BY <1>6, <2>4 DEF Decide, ReplayOK, EventsOK, Consumed
        <3> QED BY <3>1, EventsGrow DEF Reached
    <2> QED BY <2>1, <2>2, <2>3, <2>4 DEF Reached
<1> QED BY <1>2, <1>3, <1>4, <1>5, <1>6 DEF Next, ReplayNext, allvars

LEMMA ReachInit == Init => ReachInv
BY DEF Init, ReplayInit, ReachInv
-----------------------------------------------------------------------------
(* The column of a trace has the index of each step, in order.              *)
LEMMA ColumnIs ==
    ASSUME NEW branch \in {"o", "p"}, NEW rows, Len(rows) \in Nat, \A i \in 1..Len(rows) : rows[i].index = i
    PROVE  /\ Column(branch, rows) \in Seq({"o", "p"} \X Int)
           /\ Len(Column(branch, rows)) = Len(rows)
           /\ \A i \in 1..Len(rows) : Column(branch, rows)[i] = <<branch, i>>
<1> DEFINE column == [i \in 1..Len(rows) |-> <<branch, rows[i].index>>]
<1>1. column \in [1..Len(rows) -> {"o", "p"} \X Int] /\ \A i \in 1..Len(rows) : column[i] = <<branch, i>>
    OBVIOUS
<1> HIDE DEF column
<1>2. column \in Seq({"o", "p"} \X Int)
    BY <1>1
<1>3. Len(column) \in Nat /\ DOMAIN column = 1..Len(column)
    BY <1>2, LenProperties
<1>4. DOMAIN column = 1..Len(rows)
    BY <1>1
<1>5. Len(column) = Len(rows)
    BY <1>3, <1>4
<1>6. Column(branch, rows) = column
    BY DEF Column, column
<1> QED BY <1>1, <1>2, <1>5, <1>6

(* The ids of a graph are distinct, and its edges join nodes of it.         *)
DrawnWhole(g) ==
    /\ \A i, j \in 1..Len(g.nodes) : g.nodes[i] = g.nodes[j] => i = j
    /\ \A e \in g.edges : \A id \in {e[1], e[2]} : \E i \in 1..Len(g.nodes) : g.nodes[i] = id

(* What a graph of two numbered columns needs: its patched step is drawn in *)
(* both of them.                                                            *)
LEMMA ColumnsAreWhole ==
    ASSUME NEW shown, Len(shown) \in Nat, \A i \in 1..Len(shown) : shown[i].index = i,
           NEW rows, Len(rows) \in Nat, \A i \in 1..Len(rows) : rows[i].index = i,
           NEW step, PatchEdge(rows, step) # {} => step \in 1..Len(shown) /\ step \in 1..Len(rows),
           NEW g, g = buildGraph(shown, rows, step)
    PROVE  DrawnWhole(g)
<1> DEFINE before == Column("o", shown)
           after  == Column("p", rows)
           k      == Len(shown)
           n      == Len(rows)
<1>1. /\ before \in Seq({"o", "p"} \X Int) /\ Len(before) = k /\ \A i \in 1..k : before[i] = <<"o", i>>
      /\ after \in Seq({"o", "p"} \X Int) /\ Len(after) = n /\ \A i \in 1..n : after[i] = <<"p", i>>
    BY ColumnIs
<1>2. /\ g.nodes = before \o after
      /\ g.edges = Chain(before) \cup Chain(after) \cup PatchEdge(rows, step)
    BY DEF buildGraph
<1> HIDE DEF before, after
<1>3. k \in Nat /\ n \in Nat
    OBVIOUS
<1> HIDE DEF k, n
<1>4. /\ Len(g.nodes) = k + n
      /\ \A i \in 1..k : g.nodes[i] = <<"o", i>>
      /\ \A i \in (k + 1)..(k + n) : g.nodes[i] = <<"p", i - k>>
    <2>1. /\ Len(before \o after) = k + n
          /\ \A i \in 1..(k + n) : (before \o after)[i] = IF i <= k THEN before[i] ELSE after[i - k]
        BY <1>1, ConcatProperties
    <2>2. \A i \in (k + 1)..(k + n) : i - k \in 1..n /\ i \in 1..(k + n) /\ ~(i <= k)
        BY <1>3
    <2>3. \A i \in 1..k : i \in 1..(k + n) /\ i <= k
        BY <1>3
    <2> DEFINE both == before \o after
    <2>4. g.nodes = both
        BY <1>2
    <2> HIDE DEF both
    <2>5. ASSUME NEW i \in 1..k PROVE both[i] = <<"o", i>>
        <3>1. both[i] = before[i]
            BY <2>1, <2>3 DEF both
        <3> QED BY <1>1, <3>1
    <2>6. ASSUME NEW i \in (k + 1)..(k + n) PROVE both[i] = <<"p", i - k>>
        <3>1. both[i] = after[i - k]
            BY <2>1, <2>2 DEF both
        <3> QED BY <1>1, <2>2, <3>1
    <2>7. Len(both) = k + n
        BY <2>1 DEF both
    <2> QED BY <2>4, <2>5, <2>6, <2>7
<1>5. \A i \in 1..k : \E j \in 1..Len(g.nodes) : g.nodes[j] = <<"o", i>>
    <2>1. \A i \in 1..k : i \in 1..(k + n)
        BY <1>3
    <2> QED BY <1>4, <2>1
<1>6. \A i \in 1..n : \E j \in 1..Len(g.nodes) : g.nodes[j] = <<"p", i>>
    <2>1. \A i \in 1..n : k + i \in 1..(k + n) /\ k + i \in (k + 1)..(k + n) /\ (k + i) - k = i
        BY <1>3
    <2> QED BY <1>4, <2>1
<1>7. ASSUME NEW i \in 1..Len(g.nodes), NEW j \in 1..Len(g.nodes), g.nodes[i] = g.nodes[j]
      PROVE  i = j
    <2>1. (i \in 1..k \/ i \in (k + 1)..(k + n)) /\ (j \in 1..k \/ j \in (k + 1)..(k + n))
        BY <1>3, <1>4
    <2>2. CASE i \in 1..k
        <3>1. g.nodes[i] = <<"o", i>>
            BY <1>4, <2>2
        <3>2. j \in (k + 1)..(k + n) => g.nodes[j] = <<"p", j - k>>
            BY <1>4
        <3>3. j \in 1..k => g.nodes[j] = <<"o", j>>
            BY <1>4
        <3> QED BY <1>7, <2>1, <3>1, <3>2, <3>3
    <2>3. CASE i \in (k + 1)..(k + n)
        <3>1. g.nodes[i] = <<"p", i - k>>
            BY <1>4, <2>3
        <3>2. j \in (k + 1)..(k + n) => g.nodes[j] = <<"p", j - k>>
            BY <1>4
        <3>3. j \in 1..k => g.nodes[j] = <<"o", j>>
            BY <1>4
        <3>4. j \in (k + 1)..(k + n) /\ i - k = j - k
            BY <1>7, <2>1, <3>1, <3>2, <3>3
        <3> QED BY <1>3, <2>3, <3>4
    <2> QED BY <2>1, <2>2, <2>3
<1>8. ASSUME NEW e \in g.edges, NEW id \in {e[1], e[2]}
      PROVE  \E i \in 1..Len(g.nodes) : g.nodes[i] = id
    <2>1. CASE e \in Chain(before)
        <3>1. PICK i \in 2..k : e = <<before[i - 1], before[i]>>
            BY <1>1, <2>1 DEF Chain
        <3>2. i \in 1..k /\ i - 1 \in 1..k
            BY <1>3
        <3>3. e[1] = <<"o", i - 1>> /\ e[2] = <<"o", i>>
            BY <1>1, <3>1, <3>2
        <3> QED BY <1>5, <1>8, <3>2, <3>3
    <2>2. CASE e \in Chain(after)
        <3>1. PICK i \in 2..n : e = <<after[i - 1], after[i]>>
            BY <1>1, <2>2 DEF Chain
        <3>2. i \in 1..n /\ i - 1 \in 1..n
            BY <1>3
        <3>3. e[1] = <<"p", i - 1>> /\ e[2] = <<"p", i>>
            BY <1>1, <3>1, <3>2
        <3> QED BY <1>6, <1>8, <3>2, <3>3
    <2>3. CASE e \in PatchEdge(rows, step)
        <3>1. e[1] = <<"o", step>> /\ e[2] = <<"p", step>>
            BY <2>3 DEF PatchEdge
        <3>2. step \in 1..k /\ step \in 1..n
            BY <2>3 DEF k, n
        <3> QED BY <1>5, <1>6, <1>8, <3>1, <3>2
    <2> QED BY <1>2, <1>8, <2>1, <2>2, <2>3
<1> QED BY <1>7, <1>8 DEF DrawnWhole

GraphInv == LookupInv /\ PrefixInv /\ ReachInv

LEMMA GraphInvariant == Spec => [](LiveOK /\ ReplayOK /\ FidelityInv /\ GraphInv)
<1>1. Init => GraphInv
    BY LookupInit, PrefixInit, ReachInit DEF GraphInv
<1>2. LiveOK /\ ReplayOK /\ GraphInv /\ [Next]_allvars => GraphInv'
    BY LookupStep, PrefixStep, ReachStep DEF GraphInv
<1> QED BY <1>1, <1>2, FidelityInvariant, PTL DEF Spec

(* Whatever of a trace the console shows, it draws the whole graph of it    *)
(* and of a replay whose patch is the first lookup shown: a replay that has *)
(* any event gets to the lookup, however short or incomplete the trace.     *)
THEOREM GraphIsWholeCorrect == Spec => []GraphIsWhole
<1>1. ASSUME LiveOK, ReplayOK, FidelityInv, GraphInv PROVE GraphIsWhole
    <2> SUFFICES ASSUME stage = "over", mode = "exploratory", patch.kind = "tool", NEW g \in Graphs
                 PROVE  DrawnWhole(g)
        BY DEF GraphIsWhole, DrawnWhole
    <2>1. PICK k \in 1..Len(trace) : /\ pickFirstToolStep(SubSeq(trace, 1, k)) = patch.step
                                     /\ g = buildGraph(SubSeq(trace, 1, k), events, patch.step)
        BY DEF Graphs
    <2>2. /\ Len(trace) \in Nat /\ \A i \in 1..Len(trace) : trace[i] \in RecordedStep /\ trace[i].index = i
          /\ Len(events) \in Nat /\ \A i \in 1..Len(events) : events[i].index = i
        BY <1>1, LenProperties, ElementOfSeq, AppendIsSeq DEF LiveOK, Numbered, ReplayOK, EventsOK
    <2>3. PICK shown : shown = SubSeq(trace, 1, k)
        OBVIOUS
    <2>4. Len(shown) = k /\ \A i \in 1..k : shown[i] = trace[i]
        <3>1. k \in Int /\ 1 <= k /\ \A i \in 1..k : trace[i] \in RecordedStep
            BY <2>2
        <3>2. /\ Len(shown) = k - 1 + 1
              /\ \A i \in 1..(k - 1 + 1) : shown[i] = trace[1 + i - 1]
            BY <2>3, <3>1, SubSeqProperties
        <3>3. k - 1 + 1 = k /\ \A i \in 1..k : 1 + i - 1 = i
            BY <3>1
        <3> QED BY <3>2, <3>3
    <2>5. \A i \in 1..Len(shown) : shown[i].index = i
        BY <2>2, <2>4
    <2>6. ASSUME PatchEdge(events, patch.step) # {}
          PROVE  patch.step \in 1..Len(shown) /\ patch.step \in 1..Len(events)
        <3>1. Len(events) >= 1 /\ patch.step # Nil
            BY <2>2, <2>6, EmptySeq DEF PatchEdge
        <3> DEFINE lookups == {i \in 1..Len(shown) : shown[i].type = "tool" /\ shown[i].tool = Lookup}
        <3>2. lookups # {} /\ patch.step = shown[CHOOSE i \in lookups : \A j \in lookups : i <= j].index
            BY <2>1, <2>3, <3>1 DEF pickFirstToolStep
        <3>3. lookups \subseteq 1..2 /\ \A i \in lookups : IsLookup(trace[i]) /\ i \in 1..Len(trace)
            <4>1. ASSUME NEW i \in lookups PROVE IsLookup(trace[i]) /\ i \in 1..Len(trace)
                BY <2>2, <2>4 DEF IsLookup
            <4> QED BY <1>1, <4>1 DEF GraphInv, LookupInv
        <3> HIDE DEF lookups
        <3>4. \E i \in lookups : \A j \in lookups : i <= j
            BY <3>2, <3>3
        <3>5. PICK m \in lookups : m = CHOOSE i \in lookups : \A j \in lookups : i <= j
            BY <3>4
        <3>6. patch.step = m /\ m \in 1..Len(shown) /\ m \in {1, 2} /\ IsLookup(trace[m]) /\ m \in 1..Len(trace)
            <4>1. m \in 1..Len(shown)
                BY DEF lookups
            <4>2. m \in {1, 2}
                BY <3>3, SMT
            <4>3. patch.step = shown[m].index
                BY <3>2, <3>5, Zenon
            <4> QED BY <2>5, <3>3, <4>1, <4>2, <4>3
        <3>7. CASE m = 1
            BY <2>2, <3>1, <3>6, <3>7
        <3>8. CASE m = 2
            <4>1. /\ live.initial \in InitialDecision /\ trace[2].candidate = live.initial.board
                  /\ trace[1] = FirstRow(1, live, early)
                BY <1>1, <3>6, <3>8 DEF GraphInv, LookupInv, Opening
            <4>2. Len(steps) \in Nat /\ 2 \in 1..Len(steps)
                BY <1>1, <3>6, <3>8, CursorIs DEF FidelityInv, PatchFits
            <4>3. steps[1] = trace[1] /\ steps[2] = trace[2] /\ Len(steps) >= 2
                BY <1>1, <4>2 DEF GraphInv, PrefixInv
            <4>4. LedToLookup(live.initial)
                BY <3>6, <3>8, <4>1, <4>3 DEF LedToLookup, FirstRow
            <4>5. Reached
                BY <1>1, <4>1, <4>4 DEF GraphInv, ReachInv
            <4>6. agent.pc \in {"completed", "failed"}
                BY <1>1 DEF FidelityInv, OverInv, Ended
            <4>7. Len(events) >= 2
                BY <4>5, <4>6 DEF Reached
            <4> QED BY <2>2, <3>6, <3>8, <4>7
        <3> QED BY <3>6, <3>7, <3>8
    <2>7. Len(shown) \in Nat /\ g = buildGraph(shown, events, patch.step)
        BY <2>1, <2>3, <2>4
    <2> QED BY <2>2, <2>5, <2>6, <2>7, ColumnsAreWhole
<1> QED BY <1>1, GraphInvariant, PTL
=============================================================================
