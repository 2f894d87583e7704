-------------------------- MODULE ReplayHarnessProofs --------------------------
(***************************************************************************)
(* What TLAPS proves of the workflow and of the harness that replays it,    *)
(* whatever runs beside them: their types, and how many steps, events and   *)
(* model calls belong to each stage of an execution.                        *)
(***************************************************************************)
EXTENDS ReplayHarness, SequenceTheorems, TLAPS

(* The events are a sequence; of what, the invariant does not need to say.  *)
IsSequence(s) == \E S : s \in Seq(S)

LEMMA AppendIsSeq ==
    ASSUME NEW s, NEW e, IsSequence(s)
    PROVE  /\ IsSequence(Append(s, e))
           /\ Len(Append(s, e)) = Len(s) + 1
           /\ \A i \in 1..Len(s) : Append(s, e)[i] = s[i]
           /\ Append(s, e)[Len(s) + 1] = e
           /\ Len(s) \in Nat
<1>1. PICK S : s \in Seq(S) BY DEF IsSequence
<1>2. s \in Seq(S \cup {e}) BY <1>1, SeqMonotonic
<1>3. e \in S \cup {e} OBVIOUS
<1>4. Len(s) \in Nat BY <1>1, LenProperties
<1>5. /\ Append(s, e) \in Seq(S \cup {e})
      /\ Len(Append(s, e)) = Len(s) + 1
      /\ \A i \in 1..Len(s) : Append(s, e)[i] = s[i]
      /\ Append(s, e)[Len(s) + 1] = e
  BY <1>2, <1>3, AppendProperties
<1> QED BY <1>4, <1>5 DEF IsSequence

(* An execution has what its stage needs, and no more than it has learned.  *)
WellFormed(x) ==
    /\ x \in Execution
    /\ x.pc = "initial" => x = Begun
    /\ x.pc \in {"lookup", "final", "write", "completed"} => x.initial \in InitialDecision
    /\ x.pc \in {"final", "write", "completed"} => x.lookup \in Response /\ x.lookup.kind # "text"
    /\ x.pc \in {"lookup", "final"} => x.final = Nil
    /\ x.pc \in {"write", "completed"} =>
          x.final \in FinalDecision /\ (x.final.tool = "stop" \/ Usable(x.final))
    /\ x.pc = "write" => x.final.tool \in WriteTool

Numbered(rows) == rows \in Seq(RecordedStep) /\ \A i \in 1..Len(rows) : rows[i].index = i

LEMMA BegunOK == WellFormed(Begun)
BY DEF Begun, WellFormed, Execution, Pc

LEMMA FailOK ==
    ASSUME NEW x, WellFormed(x)
    PROVE  /\ WellFormed(Fail(x))
           /\ Fail(x).pc = "failed" /\ Fail(x).initial = x.initial
           /\ Fail(x).lookup = x.lookup /\ Fail(x).final = x.final
BY DEF WellFormed, Fail, Execution, Pc

(* The three outcomes of a decision.                                        *)
LEMMA DecisionOK ==
    ASSUME NEW x, WellFormed(x), x.pc \in {"initial", "final"}, NEW said
    PROVE  /\ WellFormed(AfterDecision(x, said))
           /\ ~Parses(x, said) => AfterDecision(x, said) = Fail(x)
           /\ Parses(x, said) /\ x.pc = "initial" =>
                 /\ said \in InitialDecision
                 /\ AfterDecision(x, said).pc = "lookup" /\ AfterDecision(x, said).initial = said
                 /\ AfterDecision(x, said).lookup = Nil /\ AfterDecision(x, said).final = Nil
           /\ Parses(x, said) /\ x.pc = "final" =>
                 /\ said \in FinalDecision
                 /\ AfterDecision(x, said).initial = x.initial
                 /\ AfterDecision(x, said).lookup = x.lookup
                 /\ AfterDecision(x, said).final = said
                 /\ AfterDecision(x, said).pc = IF said.tool = "stop" THEN "completed"
                                                ELSE IF Usable(said) THEN "write" ELSE "failed"
<1> DEFINE y == AfterDecision(x, said)
<1>1. CASE ~Parses(x, said)
    BY <1>1, FailOK DEF AfterDecision
<1>2. CASE Parses(x, said) /\ x.pc = "initial"
    <2>1. said \in InitialDecision /\ x = Begun
        BY <1>2 DEF Parses, WellFormed
    <2>2. y = [pc |-> "lookup", initial |-> said, lookup |-> Nil, final |-> Nil]
        BY <1>2, <2>1 DEF AfterDecision, Begun
    <2> QED BY <1>2, <2>1, <2>2 DEF WellFormed, Execution, Pc
<1>3. CASE Parses(x, said) /\ x.pc = "final"
    <2>1. said \in FinalDecision
        BY <1>3 DEF Parses
    <2> DEFINE pc == IF said.tool = "stop" THEN "completed" ELSE IF Usable(said) THEN "write" ELSE "failed"
    <2>2. y = [pc |-> pc, initial |-> x.initial, lookup |-> x.lookup, final |-> said]
        BY <1>3 DEF AfterDecision, WellFormed, Execution
    <2>3. x.initial \in InitialDecision /\ x.lookup \in Response /\ x.lookup.kind # "text"
        BY <1>3 DEF WellFormed
    <2>4. said.tool = "stop" \/ said.tool \in WriteTool
        BY <2>1 DEF FinalDecision
    <2> QED BY <1>3, <2>1, <2>2, <2>3, <2>4 DEF WellFormed, Execution, Pc
<1> QED BY <1>1, <1>2, <1>3

LEMMA CallOK ==
    ASSUME NEW x, WellFormed(x), Calling(x), NEW response \in Response
    PROVE  /\ WellFormed(AfterCall(x, response))
           /\ x.pc = "write" =>
                 AfterCall(x, response) = [pc |-> "completed", initial |-> x.initial, lookup |-> x.lookup, final |-> x.final]
           /\ x.pc = "lookup" /\ response.kind = "text" => AfterCall(x, response) = Fail(x)
           /\ x.pc = "lookup" /\ response.kind # "text" =>
                 AfterCall(x, response) = [pc |-> "final", initial |-> x.initial, lookup |-> response, final |-> Nil]
<1>1. CASE x.pc = "write"
    BY <1>1 DEF WellFormed, AfterCall, Execution, Pc
<1>2. CASE x.pc = "lookup" /\ response.kind = "text"
    BY <1>2, FailOK DEF AfterCall
<1>3. CASE x.pc = "lookup" /\ response.kind # "text"
    BY <1>3 DEF WellFormed, AfterCall, Execution, Pc
<1> QED BY <1>1, <1>2, <1>3 DEF Calling

LEMMA CallIs ==
    ASSUME NEW x, WellFormed(x), Calling(x)
    PROVE  /\ ToolOf(x) \in Tool /\ ParamsOf(x) \in Params /\ Candidate(x) \in Board \cup {Nil}
           /\ x.pc = "lookup" => ToolOf(x) = Lookup /\ ParamsOf(x) = NoParams
           /\ x.pc = "write" => /\ ToolOf(x) = x.final.tool /\ ToolOf(x) \in WriteTool
                                /\ ParamsOf(x) = [board |-> x.final.board, priority |-> x.final.priority]
BY DEF Calling, WellFormed, ToolOf, ParamsOf, Candidate, Tool, Params, NoParams, InitialDecision, FinalDecision
-----------------------------------------------------------------------------
LEMMA LlmRowOK ==
    ASSUME NEW x, WellFormed(x), NEW said \in InitialDecision \cup FinalDecision \cup {Garbled}, NEW i \in Int
    PROVE  LlmRow(i, x, said) \in RecordedStep
BY DEF LlmRow, Prompt, RecordedStep, LlmStep, WellFormed, Execution

LEMMA ToolRowOK ==
    ASSUME NEW x, WellFormed(x), Calling(x), NEW response \in Response, NEW i \in Int
    PROVE  ToolRow(i, x, response) \in RecordedStep
BY CallIs DEF ToolRow, RecordedStep, ToolStep

(* The store numbers a step; all else of it stays.                          *)
LEMMA Renumbered ==
    ASSUME NEW row \in RecordedStep, NEW n \in Int
    PROVE  LET new == [row EXCEPT !.index = n]
           IN  /\ new \in RecordedStep /\ new.index = n /\ new.type = row.type
               /\ row.type = "llm" => new = [index |-> n, type |-> "llm", says |-> row.says, prompt |-> row.prompt]
               /\ row.type = "tool" => new = [index |-> n, type |-> "tool", tool |-> row.tool, params |-> row.params,
                                              response |-> row.response, candidate |-> row.candidate]
<1>1. CASE row \in LlmStep
    BY <1>1 DEF RecordedStep, LlmStep
<1>2. CASE row \in ToolStep
    BY <1>2 DEF RecordedStep, ToolStep
<1> QED BY <1>1, <1>2 DEF RecordedStep

LEMMA RowHas ==
    ASSUME NEW row \in RecordedStep
    PROVE  /\ row.type = "llm" \/ row.type = "tool"
           /\ row.type = "llm" => row \in LlmStep /\ row.says \in InitialDecision \cup FinalDecision \cup {Garbled}
           /\ row.type = "tool" => /\ row \in ToolStep /\ row.tool \in Tool /\ row.params \in Params
                                   /\ row.response \in Response /\ row.candidate \in Board \cup {Nil}
BY DEF RecordedStep, LlmStep, ToolStep

LEMMA AppendNumbered ==
    ASSUME NEW rows, Numbered(rows), NEW row \in RecordedStep
    PROVE  LET new == Append(rows, [row EXCEPT !.index = Len(rows) + 1])
           IN  /\ Numbered(new) /\ Len(rows) \in Nat /\ Len(new) = Len(rows) + 1
               /\ \A i \in 1..Len(rows) : new[i] = rows[i]
               /\ new[Len(rows) + 1] = [row EXCEPT !.index = Len(rows) + 1]
<1> DEFINE r == [row EXCEPT !.index = Len(rows) + 1]
<1>1. Len(rows) \in Nat /\ rows \in Seq(RecordedStep)
    BY LenProperties DEF Numbered
<1>2. r \in RecordedStep /\ r.index = Len(rows) + 1
    <2> PICK n \in Int : n = Len(rows) + 1
        BY <1>1
    <2>1. [row EXCEPT !.index = n] \in RecordedStep /\ [row EXCEPT !.index = n].index = n
        BY Renumbered
    <2> QED BY <2>1
<1> HIDE DEF r
<1>3. /\ Append(rows, r) \in Seq(RecordedStep) /\ Len(Append(rows, r)) = Len(rows) + 1
      /\ \A i \in 1..Len(rows) : Append(rows, r)[i] = rows[i]
      /\ Append(rows, r)[Len(rows) + 1] = r
    BY <1>1, <1>2, AppendProperties
<1>4. Numbered(Append(rows, r))
    BY <1>1, <1>2, <1>3 DEF Numbered
<1> QED BY <1>1, <1>3, <1>4 DEF r
LEMMA DecisionsDiffer == InitialDecision \cap FinalDecision = {}
<1> SUFFICES ASSUME NEW d \in InitialDecision, d \in FinalDecision PROVE FALSE
    OBVIOUS
<1>1. DOMAIN d = {"board", "recovered"}
    BY DEF InitialDecision
<1>2. DOMAIN d = {"tool", "board", "priority"}
    BY DEF FinalDecision
<1>3. "tool" # "board" /\ "tool" # "recovered"
    OBVIOUS
<1> QED BY <1>1, <1>2, <1>3

-----------------------------------------------------------------------------
(* How many recorded steps an execution has consumed, and how often it may  *)
(* have asked the model, at each stage.                                     *)
Consumed(pc) == CASE pc = "initial"   -> {0}
                  [] pc = "lookup"    -> {1}
                  [] pc = "final"     -> {2}
                  [] pc = "write"     -> {3}
                  [] pc = "completed" -> {3, 4}
                  [] pc = "failed"    -> 1..4

Asked(pc) == CASE pc = "initial"            -> {0}
               [] pc \in {"lookup", "final"} -> 0..1
               [] OTHER                     -> 0..2

(* The events are those of the consumed steps, in their places; a model     *)
(* call that raised left none, and ended the execution.                     *)
EventsOK == /\ IsSequence(events)
            /\ agent.pc # "failed" => Len(events) = cursor
            /\ Len(events) <= cursor
            /\ \A i \in 1..Len(events) : events[i].index = i /\ events[i].source \in Source

ReplayOK == /\ WellFormed(agent)
            /\ Numbered(steps)
            /\ stage \in {"idle", "running", "over", "rejected", "failed"}
            /\ mode \in {"strict", "exploratory"} /\ patch \in Patch \cup {Nil}
            /\ mode = "exploratory" => patch \in Patch
            /\ stage \in {"idle", "rejected"} => agent = Begun /\ mode = "strict"
            /\ cursor \in Consumed(agent.pc)
            /\ modelCalls \in Asked(agent.pc)
            /\ EventsOK

LEMMA CursorIs ==
    ASSUME ReplayOK
    PROVE  /\ cursor \in Nat /\ modelCalls \in Nat
           /\ EventIndex = cursor + 1
           /\ HasExpected => Expected = steps[cursor + 1] /\ cursor + 1 \in 1..Len(steps) /\ Expected \in RecordedStep
           /\ HasNext => NextStep = steps[cursor + 2] /\ cursor + 2 \in 1..Len(steps) /\ NextStep \in RecordedStep
           /\ Len(steps) \in Nat
<1>1. cursor \in Nat /\ modelCalls \in Nat
    BY DEF ReplayOK, Consumed, Asked, WellFormed, Execution, Pc
<1>2. Len(steps) \in Nat /\ \A i \in 1..Len(steps) : steps[i] \in RecordedStep /\ steps[i].index = i
    BY LenProperties, ElementOfSeq DEF ReplayOK, Numbered
<1> QED BY <1>1, <1>2 DEF EventIndex, HasExpected, Expected, HasNext, NextStep

LEMMA PatchIs ==
    ASSUME ReplayOK, mode = "exploratory"
    PROVE  /\ patch.step \in Int /\ patch.kind \in {"response", "prompt", "tool"}
           /\ patch.kind = "tool" => patch.response \in Response
BY PatchAssumption DEF ReplayOK, PatchForm

(* A decision of a replay: one event, or a model call that raised.          *)
LEMMA DecideIs ==
    ASSUME Decide
    PROVE  /\ stage = "running" /\ agent.pc \in {"initial", "final"} /\ cursor' = cursor + 1
           /\ UNCHANGED <<trace, stage, steps, mode, patch, blocks>>
           /\ modelCalls' \in {modelCalls, modelCalls + 1}
           /\ \/ \E source \in Source : \E said, isLive, patched, matched :
                    Decided(said, source, isLive, patched, matched)
              \/ agent' = Fail(agent) /\ UNCHANGED events
BY DEF Decide, FromRecording, FromPatch, FromModel, Source

LEMMA RecordedResponseOK == ASSUME ReplayOK PROVE RecordedResponse \in Response
<1>1. CASE ~HasExpected \/ Expected.type = "llm"
    BY <1>1 DEF RecordedResponse, Response
<1>2. CASE HasExpected /\ Expected.type # "llm"
    BY <1>2, CursorIs, RowHas DEF RecordedResponse
<1> QED BY <1>1, <1>2

LEMMA SimulatedOK ==
    ASSUME NEW response \in Response, NEW params \in Params
    PROVE  Simulated(response, params) \in Response
BY DEF Simulated, Response, Params

LEMMA ServedIs ==
    ASSUME ReplayOK, CallTool
    PROVE  /\ stage = "running" /\ Calling(agent) /\ cursor' = cursor + 1
           /\ UNCHANGED <<trace, stage, steps, mode, patch, modelCalls>>
           /\ \E response \in Response, source \in Source : \E patched : Served(response, source, patched)
<1>1. ParamsOf(agent) \in Params
    BY CallIs DEF CallTool, ReplayOK
<1>2. IsPatchTarget({"tool"}) => patch.response \in Response
    BY PatchIs DEF IsPatchTarget
<1>3. RecordedResponse \in Response /\ Simulated(RecordedResponse, ParamsOf(agent)) \in Response
    BY <1>1, RecordedResponseOK, SimulatedOK
<1>4. \E response \in Response, source \in Source : \E patched : Served(response, source, patched)
    BY <1>2, <1>3 DEF CallTool, Source
<1> QED BY <1>4 DEF CallTool

(* An event appended in its place.                                          *)
LEMMA AppendEventOK ==
    ASSUME ReplayOK, agent.pc # "failed", cursor' = cursor + 1,
           NEW e, events' = Append(events, e), e.index = EventIndex, e.source \in Source
    PROVE  EventsOK'
<1>1. /\ IsSequence(events') /\ Len(events') = Len(events) + 1 /\ Len(events) \in Nat
      /\ \A i \in 1..Len(events) : events'[i] = events[i]
      /\ events'[Len(events) + 1] = e
    BY AppendIsSeq DEF ReplayOK, EventsOK
<1>2. Len(events) = cursor /\ EventIndex = cursor + 1
    BY CursorIs DEF ReplayOK, EventsOK
<1> QED BY <1>1, <1>2 DEF ReplayOK, EventsOK

LEMMA DecideKeepsForm == ASSUME ReplayOK, Decide PROVE ReplayOK'
<1>1. /\ stage = "running" /\ agent.pc \in {"initial", "final"} /\ cursor' = cursor + 1
      /\ UNCHANGED <<trace, stage, steps, mode, patch, blocks>>
      /\ modelCalls' \in {modelCalls, modelCalls + 1}
    BY DecideIs
<1>2. /\ WellFormed(agent')
      /\ agent.pc = "initial" => agent'.pc \in {"lookup", "failed"}
      /\ agent.pc = "final" => agent'.pc \in {"completed", "write", "failed"}
    <2>1. WellFormed(agent)
        BY DEF ReplayOK
    <2>2. \E said : agent' = AfterDecision(agent, said) \/ agent' = Fail(agent)
        BY DecideIs DEF Decided
    <2> QED BY <1>1, <2>1, <2>2, DecisionOK, FailOK
<1>3. cursor' \in Consumed(agent'.pc) /\ modelCalls' \in Asked(agent'.pc)
    BY <1>1, <1>2 DEF ReplayOK, Consumed, Asked
<1>4. EventsOK'
    <2>1. CASE agent' = Fail(agent) /\ UNCHANGED events
        <3>1. agent'.pc = "failed" /\ Len(events) = cursor /\ cursor \in Nat
            BY <1>1, <2>1, FailOK, CursorIs DEF ReplayOK, EventsOK
        <3> QED BY <1>1, <2>1, <3>1 DEF ReplayOK, EventsOK
    <2>2. ASSUME NEW said, NEW source \in Source, NEW isLive, NEW patched, NEW matched,
                 Decided(said, source, isLive, patched, matched)
          PROVE  EventsOK'
        <3> DEFINE e == Event("llm", Nil, source, isLive, patched, matched, said)
        <3>1. e.index = EventIndex /\ e.source = source /\ events' = Append(events, e)
            BY <2>2 DEF Decided, Event
        <3> HIDE DEF e
        <3> QED BY <1>1, <3>1, AppendEventOK
    <2> QED BY <2>1, <2>2, DecideIs
<1> QED BY <1>1, <1>2, <1>3, <1>4 DEF ReplayOK

LEMMA CallKeepsForm == ASSUME ReplayOK, CallTool PROVE ReplayOK'
<1>1. /\ stage = "running" /\ Calling(agent) /\ cursor' = cursor + 1
      /\ UNCHANGED <<trace, stage, steps, mode, patch, modelCalls>>
    BY ServedIs
<1>2. PICK response \in Response, source \in Source : \E patched : Served(response, source, patched)
    BY ServedIs
<1>3. PICK patched : Served(response, source, patched)
    BY <1>2
<1>4. /\ WellFormed(agent')
      /\ agent.pc = "lookup" => agent'.pc \in {"final", "failed"}
      /\ agent.pc = "write" => agent'.pc = "completed"
    BY <1>1, <1>3, CallOK, FailOK DEF ReplayOK, Served
<1>5. cursor' \in Consumed(agent'.pc) /\ modelCalls' \in Asked(agent'.pc)
    BY <1>1, <1>4 DEF ReplayOK, Consumed, Asked, Calling
<1>6. EventsOK'
    <2> DEFINE e == Event("tool", ToolOf(agent), source, FALSE, patched, CallMatches,
                          [params |-> ParamsOf(agent), response |-> response, allowed |-> ~Blocked(ToolOf(agent))])
    <2>1. e.index = EventIndex /\ e.source = source /\ events' = Append(events, e) /\ agent.pc # "failed"
        BY <1>1, <1>3 DEF Served, Event, Calling
    <2> HIDE DEF e
    <2> QED BY <1>1, <2>1, AppendEventOK
<1> QED BY <1>1, <1>4, <1>5, <1>6 DEF ReplayOK

LEMMA ReplayInitOK == ReplayInit => ReplayOK
<1> SUFFICES ASSUME ReplayInit PROVE ReplayOK
    OBVIOUS
<1>1. Numbered(<<>>) /\ Len(<<>>) = 0
    BY EmptySeq DEF Numbered
<1>2. EventsOK
    BY <1>1, EmptySeq DEF ReplayInit, EventsOK, IsSequence, Begun
<1>3. cursor \in Consumed(agent.pc) /\ modelCalls \in Asked(agent.pc)
    BY DEF ReplayInit, Begun, Consumed, Asked
<1> QED BY <1>1, <1>2, <1>3, BegunOK DEF ReplayInit, ReplayOK

LEMMA StartKeepsForm ==
    ASSUME ReplayOK, Numbered(trace), NEW m, NEW p, StartReplay(m, p),
           (m = "strict" /\ p = Nil) \/ (m = "exploratory" /\ p \in Patch)
    PROVE  ReplayOK'
BY DEF StartReplay, ReplayOK, EventsOK
=============================================================================
