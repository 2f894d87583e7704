------------------------ MODULE RegressionRerunProofs ------------------------
(***************************************************************************)
(* What TLAPS proves of a regression test and its rerun, for every recorded *)
(* run, patch and vocabulary.                                               *)
(***************************************************************************)
EXTENDS RegressionRerun, ReplayHarnessProofs, FiniteSetTheorems

(* What is chosen from a few positions, in their order.                     *)
LEMMA InOrderIs ==
    ASSUME NEW evs
    PROVE  /\ InOrder(evs, {}) = <<>>
           /\ \A a \in Int : InOrder(evs, {a}) = <<evs[a]>>
           /\ \A a, b \in Int : a < b => InOrder(evs, {a, b}) = <<evs[a], evs[b]>>
<1> DEFINE Nth(S, n) == CHOOSE i \in S : Cardinality({j \in S : j < i}) = n - 1
<1>1. InOrder(evs, {}) = <<>>
    <2>1. Cardinality({}) = 0
        BY FS_EmptySet
    <2> QED BY <2>1 DEF InOrder
<1>2. ASSUME NEW a \in Int PROVE InOrder(evs, {a}) = <<evs[a]>>
    <2>1. Cardinality({a}) = 1
        BY FS_Singleton
    <2>2. {j \in {a} : j < a} = {} /\ Cardinality({}) = 0
        BY FS_EmptySet
    <2>3. Nth({a}, 1) = a
        BY <2>2
    <2> HIDE DEF Nth
    <2>4. InOrder(evs, {a}) = [n \in 1..1 |-> evs[Nth({a}, n)]]
        BY <2>1 DEF InOrder, Nth
    <2> QED BY <2>3, <2>4
<1>3. ASSUME NEW a \in Int, NEW b \in Int, a < b PROVE InOrder(evs, {a, b}) = <<evs[a], evs[b]>>
    <2>1. Cardinality({a, b}) = 2 /\ Cardinality({a}) = 1 /\ Cardinality({}) = 0
        <3>1. IsFiniteSet({a}) /\ Cardinality({a}) = 1
            BY FS_Singleton
        <3>2. b \notin {a} /\ {a} \cup {b} = {a, b}
            BY <1>3
        <3>3. Cardinality({a} \cup {b}) = Cardinality({a}) + 1
            BY <3>1, <3>2, FS_AddElement
        <3> QED BY <3>1, <3>2, <3>3, FS_EmptySet
    <2>2. {j \in {a, b} : j < a} = {} /\ {j \in {a, b} : j < b} = {a}
        BY <1>3
    <2>3. Nth({a, b}, 1) = a /\ Nth({a, b}, 2) = b
        <3>1. \A i \in {a, b} : Cardinality({j \in {a, b} : j < i}) = IF i = a THEN 0 ELSE 1
            BY <1>3, <2>1, <2>2
        <3> QED BY <1>3, <3>1
    <2> HIDE DEF Nth
    <2>4. InOrder(evs, {a, b}) = [n \in 1..2 |-> evs[Nth({a, b}, n)]]
        BY <2>1 DEF InOrder, Nth
    <2> QED BY <2>3, <2>4
<1> QED BY <1>1, <1>2, <1>3
-----------------------------------------------------------------------------
(* The events of an exploratory replay of some rows: a decision, the lookup, *)
(* a decision and a write, as far as the execution x has come.              *)

(* What is served to a call at a place of the trace.                        *)
RecordedAt(rows, n) ==
    IF n > Len(rows) THEN [kind |-> "none", board |-> Nil]
    ELSE IF rows[n].type = "llm" THEN [kind |-> "envelope", board |-> Nil]
    ELSE rows[n].response

ServedAt(rows, p, n, params) ==
    IF p.step = n /\ p.kind = "tool" THEN p.response
    ELSE IF n > p.step THEN Simulated(RecordedAt(rows, n), params) ELSE RecordedAt(rows, n)

(* The final decision the recording shows, if it shows one.                 *)
ShownFinal(rows) ==
    IF rows[3].type = "llm" /\ rows[3].says \in FinalDecision THEN rows[3].says
    ELSE [tool |-> rows[4].tool, board |-> rows[4].params.board, priority |-> rows[4].params.priority]

Undecided(d) == d \notin FinalDecision \/ (d.tool # "stop" /\ ~Usable(d))

AskedFor(d) == [board |-> d.board, priority |-> d.priority]

InPlace(evs) ==
    /\ IsSequence(evs) /\ Len(evs) \in 0..4
    /\ \A i \in 1..Len(evs) : evs[i].index = i /\ evs[i].type = IF i \in {1, 3} THEN "llm" ELSE "tool"
    /\ Len(evs) >= 2 => evs[2].tool = Lookup

RunForm(evs, x, rows, p) ==
    /\ InPlace(evs)
    /\ x.pc = "failed" => Len(evs) <= 2 \/ (Len(evs) = 3 /\ Undecided(evs[3].data))
    /\ x.pc \in {"write", "completed"} =>
          /\ Len(evs) >= 3 /\ evs[3].data = x.final
          /\ p.step >= 4 => x.final = ShownFinal(rows)
    /\ x.pc = "completed" => Len(evs) = IF x.final.tool = "stop" THEN 3 ELSE 4
    /\ Len(evs) = 4 =>
          /\ x.pc = "completed" /\ evs[4].tool = x.final.tool
          /\ evs[4].data.params = AskedFor(x.final)
          /\ evs[4].data.response \in Response
          /\ evs[4].data.response = ServedAt(rows, p, 4, AskedFor(x.final))

LEMMA MapLen ==
    ASSUME NEW s, Len(s) \in Nat
    PROVE  Len([i \in 1..Len(s) |-> s[i].data]) = Len(s)
<1>1. \A n \in Nat : Len([i \in 1..n |-> s[i].data]) = n
    OBVIOUS
<1> QED BY <1>1

(* The lists that are taken of such events.                                 *)
LEMMA ListsAre ==
    ASSUME NEW evs, InPlace(evs)
    PROVE  /\ Len(evs) <= 2 => Len(Answers(evs)) <= 1
           /\ Len(evs) >= 3 => Answers(evs) = <<evs[1].data, evs[3].data>>
           /\ Len(evs) = 3 => /\ ToolSequence(evs) = <<<<2, Lookup>>>>
                              /\ FinalBoard(evs) = Nil /\ Written(evs) = <<>>
           /\ Len(evs) = 4 => ToolSequence(evs) = <<<<2, Lookup>>, <<4, evs[4].tool>>>>
           /\ Len(evs) = 4 /\ evs[4].tool \in WriteTool =>
                 /\ Written(evs) = <<<<evs[4].tool, evs[4].data.params.board>>>>
                 /\ FinalBoard(evs) = IF evs[4].data.response.board # Nil THEN evs[4].data.response.board
                                      ELSE evs[4].data.params.board
<1>1. /\ Len(evs) \in 0..4
      /\ \A i \in 1..Len(evs) : evs[i].index = i /\ evs[i].type = IF i \in {1, 3} THEN "llm" ELSE "tool"
      /\ Len(evs) >= 2 => evs[2].tool = Lookup
    BY DEF InPlace
<1> DEFINE llm    == {i \in 1..Len(evs) : evs[i].type = "llm"}
           tool   == {i \in 1..Len(evs) : evs[i].type = "tool"}
           writes == {i \in 1..Len(evs) : evs[i].type = "tool" /\ evs[i].tool \in WriteTool}
<1>2. /\ OfType(evs, "llm") = InOrder(evs, llm) /\ OfType(evs, "tool") = InOrder(evs, tool)
      /\ Writes(evs) = InOrder(evs, writes)
    BY DEF OfType, Writes
<1>3. /\ InOrder(evs, {}) = <<>> /\ InOrder(evs, {1}) = <<evs[1]>>
      /\ InOrder(evs, {2}) = <<evs[2]>> /\ InOrder(evs, {4}) = <<evs[4]>>
      /\ InOrder(evs, {1, 3}) = <<evs[1], evs[3]>> /\ InOrder(evs, {2, 4}) = <<evs[2], evs[4]>>
    <2>1. {1, 2, 3, 4} \subseteq Int /\ 1 < 3 /\ 2 < 4
        OBVIOUS
    <2> QED BY <2>1, InOrderIs
<1>4. Len(evs) <= 2 => Len(Answers(evs)) <= 1
    <2> SUFFICES ASSUME Len(evs) <= 2 PROVE Len(Answers(evs)) <= 1
        OBVIOUS
    <2>1. llm = {} \/ llm = {1}
        BY <1>1
    <2>2. PICK said : said = OfType(evs, "llm")
        OBVIOUS
    <2>3. said = <<>> \/ said = <<evs[1]>>
        <3>1. said = InOrder(evs, llm)
            BY <1>2, <2>2
        <3> HIDE DEF llm
        <3>2. CASE llm = {}
            BY <1>3, <3>1, <3>2
        <3>3. CASE llm = {1}
            BY <1>3, <3>1, <3>3
        <3> QED BY <2>1, <3>2, <3>3
    <2>4. Answers(evs) = [i \in 1..Len(said) |-> said[i].data]
        BY <2>2 DEF Answers
    <2>5. CASE said = <<>>
        <3>1. Len(said) = 0
            BY <2>5
        <3> QED BY <2>4, <3>1, MapLen
    <2>6. CASE said = <<evs[1]>>
        <3>1. Len(said) = 1
            BY <2>6
        <3> QED BY <2>4, <3>1, MapLen
    <2> QED BY <2>3, <2>5, <2>6
<1>5. Len(evs) >= 3 => Answers(evs) = <<evs[1].data, evs[3].data>>
    <2> SUFFICES ASSUME Len(evs) >= 3 PROVE Answers(evs) = <<evs[1].data, evs[3].data>>
        OBVIOUS
    <2>1. llm = {1, 3}
        BY <1>1
    <2>2. OfType(evs, "llm") = <<evs[1], evs[3]>>
        BY <2>1, <1>2, <1>3
    <2>3. PICK said : said = OfType(evs, "llm")
        OBVIOUS
    <2>4. Len(said) = 2 /\ said[1] = evs[1] /\ said[2] = evs[3]
        BY <2>2, <2>3
    <2>5. Answers(evs) = [i \in 1..Len(said) |-> said[i].data]
        BY <2>3 DEF Answers
    <2>6. Answers(evs) = [i \in 1..2 |-> said[i].data]
        BY <2>4, <2>5
    <2> QED BY <2>4, <2>6
<1>6. Len(evs) = 3 => ToolSequence(evs) = <<<<2, Lookup>>>> /\ FinalBoard(evs) = Nil /\ Written(evs) = <<>>
    <2> SUFFICES ASSUME Len(evs) = 3
                 PROVE  ToolSequence(evs) = <<<<2, Lookup>>>> /\ FinalBoard(evs) = Nil /\ Written(evs) = <<>>
        OBVIOUS
    <2>1. tool = {2} /\ writes = {}
        BY <1>1 DEF Lookup, WriteTool
    <2>2. OfType(evs, "tool") = <<evs[2]>> /\ Writes(evs) = <<>>
        BY <2>1, <1>2, <1>3
    <2>3. evs[2].index = 2 /\ evs[2].tool = Lookup
        BY <1>1
    <2>4. ToolSequence(evs) = <<<<2, Lookup>>>>
        BY <2>2, <2>3 DEF ToolSequence
    <2>5. FinalBoard(evs) = Nil /\ Written(evs) = <<>>
        BY <2>2 DEF FinalBoard, Written
    <2> QED BY <2>4, <2>5
<1>7. Len(evs) = 4 => ToolSequence(evs) = <<<<2, Lookup>>, <<4, evs[4].tool>>>>
    <2> SUFFICES ASSUME Len(evs) = 4 PROVE ToolSequence(evs) = <<<<2, Lookup>>, <<4, evs[4].tool>>>>
        OBVIOUS
    <2>1. tool = {2, 4}
        BY <1>1
    <2>2. OfType(evs, "tool") = <<evs[2], evs[4]>>
        BY <2>1, <1>2, <1>3
    <2>3. evs[2].index = 2 /\ evs[2].tool = Lookup /\ evs[4].index = 4
        BY <1>1
    <2>4. PICK calls : calls = OfType(evs, "tool")
        OBVIOUS
    <2>5. Len(calls) = 2 /\ calls[1] = evs[2] /\ calls[2] = evs[4]
        BY <2>2, <2>4
    <2>6. ToolSequence(evs) = [i \in 1..Len(calls) |-> <<calls[i].index, calls[i].tool>>]
        BY <2>4 DEF ToolSequence
    <2>7. ToolSequence(evs) = [i \in 1..2 |-> <<calls[i].index, calls[i].tool>>]
        BY <2>5, <2>6
    <2> QED BY <2>3, <2>5, <2>7
<1>8. ASSUME Len(evs) = 4, evs[4].tool \in WriteTool
      PROVE  /\ Written(evs) = <<<<evs[4].tool, evs[4].data.params.board>>>>
             /\ FinalBoard(evs) = IF evs[4].data.response.board # Nil THEN evs[4].data.response.board
                                  ELSE evs[4].data.params.board
    <2>1. writes = {4}
        BY <1>1, <1>8 DEF Lookup, WriteTool
    <2>2. Writes(evs) = <<evs[4]>>
        BY <2>1, <1>2, <1>3
    <2> QED BY <2>2 DEF Written, FinalBoard
<1> QED BY <1>4, <1>5, <1>6, <1>7, <1>8
-----------------------------------------------------------------------------
(* The inductive invariant.  A replay under way has the shape of the run it *)
(* repeats, and only what its recording, its patch and its model have put   *)
(* into it; a test remembers those of a replay that completed.              *)
PrefixOf(rows, more) == /\ Len(rows) <= Len(more)
                        /\ \A i \in 1..Len(rows) : rows[i] = more[i]

PatchWithin(p, rows) == p \in Patch /\ 1 <= p.step /\ p.step <= Len(rows)

OfCompleted(evs, rows, p) ==
    \E x \in Execution : WellFormed(x) /\ x.pc = "completed" /\ RunForm(evs, x, rows, p)

TestInv == /\ PatchWithin(test.patch, test.steps) /\ Numbered(test.steps) /\ PrefixOf(test.steps, trace)
           /\ test.board \in Board \cup {Nil} /\ test.judged \in BOOLEAN
           /\ test.tools = ToolSequence(test.events)
           /\ ~test.judged => test.board = FinalBoard(test.events)
           /\ OfCompleted(test.events, test.steps, test.patch)

UnderWay == /\ mode = "exploratory" /\ PatchWithin(patch, steps) /\ PrefixOf(steps, trace)
            /\ RunForm(events, agent, steps, patch)

RerunInv == /\ Numbered(trace) /\ ReplayOK
            /\ late \in RecordedStep \cup {Nil}
            /\ phase \in {"replay", "promoted", "rerun"} /\ stage \in {"idle", "running", "over", "failed"}
            /\ stage # "idle" => UnderWay
            /\ stage = "over" => agent.pc \in Ended
            /\ phase = "promoted" => stage = "idle"
            /\ IF phase = "replay" THEN test = Nil ELSE TestInv
            /\ phase = "rerun" => stage # "idle" /\ patch = test.patch /\ PrefixOf(test.steps, steps)

(* Before its first event, a replay has the shape of any run.               *)
LEMMA BegunForm ==
    ASSUME NEW evs, IsSequence(evs), Len(evs) = 0, NEW rows, NEW p
    PROVE  RunForm(evs, Begun, rows, p)
BY DEF RunForm, InPlace, Begun

(* The trace of a recorded run, also without one of its steps.              *)
LEMMA RunStepsOK ==
    ASSUME NEW said \in Initial, NEW project \in LookupAnswer, NEW decision \in Final, NEW answer \in WriteAnswer
    PROVE  /\ Numbered(RunSteps(said, project, decision, answer))
           /\ Len(RunSteps(said, project, decision, answer)) \in {3, 4}
<1> DEFINE looking  == AfterDecision(Begun, said)
           deciding == AfterCall(looking, project)
           writing  == AfterDecision(deciding, decision)
           first    == <<LlmRow(1, Begun, said), ToolRow(2, looking, project), LlmRow(3, deciding, decision)>>
           rest     == IF writing.pc = "write" THEN <<ToolRow(4, writing, answer)>> ELSE <<>>
           rows     == RunSteps(said, project, decision, answer)
<1>1. /\ said \in InitialDecision /\ decision \in FinalDecision
      /\ project \in Response /\ project.kind # "text" /\ answer \in Response
    BY RunAssumption
<1>2. WellFormed(looking) /\ looking.pc = "lookup"
    BY <1>1, BegunOK, DecisionOK DEF Begun, Parses
<1>3. WellFormed(deciding) /\ deciding.pc = "final"
    BY <1>1, <1>2, CallOK DEF Calling
<1>4. WellFormed(writing)
    BY <1>1, <1>3, DecisionOK
<1> HIDE DEF looking, deciding, writing
<1>5. /\ LlmRow(1, Begun, said) \in RecordedStep /\ LlmRow(1, Begun, said).index = 1
      /\ LlmRow(3, deciding, decision) \in RecordedStep /\ LlmRow(3, deciding, decision).index = 3
    <2>1. LlmRow(1, Begun, said) \in RecordedStep
        BY <1>1, BegunOK, LlmRowOK
    <2>2. LlmRow(3, deciding, decision) \in RecordedStep
        BY <1>1, <1>3, LlmRowOK
    <2> QED BY <2>1, <2>2 DEF LlmRow
<1>6. ToolRow(2, looking, project) \in RecordedStep /\ ToolRow(2, looking, project).index = 2
    <2>1. ToolRow(2, looking, project) \in RecordedStep
        BY <1>1, <1>2, ToolRowOK DEF Calling
    <2> QED BY <2>1 DEF ToolRow
<1>7. writing.pc = "write" => /\ ToolRow(4, writing, answer) \in RecordedStep
                              /\ ToolRow(4, writing, answer).index = 4
    <2>1. writing.pc = "write" => ToolRow(4, writing, answer) \in RecordedStep
        BY <1>1, <1>4, ToolRowOK DEF Calling
    <2> QED BY <2>1 DEF ToolRow
<1>8. /\ first \in Seq(RecordedStep) /\ Len(first) = 3 /\ \A i \in 1..3 : first[i].index = i
    BY <1>5, <1>6
<1>9. /\ rest \in Seq(RecordedStep) /\ Len(rest) \in {0, 1} /\ \A i \in 1..Len(rest) : rest[i].index = 3 + i
    <2>1. CASE writing.pc = "write"
        <3>1. rest = <<ToolRow(4, writing, answer)>>
            BY <2>1
        <3> QED BY <2>1, <3>1, <1>7
    <2>2. CASE writing.pc # "write"
        <3>1. rest = <<>>
            BY <2>2
        <3> QED BY <3>1, EmptySeq
    <2> QED BY <2>1, <2>2
<1>10. rows = first \o rest
    BY DEF RunSteps, looking, deciding, writing
<1> HIDE DEF first, rest, rows
<1>11. /\ rows \in Seq(RecordedStep) /\ Len(rows) = 3 + Len(rest)
       /\ \A i \in 1..Len(rows) : rows[i] = IF i <= 3 THEN first[i] ELSE rest[i - 3]
    <2>1. /\ first \o rest \in Seq(RecordedStep) /\ Len(first \o rest) = Len(first) + Len(rest)
          /\ \A i \in 1..Len(first) + Len(rest) :
                (first \o rest)[i] = IF i <= Len(first) THEN first[i] ELSE rest[i - Len(first)]
        BY <1>8, <1>9, ConcatProperties
    <2> QED BY <1>8, <1>10, <2>1
<1>12. \A i \in 1..Len(rows) : rows[i].index = i
    <2> SUFFICES ASSUME NEW i \in 1..Len(rows) PROVE rows[i].index = i
        OBVIOUS
    <2>1. CASE i <= 3
        BY <2>1, <1>8, <1>11
    <2>2. CASE i > 3
        <3>1. i = 4 /\ 1 \in 1..Len(rest)
            BY <2>2, <1>9, <1>11
        <3> QED BY <3>1, <1>9, <1>11
    <2> QED BY <2>1, <2>2
<1>13. Numbered(rows) /\ Len(rows) \in {3, 4}
    BY <1>9, <1>11, <1>12 DEF Numbered
<1> QED BY <1>13 DEF rows

LEMMA WithoutOK ==
    ASSUME NEW rows, Numbered(rows), Len(rows) \in {3, 4}, NEW k \in MayMiss(rows)
    PROVE  Numbered(Without(rows, k)) /\ rows[k] \in RecordedStep
<1> DEFINE at(i) == IF i < k THEN i ELSE i + 1
           less  == Without(rows, k)
<1>1. k \in 1..Len(rows) /\ \A i \in 1..Len(rows) : rows[i] \in RecordedStep
    BY ElementOfSeq DEF Numbered, MayMiss
<1>2. PICK n \in {2, 3} : n = Len(rows) - 1
    OBVIOUS
<1>3. less = [i \in 1..n |-> [rows[at(i)] EXCEPT !.index = i]]
    BY <1>2 DEF Without
<1>4. \A i \in 1..n : less[i] \in RecordedStep /\ less[i].index = i
    <2> SUFFICES ASSUME NEW i \in 1..n PROVE less[i] \in RecordedStep /\ less[i].index = i
        OBVIOUS
    <2>1. rows[at(i)] \in RecordedStep
        BY <1>1, <1>2
    <2>2. less[i] = [rows[at(i)] EXCEPT !.index = i]
        BY <1>3
    <2>3. PICK row \in RecordedStep : row = rows[at(i)]
        BY <2>1
    <2>4. i \in Int
        OBVIOUS
    <2>5. [row EXCEPT !.index = i] \in RecordedStep /\ [row EXCEPT !.index = i].index = i
        BY <2>4, Renumbered
    <2> QED BY <2>2, <2>3, <2>5
<1>5. \A i \in 1..n : [rows[at(i)] EXCEPT !.index = i] \in RecordedStep
    BY <1>3, <1>4
<1>6. less \in Seq(RecordedStep) /\ Len(less) = n
    <2>1. less \in [1..n -> RecordedStep]
        BY <1>3, <1>5
    <2>2. n \in Nat
        OBVIOUS
    <2> HIDE DEF less
    <2> QED BY <2>1, <2>2
<1> QED BY <1>1, <1>4, <1>6 DEF Numbered

LEMMA RerunInit == Init => RerunInv
<1> SUFFICES ASSUME Init PROVE RerunInv
    OBVIOUS
<1>1. ReplayOK /\ stage = "idle"
    BY ReplayInitOK DEF Init, ReplayInit
<1>2. Numbered(trace) /\ late \in RecordedStep \cup {Nil}
    BY RunStepsOK, WithoutOK DEF Init
<1> QED BY <1>1, <1>2 DEF Init, RerunInv
-----------------------------------------------------------------------------
LEMMA InPlaceGrows ==
    ASSUME NEW evs, InPlace(evs), Len(evs) < 4, NEW e, e.index = Len(evs) + 1,
           e.type = IF Len(evs) \in {0, 2} THEN "llm" ELSE "tool",
           Len(evs) = 1 => e.tool = Lookup
    PROVE  /\ InPlace(Append(evs, e)) /\ Len(Append(evs, e)) = Len(evs) + 1
           /\ \A i \in 1..Len(evs) : Append(evs, e)[i] = evs[i]
           /\ Append(evs, e)[Len(evs) + 1] = e
<1> DEFINE more == Append(evs, e)
<1>1. /\ IsSequence(more) /\ Len(more) = Len(evs) + 1
      /\ \A i \in 1..Len(evs) : more[i] = evs[i]
      /\ more[Len(evs) + 1] = e
    BY AppendIsSeq DEF InPlace
<1> HIDE DEF more
<1>2. /\ Len(evs) \in 0..3
      /\ \A i \in 1..Len(evs) : evs[i].index = i /\ evs[i].type = IF i \in {1, 3} THEN "llm" ELSE "tool"
      /\ Len(evs) >= 2 => evs[2].tool = Lookup
    BY DEF InPlace
<1>3. PICK n \in 0..3 : n = Len(evs)
    BY <1>2
<1>4. \A i \in 1..Len(more) : more[i].index = i /\ more[i].type = IF i \in {1, 3} THEN "llm" ELSE "tool"
    <2> SUFFICES ASSUME NEW i \in 1..Len(more)
                 PROVE  more[i].index = i /\ more[i].type = IF i \in {1, 3} THEN "llm" ELSE "tool"
        OBVIOUS
    <2>1. CASE i \in 1..Len(evs)
        BY <2>1, <1>1, <1>2
    <2>2. CASE i = Len(evs) + 1
        <3>1. more[i] = e
            BY <2>2, <1>1
        <3>2. i \in {1, 3} <=> n \in {0, 2}
            BY <2>2, <1>3
        <3>3. e.index = i /\ e.type = IF i \in {1, 3} THEN "llm" ELSE "tool"
            BY <2>2, <3>2, <1>3
        <3> QED BY <3>1, <3>3
    <2> QED BY <2>1, <2>2, <1>1, <1>2
<1>5. Len(more) >= 2 => more[2].tool = Lookup
    <2>1. CASE Len(evs) = 1
        <3>1. more[2] = e
            BY <2>1, <1>1
        <3> QED BY <2>1, <3>1
    <2>2. CASE Len(evs) >= 2
        BY <2>2, <1>1, <1>2
    <2>3. CASE Len(evs) = 0
        BY <2>3, <1>1
    <2> QED BY <2>1, <2>2, <2>3, <1>3
<1>6. InPlace(more)
    BY <1>1, <1>2, <1>4, <1>5 DEF InPlace
<1> QED BY <1>1, <1>6 DEF more

(* A patch after the final decision leaves what the recording shows of it.  *)
LEMMA FinalIsShown ==
    ASSUME ReplayOK, UnderWay, Decide, agent.pc = "final", patch.step >= 4,
           agent'.pc \in {"write", "completed"}
    PROVE  agent'.final = ShownFinal(steps)
<1>1. /\ cursor = 2 /\ EventIndex = 3 /\ WellFormed(agent)
      /\ mode = "exploratory" /\ patch.step \in Int /\ Len(steps) >= 4
    BY CursorIs, PatchIs DEF ReplayOK, UnderWay, PatchWithin, Consumed
<1>2. ~AfterPatch /\ \A kinds : ~IsPatchTarget(kinds)
    BY <1>1 DEF AfterPatch, IsPatchTarget
<1>3. FromRecording
    BY <1>2 DEF Decide, FromPatch, FromModel
<1>4. HasExpected /\ Expected = steps[3] /\ HasNext /\ NextStep = steps[4]
    BY <1>1, CursorIs DEF HasExpected, HasNext
<1>5. RecordedSays = IF steps[3].type = "llm" THEN steps[3].says ELSE Garbled
    BY <1>4 DEF RecordedSays
<1>6. Parses(agent, RecordedSays) <=> steps[3].type = "llm" /\ steps[3].says \in FinalDecision
    BY <1>5, GarbledAssumption DEF Parses
<1>7. CASE Parses(agent, RecordedSays)
    <2>1. agent' = AfterDecision(agent, steps[3].says)
        BY <1>3, <1>5, <1>6, <1>7 DEF FromRecording, Decided
    <2>2. Parses(agent, steps[3].says)
        BY <1>5, <1>6, <1>7
    <2> QED BY <1>1, <1>6, <1>7, <2>1, <2>2, DecisionOK DEF ShownFinal
<1>8. CASE ~Parses(agent, RecordedSays)
    <2> DEFINE shown == [tool |-> steps[4].tool, board |-> steps[4].params.board,
                         priority |-> steps[4].params.priority]
    <2>1. RecoveredInitial = {} /\ \A said \in RecoveredFinal : said = shown
        BY <1>4 DEF RecoveredInitial, RecoveredFinal
    <2>2. agent' = AfterDecision(agent, shown) \/ agent' = AfterDecision(agent, Garbled)
        BY <1>3, <1>8, <2>1 DEF FromRecording, Decided
    <2>3. ~Parses(agent, Garbled)
        BY GarbledAssumption DEF Parses
    <2>4. \A said : agent' = AfterDecision(agent, said) => Parses(agent, said) /\ agent'.final = said
        <3> SUFFICES ASSUME NEW said, agent' = AfterDecision(agent, said)
                     PROVE  Parses(agent, said) /\ agent'.final = said
            OBVIOUS
        <3>1. Parses(agent, said)
            BY <1>1, DecisionOK, FailOK
        <3> QED BY <1>1, <3>1, DecisionOK
    <2>5. agent'.final = shown
        BY <2>2, <2>3, <2>4
    <2> QED BY <1>6, <1>8, <2>5 DEF ShownFinal
<1> QED BY <1>7, <1>8

LEMMA DecideForm ==
    ASSUME ReplayOK, UnderWay, Decide
    PROVE  RunForm(events', agent', steps, patch)
<1>1. agent.pc \in {"initial", "final"} /\ WellFormed(agent) /\ EventIndex = cursor + 1
    BY DecideIs, CursorIs DEF ReplayOK
<1>2. /\ Len(events) = cursor /\ cursor = IF agent.pc = "initial" THEN 0 ELSE 2
      /\ InPlace(events)
    BY <1>1 DEF ReplayOK, EventsOK, Consumed, UnderWay, RunForm
<1>3. CASE agent' = Fail(agent) /\ UNCHANGED events
    <2>1. agent'.pc = "failed" /\ Len(events) <= 2
        BY <1>1, <1>2, <1>3, FailOK
    <2>2. InPlace(events')
        BY <1>2, <1>3
    <2> QED BY <1>3, <2>1, <2>2, <1>2 DEF RunForm
<1>4. ASSUME NEW source \in Source, NEW said, NEW isLive, NEW patched, NEW matched,
             Decided(said, source, isLive, patched, matched)
      PROVE  RunForm(events', agent', steps, patch)
    <2> DEFINE e == Event("llm", Nil, source, isLive, patched, matched, said)
    <2>1. e.index = Len(events) + 1 /\ e.type = "llm" /\ e.data = said
        BY <1>1, <1>2 DEF Event
    <2>2. events' = Append(events, e) /\ agent' = AfterDecision(agent, said)
        BY <1>4 DEF Decided
    <2> HIDE DEF e
    <2>3. InPlace(events') /\ Len(events') = Len(events) + 1 /\ events'[Len(events) + 1] = e
        <3>1. /\ e.type = IF Len(events) \in {0, 2} THEN "llm" ELSE "tool"
              /\ Len(events) < 4 /\ Len(events) # 1
            BY <1>2, <2>1
        <3> QED BY <1>2, <2>1, <2>2, <3>1, InPlaceGrows
    <2>4. CASE agent.pc = "initial"
        <3>1. agent'.pc \in {"lookup", "failed"}
            BY <1>1, <2>2, <2>4, DecisionOK, FailOK
        <3>2. Len(events') = 1
            BY <1>2, <2>3, <2>4
        <3>3. InPlace(events')
            BY <2>3
        <3> QED BY <3>1, <3>2, <3>3 DEF RunForm
    <2>5. CASE agent.pc = "final"
        <3>1. Len(events') = 3 /\ events'[3].data = said
            BY <1>2, <2>1, <2>3, <2>5
        <3>2. /\ agent'.pc \in {"write", "completed", "failed"}
              /\ agent'.pc = "failed" => Undecided(said)
              /\ agent'.pc \in {"write", "completed"} => agent'.final = said
              /\ agent'.pc = "completed" => agent'.final.tool = "stop"
            <4>1. CASE ~Parses(agent, said)
                <5>1. agent'.pc = "failed" /\ said \notin FinalDecision
                    BY <1>1, <2>2, <2>5, <4>1, DecisionOK, FailOK DEF Parses
                <5> QED BY <5>1 DEF Undecided
            <4>2. CASE Parses(agent, said)
                BY <1>1, <2>2, <2>5, <4>2, DecisionOK DEF Undecided
            <4> QED BY <4>1, <4>2
        <3>3. agent'.pc \in {"write", "completed"} /\ patch.step >= 4 => agent'.final = ShownFinal(steps)
            BY <2>5, FinalIsShown
        <3>4. InPlace(events') /\ (agent'.pc = "completed" => Len(events') = IF agent'.final.tool = "stop" THEN 3 ELSE 4)
            BY <2>3, <3>1, <3>2
        <3> QED BY <3>1, <3>2, <3>3, <3>4 DEF RunForm
    <2> QED BY <1>1, <2>4, <2>5
<1> QED BY <1>3, <1>4, DecideIs

(* What is served at the boundary of the write.                             *)
LEMMA ServedAtWrite ==
    ASSUME ReplayOK, UnderWay, CallTool, agent.pc = "write"
    PROVE  \E response \in Response : \E source, patched :
              /\ Served(response, source, patched)
              /\ response = ServedAt(steps, patch, 4, AskedFor(agent.final))
<1> DEFINE asked == AskedFor(agent.final)
<1>1. /\ cursor = 3 /\ EventIndex = 4 /\ mode = "exploratory" /\ patch.step \in Int
      /\ asked = ParamsOf(agent) /\ asked \in Params
    BY CursorIs, PatchIs, CallIs DEF ReplayOK, UnderWay, Consumed, Calling, AskedFor
<1>2. RecordedResponse = RecordedAt(steps, 4)
    <2>1. HasExpected <=> ~(4 > Len(steps))
        BY <1>1, CursorIs DEF HasExpected
    <2>2. HasExpected => Expected = steps[4]
        BY <1>1, CursorIs
    <2> QED BY <2>1, <2>2 DEF RecordedResponse, RecordedAt
<1>3. RecordedResponse \in Response /\ Simulated(RecordedResponse, asked) \in Response
    BY <1>1, RecordedResponseOK, SimulatedOK
<1>4. /\ IsPatchTarget({"tool"}) <=> patch.step = 4 /\ patch.kind = "tool"
      /\ AfterPatch <=> 4 > patch.step
    BY <1>1 DEF IsPatchTarget, AfterPatch
<1>5. CASE IsPatchTarget({"tool"})
    <2>1. patch.response \in Response /\ Served(patch.response, "patched_tool_interceptor", TRUE)
        BY <1>1, <1>4, <1>5, PatchIs DEF CallTool
    <2>2. patch.response = ServedAt(steps, patch, 4, asked)
        BY <1>4, <1>5 DEF ServedAt
    <2> QED BY <2>1, <2>2
<1>6. CASE ~IsPatchTarget({"tool"}) /\ AfterPatch
    <2>1. Served(Simulated(RecordedResponse, asked), "simulated_tool_interceptor", FALSE)
        BY <1>1, <1>6 DEF CallTool
    <2>2. Simulated(RecordedResponse, asked) = ServedAt(steps, patch, 4, asked)
        BY <1>2, <1>4, <1>6 DEF ServedAt
    <2> QED BY <1>3, <2>1, <2>2
<1>7. CASE ~IsPatchTarget({"tool"}) /\ ~AfterPatch
    <2>1. Served(RecordedResponse, "recorded_interceptor", FALSE)
        BY <1>7 DEF CallTool
    <2>2. RecordedResponse = ServedAt(steps, patch, 4, asked)
        BY <1>2, <1>4, <1>7 DEF ServedAt
    <2> QED BY <1>3, <2>1, <2>2
<1> QED BY <1>5, <1>6, <1>7

LEMMA CallForm ==
    ASSUME ReplayOK, UnderWay, CallTool
    PROVE  RunForm(events', agent', steps, patch)
<1>1. agent.pc \in {"lookup", "write"} /\ Calling(agent) /\ WellFormed(agent) /\ EventIndex = cursor + 1
    BY ServedIs, CursorIs DEF ReplayOK, Calling
<1>2. /\ Len(events) = cursor /\ cursor = IF agent.pc = "lookup" THEN 1 ELSE 3
      /\ InPlace(events)
    BY <1>1 DEF ReplayOK, EventsOK, Consumed, UnderWay, RunForm
<1> DEFINE RightAtWrite(response) ==
               agent.pc = "write" => response = ServedAt(steps, patch, 4, AskedFor(agent.final))
<1>3. \E response \in Response : \E source, patched : Served(response, source, patched) /\ RightAtWrite(response)
    BY <1>1, ServedIs, ServedAtWrite
<1> PICK response \in Response : \E source, patched : Served(response, source, patched) /\ RightAtWrite(response)
    BY <1>3
<1>4. PICK source, patched : Served(response, source, patched) /\ RightAtWrite(response)
    OBVIOUS
<1> DEFINE data == [params |-> ParamsOf(agent), response |-> response, allowed |-> ~Blocked(ToolOf(agent))]
           e    == Event("tool", ToolOf(agent), source, FALSE, patched, CallMatches, data)
<1>5. /\ e.index = Len(events) + 1 /\ e.type = "tool" /\ e.tool = ToolOf(agent)
      /\ e.data.params = ParamsOf(agent) /\ e.data.response = response
    BY <1>1, <1>2 DEF Event
<1>6. events' = Append(events, e) /\ agent' = AfterCall(agent, response)
    BY <1>4 DEF Served
<1> HIDE DEF data, e
<1>7. agent.pc = "lookup" => e.tool = Lookup
    BY <1>1, <1>5, CallIs
<1>8. /\ InPlace(events') /\ Len(events') = Len(events) + 1 /\ events'[Len(events) + 1] = e
      /\ \A i \in 1..Len(events) : events'[i] = events[i]
    <2>1. InPlace(events) /\ e.index = Len(events) + 1
        BY <1>2, <1>5
    <2>2. Len(events) < 4 /\ e.type = IF Len(events) \in {0, 2} THEN "llm" ELSE "tool"
        BY <1>1, <1>2, <1>5
    <2>3. Len(events) = 1 => e.tool = Lookup
        <3>1. Len(events) = 1 => agent.pc = "lookup"
            BY <1>1, <1>2
        <3> QED BY <1>7, <3>1
    <2>4. /\ InPlace(Append(events, e)) /\ Len(Append(events, e)) = Len(events) + 1
          /\ \A i \in 1..Len(events) : Append(events, e)[i] = events[i]
          /\ Append(events, e)[Len(events) + 1] = e
        BY <2>1, <2>2, <2>3, InPlaceGrows
    <2> QED BY <1>6, <2>4
<1>9. CASE agent.pc = "lookup"
    <2>1. agent'.pc \in {"final", "failed"}
        BY <1>1, <1>6, <1>9, CallOK, FailOK
    <2>2. Len(events') = 2 /\ InPlace(events')
        BY <1>2, <1>8, <1>9
    <2> QED BY <2>1, <2>2 DEF RunForm
<1>10. CASE agent.pc = "write"
    <2>1. agent'.pc = "completed" /\ agent'.final = agent.final
        BY <1>1, <1>6, <1>10, CallOK
    <2>2. Len(events') = 4 /\ InPlace(events') /\ events'[4] = e /\ events'[3] = events[3]
        BY <1>2, <1>8, <1>10
    <2>3. events[3].data = agent.final /\ (patch.step >= 4 => agent.final = ShownFinal(steps))
        BY <1>10 DEF UnderWay, RunForm
    <2>4. e.tool = agent.final.tool /\ e.tool # "stop" /\ e.data.params = AskedFor(agent.final)
        BY <1>1, <1>5, <1>10, CallIs DEF AskedFor, WriteTool
    <2>5. e.data.response \in Response /\ e.data.response = ServedAt(steps, patch, 4, AskedFor(agent.final))
        BY <1>5, <1>4, <1>10
    <2> HIDE DEF e
    <2> QED BY <2>1, <2>2, <2>3, <2>4, <2>5 DEF RunForm
<1> QED BY <1>1, <1>9, <1>10
-----------------------------------------------------------------------------
LEMMA StartUnderWay ==
    ASSUME ReplayOK, Numbered(trace), NEW p, PatchWithin(p, trace), StartReplay("exploratory", p)
    PROVE  ReplayOK' /\ UnderWay' /\ stage' = "running" /\ patch' = p /\ steps' = trace
<1>1. /\ stage = "idle" /\ stage' = "running" /\ steps' = trace /\ mode' = "exploratory" /\ patch' = p
      /\ UNCHANGED <<trace, agent, events>>
    BY DEF StartReplay
<1>2. ReplayOK'
    BY StartKeepsForm DEF PatchWithin
<1>3. agent = Begun /\ IsSequence(events) /\ Len(events) = 0
    BY <1>1 DEF ReplayOK, EventsOK, Consumed, Begun
<1>4. RunForm(events', agent', steps', patch')
    BY <1>1, <1>3, BegunForm
<1>5. PatchWithin(patch', steps') /\ PrefixOf(steps', trace')
    <2>1. Len(trace) \in Nat
        BY LenProperties DEF Numbered
    <2> QED BY <1>1, <2>1 DEF PrefixOf
<1> QED BY <1>1, <1>2, <1>4, <1>5 DEF UnderWay

LEMMA StepsHaveLength ==
    ASSUME RerunInv
    PROVE  /\ Len(trace) \in Nat /\ Len(steps) \in Nat
           /\ phase # "replay" => Len(test.steps) \in Nat
BY LenProperties DEF RerunInv, ReplayOK, TestInv, Numbered

(* A verdict that is promoted keeps the shape of its replay.                *)
LEMMA TestOK ==
    ASSUME RerunInv, Promote
    PROVE  TestInv'
<1>1. /\ stage = "over" /\ agent.pc = "completed" /\ trace' = trace
      /\ UnderWay /\ WellFormed(agent) /\ Numbered(steps)
    BY DEF Promote, RerunInv, ReplayOK
<1>2. PICK judgement \in Judgement : test' = Assertions(judgement)
    BY DEF Promote
<1>3. /\ test'.patch = patch /\ test'.steps = steps /\ test'.events = events
      /\ test'.tools = ToolSequence(events) /\ test'.board = ExpectedBoard(judgement)
      /\ test'.judged = (judgement # "none")
    BY <1>2 DEF Assertions
<1>4. FinalBoard(events) \in Board \cup {Nil}
    <2>1. RunForm(events, agent, steps, patch)
        BY <1>1 DEF UnderWay
    <2>2. agent.final \in FinalDecision /\ (agent.final.tool = "stop" \/ agent.final.tool \in WriteTool)
        BY <1>1 DEF WellFormed, FinalDecision
    <2>3. CASE agent.final.tool = "stop"
        <3>1. Len(events) = 3 /\ InPlace(events)
            BY <1>1, <2>1, <2>3 DEF RunForm
        <3> QED BY <3>1, ListsAre
    <2>4. CASE agent.final.tool \in WriteTool
        <3>1. /\ Len(events) = 4 /\ InPlace(events) /\ events[4].tool \in WriteTool
              /\ events[4].data.params.board = agent.final.board
              /\ events[4].data.response \in Response
            BY <1>1, <2>1, <2>4 DEF RunForm, WriteTool, AskedFor
        <3>2. FinalBoard(events) \in {events[4].data.response.board, agent.final.board}
            BY <3>1, ListsAre
        <3>3. events[4].data.response.board \in Board \cup {Nil} /\ agent.final.board \in Board \cup {Nil}
            BY <2>2, <3>1 DEF Response, FinalDecision
        <3> QED BY <3>2, <3>3
    <2> QED BY <2>2, <2>3, <2>4
<1>5. /\ ExpectedBoard(judgement) \in Board \cup {Nil}
      /\ judgement = "none" => ExpectedBoard(judgement) = FinalBoard(events)
    BY <1>4 DEF ExpectedBoard, Judgement
<1>6. OfCompleted(events, steps, patch)
    BY <1>1 DEF OfCompleted, UnderWay, WellFormed
<1>7. PatchWithin(patch, steps) /\ PrefixOf(steps, trace)
    BY <1>1 DEF UnderWay
<1>8. test'.judged \in BOOLEAN /\ (~test'.judged => judgement = "none")
    BY <1>3
<1> QED BY <1>1, <1>3, <1>5, <1>6, <1>7, <1>8 DEF TestInv

LEMMA RerunNext ==
    ASSUME RerunInv, [Next]_<<trace, replayvars, rerunvars>>
    PROVE  RerunInv'
<1>1. CASE UNCHANGED <<trace, replayvars, rerunvars>>
    BY <1>1 DEF replayvars, rerunvars, RerunInv, ReplayOK, EventsOK, UnderWay, TestInv
<1>2. ASSUME NEW p \in Patch, ValidPatch(p), StartReplay("exploratory", p), phase = "replay", UNCHANGED rerunvars
      PROVE  RerunInv'
    <2>1. PatchWithin(p, trace)
        <3>1. PICK i \in 1..Len(trace) : trace[i].index = p.step
            BY <1>2 DEF ValidPatch
        <3> QED BY <3>1, StepsHaveLength DEF RerunInv, Numbered, PatchWithin
    <2>2. ReplayOK' /\ UnderWay' /\ stage' = "running"
        BY <1>2, <2>1, StartUnderWay DEF RerunInv
    <2> QED BY <1>2, <2>2 DEF RerunInv, rerunvars, StartReplay
<1>3. ASSUME Decide \/ CallTool, UNCHANGED rerunvars
      PROVE  RerunInv'
    <2>1. stage = "running" /\ UNCHANGED <<trace, stage, steps, mode, patch>>
        BY <1>3 DEF Decide, CallTool
    <2>2. ReplayOK' /\ RunForm(events', agent', steps, patch)
        BY <1>3, <2>1, DecideKeepsForm, CallKeepsForm, DecideForm, CallForm DEF RerunInv
    <2>3. UnderWay'
        BY <2>1, <2>2 DEF RerunInv, UnderWay
    <2> QED BY <1>3, <2>1, <2>2, <2>3 DEF RerunInv, TestInv, rerunvars
<1>4. ASSUME FinishReplay \/ FailReplay, UNCHANGED rerunvars
      PROVE  RerunInv'
    BY <1>4 DEF FinishReplay, FailReplay, RerunInv, ReplayOK, EventsOK, UnderWay, TestInv, rerunvars
<1>5. CASE LateCommit
    <2>1. /\ late \in RecordedStep /\ trace' = Append(trace, [late EXCEPT !.index = Len(trace) + 1])
          /\ late' = Nil /\ UNCHANGED <<test, phase, replayvars>>
        BY <1>5 DEF LateCommit, RerunInv
    <2>2. /\ Numbered(trace') /\ Len(trace) \in Nat /\ Len(trace') = Len(trace) + 1
          /\ \A i \in 1..Len(trace) : trace'[i] = trace[i]
        BY <2>1, AppendNumbered DEF RerunInv
    <2>3. \A rows : Len(rows) \in Nat /\ PrefixOf(rows, trace) => PrefixOf(rows, trace')
        BY <2>2 DEF PrefixOf
    <2>4. UnderWay => UnderWay'
        BY <2>1, <2>3, StepsHaveLength DEF UnderWay, replayvars
    <2>5. phase # "replay" => TestInv'
        BY <2>1, <2>3, StepsHaveLength DEF RerunInv, TestInv
    <2> QED BY <2>1, <2>2, <2>4, <2>5 DEF RerunInv, ReplayOK, EventsOK, replayvars
<1>6. CASE Promote
    <2>1. TestInv'
        BY <1>6, TestOK
    <2>2. ReplayInit'
        BY <1>6 DEF Promote, ReplayInit
    <2>3. ReplayOK'
        BY <2>2, ReplayInitOK, PTL
    <2> QED BY <1>6, <2>1, <2>3 DEF Promote, RerunInv
<1>7. CASE Rerun
    <2>1. /\ phase = "promoted" /\ TestInv /\ StartReplay("exploratory", test.patch)
          /\ phase' = "rerun" /\ UNCHANGED <<late, test>>
        BY <1>7 DEF Rerun, RerunInv
    <2>2. PatchWithin(test.patch, trace)
        BY <2>1, StepsHaveLength, PatchAssumption DEF TestInv, PatchWithin, PrefixOf, PatchForm
    <2>3. ReplayOK' /\ UnderWay' /\ stage' = "running" /\ patch' = test.patch /\ steps' = trace
        BY <2>1, <2>2, StartUnderWay DEF RerunInv
    <2>4. trace' = trace
        BY <2>1 DEF StartReplay
    <2>5. TestInv' /\ PrefixOf(test'.steps, steps')
        BY <2>1, <2>3, <2>4 DEF TestInv
    <2> QED BY <2>1, <2>3, <2>4, <2>5 DEF RerunInv
<1> QED BY <1>1, <1>2, <1>3, <1>4, <1>5, <1>6, <1>7 DEF Next, ReplayStep, StartExploratory

THEOREM RerunInvariant == Spec => []RerunInv
<1>1. RerunInv /\ [Next]_<<trace, replayvars, rerunvars>> => RerunInv'
    BY RerunNext
<1> QED BY RerunInit, <1>1, PTL DEF Spec
-----------------------------------------------------------------------------
(* Whatever was recorded, patched and answered, the trace and its late step *)
(* are recorded steps numbered in order, and a test has a patch, a board or *)
(* none, and knows whether a judge named that board.                        *)
THEOREM RerunTypeCorrect == Spec => []TypeOK
<1>1. RerunInv => TypeOK
    <2> SUFFICES ASSUME RerunInv PROVE TypeOK
        OBVIOUS
    <2>1. \A i \in 1..Len(trace) : trace[i] \in RecordedStep /\ trace[i].index = i
        BY ElementOfSeq DEF RerunInv, Numbered
    <2>2. agent \in Execution
        BY DEF RerunInv, ReplayOK, WellFormed
    <2> QED BY <2>1, <2>2 DEF RerunInv, TypeOK, TestInv, PatchWithin
<1> QED BY <1>1, RerunInvariant, PTL

(* What an execution that completed with the decision d leaves: no write, or *)
(* one in the fourth place.                                                 *)
LeavesNoWrite(evs) == ToolSequence(evs) = <<<<2, Lookup>>>> /\ FinalBoard(evs) = Nil /\ Written(evs) = <<>>

LeavesWrite(evs, d, answered) ==
    /\ d.tool \in WriteTool /\ d.board \in Board
    /\ ToolSequence(evs) = <<<<2, Lookup>>, <<4, d.tool>>>>
    /\ Written(evs) = <<<<d.tool, d.board>>>>
    /\ FinalBoard(evs) = IF answered # Nil THEN answered ELSE d.board

LEMMA CompletedLeaves ==
    ASSUME NEW evs, NEW x, WellFormed(x), x.pc = "completed", NEW rows, NEW p, RunForm(evs, x, rows, p)
    PROVE  /\ InPlace(evs) /\ x.final \in FinalDecision
           /\ Answers(evs) = <<evs[1].data, evs[3].data>> /\ evs[3].data = x.final
           /\ p.step >= 4 => x.final = ShownFinal(rows)
           /\ x.final.tool = "stop" => LeavesNoWrite(evs)
           /\ x.final.tool # "stop" => LeavesWrite(evs, x.final, ServedAt(rows, p, 4, AskedFor(x.final)).board)
<1>1. /\ InPlace(evs) /\ Len(evs) = IF x.final.tool = "stop" THEN 3 ELSE 4
      /\ evs[3].data = x.final /\ (p.step >= 4 => x.final = ShownFinal(rows))
    BY DEF RunForm
<1>2. x.final \in FinalDecision /\ (x.final.tool = "stop" \/ Usable(x.final))
    BY DEF WellFormed
<1>3. Answers(evs) = <<evs[1].data, evs[3].data>>
    BY <1>1, ListsAre
<1>4. CASE x.final.tool = "stop"
    BY <1>1, <1>2, <1>3, <1>4, ListsAre DEF LeavesNoWrite
<1>5. CASE x.final.tool # "stop"
    <2>1. x.final.tool \in WriteTool /\ x.final.board \in Board
        BY <1>2, <1>5 DEF FinalDecision, Usable
    <2>2. /\ Len(evs) = 4 /\ evs[4].tool = x.final.tool /\ evs[4].data.params.board = x.final.board
          /\ evs[4].data.response = ServedAt(rows, p, 4, AskedFor(x.final))
        BY <1>1, <1>5 DEF RunForm, AskedFor
    <2>3. /\ ToolSequence(evs) = <<<<2, Lookup>>, <<4, evs[4].tool>>>>
          /\ Written(evs) = <<<<evs[4].tool, evs[4].data.params.board>>>>
          /\ FinalBoard(evs) = IF evs[4].data.response.board # Nil THEN evs[4].data.response.board
                               ELSE evs[4].data.params.board
        BY <1>1, <2>1, <2>2, ListsAre
    <2> QED BY <1>1, <1>2, <1>3, <1>5, <2>1, <2>2, <2>3 DEF LeavesWrite
<1> QED BY <1>4, <1>5

(* If the trace has not grown and the model answers as it did, the rerun of *)
(* a test passes, for every recorded run and patch; unless a judge named    *)
(* the board it expects.                                                    *)
THEOREM StableTestCorrect == Spec => []StableTest
<1>1. RerunInv => StableTest
    <2> SUFFICES ASSUME RerunInv, RerunOver, steps = test.steps,
                        Answers(events) = Answers(test.events), ~test.judged
                 PROVE  Passed
        BY DEF StableTest
    <2>1. /\ TestInv /\ UnderWay /\ patch = test.patch
          /\ agent.pc \in Ended /\ WellFormed(agent)
        BY DEF RerunInv, RerunOver, ReplayOK
    <2>2. RunForm(events, agent, steps, patch) /\ test.board = FinalBoard(test.events)
        BY <2>1 DEF UnderWay, TestInv
    <2>3. PICK x \in Execution : /\ WellFormed(x) /\ x.pc = "completed"
                                 /\ RunForm(test.events, x, steps, patch)
        BY <2>1 DEF TestInv, OfCompleted
    <2>4. /\ Answers(test.events) = <<test.events[1].data, x.final>> /\ x.final \in FinalDecision
          /\ x.final.tool = "stop" \/ Usable(x.final)
        BY <2>3, CompletedLeaves DEF WellFormed
    <2>5. InPlace(events) /\ Len(events) >= 3 /\ events[3].data = x.final
        <3>1. InPlace(events) /\ Len(events) \in 0..4
            BY <2>2 DEF RunForm, InPlace
        <3>2. PICK said : said = Answers(events)
            OBVIOUS
        <3>3. Len(said) = 2 /\ said[2] = x.final
            BY <2>4, <3>2
        <3>4. Len(events) >= 3
            BY <3>1, <3>2, <3>3, ListsAre
        <3>5. said = <<events[1].data, events[3].data>>
            BY <3>1, <3>2, <3>4, ListsAre
        <3> QED BY <3>1, <3>3, <3>4, <3>5
    <2>6. agent.pc = "completed"
        BY <2>1, <2>2, <2>4, <2>5 DEF RunForm, Undecided, Ended
    <2>7. agent.final = x.final
        BY <2>2, <2>5, <2>6 DEF RunForm
    <2>8. /\ ToolSequence(events) = ToolSequence(test.events)
          /\ FinalBoard(events) = FinalBoard(test.events)
        <3> DEFINE answered == ServedAt(steps, patch, 4, AskedFor(x.final)).board
        <3>1. IF x.final.tool = "stop" THEN LeavesNoWrite(events) ELSE LeavesWrite(events, x.final, answered)
            BY <2>1, <2>2, <2>6, <2>7, CompletedLeaves
        <3>2. IF x.final.tool = "stop" THEN LeavesNoWrite(test.events)
              ELSE LeavesWrite(test.events, x.final, answered)
            BY <2>3, CompletedLeaves
        <3> HIDE DEF answered
        <3> QED BY <3>1, <3>2 DEF LeavesNoWrite, LeavesWrite
    <2> QED BY <2>1, <2>2, <2>6, <2>8 DEF Passed, Accepted, TestInv
<1> QED BY <1>1, RerunInvariant, PTL

(* Past the step of a patch, or before it, a write that is answered with a  *)
(* board is answered with the board it asks for.                            *)
LEMMA SimulatedWrite ==
    ASSUME NEW rows, NEW p \in Patch, p.step < 4, NEW x, x.final.board \in Board
    PROVE  ServedAt(rows, p, 4, AskedFor(x.final)).board \in {Nil, x.final.board}
<1> DEFINE recorded == RecordedAt(rows, 4)
           asked    == AskedFor(x.final)
<1>1. p.step \in Int
    BY PatchAssumption DEF PatchForm
<1>2. ServedAt(rows, p, 4, asked) = Simulated(recorded, asked)
    BY <1>1 DEF ServedAt
<1>3. asked.board = x.final.board /\ asked.board # Nil
    BY NilAssumption DEF AskedFor
<1> HIDE DEF recorded, asked
<1>4. Simulated(recorded, asked).board \in {Nil, asked.board}
    BY <1>3 DEF Simulated
<1> QED BY <1>2, <1>3, <1>4 DEF asked

(* A rerun that passes has written with the tool and to the board of the    *)
(* promoted replay, or as little as that, for every recorded run and patch  *)
(* and also if the trace has grown; unless a judge named another board.     *)
THEOREM PassMeansSameWriteCorrect == Spec => []PassMeansSameWrite
<1>1. RerunInv => PassMeansSameWrite
    <2> SUFFICES ASSUME RerunInv, RerunOver, Passed, ~test.judged
                 PROVE  Written(events) = Written(test.events)
        BY DEF PassMeansSameWrite
    <2>1. /\ TestInv /\ UnderWay /\ patch = test.patch /\ patch \in Patch
          /\ WellFormed(agent) /\ agent.pc = "completed" /\ PrefixOf(test.steps, steps)
        BY DEF RerunInv, RerunOver, ReplayOK, Passed, UnderWay, PatchWithin
    <2>2. RunForm(events, agent, steps, patch)
        BY <2>1 DEF UnderWay
    <2>3. PICK x \in Execution : /\ WellFormed(x) /\ x.pc = "completed"
                                 /\ RunForm(test.events, x, test.steps, patch)
        BY <2>1 DEF TestInv, OfCompleted
    <2>4. /\ ToolSequence(events) = ToolSequence(test.events)
          /\ FinalBoard(test.events) # Nil => FinalBoard(events) = FinalBoard(test.events)
        BY <2>1 DEF Passed, Accepted, TestInv
    <2> DEFINE now  == ServedAt(steps, patch, 4, AskedFor(agent.final)).board
               then == ServedAt(test.steps, patch, 4, AskedFor(x.final)).board
    <2>5. IF agent.final.tool = "stop" THEN LeavesNoWrite(events) ELSE LeavesWrite(events, agent.final, now)
        BY <2>1, <2>2, CompletedLeaves
    <2>6. IF x.final.tool = "stop" THEN LeavesNoWrite(test.events) ELSE LeavesWrite(test.events, x.final, then)
        BY <2>3, CompletedLeaves
    <2>7. patch.step >= 4 => agent.final = ShownFinal(steps) /\ x.final = ShownFinal(test.steps)
        BY <2>1, <2>2, <2>3 DEF RunForm
    <2>8. patch.step < 4 => (agent.final.board \in Board => now \in {Nil, agent.final.board})
                         /\ (x.final.board \in Board => then \in {Nil, x.final.board})
        BY <2>1, SimulatedWrite
    <2> HIDE DEF now, then
    <2>9. \A a, b : /\ <<<<2, Lookup>>>> # <<<<2, Lookup>>, <<4, a>>>>
                    /\ <<<<2, Lookup>>, <<4, a>>>> = <<<<2, Lookup>>, <<4, b>>>> => a = b
        OBVIOUS
    <2>10. CASE LeavesNoWrite(events) \/ LeavesNoWrite(test.events)
        <3>1. LeavesNoWrite(events) /\ LeavesNoWrite(test.events)
            BY <2>4, <2>5, <2>6, <2>9, <2>10 DEF LeavesNoWrite, LeavesWrite
        <3> QED BY <3>1 DEF LeavesNoWrite
    <2>11. CASE LeavesWrite(events, agent.final, now) /\ LeavesWrite(test.events, x.final, then)
        <3>1. /\ agent.final.board \in Board /\ x.final.board \in Board
              /\ Written(events) = <<<<agent.final.tool, agent.final.board>>>>
              /\ Written(test.events) = <<<<x.final.tool, x.final.board>>>>
              /\ FinalBoard(events) = IF now # Nil THEN now ELSE agent.final.board
              /\ FinalBoard(test.events) = IF then # Nil THEN then ELSE x.final.board
            BY <2>11 DEF LeavesWrite
        <3>2. agent.final.tool = x.final.tool
            BY <2>4, <2>9, <2>11 DEF LeavesWrite
        <3>3. CASE patch.step >= 4
            <4>1. test.steps[3] = steps[3] /\ test.steps[4] = steps[4]
                BY <2>1, <3>3, StepsHaveLength, PatchAssumption
                   DEF RerunInv, RerunOver, TestInv, PatchWithin, PrefixOf, PatchForm
            <4>2. ShownFinal(test.steps) = ShownFinal(steps)
                BY <4>1 DEF ShownFinal
            <4> QED BY <2>7, <3>1, <3>3, <4>2
        <3>4. CASE patch.step < 4
            <4>1. FinalBoard(events) = agent.final.board /\ FinalBoard(test.events) = x.final.board
                BY <2>8, <3>1, <3>4
            <4> QED BY <2>4, <3>1, <3>2, <4>1, NilAssumption
        <3>5. patch.step \in Int
            BY <2>1, PatchAssumption DEF PatchForm
        <3> QED BY <3>3, <3>4, <3>5
    <2> QED BY <2>5, <2>6, <2>10, <2>11
<1> QED BY <1>1, RerunInvariant, PTL
=============================================================================
