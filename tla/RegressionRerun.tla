---------------------------- MODULE RegressionRerun ----------------------------
(***************************************************************************)
(* From an exploratory replay to a regression test and its rerun.  The      *)
(* assertions of a test are taken from the verdict of a completed replay;   *)
(* a rerun executes the workflow again with the patch of that replay, over  *)
(* the trace as it is by then, and compares the tools it called and the     *)
(* final board.  The replay and the rerun are two requests, so the state of *)
(* the harness starts anew between them.                                    *)
(*                                                                         *)
(* The trace is that of a run of LiveAgent that has ended: whole, or with a *)
(* step that was lost or is still to come.                                  *)
(***************************************************************************)
EXTENDS ReplayHarness, FiniteSets

CONSTANTS
    Initial, Final,     \* what the models of the recorded runs said
    LookupAnswer, WriteAnswer

(* A run whose lookup answers a text ends there, and nothing is promoted.   *)
ASSUME RunAssumption == /\ Initial \subseteq InitialDecision
                        /\ Final \subseteq FinalDecision
                        /\ LookupAnswer \subseteq {answer \in Response : answer.kind # "text"}
                        /\ WriteAnswer \subseteq Response

VARIABLES
    late,   \* a step of the run that is not committed yet, or Nil
    test,   \* the promoted test, Nil before there is one
    phase   \* "replay", "promoted" or "rerun"

rerunvars == <<late, test, phase>>

-----------------------------------------------------------------------------
(* The steps of a run that ends well, or that fails at its write.           *)
RunSteps(said, project, decision, answer) ==
    LET looking  == AfterDecision(Begun, said)
        deciding == AfterCall(looking, project)
        writing  == AfterDecision(deciding, decision)
    IN  <<LlmRow(1, Begun, said), ToolRow(2, looking, project), LlmRow(3, deciding, decision)>>
            \o IF writing.pc = "write" THEN <<ToolRow(4, writing, answer)>> ELSE <<>>

(* Without its k-th step, which leaves no gap in the indexes.               *)
Without(rows, k) ==
    [i \in 1..(Len(rows) - 1) |-> [rows[IF i < k THEN i ELSE i + 1] EXCEPT !.index = i]]

(* A step may be missing where the agent does not notice it, or its last.   *)
MayMiss(rows) == {k \in 1..Len(rows) : rows[k].type = "llm" \/ k = Len(rows)}

Init ==
    /\ ReplayInit
    /\ phase = "replay"
    /\ test = Nil
    /\ \E said \in Initial, project \in LookupAnswer, decision \in Final, answer \in WriteAnswer :
          LET rows == RunSteps(said, project, decision, answer) IN
          \/ trace = rows /\ late = Nil
          \/ \E k \in MayMiss(rows) : trace = Without(rows, k) /\ late \in {Nil, rows[k]}

(* Mutant: a late step keeps the index its client would have given it.      *)
LateCommitAtOldIndex ==
    /\ late # Nil
    /\ trace' = Append(trace, late)
    /\ late' = Nil
    /\ UNCHANGED <<test, phase, replayvars>>

(* The request that was still being served commits its step.                *)
LateCommit ==
    /\ late # Nil
    /\ trace' = Append(trace, [late EXCEPT !.index = Len(trace) + 1])
    /\ late' = Nil
    /\ UNCHANGED <<test, phase, replayvars>>
-----------------------------------------------------------------------------
(* The events at some positions, in their order.                            *)
InOrder(evs, at) ==
    [n \in 1..Cardinality(at) |-> evs[CHOOSE i \in at : Cardinality({j \in at : j < i}) = n - 1]]

OfType(evs, type) == InOrder(evs, {i \in 1..Len(evs) : evs[i].type = type})
Writes(evs)       == InOrder(evs, {i \in 1..Len(evs) : evs[i].type = "tool" /\ evs[i].tool \in WriteTool})

(* The tool calls of a trace, as the runner and the diff list them.         *)
ToolSequence(evs) ==
    LET calls == OfType(evs, "tool") IN [i \in 1..Len(calls) |-> <<calls[i].index, calls[i].tool>>]

(* _final_ticket_state: the board the last write of a trace answers, or     *)
(* else asks for.                                                           *)
FinalBoard(evs) ==
    LET writes == Writes(evs)
        data   == writes[Len(writes)].data
    IN  IF writes = <<>> THEN Nil
        ELSE IF data.response.board # Nil THEN data.response.board ELSE data.params.board

(* What the judge's model expects of the final board.  Without a judgement, *)
(* or one whose final state is empty, the board of the replay is expected;  *)
(* a final state that names no board switches the comparison off.           *)
Judgement == {"none", "no_board"} \cup Board

ExpectedBoard(judgement) ==
    IF judgement = "none" THEN FinalBoard(events)
    ELSE IF judgement = "no_board" THEN Nil ELSE judgement

(* build_assertions_from_replay.  The steps the replay had fetched are not  *)
(* part of the test; they are kept to tell whether the trace has grown.     *)
Assertions(judgement) ==
    [patch  |-> patch,
     tools  |-> ToolSequence(events),
     board  |-> ExpectedBoard(judgement),
     judged |-> judgement # "none",
     steps  |-> steps,
     events |-> events]

(* Only a completed exploratory replay is promoted.  Its request is over:   *)
(* the next one has a harness of its own.                                   *)
Promote ==
    /\ phase = "replay" /\ stage = "over"
    /\ mode = "exploratory" /\ agent.pc = "completed" /\ events # <<>>
    /\ \E judgement \in Judgement : test' = Assertions(judgement)
    /\ phase' = "promoted"
    /\ stage' = "idle" /\ steps' = <<>> /\ mode' = "strict" /\ patch' = Nil
    /\ agent' = Begun /\ cursor' = 0 /\ events' = <<>>
    /\ modelCalls' = 0 /\ blocks' = 0
    /\ UNCHANGED <<trace, late>>

(* Mutant: the rerun does not pass the patch on.                            *)
RerunUnpatched ==
    /\ phase = "promoted"
    /\ StartReplay("exploratory", [step |-> test.patch.step, kind |-> "prompt"])
    /\ phase' = "rerun"
    /\ UNCHANGED <<late, test>>

(* _rerun_agent: the patch is not validated against the trace again.        *)
Rerun ==
    /\ phase = "promoted"
    /\ StartReplay("exploratory", test.patch)
    /\ phase' = "rerun"
    /\ UNCHANGED <<late, test>>

(* A rerun logs no warnings: only the replay can fail on them.              *)
ReplayStep == \/ StartExploratory /\ phase = "replay"
              \/ Decide
              \/ CallTool
              \/ FinishReplay
              \/ FailReplay /\ phase = "replay"

Next == \/ ReplayStep /\ UNCHANGED rerunvars
        \/ LateCommit
        \/ Promote
        \/ Rerun

Spec == Init /\ [][Next]_<<trace, replayvars, rerunvars>>
-----------------------------------------------------------------------------
(* Mutant: the board is not compared.                                       *)
AcceptedByTools(evs) == ToolSequence(evs) = test.tools

(* _evaluate_assertions of a trace.                                         *)
Accepted(evs) == /\ ToolSequence(evs) = test.tools
                 /\ test.board # Nil => FinalBoard(evs) = test.board

RerunOver == phase = "rerun" /\ stage = "over"
Passed    == agent.pc = "completed" /\ Accepted(events)

Answers(evs) == LET said == OfType(evs, "llm") IN [i \in 1..Len(said) |-> said[i].data]

TypeOK == /\ phase \in {"replay", "promoted", "rerun"}
          /\ late \in RecordedStep \cup {Nil}
          /\ \A i \in 1..Len(trace) : trace[i] \in RecordedStep /\ trace[i].index = i
          /\ IF phase = "replay" THEN test = Nil
             ELSE test.patch \in Patch /\ test.board \in Board \cup {Nil} /\ test.judged \in BOOLEAN
          /\ agent \in Execution /\ stage \in {"idle", "running", "over", "failed"}

(* A test is stable: if the trace has not grown since and the model answers *)
(* as it did, the rerun passes; unless a judge named the board it expects.  *)
StableTest ==
    RerunOver /\ steps = test.steps /\ Answers(events) = Answers(test.events) /\ ~test.judged
        => Passed

Written(evs) == LET writes == Writes(evs)
                IN  [i \in 1..Len(writes) |-> <<writes[i].tool, writes[i].data.params.board>>]

(* A test that passes says something: the agent has written to the board    *)
(* the promoted replay wrote to, with the same tool, or has not written as  *)
(* that has not, also when the trace has grown in between; unless a judge   *)
(* has named another board or none.                                         *)
PassMeansSameWrite ==
    RerunOver /\ Passed /\ ~test.judged => Written(events) = Written(test.events)
=============================================================================
