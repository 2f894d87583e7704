---------------------------- MODULE RecordedTrace ----------------------------
(***************************************************************************)
(* The committed trace of one run, as fetch_steps returns it: a sequence of *)
(* steps in the order of their step_index.  TraceStore is where it comes    *)
(* from: on a run left to the store it only grows at its end.               *)
(***************************************************************************)
EXTENDS TriageWorkflow

VARIABLE trace

(* says - what parse_decision makes of the stored response                  *)
LlmStep  == [index : Int, type : {"llm"}, says : InitialDecision \cup FinalDecision \cup {Garbled},
             prompt : [initial : InitialDecision \cup {Nil}, lookup : Response \cup {Nil}]]

(* candidate - the candidate_board of the snapshot                          *)
ToolStep == [index : Int, type : {"tool"}, tool : Tool, params : Params, response : Response,
             candidate : Board \cup {Nil}]

RecordedStep == LlmStep \cup ToolStep

LlmRow(i, x, said) == [index |-> i, type |-> "llm", says |-> said, prompt |-> Prompt(x)]

ToolRow(i, x, response) ==
    [index |-> i, type |-> "tool", tool |-> ToolOf(x), params |-> ParamsOf(x),
     response |-> response, candidate |-> Candidate(x)]

(* _recorded_signature: the type of a step, and its tool.                   *)
Signature(row) == IF row.type = "tool" THEN <<"tool", row.tool>> ELSE <<"llm", Nil>>
=============================================================================
