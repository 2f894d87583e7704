--------------------------- MODULE TriageWorkflow ---------------------------
(***************************************************************************)
(* The control flow of the Jira triage agent, shared by the live agent and  *)
(* by every replay: decide, look the project up, decide again, and write to *)
(* the ticket at most once.  The module has no variable of its own: the     *)
(* state of one execution is a record that its runtime keeps.               *)
(***************************************************************************)
EXTENDS Integers, Sequences

CONSTANTS
    Board,      \* project keys a model may choose
    Nil,        \* a field that is None, or a key that is absent
    Garbled     \* a model answer that is no decision of any schema

Priority  == {"Highest", "High"}
WriteTool == {"update_ticket", "escalate_ticket"}
Lookup    == "get_project_key"
Tool      == WriteTool \cup {Lookup}

(* InitialTriageDecision names a board.  The reason is free text, of which  *)
(* matters whether the model gave it or a replay's recovery did: it is part *)
(* of the next prompt.                                                      *)
InitialDecision == [board : Board, recovered : BOOLEAN]

(* FinalTriageDecision: board and priority may be missing in a valid one.   *)
FinalDecision == [tool : WriteTool \cup {"stop"}, board : Board \cup {Nil}, priority : Priority \cup {Nil}]

(* Only a string parses as a board or a decision: None never does, and the  *)
(* garbled answer is one that does not.                                     *)
ASSUME NilAssumption     == Nil \notin Board \cup FinalDecision
ASSUME GarbledAssumption == Garbled \notin InitialDecision \cup FinalDecision

(* What a tool answers.  A "text" is not a JSON object; "envelope" is the   *)
(* model response of a recorded llm step taken for a tool's; "none" is the  *)
(* response of a step that is not there.                                    *)
Response == [kind : {"project", "ticket", "error", "text", "envelope", "none"}, board : Board \cup {Nil}]

Params   == [board : Board \cup {Nil}, priority : Priority \cup {Nil}]
NoParams == [board |-> Nil, priority |-> Nil]

(* One execution: where it is and what it has learned.                      *)
Pc        == {"initial", "lookup", "final", "write", "completed", "failed"}
Execution == [pc      : Pc,
              initial : InitialDecision \cup {Nil},
              lookup  : Response \cup {Nil},
              final   : FinalDecision \cup {Nil}]

Begun == [pc |-> "initial", initial |-> Nil, lookup |-> Nil, final |-> Nil]
Ended == {"completed", "failed"}

Fail(x) == [x EXCEPT !.pc = "failed"]

(* parse_decision against the schema of the stage.                          *)
Parses(x, said) == \/ x.pc = "initial" /\ said \in InitialDecision
                   \/ x.pc = "final" /\ said \in FinalDecision

(* The prompt of a stage: the ticket of the run, then also what is known.   *)
Prompt(x) == [initial |-> x.initial, lookup |-> x.lookup]

(* A write needs a board, and an escalation a priority.                     *)
Usable(said) == /\ said.board # Nil
                /\ said.tool = "escalate_ticket" => said.priority # Nil

AfterDecision(x, said) ==
    IF ~Parses(x, said) THEN Fail(x)
    ELSE IF x.pc = "initial" THEN [x EXCEPT !.pc = "lookup", !.initial = said]
    ELSE [x EXCEPT !.final = said,
                   !.pc = IF said.tool = "stop" THEN "completed"
                          ELSE IF Usable(said) THEN "write" ELSE "failed"]

(* The tool call an execution is at.                                        *)
Calling(x)    == x.pc \in {"lookup", "write"}
ToolOf(x)     == IF x.pc = "lookup" THEN Lookup ELSE x.final.tool
ParamsOf(x)   == IF x.pc = "lookup" THEN NoParams
                 ELSE [board |-> x.final.board, priority |-> x.final.priority]
Candidate(x)  == x.initial.board

AfterCall(x, response) ==
    IF x.pc = "write" THEN [x EXCEPT !.pc = "completed"]
    ELSE IF response.kind = "text" THEN Fail(x)
    ELSE [x EXCEPT !.pc = "final", !.lookup = response]
=============================================================================
