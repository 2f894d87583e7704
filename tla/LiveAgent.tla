------------------------------ MODULE LiveAgent ------------------------------
(***************************************************************************)
(* One live run of the triage agent and the trace it leaves.  The agent is  *)
(* a client of the API: each model answer is captured by the Gemini patch   *)
(* (POST /llm/capture, 10 s, errors swallowed), each tool call goes through *)
(* the gateway (POST /tool-proxy/call, 20 s).  A request whose client has   *)
(* given up is still served, and its step may commit later: that is the     *)
(* only overlap of requests on such a run, so a commit appends to the trace *)
(* (AppendOnly of TraceStore).                                              *)
(***************************************************************************)
EXTENDS RecordedTrace

CONSTANTS
    LookupAnswer,   \* what get_project_key may answer
    WriteAnswer     \* what update_ticket and escalate_ticket may answer

ASSUME AnswerAssumption == LookupAnswer \cup WriteAnswer \subseteq Response

(* The handlers of the write tools answer with an object, or an error.      *)
ASSUME WriteAnswerAssumption == \A a \in WriteAnswer : a.kind \in {"ticket", "error"}

VARIABLES
    live,       \* the workflow as the agent executes it
    inflight,   \* steps of requests whose client has given up, not committed
    performed,  \* the steps in the order they were performed
    early,      \* an early capture, which stored no parsable model answer
    status      \* the status of the run in the store

livevars == <<live, inflight, performed, early, status>>

Answers(x) == IF x.pc = "lookup" THEN LookupAnswer ELSE WriteAnswer

(* Mutant: the client counts the steps it has performed.                    *)
Append1AsClient(row) == trace' = Append(trace, [row EXCEPT !.index = Len(performed) + 1])

Append1(row) == trace' = Append(trace, [row EXCEPT !.index = Len(trace) + 1])
Perform(row) == performed' = Append(performed, [row EXCEPT !.index = Len(performed) + 1])

LiveInit == /\ trace = <<>>
            /\ live = Begun
            /\ inflight = {}
            /\ performed = <<>>
            /\ early \in BOOLEAN
            /\ status = "running"

(* What the model may say at a stage.                                       *)
ModelSays(x) ==
    IF x.pc = "initial" THEN [board : Board, recovered : {FALSE}] \cup {Garbled}
    ELSE FinalDecision \cup {Garbled}

(* LiveTriageRuntime.decide through the patched client.  The capture is     *)
(* recorded, lost, or still being served when its client gives up; none of  *)
(* this shows in the agent, which goes on.                                  *)
LiveDecide ==
    /\ live.pc \in {"initial", "final"}
    /\ \E said \in ModelSays(live) :
          LET row == LlmRow(0, live, IF early THEN Garbled ELSE said) IN
          /\ live' = AfterDecision(live, said)
          /\ Perform(row)
          /\ \/ Append1(row) /\ UNCHANGED inflight
             \/ UNCHANGED <<trace, inflight>>
             \/ inflight' = inflight \cup {row} /\ UNCHANGED trace
    /\ UNCHANGED <<early, status>>

(* generate_content raises: nothing is captured, the run fails.             *)
ModelFails ==
    /\ live.pc \in {"initial", "final"}
    /\ live' = Fail(live)
    /\ UNCHANGED <<trace, inflight, performed, early, status>>

(* ProxyTraceClient.call_tool.  An answer means a recorded step; a 500 or a *)
(* timeout raises in the agent, although the tool has run.                  *)
LiveCall ==
    /\ Calling(live)
    /\ \E response \in Answers(live) :
          LET row == ToolRow(0, live, response) IN
          /\ Perform(row)
          /\ \/ /\ Append1(row)
                /\ live' = AfterCall(live, response)
                /\ UNCHANGED inflight
             \/ /\ live' = Fail(live)
                /\ UNCHANGED <<trace, inflight>>
             \/ /\ live' = Fail(live)
                /\ inflight' = inflight \cup {row}
                /\ UNCHANGED trace
    /\ UNCHANGED <<early, status>>

(* The gateway cannot be reached: the tool has not run.                     *)
CallFails ==
    /\ Calling(live)
    /\ live' = Fail(live)
    /\ UNCHANGED <<trace, inflight, performed, early, status>>

(* A request without a client commits its step, or fails to.                *)
LateCommit ==
    /\ \E row \in inflight :
          /\ inflight' = inflight \ {row}
          /\ Append1(row) \/ UNCHANGED trace
    /\ UNCHANGED <<live, performed, early, status>>

(* The agent's complete_run; when that fails the run stays "running".       *)
ReportRun ==
    /\ live.pc \in Ended /\ status = "running"
    /\ status' = live.pc
    /\ UNCHANGED <<trace, live, inflight, performed, early>>

LiveNext == \/ LiveDecide
            \/ ModelFails
            \/ LiveCall
            \/ CallFails
            \/ LateCommit
            \/ ReportRun

(* The trace tells all that was performed, in order.                        *)
Whole == trace = performed
=============================================================================
