------------------------------ MODULE IssueCard ------------------------------
(***************************************************************************)
(* The card of the Jira issue of a run.  Its page renders it with a new     *)
(* onFetch each time, so each rendering of the page cancels the request of  *)
(* the card and sends another.                                              *)
(***************************************************************************)
EXTENDS ConsoleClient

Blank(k) == [key |-> k, issue |-> Nil, error |-> FALSE, loading |-> TRUE]

CardState == [key : Run, issue : Run \cup {Nil}, error : BOOLEAN, loading : BOOLEAN]

(* The issue of a run goes by the run.                                      *)
Mount == /\ \E k \in Run : ui = Blank(k) /\ pending = {NewRequest("issue", "live", Nil, k)}
         /\ past = Nil

(* The cleanup of the former effect, then the effect.                       *)
Render == /\ Cardinality(pending) < MaxPending
          /\ \E k \in Run :
                /\ pending' = With({[p EXCEPT !.stage = "cancelled"] : p \in pending},
                                   NewRequest("issue", "live", Nil, k))
                /\ ui' = Blank(k)
          /\ UNCHANGED <<server, past>>

(* Mutant: the cancelled answer is shown.                                 *)
FetchAnswerAnyway(p) ==
    /\ ui' = [ui EXCEPT !.issue = p.arg, !.loading = FALSE]
    /\ Returns(p)
    /\ UNCHANGED <<server, past>>

FetchAnswer(p) ==
    /\ ui' = IF p.stage = "live" THEN [ui EXCEPT !.issue = p.arg, !.loading = FALSE] ELSE ui
    /\ Returns(p)
    /\ UNCHANGED <<server, past>>

FetchFails(p) ==
    /\ ui' = IF p.stage = "live" THEN [ui EXCEPT !.error = TRUE, !.loading = FALSE] ELSE ui
    /\ Returns(p)
    /\ UNCHANGED <<server, past>>

Answers == \E p \in pending : FetchAnswer(p) \/ FetchFails(p)

Next == Render \/ Answers
-----------------------------------------------------------------------------
NeverStuck == ui.loading <=> \E p \in pending : p.stage = "live"
=============================================================================
