------------------------------ MODULE DriftPage ------------------------------
(***************************************************************************)
(* The list of drift warnings over the recorded runs, gathered run by run.  *)
(* Each run of the model has one warning.                                   *)
(***************************************************************************)
EXTENDS ConsoleClient, Pagination

CONSTANTS Issue, IssueOf, PageSize

Blank == [rows |-> {}, search |-> Nil, page |-> 1, busy |-> TRUE, loading |-> TRUE]

PageState == [rows : SUBSET Run, search : Issue \cup {Nil}, page : Nat,
              busy : BOOLEAN, loading : BOOLEAN]

Mount == /\ ui = Blank
         /\ pending = {NewRequest("load", "list", Nil, Nil)}
         /\ past = [shrunk |-> FALSE]

Filtered == {r \in ui.rows : ui.search = Nil \/ IssueOf[r] = ui.search}

(* Mutant: a page too many when the last one is full.                     *)
PagesRoundedDown(rows) == Cardinality(rows) \div PageSize + 1

Pages(rows) == (Cardinality(rows) + PageSize - 1) \div PageSize
-----------------------------------------------------------------------------
RunsListed(p) == /\ p.stage = "list"
                 /\ \E n \in RunsAnswer(p) : Goes(p, "warnings", n)
                 /\ UNCHANGED <<server, ui, past>>

(* The warnings of a run that cannot be had count as none.  The page stays. *)
WarningsAnswer(p) ==
    /\ p.stage = "warnings"
    /\ \E lost \in SUBSET (1..p.run) :
          LET rows == 1..p.run \ lost IN
          /\ ui' = [ui EXCEPT !.rows = rows, !.busy = FALSE, !.loading = FALSE]
          /\ past' = [shrunk |-> past.shrunk \/ Pages(rows) < Pages(ui.rows)]
    /\ Returns(p)
    /\ UNCHANGED server

Fail(p) == /\ p.stage = "list"
           /\ ui' = [ui EXCEPT !.busy = FALSE, !.loading = FALSE]
           /\ Returns(p)
           /\ UNCHANGED <<server, past>>

refresh == /\ ~ui.busy
           /\ Send("load", "list", Nil, Nil)
           /\ ui' = [ui EXCEPT !.busy = TRUE]
           /\ UNCHANGED <<server, past>>

Type == /\ \E k \in Issue \cup {Nil} : ui' = [ui EXCEPT !.search = k, !.page = 1]
        /\ past' = [shrunk |-> FALSE]
        /\ UNCHANGED <<server, pending>>

(* The footer counts the rows before the search.                            *)
SetPage == /\ Cardinality(ui.rows) > PageSize
           /\ \E i \in Clicks(ui.page, Pages(ui.rows)) :
                 /\ ui' = [ui EXCEPT !.page = i]
                 /\ past' = [shrunk |-> past.shrunk /\ i > Pages(ui.rows)]
           /\ UNCHANGED <<server, pending>>

Answers == \E p \in pending : RunsListed(p) \/ WarningsAnswer(p) \/ Fail(p)

Next == refresh \/ Type \/ SetPage \/ Answers
-----------------------------------------------------------------------------
Visible == {r \in Filtered : Cardinality({q \in Filtered : q > r}) \div PageSize = ui.page - 1}

(* Warnings that were gathered are on the page, but for a search, or when a *)
(* later gathering got fewer of them while a later page was open.           *)
EmptyOnlyBySearch == ui.rows # {} /\ Visible = {} => ui.search # Nil \/ past.shrunk

NeverStuck == ui.busy \/ ui.loading => pending # {}
=============================================================================
