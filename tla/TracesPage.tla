------------------------------ MODULE TracesPage ------------------------------
(***************************************************************************)
(* The list of runs: loaded for an issue or for all, filtered by a search   *)
(* and a status tab, and shown page by page.                                *)
(*                                                                          *)
(* Left out: the order of the runs and the choice of grid or table, which   *)
(* change neither the runs shown nor the number of pages.                   *)
(***************************************************************************)
EXTENDS ConsoleClient, Pagination

CONSTANTS
    Issue, IssueOf,   \* the issue of each run
    Ended,            \* the runs under the tab "completed"
    PageSize

Filter == Issue \cup {Nil}

Blank == [query |-> Nil, search |-> Nil, tab |-> "all", page |-> 1,
          key |-> Nil, runs |-> 0, busy |-> "load", loading |-> TRUE]

PageState == [query : Filter, search : Filter, tab : {"all", "completed"}, page : Nat,
              key : Filter, runs : 0..MaxRuns, busy : {Nil, "load", "trace"}, loading : BOOLEAN]

Mount == /\ ui = Blank
         /\ pending = {NewRequest("load", "list", Nil, Nil)}
         /\ past = [keys |-> {}, failed |-> FALSE]

(* The list that was answered, the part of it under the tab, and the part   *)
(* of that which the search leaves.                                         *)
Of(key)  == {r \in Run : key = Nil \/ IssueOf[r] = key}
Listed   == {r \in 1..ui.runs : r \in Of(ui.key) /\ (ui.tab = "all" \/ r \in Ended)}
Filtered == Listed \cap Of(ui.search)

(* Mutant: a page too many when the last one is full.                     *)
PagesRoundedDown(runs) == Cardinality(runs) \div PageSize + 1

Pages(runs) == (Cardinality(runs) + PageSize - 1) \div PageSize

-----------------------------------------------------------------------------
(* load of the closure that holds the query p.arg; the finally of load.     *)
Loaded(u, p, n) == [u EXCEPT !.runs = n, !.key = p.arg, !.page = 1, !.busy = Nil, !.loading = FALSE]

ListAnswer(p) == /\ p.stage = "list"
                 /\ \E n \in RunsAnswer(p) : ui' = Loaded(ui, p, n)
                 /\ Returns(p)
                 /\ UNCHANGED <<server, past>>

Fail(p) == /\ ui' = [ui EXCEPT !.busy = Nil, !.loading = @ /\ p.stage # "list"]
           /\ Returns(p)
           /\ past' = [past EXCEPT !.failed = @ \/ (p.stage = "list" /\ p.arg = ui.query)]
           /\ UNCHANGED server

refresh == /\ Offered("load")
           /\ Send("load", "list", Nil, ui.query)
           /\ ui' = SetBusy(ui, "load")
           /\ past' = [past EXCEPT !.failed = FALSE]
           /\ UNCHANGED server

(* Mutant: no load follows.                                               *)
SetQueryUnloaded(u, k) ==
    /\ ui' = [u EXCEPT !.query = k]
    /\ past' = [keys |-> {p.arg : p \in pending}, failed |-> FALSE]
    /\ UNCHANGED pending

(* A new query makes a new load, whose effect calls it.                     *)
SetQuery(u, k) ==
    IF k = u.query THEN ui' = u /\ UNCHANGED <<pending, past>>
    ELSE /\ Send("load", "list", Nil, k)
         /\ ui' = [u EXCEPT !.query = k, !.busy = "load"]
         /\ past' = [keys |-> {p.arg : p \in pending}, failed |-> FALSE]

(* Enter in the search bar, when it is not empty.                           *)
runQuery == /\ ui.search # Nil
            /\ SetQuery(ui, ui.search)
            /\ UNCHANGED server

(* The search of the top bar, which goes through the address.               *)
GlobalSearch == /\ \E k \in Filter :
                      LET found == [ui EXCEPT !.search = k, !.page = 1] IN
                      IF k = Nil THEN ui' = found /\ UNCHANGED <<pending, past>>
                      ELSE SetQuery(found, Nil)
                /\ UNCHANGED server

Type == /\ \E k \in Filter : ui' = [ui EXCEPT !.search = k]
        /\ UNCHANGED <<server, pending, past>>

SetTab == /\ \E t \in {"all", "completed"} : ui' = [ui EXCEPT !.tab = t, !.page = 1]
          /\ UNCHANGED <<server, pending, past>>

(* The pages of the footer.                                                 *)
SetPage == /\ \E i \in Clicks(ui.page, Pages(Filtered)) : ui' = [ui EXCEPT !.page = i]
           /\ UNCHANGED <<server, pending, past>>

(* The button, or Enter in its field, whatever is busy.                     *)
startTrace == /\ Send("trace", "post", Nil, ui.query)
              /\ ui' = SetBusy(ui, "trace")
              /\ UNCHANGED <<server, past>>

(* The nested load is that of the closure.                                  *)
TraceAnswer(p) == /\ p.stage = "post"
                  /\ RecordRun
                  /\ Goes(p, "list", Nil)
                  /\ ui' = SetBusy(ui, "load")
                  /\ UNCHANGED past

Answers == \E p \in pending : ListAnswer(p) \/ TraceAnswer(p) \/ Fail(p)

Next == \/ refresh
        \/ runQuery
        \/ GlobalSearch
        \/ Type
        \/ SetTab
        \/ SetPage
        \/ startTrace
        \/ Answers
-----------------------------------------------------------------------------
(* At rest the list is that of the query, but when its load failed or a     *)
(* load or trace of an older query was pending when it was made.            *)
ListIsOfQuery == pending = {} /\ ~past.failed => ui.key \in {ui.query} \cup past.keys

Visible == {r \in Filtered : Cardinality({q \in Filtered : q > r}) \div PageSize = ui.page - 1}

(* Runs that were loaded and are under the tab are on some page, and the    *)
(* page is one of theirs: only a search that was typed leaves it empty.     *)
EmptyOnlyBySearch == Listed # {} /\ Visible = {} => ui.search # Nil

(* load sets busy before the answer of an overlapping trace clears it, so   *)
(* busy names a handler that waits; or the nested load of a trace.          *)
NeverStuck == /\ ui.busy # Nil => pending # {}
              /\ ui.busy = "trace" => \E p \in pending : p.op = "trace"
              /\ ui.loading => Waiting("load") # {} \/ Waiting("trace") # {}
=============================================================================
