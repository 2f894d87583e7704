------------------------------ MODULE Dashboard ------------------------------
(***************************************************************************)
(* The overview: the counts of runs and saved tests, the warnings of the    *)
(* latest runs, and a field to trace an issue.                              *)
(***************************************************************************)
EXTENDS ConsoleClient

Blank == [runs |-> 0, tests |-> 0, warned |-> 0, typed |-> FALSE, busy |-> "refresh", loading |-> TRUE]

(* warned: of which list of runs the warnings are.  They are gathered for   *)
(* the first five of the list.                                              *)
PageState == [runs : 0..MaxRuns, tests : 0..MaxTests, warned : 0..MaxRuns, typed : BOOLEAN,
              busy : {Nil, "refresh", "trace"}, loading : BOOLEAN]

Mount == /\ ui = Blank
         /\ pending = {NewRequest("refresh", "lists", Nil, Nil)}
         /\ past = [crossed |-> FALSE]

(* past: the lists were asked for while an answer was pending, and have not *)
(* been answered since with nothing else pending.                           *)
Gathering(others) ==
    past' = [crossed |-> past.crossed \/ \E p \in others : p.stage # "post"]
-----------------------------------------------------------------------------
refresh == /\ Offered("refresh")
           /\ Send("refresh", "lists", Nil, Nil)
           /\ ui' = SetBusy(ui, "refresh")
           /\ Gathering(pending)
           /\ UNCHANGED server

ListsAnswer(p) == /\ p.stage = "lists"
                  /\ \E n \in RunsAnswer(p), k \in TestsAnswer(p) :
                        /\ ui' = [ui EXCEPT !.runs = n, !.tests = k]
                        /\ Goes(p, "warnings", n)
                  /\ past' = [crossed |-> past.crossed /\ \E q \in pending \ {p} : q.stage # "post"]
                  /\ UNCHANGED server

(* The request for the warnings of a run does not fail: it yields none.     *)
WarningsAnswer(p) == /\ p.stage = "warnings"
                     /\ ui' = [ui EXCEPT !.warned = p.run, !.busy = Nil, !.loading = FALSE]
                     /\ Returns(p)
                     /\ UNCHANGED <<server, past>>

(* Mutant: the warnings of the last refresh stay.                         *)
FailAtWarnings(p) == /\ ui' = [ui EXCEPT !.busy = Nil, !.loading = @ /\ p.stage = "post"]
                     /\ Returns(p)
                     /\ UNCHANGED <<server, past>>

Fail(p) == /\ p.stage # "warnings"
           /\ ui' = [ui EXCEPT !.busy = Nil, !.loading = @ /\ p.stage = "post"]
           /\ Returns(p)
           /\ UNCHANGED <<server, past>>

Type == /\ ~ui.typed
        /\ ui' = [ui EXCEPT !.typed = TRUE]
        /\ UNCHANGED <<server, pending, past>>

(* The button, or Enter, which works while a trace is pending.              *)
traceIssue == /\ ui.typed
              /\ Send("trace", "post", Nil, Nil)
              /\ ui' = SetBusy(ui, "trace")
              /\ UNCHANGED <<server, past>>

TraceAnswer(p) == /\ p.stage = "post"
                  /\ RecordRun
                  /\ ui' = [ui EXCEPT !.typed = FALSE, !.busy = "refresh"]
                  /\ Goes(p, "lists", Nil)
                  /\ Gathering(pending \ {p})

Answers == \E p \in pending : \/ ListsAnswer(p)
                              \/ WarningsAnswer(p)
                              \/ TraceAnswer(p)
                              \/ Fail(p)

Next == refresh \/ Type \/ traceIssue \/ Answers
-----------------------------------------------------------------------------
(* The drift count is of the first five of the runs that are counted beside *)
(* it, but while the warnings are being gathered, or after two refreshes    *)
(* crossed.                                                                 *)
WarningsAreOfRuns == ~past.crossed /\ ~(\E p \in pending : p.stage = "warnings") => ui.warned = ui.runs

NeverStuck == /\ ui.busy # Nil => pending # {}
              /\ ui.busy = "trace" => Waiting("trace") # {}
              /\ ui.loading => \E p \in pending : p.stage # "post"
=============================================================================
