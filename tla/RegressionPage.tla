---------------------------- MODULE RegressionPage ----------------------------
(***************************************************************************)
(* The saved tests with their counters, and the result of the last run of   *)
(* one or of all.  The counters are modelled by how many runs they tell of. *)
(***************************************************************************)
EXTENDS ConsoleClient

CONSTANT TestId   \* the ids of the tests, in the order of their promotion

Blank == [tests |-> 0, ran |-> 0, result |-> Nil, busy |-> "load", loading |-> TRUE]

PageState == [tests : 0..MaxTests, ran : 0..MaxRuns, result : 1..MaxRuns \cup {Nil},
              busy : {Nil, "load", "run"} \cup {TestId[i] : i \in 1..MaxTests}, loading : BOOLEAN]

Mount == /\ ui = Blank
         /\ pending = {NewRequest("load", "list", Nil, Nil)}
         /\ past = [crossed |-> FALSE, failed |-> FALSE]

(* past: a request for the list was sent while another was pending, or has  *)
(* failed, since the last one that was sent alone.                          *)
Loading(others, failed) ==
    past' = [crossed |-> \E p \in others : p.stage = "list", failed |-> failed]
-----------------------------------------------------------------------------
load == /\ Offered("load")
        /\ Send("load", "list", Nil, Nil)
        /\ ui' = SetBusy(ui, "load")
        /\ Loading(pending, past.failed)
        /\ UNCHANGED server

ListAnswer(p) ==
    /\ p.stage = "list"
    /\ \E k \in TestsAnswer(p), n \in RanAnswer(p) :
          ui' = [ui EXCEPT !.tests = k, !.ran = n, !.busy = Nil, !.loading = FALSE]
    /\ Returns(p)
    /\ past' = [past EXCEPT !.failed = FALSE]
    /\ UNCHANGED server

Fail(p) == /\ ui' = [ui EXCEPT !.busy = Nil, !.loading = @ /\ p.stage # "list"]
           /\ Returns(p)
           /\ past' = [past EXCEPT !.failed = @ \/ p.stage = "list"]
           /\ UNCHANGED server

runAll == /\ Offered("run") /\ ui.tests > 0
          /\ Send("run", "post", Nil, Nil)
          /\ ui' = SetBusy(ui, "run")
          /\ UNCHANGED <<server, past>>

(* busy is the test that runs; the other tests can be run meanwhile.        *)
runTest == /\ \E i \in 1..ui.tests : /\ Offered(TestId[i])
                                     /\ Send(TestId[i], "post", Nil, Nil)
                                     /\ ui' = SetBusy(ui, TestId[i])
           /\ UNCHANGED <<server, past>>

(* Mutant: no load follows.                                               *)
RunAnswerUnloaded(p) == /\ p.stage = "post"
                        /\ RunTests
                        /\ ui' = [ui EXCEPT !.result = server.ran + 1, !.busy = Nil]
                        /\ Returns(p)
                        /\ UNCHANGED past

(* The result is shown, then the list is loaded.                            *)
RunAnswer(p) == /\ p.stage = "post"
                /\ RunTests
                /\ ui' = [ui EXCEPT !.result = server.ran + 1, !.busy = "load"]
                /\ Goes(p, "list", Nil)
                /\ Loading(pending \ {p}, past.failed)

Answers == \E p \in pending : ListAnswer(p) \/ RunAnswer(p) \/ Fail(p)

Next == load \/ runAll \/ runTest \/ Answers
-----------------------------------------------------------------------------
(* At rest the counters tell of the run whose result is shown, but when a   *)
(* load failed or two loads crossed.                                        *)
CountersTellOfResult ==
    pending = {} /\ ui.result # Nil /\ past = [crossed |-> FALSE, failed |-> FALSE] => ui.ran >= ui.result

NeverStuck == /\ ui.busy # Nil => pending # {}
              /\ ui.busy \notin {Nil, "load"} => Waiting(ui.busy) # {}
              /\ ui.loading => \E p \in pending : p.stage = "list"
=============================================================================
