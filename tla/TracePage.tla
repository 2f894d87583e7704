------------------------------ MODULE TracePage ------------------------------
(***************************************************************************)
(* The page of one trace.  The run is a parameter of the route: going from  *)
(* a trace to another keeps the page and its state.                         *)
(***************************************************************************)
EXTENDS ConsoleClient

CONSTANT Routed   \* the runs that have a get_project_key step to patch

Blank(r) == [run |-> r, detail |-> Nil, strict |-> Nil, explor |-> Nil,
             promoted |-> Nil, busy |-> "load"]

PageState == [run : Run, detail : Run \cup {Nil}, strict : Run \cup {Nil},
              explor : Replay \cup {Nil}, promoted : Replay \cup {Nil},
              busy : {Nil, "load", "strict", "exploratory", "promote"}]

(* The first effect has sent the requests for the detail.                   *)
Mount == /\ \E r \in 1..server.runs :
               /\ ui = Blank(r)
               /\ pending = {NewRequest("load", "detail", r, Nil)}
         /\ past = [runs |-> {}, saves |-> {}, results |-> {}, failed |-> FALSE]

Screen == IF ui.detail # Nil THEN "trace"
          ELSE IF ui.busy = "load" THEN "loading" ELSE "not found"

patchStep == IF ui.detail \in Routed THEN ui.detail ELSE Nil

Completed(replay) == replay # Nil /\ replay.done

(* The runs whose replays, simulation or saved test are shown, and those of *)
(* which one has been asked for.                                            *)
ResultRuns == ({ui.strict} \ {Nil}) \cup {x.run : x \in {ui.explor, ui.promoted} \ {Nil}}

AwaitedRuns == {p.run : p \in Waiting("strict") \cup Waiting("exploratory")}
               \cup {p.arg.run : p \in Waiting("promote")}
-----------------------------------------------------------------------------
(* Steps, warnings and the picked step are set with the detail.             *)
LoadAnswer(p) == /\ p.op = "load"
                 /\ ui' = [ui EXCEPT !.detail = p.run, !.busy = Nil]
                 /\ Returns(p)
                 /\ UNCHANGED <<server, past>>

Fail(p) == /\ ui' = SetBusy(ui, Nil)
           /\ Returns(p)
           /\ past' = [past EXCEPT !.failed = @ \/ (p.op = "load" /\ p.run = ui.run)]
           /\ UNCHANGED server

Reload == /\ Screen = "trace" /\ Offered("load")
          /\ Send("load", "detail", ui.run, Nil)
          /\ ui' = SetBusy(ui, "load")
          /\ past' = [past EXCEPT !.failed = FALSE]
          /\ UNCHANGED server

(* Mutant: the effect does not depend on the route.                       *)
NavigateUnloaded ==
    /\ \E r \in 1..server.runs \ {ui.run} : ui' = [ui EXCEPT !.run = r]
    /\ past' = [past EXCEPT !.runs = {p.run : p \in Waiting("load")},
                            !.results = ResultRuns \cup AwaitedRuns, !.failed = FALSE]
    /\ UNCHANGED <<server, pending>>

(* Another run id in the command palette, or back and forward.  The detail  *)
(* is loaded anew; of what was replayed, simulated and saved nothing is     *)
(* cleared.                                                                 *)
Navigate == /\ \E r \in 1..server.runs \ {ui.run} :
                  /\ Send("load", "detail", r, Nil)
                  /\ ui' = [ui EXCEPT !.run = r, !.busy = "load"]
            /\ past' = [past EXCEPT !.runs = {p.run : p \in Waiting("load")},
                                    !.results = ResultRuns \cup AwaitedRuns, !.failed = FALSE]
            /\ UNCHANGED server

(* Mutant: the run is that of the detail on the screen.                     *)
runStrictOfDetail ==
    /\ Screen = "trace" /\ Offered("strict")
    /\ Send("strict", "post", ui.detail, Nil)
    /\ ui' = SetBusy(ui, "strict")
    /\ UNCHANGED <<server, past>>

runStrict == /\ Screen = "trace" /\ Offered("strict")
             /\ Send("strict", "post", ui.run, Nil)
             /\ ui' = SetBusy(ui, "strict")
             /\ UNCHANGED <<server, past>>

StrictAnswer(p) == /\ p.op = "strict"
                   /\ ui' = [ui EXCEPT !.strict = p.run, !.busy = Nil]
                   /\ Returns(p)
                   /\ UNCHANGED <<server, past>>

(* Mutant: the mark of the last save stays.                               *)
ClearedButSaved(u) == [u EXCEPT !.explor = Nil]

Cleared(u) == [u EXCEPT !.explor = Nil, !.promoted = Nil]

runExploratory ==
    /\ Screen = "trace" /\ Offered("exploratory") /\ patchStep # Nil
    /\ Send("exploratory", "post", ui.run, Nil)
    /\ ui' = SetBusy(Cleared(ui), "exploratory")
    /\ past' = [past EXCEPT !.saves = {p.arg : p \in Waiting("promote")}]
    /\ UNCHANGED server

ExploratoryAnswer(p) ==
    /\ p.op = "exploratory"
    /\ StoreReplay
    /\ \E done \in BOOLEAN : ui' = [ui EXCEPT !.explor = NewReplay(p.run, done), !.busy = Nil]
    /\ Returns(p)
    /\ UNCHANGED past

promote == /\ Screen = "trace" /\ Offered("promote")
           /\ Completed(ui.explor) /\ ui.promoted = Nil
           /\ Send("promote", "post", ui.run, ui.explor)
           /\ ui' = SetBusy(ui, "promote")
           /\ past' = [past EXCEPT !.saves = @ \cup {ui.explor : p \in Waiting("exploratory")}]
           /\ UNCHANGED server

PromoteAnswer(p) == /\ p.op = "promote"
                    /\ SaveTest(p.arg)
                    /\ ui' = [ui EXCEPT !.promoted = p.arg, !.busy = Nil]
                    /\ Returns(p)
                    /\ UNCHANGED past

Answers == \E p \in pending : \/ LoadAnswer(p)
                              \/ StrictAnswer(p)
                              \/ ExploratoryAnswer(p)
                              \/ PromoteAnswer(p)
                              \/ Fail(p)

Next == \/ Reload
        \/ Navigate
        \/ runStrict
        \/ runExploratory
        \/ promote
        \/ Answers
-----------------------------------------------------------------------------
(* Once the loads are over, the page shows the run of its route; but when   *)
(* the load of that run failed, or the load of another run was pending when *)
(* the route changed and was answered last.  The replay, the simulation and *)
(* the "saved" beside it are of that run too, or were shown or asked for    *)
(* before the route changed: these stay until they are asked for again.     *)
ShowsRoute ==
    /\ Waiting("load") = {} /\ ~past.failed => ui.detail \in {ui.run} \cup past.runs
    /\ ResultRuns \subseteq {ui.run} \cup past.results

(* "Saved" is said of the simulation that was saved, but for a save that    *)
(* overlapped the request for a simulation.                                 *)
SavedIsShown == Completed(ui.explor) /\ ui.promoted # Nil =>
                    \/ ui.promoted = ui.explor /\ Saved(ui.explor)
                    \/ ui.promoted \in past.saves

NeverStuck == ui.busy # Nil => Waiting(ui.busy) # {}
=============================================================================
