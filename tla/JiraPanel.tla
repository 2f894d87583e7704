------------------------------ MODULE JiraPanel ------------------------------
(***************************************************************************)
(* The panel in a Jira issue: the runs of that issue, one of them with its  *)
(* detail, replays, drift check and saved tests.                            *)
(*                                                                          *)
(* Left out: which step, graph node, timeline and board are picked, and the *)
(* counts of the last pack run, which decide only what is drawn.            *)
(***************************************************************************)
EXTENDS ConsoleClient

CONSTANT Routed   \* the runs that have a get_project_key step to patch

Blank == [issue |-> FALSE, loading |-> TRUE, busy |-> Nil,
          runs |-> 0, tests |-> 0, run |-> Nil,
          detail |-> Nil, warned |-> Nil, strict |-> Nil, explor |-> Nil,
          promoted |-> Nil, drift |-> Nil]

(* runs and tests tell how much of the server's lists is shown; detail,     *)
(* warned, strict and drift whose detail, warnings, replay and drift check  *)
(* are; explor and promoted are replays.                                    *)
PanelState ==
    [issue : BOOLEAN, loading : BOOLEAN,
     busy : {Nil, "strict", "exploratory", "promote", "drift", "regression", "trace"},
     runs : {0} \cup Run, tests : 0..MaxTests, run : Run \cup {Nil},
     detail : Run \cup {Nil}, warned : Run \cup {Nil}, strict : Run \cup {Nil},
     explor : Replay \cup {Nil}, promoted : Replay \cup {Nil},
     drift : Run \cup {Nil}]

Mount == ui = Blank /\ pending = {} /\ past = [runs |-> {}, saves |-> {}]

patchStep == IF ui.detail \in Routed THEN ui.detail ELSE Nil

Completed(replay) == replay # Nil /\ replay.done

(* What the panel renders: a spinner, the offer to trace the issue, or the  *)
(* run with its controls.                                                   *)
Screen == IF ui.loading THEN "loading"
          ELSE IF ui.run = Nil \/ ui.detail = Nil THEN "no traces"
          ELSE "run"
-----------------------------------------------------------------------------
(* Mutant: the finally of traceIssue forgets the spinner.                 *)
FinallyStuck(u, p) ==
    [u EXCEPT !.busy    = IF p.op \in {"load", "switch"} THEN @ ELSE Nil,
              !.loading = IF p.op = "load" THEN FALSE ELSE @]

(* The finally of the handlers.                                             *)
Finally(u, p) ==
    [u EXCEPT !.busy    = IF p.op \in {"load", "switch"} THEN @ ELSE Nil,
              !.loading = IF p.op \in {"load", "trace"} THEN FALSE ELSE @]

Fail(p) == ui' = Finally(ui, p) /\ Returns(p) /\ UNCHANGED <<server, past>>

(* The issue is known from the start, from the bridge or by default.        *)
GetContext == /\ ~ui.issue
              /\ Send("load", "lists", Nil, Nil)
              /\ ui' = [ui EXCEPT !.issue = TRUE, !.loading = TRUE]
              /\ UNCHANGED <<server, past>>

(* Mutant: the safe replay stays.                                         *)
ShowRunKeepStrict(u, r) == [u EXCEPT !.run = r, !.detail = Nil, !.explor = Nil, !.drift = Nil]

(* loadRunDetail to its await.  Neither the warnings nor promotedId go.     *)
ShowRun(u, r) ==
    [u EXCEPT !.run = r, !.detail = Nil, !.strict = Nil, !.explor = Nil, !.drift = Nil]

Turned == past' = [past EXCEPT !.runs = PendingRuns]

loadData(p) ==
    /\ p.op = "load" /\ p.stage = "lists"
    /\ \E n \in RunsAnswer(p), k \in TestsAnswer(p) :
          LET listed == [ui EXCEPT !.runs = n, !.tests = k] IN
          \/ n = 0 /\ ui' = Finally(listed, p) /\ Returns(p) /\ UNCHANGED <<server, past>>
          \/ /\ n > 0
             /\ ui' = [listed EXCEPT !.run = n]
             /\ UNCHANGED server
             /\ Goes(p, "detail", n)
             /\ Turned

(* Detail and warnings are asked for and set together.                      *)
SetDetail(u, p) == [u EXCEPT !.detail = p.run, !.warned = p.run]

DetailAnswer(p) ==
    /\ p.stage = "detail"
    /\ ui' = Finally(SetDetail(ui, p), p)
    /\ Returns(p)
    /\ UNCHANGED <<server, past>>

SelectRun == /\ Screen = "run" /\ ui.runs > 1
             /\ \E r \in 1..ui.runs \ {ui.run} :
                   /\ Send("switch", "detail", r, Nil)
                   /\ ui' = ShowRun(ui, r)
             /\ Turned
             /\ UNCHANGED server
-----------------------------------------------------------------------------
runSafeReplay == /\ Screen = "run" /\ Offered("strict")
                 /\ Send("strict", "post", ui.run, Nil)
                 /\ ui' = [ui EXCEPT !.busy = "strict", !.explor = Nil]
                 /\ UNCHANGED <<server, past>>

StrictAnswer(p) == /\ p.op = "strict"
                   /\ ui' = Finally([ui EXCEPT !.strict = p.run], p)
                   /\ Returns(p)
                   /\ UNCHANGED <<server, past>>

(* Mutant: the mark of the last save stays.                               *)
ClearedButSaved(u) == [u EXCEPT !.strict = Nil, !.explor = Nil]

Cleared(u) == [u EXCEPT !.strict = Nil, !.explor = Nil, !.promoted = Nil]

runExploratory ==
    /\ Screen = "run" /\ Offered("exploratory") /\ patchStep # Nil
    /\ Send("exploratory", "post", ui.run, Nil)
    /\ ui' = [Cleared(ui) EXCEPT !.busy = "exploratory"]
    /\ past' = [past EXCEPT !.saves = {p.arg : p \in Waiting("promote")}]
    /\ UNCHANGED server

ExploratoryAnswer(p) ==
    /\ p.op = "exploratory"
    /\ StoreReplay
    /\ \E done \in BOOLEAN : ui' = Finally([ui EXCEPT !.explor = NewReplay(p.run, done)], p)
    /\ Returns(p)
    /\ UNCHANGED past

promote == /\ Screen = "run" /\ Offered("promote")
           /\ Completed(ui.explor) /\ ui.promoted = Nil
           /\ Send("promote", "post", ui.run, ui.explor)
           /\ ui' = SetBusy(ui, "promote")
           /\ past' = [past EXCEPT !.saves = @ \cup {ui.explor : p \in Waiting("exploratory")}]
           /\ UNCHANGED server

PromoteAnswer(p) ==
    /\ p.op = "promote"
    /\ \/ p.stage = "post" /\ SaveTest(p.arg) /\ Goes(p, "list", p.run) /\ UNCHANGED ui
       \/ /\ p.stage = "list"
          /\ \E k \in TestsAnswer(p) :
                ui' = Finally([ui EXCEPT !.tests = k, !.promoted = p.arg], p)
          /\ Returns(p) /\ UNCHANGED server
    /\ UNCHANGED past

checkDrift == /\ Screen = "run" /\ Offered("drift")
              /\ Send("drift", "post", ui.run, Nil)
              /\ ui' = SetBusy(ui, "drift")
              /\ UNCHANGED <<server, past>>

DriftAnswer(p) ==
    /\ p.op = "drift"
    /\ \/ p.stage = "post" /\ UNCHANGED <<server, ui>> /\ Goes(p, "warnings", p.run)
       \/ /\ p.stage = "warnings"
          /\ ui' = Finally([ui EXCEPT !.drift = p.run, !.warned = p.run], p)
          /\ Returns(p) /\ UNCHANGED server
    /\ UNCHANGED past

runSavedTests == /\ Screen = "run" /\ Offered("regression") /\ ui.tests > 0
                 /\ Send("regression", "post", Nil, Nil)
                 /\ ui' = SetBusy(ui, "regression")
                 /\ UNCHANGED <<server, past>>

RegressionAnswer(p) ==
    /\ p.op = "regression"
    /\ \/ p.stage = "post" /\ UNCHANGED <<server, ui>> /\ Goes(p, "list", Nil)
       \/ /\ p.stage = "list"
          /\ \E k \in TestsAnswer(p) : ui' = Finally([ui EXCEPT !.tests = k], p)
          /\ Returns(p) /\ UNCHANGED server
    /\ UNCHANGED past

traceIssue == /\ Screen \in {"run", "no traces"} /\ ui.issue /\ Offered("trace")
              /\ Send("trace", "post", Nil, Nil)
              /\ ui' = SetBusy(ui, "trace")
              /\ UNCHANGED <<server, past>>

TraceAnswer(p) ==
    /\ p.op = "trace"
    /\ \/ /\ p.stage = "post"
          /\ RecordRun
          /\ Goes(p, "list", Nil)
          /\ ui' = [ui EXCEPT !.loading = TRUE]
          /\ UNCHANGED past
       \/ /\ p.stage = "list"
          /\ UNCHANGED server
          /\ \E n \in RunsAnswer(p) : /\ ui' = ShowRun([ui EXCEPT !.runs = n], n)
                                      /\ Goes(p, "detail", n)
          /\ Turned
-----------------------------------------------------------------------------
Answer(p) == \/ loadData(p)
             \/ DetailAnswer(p)
             \/ StrictAnswer(p)
             \/ ExploratoryAnswer(p)
             \/ PromoteAnswer(p)
             \/ DriftAnswer(p)
             \/ RegressionAnswer(p)
             \/ TraceAnswer(p)

Click == \/ SelectRun
         \/ runSafeReplay
         \/ runExploratory
         \/ promote
         \/ checkDrift
         \/ runSavedTests
         \/ traceIssue

Answers == \E p \in pending : Answer(p) \/ Fail(p)

Next == GetContext \/ Click \/ Answers
-----------------------------------------------------------------------------
(* What is shown with a run is of that run, or of one that a request was    *)
(* pending for when the panel turned to the run: nothing older is left on   *)
(* the screen, and nothing else gets there.                                 *)
ShowsSelected ==
    Screen = "run" =>
        /\ {ui.detail, ui.warned} \subseteq {ui.run} \cup past.runs
        /\ {ui.strict, ui.drift} \subseteq {ui.run, Nil} \cup past.runs
        /\ ui.explor # Nil => ui.explor.run \in {ui.run} \cup past.runs

(* "Saved as regression test" stands beside the simulation that was saved,  *)
(* but for a save that overlapped the request for a simulation.             *)
SavedIsShown ==
    Screen = "run" /\ Completed(ui.explor) /\ ui.promoted # Nil =>
        \/ ui.promoted = ui.explor /\ Saved(ui.explor)
        \/ ui.promoted \in past.saves

(* Busy and loading name a handler that is still waiting: no error path     *)
(* leaves a control disabled or the panel loading for ever.                 *)
NeverStuck == /\ ui.busy # Nil => \E p \in pending : p.op = ui.busy
              /\ ui.loading /\ ui.issue => \E p \in pending : p.op \in {"load", "trace"}
=============================================================================
