----------------------------- MODULE ForgeConsole -----------------------------
(***************************************************************************)
(* The first console of the Forge app, a page of its own: the list of runs, *)
(* one of them selected, its detail and what was replayed of it.  Two       *)
(* effects follow the state: one loads the lists whenever the filter or the *)
(* selection changes, one loads the detail of a newly selected run.         *)
(*                                                                          *)
(* Left out: the texts of the notice and of the fields, so that the first   *)
(* run of a filtered list may be any run; the picked step and board; the    *)
(* saved tests and their last results.                                      *)
(***************************************************************************)
EXTENDS ConsoleClient

CONSTANT Routed   \* the runs that have a get_project_key step to patch

Blank == [runs |-> 0, selected |-> Nil, detail |-> Nil, strict |-> Nil, explor |-> Nil,
          busy |-> "refresh"]

PageState == [runs : 0..MaxRuns, selected : Run \cup {Nil}, detail : Run \cup {Nil},
              strict : Run \cup {Nil}, explor : Run \cup {Nil},
              busy : {Nil, "refresh", "detail", "trace", "strict", "patch", "tests"}]

patchStep == IF ui.detail \in Routed THEN ui.detail ELSE Nil

Mount == /\ ui = Blank
         /\ pending = {NewRequest("refresh", "lists", Nil, Nil)}
         /\ past = [runs |-> {}, failed |-> FALSE, pick |-> Nil]
-----------------------------------------------------------------------------
(* Mutant: the closure does not follow the selection.                     *)
refreshUnselected(v) == [NewRequest("refresh", "lists", Nil, Nil) EXCEPT !.seen = Seen("lists", server')]

(* What the effects send for the new state v while the requests of rest     *)
(* stay pending, and what they set.  refresh holds the selection and the    *)
(* filter; it waits for both its lists, each of which is shown when it      *)
(* comes.                                                                   *)
refresh(v) == [NewRequest("refresh", "lists", v.selected, Nil) EXCEPT !.seen = Seen("lists", server')]

Sent(v, rest) == IF v.selected # ui.selected
                 THEN With(With(rest, refresh(v)), NewRequest("detail", "detail", v.selected, Nil))
                 ELSE rest

(* Mutant: the safe replay stays.                                         *)
EffectKeepStrict(v) == IF v.selected # ui.selected
                       THEN [v EXCEPT !.explor = Nil, !.busy = "detail"]
                       ELSE v

Effect(v) == IF v.selected # ui.selected
             THEN [v EXCEPT !.strict = Nil, !.explor = Nil, !.busy = "detail"]
             ELSE v

(* History: the other runs whose answers were pending when the selection    *)
(* last changed, and whether its detail failed to load; the run last        *)
(* chosen, unless a list was awaited then that was asked for before any run *)
(* was selected.                                                            *)
Remember(v, rest, failed, pick) ==
    past' = [runs   |-> IF v.selected = ui.selected THEN past.runs
                        ELSE {p.run : p \in {q \in rest : q.op \in {"detail", "strict", "patch"}}} \ {v.selected},
             failed |-> v.selected = ui.selected /\ failed,
             pick   |-> IF pick = Nil THEN past.pick
                        ELSE IF \E p \in rest : /\ p.op \in {"refresh", "left", "trace"}
                                                /\ p.run = Nil /\ p.stage # "tests"
                        THEN Nil ELSE pick]

(* The state becomes v while the requests of rest stay pending.             *)
Becomes(v, rest, failed, pick) ==
    /\ Cardinality(rest) + (IF v.selected # ui.selected THEN 2 ELSE 0) <= MaxPending
    /\ ui' = Effect(v)
    /\ pending' = Sent(v, rest)
    /\ Remember(v, rest, failed, pick)

(* The handler of p sends its next request.                                 *)
Onward(p, stage) == With(pending \ {p}, [p EXCEPT !.stage = stage, !.seen = Seen(stage, server')])

Gone(p) == pending \ {p}

(* The finally; a list that comes when its refresh has failed has none.     *)
Finally(v, p) == IF p.op = "left" THEN v ELSE SetBusy(v, Nil)
-----------------------------------------------------------------------------
SelectRun == /\ UNCHANGED server
             /\ \E r \in 1..ui.runs :
                   Becomes([ui EXCEPT !.selected = r], pending, past.failed, r)

Room == Cardinality(pending) < MaxPending

Starts(op, stage, run, arg) ==
    /\ Room
    /\ UNCHANGED server
    /\ Becomes(SetBusy(ui, op), With(pending, NewRequest(op, stage, run, arg)), past.failed, Nil)

Idle == ui.busy = Nil

Reloads == /\ Room
           /\ UNCHANGED server
           /\ Becomes(SetBusy(ui, "refresh"), With(pending, refresh(ui)), past.failed, Nil)

sync == Idle /\ Reloads

(* The context of the issue comes, or the filter is typed: an effect loads. *)
setIssueFilter == Reloads

(* The button, or Enter in its field, which asks for no idleness.           *)
traceJiraIssue == Starts("trace", "post", ui.selected, Nil)

runStrictReplay == Idle /\ ui.detail # Nil /\ Starts("strict", "post", ui.selected, Nil)

(* The patch is of the step of the detail, the replay of the selected run.  *)
runPatchReplay == Idle /\ patchStep # Nil /\ Starts("patch", "post", ui.selected, Nil)

promoteRegression == Idle /\ ui.explor # Nil /\ Starts("tests", "post", Nil, Nil)

runRegressionPack == Idle /\ Starts("tests", "post", Nil, Nil)
-----------------------------------------------------------------------------
PostAnswer(p) ==
    /\ p.stage = "post"
    /\ \/ /\ p.op = "trace" /\ RecordRun
          /\ Becomes([ui EXCEPT !.selected = server.runs + 1], Onward(p, "runs"), past.failed, server.runs + 1)
       \/ /\ p.op = "strict" /\ UNCHANGED server
          /\ Becomes([ui EXCEPT !.strict = p.run], Onward(p, "detail"), past.failed, Nil)
       \/ /\ p.op = "patch" /\ UNCHANGED server
          /\ Becomes(Finally([ui EXCEPT !.explor = p.run], p), Gone(p), past.failed, Nil)
       \/ /\ p.op = "tests" /\ UNCHANGED server
          /\ Becomes(ui, Onward(p, "tests"), past.failed, Nil)

(* loadRuns; without a selection in its closure it selects the first run.   *)
RunsCome(p) ==
    /\ p.stage \in {"lists", "runs"}
    /\ UNCHANGED server
    /\ \E n \in p.seen.runs..server.runs :
          \E first \in IF p.run = Nil THEN 1..n \cup {ui.selected} ELSE {ui.selected} :
          LET v == [ui EXCEPT !.runs = n, !.selected = first]
          IN  IF p.stage = "lists" \/ p.op = "trace"
              THEN Becomes(v, Onward(p, "tests"), past.failed, Nil)
              ELSE Becomes(Finally(v, p), Gone(p), past.failed, Nil)

TestsCome(p) ==
    /\ p.stage \in {"lists", "tests"}
    /\ UNCHANGED server
    /\ IF p.stage = "lists" THEN Becomes(ui, Onward(p, "runs"), past.failed, Nil)
       ELSE Becomes(Finally(ui, p), Gone(p), past.failed, Nil)

(* loadRunDetail, of the effect or after a strict replay.                   *)
DetailAnswer(p) ==
    /\ p.stage = "detail"
    /\ UNCHANGED server
    /\ Becomes(Finally([ui EXCEPT !.detail = p.run], p), Gone(p), past.failed, Nil)

(* One list of a refresh may fail and the other still come.                 *)
Fail(p) ==
    /\ UNCHANGED server
    /\ \/ Becomes(Finally(ui, p), Gone(p),
                  past.failed \/ (p.op = "detail" /\ p.run = ui.selected), Nil)
       \/ /\ p.stage = "lists"
          /\ Becomes(Finally(ui, p), With(Gone(p), [p EXCEPT !.op = "left", !.stage = "runs"]),
                     past.failed, Nil)

Answers == \E p \in pending : \/ PostAnswer(p)
                              \/ RunsCome(p)
                              \/ TestsCome(p)
                              \/ DetailAnswer(p)
                              \/ Fail(p)

Next == \/ setIssueFilter
        \/ SelectRun
        \/ sync
        \/ traceJiraIssue
        \/ runStrictReplay
        \/ runPatchReplay
        \/ promoteRegression
        \/ runRegressionPack
        \/ Answers
-----------------------------------------------------------------------------
DetailsAwaited == {p \in Waiting("detail") : p.run = ui.selected}

(* The replays shown are of the selected run, or were pending when it was   *)
(* selected; so is the detail, once it has come.                            *)
ShowsSelected ==
    /\ {ui.strict, ui.explor} \subseteq {Nil, ui.selected} \cup past.runs
    /\ ~past.failed /\ DetailsAwaited = {} =>
       ui.detail \in {ui.selected} \cup past.runs

(* A run that was chosen stays selected: only a list asked for before any   *)
(* run was selected may put the first one in its place.                     *)
ChoiceStays == past.pick # Nil => ui.selected = past.pick

NeverStuck == ui.busy # Nil => Waiting(ui.busy) # {}
=============================================================================
