# ProxyTrace in TLA+

ProxyTrace records what an AI agent does (its model answers and its tool calls) as an
ordered trace, replays the trace without side effects, lets a user change one recorded
step and run the rest again, and turns a replay that came out right into a regression
test. This directory models the parts of it that decide something: the store and its
concurrent recorders, the contracts and drift checks, the agent and the replay of it, the
regression pack, and the console through which all of it is asked for and shown.
Paths below are relative to `src/`; the Python package is `proxytrace/`.

## 1. Inventory

| component | state it keeps | operations | what is hard about it | what makes it correct |
|---|---|---|---|---|
| **Trace store and recording API** `db/repository.py`, `db/models.py`, `proxy/routes/runs.py`, `llm.py` | tables `runs`, `steps` (unique `(run_id, step_index)`) | start a run, record a step with a given or the next index, complete a run, read | every request is a transaction; `max(step_index)+1` is read before the insert; runs are updated read-modify-write | an index names one step, no holes, a trace only grows at its end, the answer tells what was stored |
| **Tool gateway** `proxy/mcp_proxy.py` | none; one transaction per call | resolve the contract, run the tool live, record, check drift, commit | the tool has run before the step is stored; locks are held during the live call | one step per answered call; a conflict has a winner; every request is answered |
| **Contract registry** `contracts/registry.py` | table `tool_contracts` (unique tool and version) | seed at startup, look up, define a default for an unknown tool | two calls define one tool; a restart merges the code's descriptors over used rows | recorded steps have their contract |
| **Drift checks** `drift/checker.py`, `routes/drift.py` | table `drift_warnings` (no unique key) | check a step, check a run, log a blocked write | select-then-insert with no constraint; more than one row makes later selects raise | a finding is persisted; repeated only by overlapping requests |
| **Triage workflow** `agent_demo/workflow.py` | one execution: decision, lookup, final decision | decide, look up, decide, write | the same code runs live and in replays | at most one write, only after a usable decision |
| **Live agent** `agent_demo/agent.py`, `tools.py`, `llm_adapter/` | its execution; requests whose client gave up | ask the model, capture, call tools, report the run | captures are lost silently; timed-out calls commit late | what replay makes of such traces |
| **Replay** `replay/*.py`, `routes/replay.py` | the fetched steps, cursor, events, counts; table `replays` | strict and exploratory replay, recovery of decisions, patching | a cursor that takes any step; recovery from the next step; indexes past the end | strict asks no model and repeats the run; writes are blocked; a patch is applied where it was asked for |
| **Side-effect firewall** `replay/firewall.py` | block count | judge a tool call | two conditions that must cover every write | every write is blocked and counted |
| **Patch engine** `patch/patch_engine.py` | none | validate and apply a patch | type of patch against type of step | invalid patches are refused before anything runs |
| Evaluator and diff `evaluator/*.py` | none (part of the verdict) | diff of two traces, AI score and judgement, fallbacks | model answers of any shape | diff agrees with a reference; a failed scorer changes no verdict of the rules |
| **Regression pack** `regression_pack/*.py`, `routes/regression.py` | table `regression_pack` with counters | promote, run one, run all | read-modify-write counters held open during model calls | a promoted test passes on its own frozen trace; counters count runs |
| Jira client, tools, patch `atlassian/*.py` | installed patch, context variables, the ticket in Jira | capture calls of a third-party client, change a priority | process-wide and task-local run ids; check-then-act on the project | a call is recorded in the run of its task; only the sandbox project is changed |
| Jira panel route `routes/jira.py` | none | run the agent for an issue in one request | the request makes requests to its own server | it always ends in a run with a status |
| Authentication and workspaces `proxy/auth.py` | API keys in settings, `workspace_id` on runs | map a key to a workspace | every read has to filter | one workspace never sees another's rows |
| Redaction `privacy/redaction.py` | none | redact payloads before they are stored | redacted requests are compared later | idempotent; keeps shapes |
| Evaluation runner `evaluation/*.py` | none | run a synthetic benchmark | none: sequential | its rates are those of its definitions |
| **Web console: pages and panel** `frontend-v2/src/pages/*.tsx` | React state of the mounted view: run, detail, replays, lists, page, search, one busy flag | load, refresh, search, turn a page, replay, simulate, promote, check drift, run tests, trace an issue | every handler awaits answers that may come late, crossed or after the view turned to something else; nothing is cancelled | what is shown belongs to what is selected; "saved" is said of what was saved; a list is that of its query; a busy view waits for something |
| **Web console: frame and tours** `App.tsx`, `layout/`, `tour/`, `ui/CommandPalette.tsx` | address, search text, drawer, palette; tour, step, timers; `localStorage` of tours seen | navigate, search, keys, start, advance and end a tour | key listeners of several components, timers that meet navigations | the tour of a page comes once, and to its page; text and address of a search agree |
| **Web console: what is drawn** `traces/*Graph.tsx`, `StepTimeline.tsx`, `StepInspector.tsx`, `ui/Pagination.tsx`, `ui/JsonDiff.tsx`, `lib/utils.ts` | picked step and node | pick a node or a row | ids made of indexes; three pieces of state for one pick | graphs are whole, the picked step is the drawn one, a diff marks exactly what changed |
| **Forge page** `forge-app/static/hello-world/` | as the panel, with the list of runs | as the pages | two effects with stale closures beside the handlers | a chosen run stays, and what is shown is of it |
| Server assembly `proxy/main.py`, migrations, static files | none | startup seeding, serving files | none beyond the seeding | (pure I/O, not modelled; seeding is in the store) |

How they interact: the agent reaches the server only by HTTP, one request at a time; the
server's handlers meet only in the database (PostgreSQL, READ COMMITTED); a replay runs
inside one request, reads a trace once and writes its verdict and its warnings at the end.
The views of the console meet only through the server: each keeps its own state, asks by
HTTP, and loses its state when it is unmounted.

The Forge manifest serves the console of `frontend-v2/`, in which `App.tsx` renders the panel
of `JiraPanelApp.tsx` inside Jira. The page under `static/hello-world/` is kept as a legacy
sandbox (`README.md:384`) that no manifest resource names; it is modelled as it stands.

## 2. Modules and plan

| order | module | models | state |
|---|---|---|---|
| 1 | `TraceStore` (`MCTraceStore`, `TraceStoreProofs`) | store, gateway, registry, completion, restart | done |
| 2 | `DriftWarnings` (`MCDriftWarnings`, `DriftWarningsProofs`), extends `TraceStore` | all writers of `drift_warnings` beside the recorders | done |
| 3 | `TriageWorkflow`, `RecordedTrace` | the workflow and the rows it leaves | done |
| 4 | `LiveAgent`, `ReplayHarness`, composed in `RecordReplay` (`MCRecordReplay`, `ReplayHarnessProofs`, `RecordReplayProofs`) | a live run and a replay that share one trace | done |
| 5 | `RegressionPack` (`MCRegressionPack`, `RegressionPackProofs`); `RegressionRerun` (`MCRegressionRerun`, `RegressionRerunProofs`), over `ReplayHarness` | promotion and the counters of concurrent runs; what a rerun makes of a promoted replay | done |
| 6 | `ConsoleClient`; `JiraPanel`, `TracePage`, `ReplayStudio`, `IssueCard`, `DriftCheckModal`, `TracesPage`, `DriftPage`, `RegressionPage`, `Dashboard`, `ForgeConsole`, composed in `WebConsole` (`MCWebConsole`, `ConsoleProofs`, `ConsolePagesProofs`) | requests, late answers and the state of each view | done |
| 7 | `ConsoleShell`, `TourTip`, `NodePicks`, `Pagination`, `JsonDiff` (views of `WebConsole`) | the frame, the tours, the picks, and two algorithms against a reference | done |
| 8 | `FreshView`, refined by `IssueCard` | the abstract promise of a view of one record | done |
| 9 | `ReplayGraph`, over `RecordReplay` | the graph drawn of every replay the backend can make | done |
| 10 | the proofs, in the eight modules named above | section 5 | done for every invariant and action property |

What is left of the plan: abstract specifications of the store (a log per run that only grows)
and of the replay (a read-only run of the workflow) that the detailed ones refine, so that what
`AppendOnly`, `BlocksEveryWrite` and `StrictNeverLive` say follows from them.

## 3. How state and actions correspond to the code

**TraceStore.** `runs`, `steps` and `contracts` hold committed rows. A request is a handler
with a session: `phase` is the `await` it stands at, `idx`, `gen`, `seen` are its local
values, `defining` its uncommitted contract row; its uncommitted step row is the pair of
`phase = "commit"` and `idx`. A tool call goes `resolve` (`get_contract_or_default`, the
select) → `define` (its insert, if needed) → `execute` (the live tool) → `index`
(`next_step_index`, if the client named none) → `insert` (the flush of `record_step`) →
`commit`. The insert waits while another open transaction holds the key (`IndexHeld`,
`ContractHeld`) and fails on a committed one: this is what the unique constraints of
`db/models.py` do in PostgreSQL, and `Abort` is the 500 with its rollback. `CompleteRun`
writes the columns that differ from the row the session loaded (`seen`), as the ORM does.
`Restart` loses every open transaction and merges the descriptors of the next release over
the seeded rows. A step is identified with the request that records it; payloads and
redaction are data no property of this module tells apart.

**DriftWarnings** replaces the commit of a step by the commit with its shape findings, and
adds checking and replaying requests: `reported` is what a check returns, `todo` what it
has not logged yet, `found` its uncommitted rows. Shape drift is data, hence any subset of
the two shape findings; descriptor drift is a fact of the model, a contract of another
generation than the step's. A replay contributes the one warning of the write it blocks,
against the step its cursor was at or against none.

**TriageWorkflow** has no variable: an execution is a record `[pc, initial, lookup, final]`
that the live runtime and the replay runtime each keep, as in the code one workflow runs
against two runtimes. **LiveAgent**: each model answer is captured, lost, or still in flight
after the 10 s of its client; each tool call returns, or fails with its step stored later
or never; `performed` is the history the trace should tell and `early` a trace from a
capture which stored no parsable answer. **ReplayHarness**: `steps` is what `fetch_steps`
returned; `cursor` is advanced by every decision and every call, whatever step it meets;
`FromRecording`, `FromPatch`, `FromModel` are the branches of `decide`, `CallTool` those of
`call_tool`; `RecoveredInitial` and `RecoveredFinal` are `_recover_recorded_decision`.
`FinishReplay` stores the verdict. Before it the engine logs a warning for each blocked write,
outside its `try`; when that raises, the request ends in 500 and stores nothing (`FailReplay`).

**RegressionPack.** `tests` and `counts` are the committed rows. A running request is a session:
`loaded` are the counters as it selected them, `dirty` the updates it has flushed, whose rows
stay locked until the request commits. The counter it writes is the loaded one plus one, as the
ORM computes it; a flush waits for a row another session has flushed (`Locked`). `Current` takes
the tests in the order of `list_regression_items`, newest first. An item that raises
(a malformed `candidate_traces`) rolls the whole request back. What a rerun says is not
computed here: `passed` and `executed` are any values. `before` is a history variable.

**RegressionRerun** reuses the state and the actions of `ReplayHarness`: first for the replay
that is promoted, then, its variables begun anew, for the rerun. Its traces are those of a
`LiveAgent` run that has ended, whole, without one step, or with that step still to be committed
(`late`). A lookup that answered a text ends the live run, so such runs are not among them
(`RunAssumption`). `ToolSequence`, `FinalBoard` and `ExpectedBoard` are the assertions; what the judge's
model says is any judgement; whether the model answers the rerun as it answered the replay is
open, and the properties say so (`Answers`). The answer of a write may name any board, since it
comes from the service of the tool.

**WebConsole** has one variable for the view that is mounted and those of `ConsoleClient`:
`ui` is the React state of that view, `pending` the handlers that wait at an `await`, each
with what its closure holds (`run`, `arg`) and what a list held when it was asked for
(`seen`); `server` is what the API answers from, and `past` is a history variable which says
what was pending, and on the trace page what results were shown, when the view last turned to
something else. An action is a click up to the
first `await` of its handler, or an answer up to the next one, `finally` included; `Fail` is
the rejected promise of each handler. A click needs the element to be rendered and not
disabled (`Screen`, `Card`, `Offered`): a button is disabled by its own `loading` flag only,
so handlers of one view do overlap. The server changes by other clients' hands too
(`RunElsewhere`, `TestElsewhere`).

| view | module | what its actions are |
|---|---|---|
| `panel` | `JiraPanel` | the effects that get the context and load the data, the choice of a run, safe replay, simulation, promotion, drift check, saved tests, tracing the issue |
| `trace`, `studio` | `TracePage`, `ReplayStudio` | load, replays, promotion; a route that changes under the first |
| `card`, `modal` | `IssueCard`, `DriftCheckModal` | the effect that fetches and cancels; a dialog that is closed while it runs |
| `traces`, `drift`, `tests`, `home` | `TracesPage`, `DriftPage`, `RegressionPage`, `Dashboard` | the lists, their searches, tabs and pages, their chained requests |
| `shell`, `tip` | `ConsoleShell`, `TourTip` | navigation, search, keys, palette, the timers and steps of a tour; where its card and spotlight are |
| `picks` | `NodePicks` | the step picked in graph or timeline while details and simulations change under it |
| `bar`, `diff` | `Pagination`, `JsonDiff` | two algorithms, over every input up to the bounds |
| `forge` | `ForgeConsole` | the two effects, their stale closures, and the handlers |

`no` of a replay tells simulations apart; which tests there are matters only by the replay
each was made of. What a run shows besides (payloads, texts) is never told apart by a
property, so the detail of a run is its number. `ReplayGraph` is not part of `WebConsole`: it
extends `RecordReplay`, and `GraphIsWhole` is checked of the graph of every exploratory replay
of the run `replay_safety`, over all the traces, lost and late steps and patches of that run.
`TourTip` uses even lengths, so that halves are whole.

Abstractions: the reason of a decision is free text, of which only "given by the model or by
a recovery" matters, since it is part of the next prompt. Redaction is left out of the
replay, so payloads have no sensitive values. The handlers of the write tools answer with an
object or an error (`WriteAnswerAssumption`). The triage agent never names a step index, so
the replayed traces have none but the store's. `FailReplay` is possible for every write that
is blocked beside a recorded step; when its warning row is repeated is in `DriftWarnings`.

## 4. Runs

| run | question | bounds |
|---|---|---|
| `store_recording` | Is a trace whole under concurrent recorders, conflicts, restarts, completions and a release, and do requests that wait for each other's rows always get on? | three requests: two to collide and one to follow, or two nested in a third, or a waiter for a waiter; two runs, one left to the store and completed with both statuses, with and without metadata, one on which clients name 1 or 3; a seeded and an unknown tool; one release |
| `drift_checks` | What do overlapping checks and replays leave in the warnings? | one step, three checks: two to repeat a row and one to meet both |
| `replay_safety` | What does a replay make of every live run, begun at any time: what is asked, repeated, blocked and patched? | the workflow has at most four steps; two boards; a lookup that answers, fails or is no object; each kind of patch on the steps it fits, on one it does not, and past the end |
| `replay_ends` | Does every replay end, in a verdict or an error, unless its model never answers? | one board, two patches |
| `regression_requests` | What do overlapping runs of the tests leave in the counters, and do they get on, unless their model never answers? | two promotions, since one row can be locked while another is run; two runs, since a lost increment takes two; `Limit` 2 |
| `console_views` | Does each view show what it says it shows, whatever the order of the answers? | two runs, so an answer can be of the other one; two simulations, one saved test; two pending requests of a view (three of the Forge page, whose effects load beside a handler); a page of one row, so that lists have several pages; nine pages for the bar, so that there are gaps on both sides; runs of two, one and no step; values of two leaves and two keys, nested twice; two windows, one narrower than the card, and elements at, in and beyond the edges |
| `regression_rerun` | What does a pass of a rerun say, and does a deterministic agent pass? | two boards, one patch of each kind, before the write and on it; every judgement |

Disagreements between the code and what its documents say, each a run whose one property TLC
refutes:

* `store_unrecorded` - `contracts/SPEC.md:34` wants every tool call stored. Two concurrent
  calls of a run read the same next index; both tools run, the loser is rolled back and
  answered 500, and no step tells of its call.
* `store_reseed` - `SPEC.md:60` allows a silent replacement of a contract version only before
  a baseline depends on it. Startup merges the code's descriptors over the rows, always.
* `drift_duplicates` - `SPEC.md:56` wants rechecks idempotent. Two overlapping checks insert
  two rows; from then on `scalar_one_or_none` raises in each check that reaches them
  (`FailsOnDuplicatesOnly` says this is the only way a check fails).
* `drift_appends` - `routes/drift.py:42` says that earlier findings of a step are not
  deduplicated and that callers must tolerate duplicate rows, and the dialog that starts a check
  says "Results are appended, not replaced" (`DriftCheckModal.tsx:200`). They contradict
  `SPEC.md:56`, and the code follows neither: a later check finds the row and inserts none, only
  overlapping ones leave two, and those are not tolerated afterwards.
* `replay_recovered_stop` - `agent_harness.py:225` calls a recovered stop "recovered from a
  recorded no-write trajectory". When the capture of the final decision was lost, the recorded
  write is taken for the decision, nothing follows it, and the stop recovered is that of a run
  that did write.

One more disagreement needs no run, since one line shows it: `README.md:42` and `:431` of the
repository have runs of the pack execute the current agent. A request may bring
`candidate_traces`; then `run_item` compares the client's trace, executes nothing, and labels
the result `fresh_agent_reexecution` all the same (`regression_pack/runner.py:36`, `:42`).

What the passing runs show, beyond the invariants of section 5: an answer 200 and a stored
step imply each other (`AnswersMatchSteps`); two requests never fail because of each other
(`ConflictHasWinner`); metadata is lost only between completions that overlap
(`MetadataCausal`); a whole trace is replayed decision by decision (`FaithfulReplay`); and
whatever was lost or late, a strict replay attempts no write the live agent did not decide
(`StrictWritesWereDecided`); a patch divides the replay of any trace, also of one on which it
cannot be applied: the recording up to it, nothing recorded after it (`PatchDividesReplay`); the counters of a regression test tell of no result that was not
answered, and miss only results of runs that overlapped (`CountersWithinRuns`,
`LoneRunsCounted`); a rerun over the same trace with the same model answers passes
(`StableTest`), and one that passes has written where the promoted replay wrote
(`PassMeansSameWrite`), both unless the judge's model chose the expected board. Each property has a mutant of the code that breaks it.

What `console_views` shows. Each of its properties is a conjunction over the views it is about;
the parts are in the modules of those views, and each part has a mutant. The panel, the trace
page and the Forge page keep no note of the run an answer belongs to, so the plain property
"what is shown is of the selected run" is false of them. What does hold is that no answer of
another run gets there but one that was already pending when the view turned (`ShowsSelected`).
The trace page needs one more exception: a change of its route loads the detail anew and clears
nothing else (`TraceDetailPage.tsx:80-99`), and the page is not keyed by the run
(`App.tsx:265`). So the replay, the simulation and the "Saved" mark of the former run stay
beside the new one, with nothing pending, until they are asked for again. The exceptions are in
the property, so a change of the code that added another way would be found.
The same goes for "saved" (`SavedIsShown`) and for lists and counters (`ListsAreCurrent`; the
drift count of the dashboard is that of the first five runs at most, `DashboardPage.tsx:74`). The
studio never resets `promotedId`, so of it only a weaker part is true: what it calls saved is in
the pack, if not on the screen. Without exception hold: a busy view waits for something
(`NeverStuck`), the card shows the issue of its present key (`CardIsFresh`: `Card` refines
`FreshView`, because its effect cancels), a tour comes to its own page, once, and its steps and
its spotlight are those of its page (`TourIsDue`, `TourGuides`, although Enter may advance two
steps), the page bar and the diff agree with their references (in `PagesHoldTheList`,
`InspectsDrawn`), and a simulated graph is whole (`GraphIsWhole`). The panel's "loading trace
details" (`JiraPanelApp.tsx:391`) is never seen: while a detail loads, the early return of
line 319 says that the agent has not processed the issue.

The configuration of the console turns deadlock checking off: a view whose
requests are answered waits for its user. Counters that would grow for ever are bounded by the instance: requests are received once,
`MaxGeneration` bounds releases, `Limit` is the length of a listing, and a workflow is at most four steps long. The replay
configurations turn off deadlock checking because a run that was reported and a replay that
is over do stop; in the store a restart is always possible, and deadlock is checked.

**Fairness.** `Fairness` of the store is weak fairness of `Serve(q)`: the event loop resumes a
handler whose await can finish, the database grants a lock when its holder ends, and every
tool ends since each HTTP client used by a tool has a timeout. Receiving a request, starting
a run and restarting are not fair. A replay waits for recorded data, the database and a model.
The clients of the models are made without a timeout (`agent_harness.py:76`,
`semantic_judge.py:56`, `ai_scorer.py:73`), so a replay has weak fairness of its steps only where
it does not wait for one (`AwaitsModel`), and `ReplayEnds` excepts one that waits for ever; a
strict replay asks no model. `FailReplay` is not fair. A run of the regression pack has weak
fairness of its flushes and of its commit, which wait for the database only, and a promotion of
its commit; executing a test (`RunItem`) has none, since it may wait for the model, and
`EveryRunAnswered` promises nothing once such a wait lasts for ever. The console
has no fairness: `fetch` has no timeout in it, so an answer may never come, and what it must
not do then is said by invariants.

## 5. Proofs

Every invariant and every action property that a passing run checks is also proved, for every
value of the constants that the assumptions allow: any number of runs, requests, boards, tests,
pages and answers. Each proof module proves `Spec => []I` for an inductive `I` and takes the
properties from it; the actions of a step are lemmas or steps of their own.

| module | theorems | about |
|---|---|---|
| `TraceStoreProofs` | types, `UniqueIndex`, `NoGaps`, `AppendOnly`, `AnswersMatchSteps`, `ConflictHasWinner`, `StepsHaveContracts`, `StatusWasAsked`, `MetadataCausal` | the store and its gateway |
| `DriftWarningsProofs` | `DriftImplementsStore`, `StoreHoldsWithWarnings`, types, `DuplicatesNeedOverlap`, `FailsOnDuplicatesOnly`, `FindingsPersisted` | drift checks beside it |
| `ReplayHarnessProofs` | lemmas only | the workflow and the harness, shared by the next two |
| `RecordReplayProofs` | types, `StrictNeverLive`, `BlocksEveryWrite`, `StrictWritesWereDecided`, `FaithfulReplay`, `PatchIsApplied`, `PatchDividesReplay`, `GraphIsWhole` | a live run and its replay |
| `RegressionPackProofs` | types, `CountersWithinRuns`, `LoneRunsCounted` | concurrent runs of the tests |
| `RegressionRerunProofs` | types, `StableTest`, `PassMeansSameWrite` | a promoted test and its rerun |
| `ConsoleProofs` | `CardIsFresh`, `TourIsDue`, `TourGuides` | the card, the frame, the tours |
| `ConsolePagesProofs` | types, `SavedIsShown`, `PagesHoldTheList`, `ListsAreCurrent`, `ShowsSelected`, `NeverStuck`, `InspectsDrawn` | the pages |

### The store

* Types. `TypeInv` is `TypeOK` and that a request stands only at phases of its kind.
* `UniqueIndex`, `NoGaps`, `AppendOnly` come from one inductive invariant, `IndexInv`.
  `UniqueIndex` alone is not inductive: the commit of a step needs that no committed row has
  the index of an open one (`OpenIsFree`). `NoGaps` needs that an index the store chose and
  that is not inserted yet is 1 or follows a row (`ChosenFollows`). `AppendOnly` needs that on
  a run left to the store a chosen index is either above all rows or already lost
  (`ChosenIsLast`): among the recorders that read the same maximum, the unique index lets one
  through, and that is why the trace grows at its end although the maximum was read outside
  any lock.
* `AnswersMatchSteps` and `ConflictHasWinner` (`AnswerInv`) need that the tool has run exactly
  when the request is past its live call, and one step per request.
* `StepsHaveContracts` (`ContractInv`) needs what the registry owes to a request between the
  resolution of its contract and its commit: a committed row that is no older, or a row of its
  own session. A restart, which loses the session, loses the request too.
* `StatusWasAsked` (`StatusInv`) needs that a completion which has loaded a run that was over
  writes one that is over; `MetadataCausal` (`MetaInv`) needs that a loaded row is causal as a
  stored one is, since it is written back.

### Drift checks

`DriftImplementsStore` is the refinement: each step of `DriftSpec` is a step of the store or
leaves its variables alone. So the theorems of the store hold beside the checks, which
`StoreHoldsWithWarnings` states. `DriftInv` adds to the properties that a finding a check has
dealt with has a row, in the table or in its session (`DealtWith`), and that rows a check began
with stay (`BaseStays`).

### Live runs, replays and graphs

`ReplayOK` (in `ReplayHarnessProofs`) ties the cursor, the events and the model calls to where
the workflow stands: at each stage the number of consumed steps is known (`Consumed`), and the
events are those of the consumed steps, in their places. All that is said about positions rests
on it. `LiveOK` is the type of the live run.

* `StrictNeverLive`, `BlocksEveryWrite`: a strict replay has no patch, so no step is a patch's
  target or after it; the lookup leaves the workflow before its write, and the write ends it.
* `StrictWritesWereDecided` needs that every row there is, fetched, committed or in flight,
  agrees with the final decision of the live run (`RowsAgree`) and so does the decision the
  replay has taken, also when it was recovered from a row (`AgentAgrees`).
* `FaithfulReplay`: a run that did not fail has performed exactly the steps of its stage
  (`PerformedInv`, against `RecordOf`), so a trace that was fetched whole is that of an
  execution `x` (`WholeRun`); the replay is on the track of `x` (`TrackInv`): the same stage,
  answers and steps up to its cursor.
* `PatchIsApplied` is the same track up to the patch, and that the patch fits its step, which
  the patch engine has validated on the trace as it was (`PatchFits`).
* `PatchDividesReplay` needs no track, only that event i is in place i, also past the end of the
  recording: then whether a step is before, at or after the patch is told by comparing places.
* `GraphIsWhole` needs that a trace holds at most one lookup, and before it at most the decision
  that led to it (`LookupInv`), that the trace only grows behind what a replay has fetched
  (`PrefixInv`), and that a replay of such a trace comes to its second event (`ReachInv`): the
  edge of the patch ends in a node, which would be missing if the replay had failed before.

### The regression pack

`PackInv` needs counting: a counter lies between the results of runs that overlapped no other
and all results answered (`Between`), not only the stored counter for all that were answered
(`CountsInv`), but also the loaded one for those answered before it was loaded (`LoadedInv`).
When a session writes its loaded value plus one, every run answered since overlaps it and so is
not `Alone`. `SessionInv` has the updates of a session be one per test, of its results.

`RerunInv` says of a replay under way what its place in the workflow tells of its events
(`RunForm`): their types and places, that the write answers what recording, patch and
simulation make of it, and that with a patch after the final decision this decision is the one
the recording shows (`ShownFinal`); of a test that it came from a completed replay of this
form, over a prefix of the trace. `StableTest` then compares two completed forms with the same
decision. `PassMeansSameWrite` has two cases: with a patch before the write, its answer can only
name the board that was asked for; with a later one, prefix and patch fix the decision.

### The console

The invariant is a conjunction over the views, each with the state of its own requests. What
the requests' closures hold is what has to be strengthened: `ShowsSelected` needs that every
pending handler is of the selected run or of one that was pending when the view turned
(`ShowsInv`, `RouteInv`, `ForgeHolds`), and on the trace page that so is every result and every
closure which will bring one, or of a run whose results the route left there (`ResultsInv`); `SavedIsShown` that a save which overlaps no simulation
is of the one shown (`SavesInv`); `NeverStuck` that a busy flag names the handler it waits for
(`BusyInv`); `ListsAreCurrent` and `PagesHoldTheList` that a list of the query is shown or
awaited unless loads crossed (`ListDue`, `CountersDue`, `WarningsDue`, `PageHeld`);
`InspectsDrawn` that a pick is drawn in what is shown (`PicksInv`); `CardIsFresh` that a request
which is not cancelled is of the present key (`CardInv`). `CardIsFresh` is the refinement of
`FreshView`, step by step. The page bar and the JSON diff are pure: the bar is proved well
formed for any number of pages, and the diff (values nest at most twice) for any keys and
leaves, by unfolding its recursion level by level.

### What the proofs assume

Besides the types of the constants: `Nil` is no board, run, number, leaf, node or step, since it
stands for `None`, `null` or `undefined` (`NilAssumption`, `PickAssumption`, `LeafAssumption`);
what parses as no decision is none (`GarbledAssumption`); promotions are not runs
(`RequestAssumption`); bounds are numbers, and those of lists and pages are positive
(`BoundsAssumption`, `ConsoleAssumption`, `GenerationAssumption`); sizes are whole pixels
(`PixelAssumption`); answers, patches, replays and operations have their shapes
(`AnswerAssumption`, `PatchAssumption`, `ReplayAssumption`, `OperationAssumption`,
`SeededAssumption`, `RunAssumption`). Each is evaluated by TLC in the runs.

The refuted properties of section 4 are proved nowhere, and the properties that hold next to
them say how far they fail: `DuplicatesNeedOverlap` beside `OneRowPerFinding` and
`RecheckAppends`, `ConflictHasWinner` beside `EveryExecutionRecorded`.

Only model-checked: the liveness properties `EveryRequestAnswered`, `ReplayEnds` and
`EveryRunAnswered`. They rest on weak fairness, and so on ENABLED, which is beyond the proof
system. The types of `JsonDiff` bound the depth of a value: for any depth the diff would need
an induction over data, which is beyond the provers here.

## 6. Not modelled

Listed in `PROJECT.json` with the reason.

* Redaction and the evaluation runner are sequential functions of text and numbers; the scores and
  explanations of the evaluator are the model's words and decide nothing.
* The wrappers of the Jira client end in the gateway, which is modelled; what runs between their
  steps is Jira. Nothing in the server installs them.
* API keys are compared in one expression; what a foreign workspace sees of a run is
  `ReceiveUnknown` of the store.
* The connection pool: its size and its waiting are settings of the database engine.
* Of the console: toasts, sorting, charts, layout, the settings page; of the Forge app: the
  platform function that hands out the issue key.
* Serving files and the health route (pure I/O), and the migration, whose constraints are those
  of `db/models.py`.
