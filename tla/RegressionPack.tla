---------------------------- MODULE RegressionPack ----------------------------
(***************************************************************************)
(* The table regression_pack and the requests that promote replays to it    *)
(* and run its tests.  A run reads the counters of a test when its session  *)
(* loads the row, executes the agent again, and writes its own increment    *)
(* back; the row stays locked until the request commits.  POST              *)
(* /regression/run-all does so for every test, the newest first, in one     *)
(* transaction.  What a rerun makes of a test is in RegressionRerun; here   *)
(* it passes or fails.                                                      *)
(***************************************************************************)
EXTENDS Integers, FiniteSets

CONSTANTS
    Promotion,  \* requests to promote a replay, each received at most once
    Run,        \* requests to run one test or all, each received at most once
    Replay,     \* stored replays
    Limit       \* how many tests run-all lists

(* What promotion asks of a replay: its mode, the execution_status of its   *)
(* verdict and whether there are patched_steps.                             *)
ReplayRow == [mode : {"strict", "exploratory"}, completed : BOOLEAN, steps : BOOLEAN]

Request == Promotion \cup Run

ASSUME RequestAssumption == Promotion \cap Run = {}
ASSUME ReplayAssumption == Replay \subseteq ReplayRow
ASSUME LimitAssumption  == Limit \in Nat \ {0}

VARIABLES
    tests,      \* committed rows: a test_id is the request that promoted it
    counts,     \* the committed pass_count and fail_count of each test
    clock,      \* the last promoted_at given out
    phase,      \* where each request is in its handler
    promoted,   \* the row a promoting session has inserted
    todo,       \* the tests a running session has listed and not run
    loaded,     \* the counters as its session loaded them
    results,    \* the results of the tests it has run
    dirty,      \* the updates it has flushed, which lock their rows
    before      \* history: the requests answered before it loaded its rows

table   == <<tests, counts, clock>>
session == <<promoted, todo, loaded, results, dirty, before>>
vars    == <<table, phase, session>>

TestRow == [id : Promotion, promoted_at : Nat, replay : Replay]
Counts  == [pass : Nat, fail : Nat]
Result  == [test : Promotion, passed : BOOLEAN]
Update  == [test : Promotion, column : {"pass", "fail"}, value : Nat]

Zero     == [pass |-> 0, fail |-> 0]
Working  == {"promoting", "running", "flushing"}
Answered == {"ok", "bad_request", "failed", "lost"}
-----------------------------------------------------------------------------
Goto(q, p) == phase' = [phase EXCEPT ![q] = p]

Init == /\ tests = {}
        /\ counts = [t \in Promotion |-> Zero]
        /\ clock = 0
        /\ phase = [q \in Request |-> "idle"]
        /\ promoted = [q \in Promotion |-> {}]
        /\ todo = [q \in Run |-> {}]
        /\ loaded = [q \in Run |-> [t \in Promotion |-> Zero]]
        /\ results = [q \in Run |-> {}]
        /\ dirty = [q \in Run |-> {}]
        /\ before = [q \in Run |-> {}]

(* build_assertions_from_replay refuses the others.                         *)
Promotable(r) == r.mode = "exploratory" /\ r.completed /\ r.steps

RejectPromotion(q) ==
    /\ phase[q] = "idle"
    /\ \E r \in Replay : ~Promotable(r)
    /\ Goto(q, "bad_request")
    /\ UNCHANGED <<table, session>>

(* promote_replay: the row gets its promoted_at when it is inserted.        *)
Promote(q) ==
    /\ phase[q] = "idle"
    /\ \E r \in {x \in Replay : Promotable(x)} :
          promoted' = [promoted EXCEPT ![q] = {[id |-> q, promoted_at |-> clock + 1, replay |-> r]}]
    /\ clock' = clock + 1
    /\ Goto(q, "promoting")
    /\ UNCHANGED <<tests, counts, todo, loaded, results, dirty, before>>

CommitPromotion(q) ==
    /\ phase[q] = "promoting"
    /\ tests' = tests \cup promoted[q]
    /\ Goto(q, "ok")
    /\ UNCHANGED <<counts, clock, session>>
-----------------------------------------------------------------------------
(* list_regression_items: the Limit newest.                                 *)
Listed == {t \in tests : Cardinality({u \in tests : u.promoted_at > t.promoted_at}) < Limit}

(* The rows are loaded, with their counters, into the session.              *)
Load(q, rows) ==
    /\ phase[q] = "idle"
    /\ todo' = [todo EXCEPT ![q] = rows]
    /\ loaded' = [loaded EXCEPT ![q] = counts]
    /\ before' = [before EXCEPT ![q] = {p \in Run : phase[p] = "ok"}]
    /\ Goto(q, "running")
    /\ UNCHANGED <<table, promoted, results, dirty>>

RunOne(q) == \E t \in tests : Load(q, {t})
RunAll(q) == Load(q, Listed)

(* Mutant: the tests are listed in no order.                                *)
CurrentInNoOrder(q) == todo[q]

(* The test whose turn it is: run_all goes through the list in its order.   *)
Current(q) == {t \in todo[q] : \A u \in todo[q] : u.promoted_at <= t.promoted_at}

(* run_item: the agent is executed again, or a candidate trace the client   *)
(* sent is compared as it is; either way the result passed or failed.       *)
RunItem(q) ==
    /\ phase[q] = "running"
    /\ \E t \in Current(q), passed \in BOOLEAN :
          results' = [results EXCEPT ![q] = @ \cup {[test |-> t.id, passed |-> passed]}]
    /\ Goto(q, "flushing")
    /\ UNCHANGED <<table, promoted, todo, loaded, dirty, before>>

Locked(q, id) == \E p \in Run \ {q} : \E u \in dirty[p] : u.test = id

ResultOf(q, id) == CHOOSE r \in results[q] : r.test = id

(* Mutant: the counter is set, not incremented.                             *)
UpdateOfSet(q, id) ==
    [test |-> id, column |-> IF ResultOf(q, id).passed THEN "pass" ELSE "fail", value |-> 1]

UpdateOf(q, id) ==
    LET column == IF ResultOf(q, id).passed THEN "pass" ELSE "fail"
    IN  [test |-> id, column |-> column, value |-> loaded[q][id][column] + 1]

(* The flush of run_item: one counter, from the loaded value.  It waits for *)
(* a transaction that has updated the row.                                  *)
Flush(q) ==
    /\ phase[q] = "flushing"
    /\ \E t \in todo[q] :
          /\ \E r \in results[q] : r.test = t.id
          /\ ~Locked(q, t.id)
          /\ dirty' = [dirty EXCEPT ![q] = @ \cup {UpdateOf(q, t.id)}]
          /\ todo' = [todo EXCEPT ![q] = @ \ {t}]
    /\ Goto(q, "running")
    /\ UNCHANGED <<table, promoted, loaded, results, before>>

Written(q, t, column) ==
    IF \E u \in dirty[q] : u.test = t /\ u.column = column
    THEN (CHOOSE u \in dirty[q] : u.test = t /\ u.column = column).value
    ELSE counts[t][column]

(* The commit of what the session has flushed.                              *)
Publish(q) ==
    /\ counts' = [t \in Promotion |-> [pass |-> Written(q, t, "pass"), fail |-> Written(q, t, "fail")]]
    /\ dirty' = [dirty EXCEPT ![q] = {}]

CommitRun(q) ==
    /\ phase[q] = "running"
    /\ todo[q] = {}
    /\ Publish(q)
    /\ Goto(q, "ok")
    /\ UNCHANGED <<tests, clock, promoted, todo, loaded, results, before>>

(* Mutant: a session that raises commits what it has flushed.               *)
ItemRaisesCommitted(q) ==
    /\ phase[q] = "running"
    /\ todo[q] # {}
    /\ Publish(q)
    /\ Goto(q, "failed")
    /\ UNCHANGED <<tests, clock, promoted, todo, loaded, results, before>>

(* A candidate trace of another shape raises: the whole request is rolled   *)
(* back, with the results of the tests it has run.                          *)
ItemRaises(q) ==
    /\ phase[q] = "running"
    /\ todo[q] # {}
    /\ dirty' = [dirty EXCEPT ![q] = {}]
    /\ Goto(q, "failed")
    /\ UNCHANGED <<table, promoted, todo, loaded, results, before>>

(* Mutant: open transactions keep their locks.                              *)
RestartKeepsLocks ==
    /\ phase' = [q \in Request |-> IF phase[q] \in Working THEN "lost" ELSE phase[q]]
    /\ UNCHANGED <<table, session>>

(* The server stops and starts: open transactions are rolled back.          *)
Restart ==
    /\ phase' = [q \in Request |-> IF phase[q] \in Working THEN "lost" ELSE phase[q]]
    /\ dirty' = [q \in Run |-> {}]
    /\ UNCHANGED <<table, promoted, todo, loaded, results, before>>
-----------------------------------------------------------------------------
ServeRun(q) == RunItem(q) \/ ItemRaises(q) \/ Flush(q) \/ CommitRun(q)

Next == \/ \E q \in Promotion : RejectPromotion(q) \/ Promote(q) \/ CommitPromotion(q)
        \/ \E q \in Run : RunOne(q) \/ RunAll(q) \/ ServeRun(q)
        \/ Restart

Spec == Init /\ [][Next]_vars

(* A run that executes the agent again may wait for a model, whose client   *)
(* is made without a timeout.                                               *)
AwaitsModel(q) == phase[q] = "running" /\ todo[q] # {}

(* The other awaits of a handler end: a lock is granted when its holder is  *)
(* done, and the database answers.                                          *)
FairSpec == /\ Spec
            /\ \A q \in Promotion : WF_vars(CommitPromotion(q))
            /\ \A q \in Run : WF_vars(Flush(q) \/ CommitRun(q))
-----------------------------------------------------------------------------
Ran(t)        == {q \in Run : phase[q] = "ok" /\ \E r \in results[q] : r.test = t}
Passed(q, t)  == \E r \in results[q] : r.test = t /\ r.passed
Overlap(p, q) == p \notin before[q] /\ q \notin before[p]
RanAlone(t)   == {q \in Ran(t) : \A p \in Ran(t) \ {q} : ~Overlap(p, q)}

TypeOK == /\ tests \subseteq TestRow
          /\ counts \in [Promotion -> Counts]
          /\ clock \in Nat
          /\ phase \in [Request -> {"idle"} \cup Working \cup Answered]
          /\ promoted \in [Promotion -> SUBSET TestRow]
          /\ todo \in [Run -> SUBSET TestRow]
          /\ loaded \in [Run -> [Promotion -> Counts]]
          /\ results \in [Run -> SUBSET Result]
          /\ dirty \in [Run -> SUBSET Update]
          /\ before \in [Run -> SUBSET Run]
          /\ \A q \in Run : phase[q] \in Answered => dirty[q] = {}

(* The counters of a test never tell more than the results that were        *)
(* answered: a run that raised or was lost, and with it all the tests of a  *)
(* run-all, counts nothing.                                                 *)
CountersWithinRuns ==
    \A t \in Promotion :
        /\ counts[t].pass <= Cardinality({q \in Ran(t) : Passed(q, t)})
        /\ counts[t].fail <= Cardinality({q \in Ran(t) : ~Passed(q, t)})

(* A result is lost from the counters only to a run that overlapped: every  *)
(* run of a test that overlapped no other run of it stays counted, whatever *)
(* stale increments the others write.                                       *)
LoneRunsCounted ==
    \A t \in Promotion :
        /\ counts[t].pass >= Cardinality({q \in RanAlone(t) : Passed(q, t)})
        /\ counts[t].fail >= Cardinality({q \in RanAlone(t) : ~Passed(q, t)})

(* Runs that wait for each other's rows always get on, unless one of them   *)
(* waits for ever for a model: every session locks the rows in one order,   *)
(* the newest first.                                                        *)
EveryRunAnswered ==
    \A q \in Request :
        [](phase[q] \in Working => <>(phase[q] \in Answered \/ \E p \in Run : []AwaitsModel(p)))
=============================================================================
