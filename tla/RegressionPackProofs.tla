-------------------------- MODULE RegressionPackProofs --------------------------
(***************************************************************************)
(* Proofs about the regression pack, for any number of tests and of runs    *)
(* that overlap: what the pass and fail counters of a test are worth.       *)
(***************************************************************************)
EXTENDS RegressionPack, FiniteSetTheorems, TLAPS

Column(b) == IF b THEN "pass" ELSE "fail"

Done == {p \in Run : phase[p] = "ok"}

Active(q) == phase[q] \in {"running", "flushing"}

(* Of the runs of a set: those whose answer told b of test t, and those of  *)
(* them that overlapped no other run of t in the set.                       *)
Told(B, t, b)  == {p \in B \cap Ran(t) : Passed(p, t) <=> b}
Alone(B, t, b) == {p \in Told(B, t, b) : \A x \in (B \cap Ran(t)) \ {p} : ~Overlap(p, x)}

Between(n, B, t, b) == Cardinality(Alone(B, t, b)) <= n /\ n <= Cardinality(Told(B, t, b))

(* A test_id names one row, that of the promotion which was answered.       *)
TestsInv ==
    /\ \A a, b \in tests : a.id = b.id => a = b
    /\ \A a \in tests : phase[a.id] = "ok"
    /\ \A q \in Promotion : \A a, b \in promoted[q] : a.id = q /\ a = b

(* A session has one result per test, and one update per result but for the *)
(* test it is about to flush.                                               *)
UpdateFor(q, r) == [test   |-> r.test,
                    column |-> Column(r.passed),
                    value  |-> loaded[q][r.test][Column(r.passed)] + 1]

SessionOK(q) ==
    /\ \A r, s \in results[q] : r.test = s.test => r = s
    /\ phase[q] = "idle" => results[q] = {} /\ dirty[q] = {}
    /\ Active(q) =>
          /\ todo[q] \subseteq tests
          /\ \A u \in dirty[q] : \E r \in results[q] : u = UpdateFor(q, r)
          /\ \A r \in results[q] : \/ \E u \in dirty[q] : u.test = r.test
                                   \/ phase[q] = "flushing" /\ \E t \in todo[q] : t.id = r.test
          /\ phase[q] = "running" => \A r \in results[q] : \A t \in todo[q] : t.id # r.test
          /\ phase[q] = "flushing" =>
                \A s, t \in todo[q] : (\E r \in results[q] : r.test = s.id)
                                      /\ (\E r \in results[q] : r.test = t.id) => s = t

SessionInv == \A q \in Run : SessionOK(q)

(* What was answered before a session loaded its rows stays answered, and   *)
(* the counters it loaded were those of the runs answered by then.          *)
BeforeInv == \A q \in Run : before[q] \subseteq Done

LoadedInv == \A q \in Run : Active(q) =>
    \A t \in Promotion, b \in BOOLEAN : Between(loaded[q][t][Column(b)], before[q], t, b)

CountsInv == /\ IsFiniteSet(Done)
             /\ \A t \in Promotion, b \in BOOLEAN : Between(counts[t][Column(b)], Done, t, b)

PackInv == TypeOK /\ TestsInv /\ SessionInv /\ BeforeInv /\ LoadedInv /\ CountsInv
-----------------------------------------------------------------------------
LEMMA InitPack == Init => PackInv
<1> SUFFICES ASSUME Init PROVE PackInv
    OBVIOUS
<1>1. Done = {}
    BY DEF Init, Done, Request
<1>2. TypeOK
    BY DEF Init, TypeOK, Request, Zero, Counts, Working, Answered
<1>3. TestsInv
    BY DEF Init, TestsInv
<1>4. SessionInv
    BY DEF Init, SessionInv, SessionOK, Active, Request
<1>5. BeforeInv
    BY DEF Init, BeforeInv
<1>6. LoadedInv
    BY DEF Init, LoadedInv, Active, Request
<1>7. CountsInv
    <2>1. IsFiniteSet(Done)
        BY <1>1, FS_EmptySet
    <2>2. ASSUME NEW t \in Promotion, NEW b \in BOOLEAN
          PROVE  Between(counts[t][Column(b)], Done, t, b)
        <3>1. Told(Done, t, b) = {} /\ Alone(Done, t, b) = {}
            BY <1>1 DEF Told, Alone
        <3>2. counts[t][Column(b)] = 0
            BY DEF Init, Zero, Column
        <3>3. Cardinality({}) = 0
            BY FS_EmptySet
        <3> QED BY <3>1, <3>2, <3>3 DEF Between
    <2> QED BY <2>1, <2>2 DEF CountsInv
<1> QED BY <1>2, <1>3, <1>4, <1>5, <1>6, <1>7 DEF PackInv

LEMMA TypeNext == TypeOK /\ [Next]_vars => TypeOK'
<1> SUFFICES ASSUME TypeOK, [Next]_vars PROVE TypeOK'
    OBVIOUS
<1> USE DEF TypeOK, Goto, Request, Working, Answered
<1>1. ASSUME NEW q \in Promotion, RejectPromotion(q) PROVE TypeOK'
    BY <1>1, RequestAssumption DEF RejectPromotion, table, session
<1>2. ASSUME NEW q \in Promotion, Promote(q) PROVE TypeOK'
    <2>1. PICK r \in Replay :
              promoted' = [promoted EXCEPT ![q] = {[id |-> q, promoted_at |-> clock + 1, replay |-> r]}]
        BY <1>2 DEF Promote
    <2>2. [id |-> q, promoted_at |-> clock + 1, replay |-> r] \in TestRow
        BY ReplayAssumption DEF TestRow
    <2> QED BY <1>2, <2>1, <2>2, RequestAssumption DEF Promote
<1>3. ASSUME NEW q \in Promotion, CommitPromotion(q) PROVE TypeOK'
    BY <1>3, RequestAssumption DEF CommitPromotion, session
<1>4. ASSUME NEW q \in Run, NEW rows \in SUBSET tests, Load(q, rows) PROVE TypeOK'
    BY <1>4 DEF Load, table
<1>5. ASSUME NEW q \in Run, RunItem(q) PROVE TypeOK'
    <2>1. PICK t \in Current(q) : \E passed \in BOOLEAN :
              results' = [results EXCEPT ![q] = @ \cup {[test |-> t.id, passed |-> passed]}]
        BY <1>5 DEF RunItem
    <2>2. t.id \in Promotion
        BY DEF Current, TestRow
    <2> QED BY <1>5, <2>1, <2>2 DEF RunItem, table, Result
<1>6. ASSUME NEW q \in Run, Flush(q) PROVE TypeOK'
    <2>1. PICK t \in todo[q] :
              /\ dirty' = [dirty EXCEPT ![q] = @ \cup {UpdateOf(q, t.id)}]
              /\ todo' = [todo EXCEPT ![q] = @ \ {t}]
        BY <1>6 DEF Flush
    <2>2. t.id \in Promotion
        BY DEF TestRow
    <2>3. UpdateOf(q, t.id) \in Update
        BY <2>2 DEF UpdateOf, Update, Counts
    <2> QED BY <1>6, <2>1, <2>3 DEF Flush, table
<1>7. ASSUME NEW q \in Run, CommitRun(q) PROVE TypeOK'
    <2>1. ASSUME NEW t \in Promotion, NEW c \in {"pass", "fail"} PROVE Written(q, t, c) \in Nat
        BY DEF Written, Update, Counts
    <2>2. counts' \in [Promotion -> Counts]
        BY <1>7, <2>1 DEF CommitRun, Publish, Counts
    <2> QED BY <1>7, <2>2 DEF CommitRun, Publish
<1>8. ASSUME NEW q \in Run, ItemRaises(q) PROVE TypeOK'
    BY <1>8 DEF ItemRaises, table
<1>9. ASSUME Restart PROVE TypeOK'
    BY <1>9 DEF Restart, table
<1>10. ASSUME UNCHANGED vars PROVE TypeOK'
    BY <1>10 DEF vars, table, session
<1>11. ASSUME NEW q \in Run, RunOne(q) PROVE TypeOK'
    BY <1>11, <1>4 DEF RunOne
<1>12. ASSUME NEW q \in Run, RunAll(q) PROVE TypeOK'
    BY <1>12, <1>4 DEF RunAll, Listed
<1> QED BY <1>1, <1>2, <1>3, <1>5, <1>6, <1>7, <1>8, <1>9, <1>10, <1>11, <1>12 DEF Next, ServeRun

(* The types of the pack: tests, counters and sessions hold what the code   *)
(* stores in them, and no answered request keeps an update or its lock.     *)
THEOREM PackTypeCorrect == Spec => []TypeOK
<1>1. Init => TypeOK
    BY InitPack DEF PackInv
<1> QED BY <1>1, TypeNext, PTL DEF Spec
-----------------------------------------------------------------------------
(* What is answered stays answered: a step answers at most one run.         *)
LEMMA DoneNext ==
    ASSUME TypeOK, [Next]_vars
    PROVE  /\ \A p \in Request : phase[p] = "ok" => phase'[p] = "ok"
           /\ Done \subseteq Done'
           /\ \A p \in Done : results'[p] = results[p] /\ before'[p] = before[p]
<1> USE DEF TypeOK, Goto, Request, Working, Done
<1>1. ASSUME NEW q \in Promotion, RejectPromotion(q) \/ Promote(q) \/ CommitPromotion(q)
      PROVE  /\ \A p \in Request : phase[p] = "ok" => phase'[p] = "ok"
             /\ UNCHANGED <<results, before>>
    BY <1>1 DEF RejectPromotion, Promote, CommitPromotion, table, session
<1>2. ASSUME NEW q \in Run, NEW rows \in SUBSET tests, Load(q, rows)
      PROVE  /\ \A p \in Request : phase[p] = "ok" => phase'[p] = "ok"
             /\ phase[q] # "ok" /\ \A p \in Run \ {q} : before'[p] = before[p]
             /\ UNCHANGED results
    BY <1>2 DEF Load
<1>3. ASSUME NEW q \in Run, ServeRun(q)
      PROVE  /\ \A p \in Request : phase[p] = "ok" => phase'[p] = "ok"
             /\ phase[q] # "ok" /\ \A p \in Run \ {q} : results'[p] = results[p]
             /\ UNCHANGED before
    BY <1>3 DEF ServeRun, RunItem, ItemRaises, Flush, CommitRun
<1>4. ASSUME Restart
      PROVE  /\ \A p \in Request : phase[p] = "ok" => phase'[p] = "ok"
             /\ UNCHANGED <<results, before>>
    BY <1>4 DEF Restart
<1>5. ASSUME UNCHANGED vars PROVE UNCHANGED <<phase, results, before>>
    BY <1>5 DEF vars, session
<1>6. ASSUME NEW q \in Run, RunOne(q) \/ RunAll(q) PROVE \E rows \in SUBSET tests : Load(q, rows)
    BY <1>6 DEF RunOne, RunAll, Listed
<1> QED BY <1>1, <1>2, <1>3, <1>4, <1>5, <1>6 DEF Next

LEMMA TestsNext == TypeOK /\ TestsInv /\ [Next]_vars => TestsInv'
<1> SUFFICES ASSUME TypeOK, TestsInv, [Next]_vars PROVE TestsInv'
    OBVIOUS
<1> USE DEF TestsInv, TestRow
<1>0. /\ \A p \in Request : phase[p] = "ok" => phase'[p] = "ok"
      /\ \A a \in tests : a.id \in Request
    BY DoneNext DEF Request, TypeOK
<1>1. ASSUME NEW q \in Promotion, RejectPromotion(q) PROVE TestsInv'
    BY <1>1, <1>0 DEF RejectPromotion, table, session
<1>2. ASSUME NEW q \in Promotion, Promote(q) PROVE TestsInv'
    BY <1>2, <1>0 DEF Promote, TypeOK
<1>3. ASSUME NEW q \in Promotion, CommitPromotion(q) PROVE TestsInv'
    <2>1. \A a \in tests : a.id # q
        BY <1>3 DEF CommitPromotion
    <2>2. phase'[q] = "ok"
        BY <1>3 DEF CommitPromotion, Goto, TypeOK, Request
    <2>3. tests' = tests \cup promoted[q] /\ promoted' = promoted
        BY <1>3 DEF CommitPromotion, session
    <2> QED BY <1>0, <2>1, <2>2, <2>3
<1>4. ASSUME UNCHANGED <<tests, promoted>> PROVE TestsInv'
    BY <1>4, <1>0
<1>5. ASSUME NEW q \in Run, RunOne(q) \/ RunAll(q) \/ ServeRun(q) PROVE UNCHANGED <<tests, promoted>>
    BY <1>5 DEF RunOne, RunAll, Load, ServeRun, RunItem, ItemRaises, Flush, CommitRun, table
<1>6. ASSUME Restart \/ UNCHANGED vars PROVE UNCHANGED <<tests, promoted>>
    BY <1>6 DEF Restart, table, vars, session
<1> QED BY <1>1, <1>2, <1>3, <1>4, <1>5, <1>6 DEF Next

(* A session in the next state is as good as it was when its own variables  *)
(* are unchanged, whatever rows were added to the table.                    *)
LEMMA SessionKept ==
    ASSUME NEW p \in Run, SessionOK(p), tests \subseteq tests', phase'[p] = phase[p],
           todo'[p] = todo[p], loaded'[p] = loaded[p], results'[p] = results[p], dirty'[p] = dirty[p]
    PROVE  SessionOK(p)'
BY DEF SessionOK, Active, UpdateFor

LEMMA SessionNext == TypeOK /\ TestsInv /\ SessionInv /\ [Next]_vars => SessionInv'
<1> SUFFICES ASSUME TypeOK, TestsInv, SessionInv, [Next]_vars, NEW p \in Run PROVE SessionOK(p)'
    BY DEF SessionInv
<1>0. SessionOK(p)
    BY DEF SessionInv
<1> USE DEF TypeOK, Goto, Request
<1>1. ASSUME NEW q \in Promotion, RejectPromotion(q) \/ Promote(q) \/ CommitPromotion(q)
      PROVE  SessionOK(p)'
    <2>1. tests \subseteq tests' /\ UNCHANGED <<todo, loaded, results, dirty>>
        BY <1>1 DEF RejectPromotion, Promote, CommitPromotion, table, session
    <2>2. phase'[p] = phase[p]
        BY <1>1, RequestAssumption DEF RejectPromotion, Promote, CommitPromotion
    <2> QED BY <1>0, <2>1, <2>2, SessionKept
<1>2. ASSUME NEW q \in Run, NEW rows \in SUBSET tests, Load(q, rows) PROVE SessionOK(p)'
    <2>1. CASE p # q
        BY <1>0, <1>2, <2>1, SessionKept DEF Load, table
    <2>2. CASE p = q
        <3>1. results'[p] = {} /\ dirty'[p] = {} /\ todo'[p] = rows /\ phase'[p] = "running" /\ tests' = tests
            BY <1>0, <1>2, <2>2 DEF Load, SessionOK, table
        <3> QED BY <3>1 DEF SessionOK
    <2> QED BY <2>1, <2>2
<1>3. ASSUME NEW q \in Run, RunItem(q) PROVE SessionOK(p)'
    <2>1. CASE p # q
        BY <1>0, <1>3, <2>1, SessionKept DEF RunItem, table
    <2>2. CASE p = q
        <3>1. PICK t \in Current(q) : \E passed \in BOOLEAN :
                  results' = [results EXCEPT ![q] = @ \cup {[test |-> t.id, passed |-> passed]}]
            BY <1>3 DEF RunItem
        <3>2. PICK passed \in BOOLEAN :
                  results' = [results EXCEPT ![q] = @ \cup {[test |-> t.id, passed |-> passed]}]
            BY <3>1
        <3> DEFINE new == [test |-> t.id, passed |-> passed]
        <3>3. /\ results'[p] = results[p] \cup {new} /\ new.test = t.id
              /\ phase[p] = "running" /\ phase'[p] = "flushing"
              /\ todo'[p] = todo[p] /\ loaded'[p] = loaded[p] /\ dirty'[p] = dirty[p] /\ tests' = tests
            BY <1>3, <2>2, <3>2 DEF RunItem, table
        <3>4. t \in todo[p] /\ \A r \in results[p] : r.test # t.id
            BY <1>0, <2>2, <3>3 DEF SessionOK, Active, Current
        <3> HIDE DEF new
        <3>5. /\ todo[p] \subseteq tests
              /\ \A u \in dirty[p] : \E r \in results[p] : u = UpdateFor(p, r)
              /\ \A r \in results[p] : \E u \in dirty[p] : u.test = r.test
              /\ \A r \in results[p] : \A s \in todo[p] : s.id # r.test
              /\ \A r, s \in results[p] : r.test = s.test => r = s
            BY <1>0, <3>3 DEF SessionOK, Active
        <3>6. \A r \in results[p] \cup {new} : UpdateFor(p, r)' = UpdateFor(p, r)
            BY <3>3 DEF UpdateFor
        <3>7. \A s \in todo[p] : (\E r \in results'[p] : r.test = s.id) => s = t
            BY <3>3, <3>4, <3>5 DEF TestsInv
        <3>8. \A u \in dirty'[p] : \E r \in results'[p] : u = UpdateFor(p, r)'
            BY <3>3, <3>5, <3>6
        <3>9. \A r, s \in results'[p] : r.test = s.test => r = s
            BY <3>3, <3>4, <3>5
        <3> QED BY <3>3, <3>4, <3>5, <3>7, <3>8, <3>9 DEF SessionOK, Active
    <2> QED BY <2>1, <2>2
<1>4. ASSUME NEW q \in Run, Flush(q) PROVE SessionOK(p)'
    <2>1. CASE p # q
        BY <1>0, <1>4, <2>1, SessionKept DEF Flush, table
    <2>2. CASE p = q
        <3>1. PICK t \in todo[q] :
                  /\ \E r \in results[q] : r.test = t.id
                  /\ dirty' = [dirty EXCEPT ![q] = @ \cup {UpdateOf(q, t.id)}]
                  /\ todo' = [todo EXCEPT ![q] = @ \ {t}]
            BY <1>4 DEF Flush
        <3>2. PICK r \in results[p] : r.test = t.id
            BY <2>2, <3>1
        <3>3. \A x, y \in results[p] : x.test = y.test => x = y
            BY <1>0 DEF SessionOK
        <3>4. ResultOf(q, t.id) = r
            BY <2>2, <3>2, <3>3 DEF ResultOf
        <3>5. UpdateOf(q, t.id) = UpdateFor(p, r)
            BY <2>2, <3>2, <3>4 DEF UpdateOf, UpdateFor, Column
        <3>6. /\ results'[p] = results[p] /\ phase[p] = "flushing" /\ phase'[p] = "running"
              /\ todo'[p] = todo[p] \ {t} /\ loaded'[p] = loaded[p]
              /\ dirty'[p] = dirty[p] \cup {UpdateFor(p, r)} /\ tests' = tests
            BY <1>4, <2>2, <3>1, <3>5 DEF Flush, table
        <3>7. \A x \in results[p] : UpdateFor(p, x)' = UpdateFor(p, x)
            BY <3>6 DEF UpdateFor
        <3>8. UpdateFor(p, r).test = t.id
            BY <3>2 DEF UpdateFor
        <3>9. /\ todo[p] \subseteq tests
              /\ \A u \in dirty[p] : \E x \in results[p] : u = UpdateFor(p, x)
              /\ \A x \in results[p] : \/ \E u \in dirty[p] : u.test = x.test
                                       \/ \E s \in todo[p] : s.id = x.test
              /\ \A s \in todo[p] : (\E x \in results[p] : x.test = s.id) => s = t
            BY <1>0, <2>2, <3>1, <3>6 DEF SessionOK, Active
        <3>10. \A u \in dirty'[p] : \E x \in results'[p] : u = UpdateFor(p, x)'
            BY <3>6, <3>7, <3>9
        <3>11. \A x \in results'[p] : \A s \in todo'[p] : s.id # x.test
            BY <3>6, <3>9
        <3>12. \A x \in results'[p] : \E u \in dirty'[p] : u.test = x.test
            BY <3>6, <3>8, <3>9
        <3> QED BY <3>3, <3>6, <3>9, <3>10, <3>11, <3>12 DEF SessionOK, Active
    <2> QED BY <2>1, <2>2
<1>5. ASSUME NEW q \in Run, CommitRun(q) \/ ItemRaises(q) PROVE SessionOK(p)'
    <2>1. CASE p # q
        BY <1>0, <1>5, <2>1, SessionKept DEF CommitRun, Publish, ItemRaises, table
    <2>2. CASE p = q
        <3>1. phase'[p] \in {"ok", "failed"} /\ results'[p] = results[p]
            BY <1>5, <2>2 DEF CommitRun, ItemRaises
        <3> QED BY <1>0, <3>1 DEF SessionOK, Active
    <2> QED BY <2>1, <2>2
<1>6. ASSUME Restart PROVE SessionOK(p)'
    <2>1. /\ phase'[p] = IF phase[p] \in Working THEN "lost" ELSE phase[p]
          /\ results'[p] = results[p] /\ dirty'[p] = {}
        BY <1>6 DEF Restart
    <2> QED BY <1>0, <2>1 DEF SessionOK, Active, Working
<1>7. ASSUME UNCHANGED vars PROVE SessionOK(p)'
    BY <1>0, <1>7, SessionKept DEF vars, table, session
<1>8. ASSUME NEW q \in Run, RunOne(q) \/ RunAll(q) PROVE \E rows \in SUBSET tests : Load(q, rows)
    BY <1>8 DEF RunOne, RunAll, Listed
<1> QED BY <1>1, <1>2, <1>3, <1>4, <1>5, <1>6, <1>7, <1>8 DEF Next, ServeRun

LEMMA BeforeNext == TypeOK /\ BeforeInv /\ [Next]_vars => BeforeInv'
<1> SUFFICES ASSUME TypeOK, BeforeInv, [Next]_vars, NEW p \in Run PROVE before'[p] \subseteq Done'
    BY DEF BeforeInv
<1>1. Done \subseteq Done' /\ before[p] \subseteq Done
    BY DoneNext DEF BeforeInv
<1>2. before'[p] = before[p] \/ before'[p] = Done
    <2>1. ASSUME NEW q \in Run, NEW rows \in SUBSET tests, Load(q, rows) PROVE before'[p] \in {before[p], Done}
        BY <2>1 DEF Load, TypeOK, Done
    <2>2. ASSUME NEW q \in Run, RunOne(q) \/ RunAll(q) PROVE \E rows \in SUBSET tests : Load(q, rows)
        BY <2>2 DEF RunOne, RunAll, Listed
    <2> QED BY <2>1, <2>2 DEF Next, vars, ServeRun, RejectPromotion, Promote, CommitPromotion, RunItem,
                              ItemRaises, Flush, CommitRun, Restart, table, session
<1> QED BY <1>1, <1>2
-----------------------------------------------------------------------------
(* What the answered runs of a set told of a test, and which of them were   *)
(* alone in it, never changes.                                              *)
LEMMA ToldKept ==
    ASSUME TypeOK, [Next]_vars, NEW B \in SUBSET Done, NEW t \in Promotion, NEW b \in BOOLEAN
    PROVE  Told(B, t, b)' = Told(B, t, b) /\ Alone(B, t, b)' = Alone(B, t, b)
<1>1. \A p \in B : /\ p \in Run /\ phase[p] = "ok" /\ phase'[p] = "ok"
                   /\ results'[p] = results[p] /\ before'[p] = before[p]
    BY DoneNext DEF Done
<1>2. B \cap Ran(t)' = B \cap Ran(t)
    BY <1>1 DEF Ran
<1>3. \A p \in B : Passed(p, t)' <=> Passed(p, t)
    BY <1>1 DEF Passed
<1>4. Told(B, t, b)' = Told(B, t, b)
    BY <1>2, <1>3 DEF Told
<1>5. \A p, x \in B : Overlap(p, x)' <=> Overlap(p, x)
    BY <1>1 DEF Overlap
<1>6. \A p \in Told(B, t, b) : p \in B
    BY DEF Told
<1>7. Alone(B, t, b)' = {p \in Told(B, t, b)' : \A x \in (B \cap Ran(t)') \ {p} : ~Overlap(p, x)'}
    BY DEF Alone
<1>8. Alone(B, t, b) = {p \in Told(B, t, b) : \A x \in (B \cap Ran(t)) \ {p} : ~Overlap(p, x)}
    BY DEF Alone
<1> HIDE DEF Overlap
<1>9. \A p \in Told(B, t, b) : (\A x \in (B \cap Ran(t)) \ {p} : ~Overlap(p, x)') <=> (\A x \in (B \cap Ran(t)) \ {p} : ~Overlap(p, x))
    BY <1>5, <1>6
<1> QED BY <1>2, <1>4, <1>7, <1>8, <1>9

LEMMA BetweenKept ==
    ASSUME TypeOK, [Next]_vars, NEW B \in SUBSET Done, NEW t \in Promotion, NEW b \in BOOLEAN,
           NEW n, Between(n, B, t, b)
    PROVE  Between(n, B, t, b)'
BY ToldKept DEF Between

(* No step but a commit adds a run to the answered ones or changes a count. *)
LEMMA CommitOrKept ==
    ASSUME TypeOK, [Next]_vars
    PROVE  \/ \E q \in Run : CommitRun(q)
           \/ counts' = counts /\ Done' = Done
<1> USE DEF TypeOK, Goto, Request, Done
<1>1. ASSUME NEW q \in Promotion, RejectPromotion(q) \/ Promote(q) \/ CommitPromotion(q)
      PROVE  counts' = counts /\ Done' = Done
    BY <1>1, RequestAssumption DEF RejectPromotion, Promote, CommitPromotion, table
<1>2. ASSUME NEW q \in Run, NEW rows \in SUBSET tests, Load(q, rows)
      PROVE  counts' = counts /\ Done' = Done
    BY <1>2 DEF Load, table
<1>3. ASSUME NEW q \in Run, RunItem(q) \/ ItemRaises(q) \/ Flush(q)
      PROVE  counts' = counts /\ Done' = Done
    BY <1>3 DEF RunItem, ItemRaises, Flush, table
<1>4. ASSUME Restart PROVE counts' = counts /\ Done' = Done
    BY <1>4 DEF Restart, table, Working
<1>5. ASSUME UNCHANGED vars PROVE counts' = counts /\ Done' = Done
    BY <1>5 DEF vars, table
<1>6. ASSUME NEW q \in Run, RunOne(q) \/ RunAll(q) PROVE \E rows \in SUBSET tests : Load(q, rows)
    BY <1>6 DEF RunOne, RunAll, Listed
<1> QED BY <1>1, <1>2, <1>3, <1>4, <1>5, <1>6 DEF Next, ServeRun

(* A session that is working is as it was, or has just loaded the counters. *)
LEMMA LoadedOrKept ==
    ASSUME TypeOK, [Next]_vars, NEW p \in Run, Active(p)'
    PROVE  \/ Active(p) /\ loaded'[p] = loaded[p] /\ before'[p] = before[p]
           \/ loaded'[p] = counts /\ before'[p] = Done
<1> USE DEF TypeOK, Goto, Request, Active
<1>1. ASSUME NEW q \in Promotion, RejectPromotion(q) \/ Promote(q) \/ CommitPromotion(q)
      PROVE  Active(p) /\ loaded'[p] = loaded[p] /\ before'[p] = before[p]
    BY <1>1, RequestAssumption DEF RejectPromotion, Promote, CommitPromotion, table, session
<1>2. ASSUME NEW q \in Run, NEW rows \in SUBSET tests, Load(q, rows)
      PROVE  \/ Active(p) /\ loaded'[p] = loaded[p] /\ before'[p] = before[p]
             \/ loaded'[p] = counts /\ before'[p] = Done
    BY <1>2 DEF Load, Done
<1>3. ASSUME NEW q \in Run, ServeRun(q)
      PROVE  Active(p) /\ loaded'[p] = loaded[p] /\ before'[p] = before[p]
    BY <1>3 DEF ServeRun, RunItem, ItemRaises, Flush, CommitRun
<1>4. ASSUME Restart PROVE Active(p) /\ loaded'[p] = loaded[p] /\ before'[p] = before[p]
    BY <1>4 DEF Restart
<1>5. ASSUME UNCHANGED vars PROVE Active(p) /\ loaded'[p] = loaded[p] /\ before'[p] = before[p]
    BY <1>5 DEF vars, table, session
<1>6. ASSUME NEW q \in Run, RunOne(q) \/ RunAll(q) PROVE \E rows \in SUBSET tests : Load(q, rows)
    BY <1>6 DEF RunOne, RunAll, Listed
<1> QED BY <1>1, <1>2, <1>3, <1>4, <1>5, <1>6 DEF Next

LEMMA LoadedNext == TypeOK /\ BeforeInv /\ LoadedInv /\ CountsInv /\ [Next]_vars => LoadedInv'
<1> SUFFICES ASSUME TypeOK, BeforeInv, LoadedInv, CountsInv, [Next]_vars, NEW p \in Run, Active(p)',
                    NEW t \in Promotion, NEW b \in BOOLEAN
             PROVE  Between(loaded[p][t][Column(b)], before[p], t, b)'
    BY DEF LoadedInv, Column
<1> PICK n : n = loaded'[p][t][Column(b)]
    OBVIOUS
<1> PICK B : B = before'[p]
    OBVIOUS
<1>1. B \subseteq Done /\ Between(n, B, t, b)
    <2>1. CASE Active(p) /\ loaded'[p] = loaded[p] /\ before'[p] = before[p]
        BY <2>1 DEF LoadedInv, BeforeInv
    <2>2. CASE loaded'[p] = counts /\ before'[p] = Done
        BY <2>2 DEF CountsInv
    <2> QED BY <2>1, <2>2, LoadedOrKept
<1>2. Between(n, B, t, b)'
    BY <1>1, BetweenKept
<1>3. Told(B, t, b)' = Told(before[p], t, b)' /\ Alone(B, t, b)' = Alone(before[p], t, b)'
    BY DEF Told, Alone
<1> QED BY <1>2, <1>3 DEF Between, Column
-----------------------------------------------------------------------------
(* What a commit writes: a run that told b of a test adds one to the count  *)
(* it loaded, a run that did not leaves the count as it is.                 *)
LEMMA WrittenIs ==
    ASSUME TypeOK, NEW q \in Run, SessionOK(q), phase[q] = "running", NEW t \in Promotion, NEW b \in BOOLEAN
    PROVE  /\ (\E r \in results[q] : r.test = t /\ r.passed = b) =>
                  Written(q, t, Column(b)) = loaded[q][t][Column(b)] + 1
           /\ ~(\E r \in results[q] : r.test = t /\ r.passed = b) =>
                  Written(q, t, Column(b)) = counts[t][Column(b)]
<1> DEFINE Mine(u) == u.test = t /\ u.column = Column(b)
<1>1. \A r \in results[q] : r.passed \in BOOLEAN
    BY DEF TypeOK, Result
<1>2. /\ \A r, s \in results[q] : r.test = s.test => r = s
      /\ \A u \in dirty[q] : \E r \in results[q] : u = UpdateFor(q, r)
      /\ \A r \in results[q] : \E u \in dirty[q] : u.test = r.test
    BY DEF SessionOK, Active
<1>3. \A r \in results[q] : /\ UpdateFor(q, r).test = r.test
                            /\ UpdateFor(q, r).column = Column(r.passed)
                            /\ UpdateFor(q, r).value = loaded[q][r.test][Column(r.passed)] + 1
    BY DEF UpdateFor
<1>4. ASSUME NEW r \in results[q], r.test = t, r.passed = b
      PROVE  Written(q, t, Column(b)) = loaded[q][t][Column(b)] + 1
    <2>1. \A u \in dirty[q] : u.test = t => u = UpdateFor(q, r)
        BY <1>2, <1>3, <1>4
    <2>2. UpdateFor(q, r) \in dirty[q] /\ Mine(UpdateFor(q, r))
        BY <1>2, <1>3, <1>4, <2>1
    <2>3. (CHOOSE u \in dirty[q] : Mine(u)) = UpdateFor(q, r)
        BY <2>1, <2>2
    <2> QED BY <1>3, <1>4, <2>2, <2>3 DEF Written
<1>5. ASSUME NEW u \in dirty[q], Mine(u) PROVE \E r \in results[q] : r.test = t /\ r.passed = b
    <2>1. PICK r \in results[q] : u = UpdateFor(q, r)
        BY <1>2
    <2> QED BY <1>1, <1>3, <1>5, <2>1 DEF Column
<1> QED BY <1>4, <1>5 DEF Written

LEMMA CommitCounts ==
    ASSUME TypeOK, SessionInv, BeforeInv, LoadedInv, CountsInv, [Next]_vars,
           NEW q \in Run, CommitRun(q), NEW t \in Promotion, NEW b \in BOOLEAN
    PROVE  Between(counts[t][Column(b)], Done, t, b)'
<1> DEFINE W == Written(q, t, Column(b))
           Tells == \E r \in results[q] : r.test = t /\ r.passed = b
<1>1. /\ phase[q] = "running" /\ SessionOK(q) /\ results'[q] = results[q]
      /\ phase' = [phase EXCEPT ![q] = "ok"] /\ UNCHANGED <<results, before>>
      /\ counts'[t][Column(b)] = W
    BY DEF CommitRun, Publish, Goto, SessionInv, Column
<1>2. q \notin Done /\ Done' = Done \cup {q}
    BY <1>1 DEF Done, TypeOK, Request
<1>3. Ran(t)' = IF \E r \in results[q] : r.test = t THEN Ran(t) \cup {q} ELSE Ran(t)
    BY <1>1 DEF Ran, TypeOK, Request
<1>4. \A p : Passed(p, t)' = Passed(p, t)
    BY <1>1 DEF Passed
<1>5. (\E r \in results[q] : r.test = t) => ((Passed(q, t) <=> b) <=> Tells)
    BY <1>1 DEF Passed, SessionOK, TypeOK, Result
<1>6. q \notin Ran(t) /\ Ran(t) \subseteq Done
    BY <1>2 DEF Ran, Done
<1>7. Told(Done, t, b)' = IF Tells THEN Told(Done, t, b) \cup {q} ELSE Told(Done, t, b)
    BY <1>2, <1>3, <1>4, <1>5, <1>6 DEF Told
<1>8. \A p, x : Overlap(p, x)' <=> Overlap(p, x)
    BY <1>1 DEF Overlap
<1>9. IsFiniteSet(Told(Done, t, b)) /\ IsFiniteSet(Alone(Done, t, b)) /\ IsFiniteSet(Told(before[q], t, b))
      /\ Cardinality(Told(Done, t, b)) \in Nat
    <2>1. before[q] \subseteq Done
        BY DEF BeforeInv
    <2> QED BY <2>1, FS_Subset, FS_CardinalityType DEF CountsInv, Told, Alone
<1>10. CASE ~Tells
    <2>1. W = counts[t][Column(b)]
        BY <1>1, <1>10, WrittenIs
    <2>2. Alone(Done, t, b)' \subseteq Alone(Done, t, b)
        BY <1>2, <1>3, <1>7, <1>8, <1>10 DEF Alone
    <2>3. Cardinality(Alone(Done, t, b)') <= Cardinality(Alone(Done, t, b))
        BY <2>2, <1>9, FS_Subset
    <2>4. IsFiniteSet(Alone(Done, t, b)')
        BY <2>2, <1>9, FS_Subset
    <2>5. /\ Cardinality(Alone(Done, t, b)') \in Nat /\ Cardinality(Alone(Done, t, b)) \in Nat
          /\ counts[t][Column(b)] \in Nat
        BY <2>4, <1>9, FS_CardinalityType DEF TypeOK, Counts, Column
    <2>6. Between(counts[t][Column(b)], Done, t, b)
        BY DEF CountsInv
    <2> HIDE DEF W
    <2> QED BY <1>1, <1>7, <1>10, <2>1, <2>3, <2>5, <2>6 DEF Between
<1>11. CASE Tells
    <2>1. W = loaded[q][t][Column(b)] + 1
        BY <1>1, <1>11, WrittenIs
    <2> DEFINE B == before[q]
    <2>2. Between(loaded[q][t][Column(b)], B, t, b) /\ B \subseteq Done
        BY <1>1 DEF LoadedInv, Active, BeforeInv
    <2>3. Told(B, t, b) \subseteq Told(Done, t, b) /\ q \notin Told(Done, t, b)
        BY <2>2, <1>2 DEF Told
    <2>4. Alone(Done, t, b)' \subseteq Alone(B, t, b) \cup {q}
        <3>1. SUFFICES ASSUME NEW p \in Alone(Done, t, b)', p # q PROVE p \in Alone(B, t, b)
            OBVIOUS
        <3>2. p \in Told(Done, t, b) /\ \A x \in (Done' \cap Ran(t)') \ {p} : ~Overlap(p, x)
            BY <3>1, <1>7, <1>8, <1>11 DEF Alone
        <3>3. q \in (Done' \cap Ran(t)') \ {p} /\ Done \cap Ran(t) \subseteq Done' \cap Ran(t)'
            BY <3>1, <1>2, <1>3, <1>11
        <3>4. ~Overlap(p, q) /\ p \in Done
            BY <3>2, <3>3 DEF Told
        <3>5. q \notin before[p]
            BY <3>4, <1>2 DEF BeforeInv, Done
        <3>6. p \in B
            BY <3>4, <3>5 DEF Overlap
        <3>7. p \in Told(B, t, b)
            BY <3>2, <3>6 DEF Told
        <3> HIDE DEF B
        <3> QED BY <3>2, <3>3, <3>7, <2>2 DEF Alone
    <2>5. Cardinality(Told(B, t, b)) <= Cardinality(Told(Done, t, b))
        BY <2>3, <1>9, FS_Subset
    <2>6. Cardinality(Told(Done, t, b)') = Cardinality(Told(Done, t, b)) + 1
        <3> PICK S : S = Told(Done, t, b)
            OBVIOUS
        <3>1. Told(Done, t, b)' = S \cup {q} /\ q \notin S /\ IsFiniteSet(S)
            BY <2>3, <1>7, <1>9, <1>11
        <3>2. Cardinality(S \cup {q}) = Cardinality(S) + 1
            BY <3>1, FS_AddElement
        <3> QED BY <3>1, <3>2
    <2>7. IsFiniteSet(Alone(B, t, b))
        BY <1>9, FS_Subset DEF Alone
    <2>8. /\ IsFiniteSet(Alone(B, t, b) \cup {q})
          /\ Cardinality(Alone(B, t, b) \cup {q}) <= Cardinality(Alone(B, t, b)) + 1
        BY <2>7, FS_AddElement, FS_CardinalityType
    <2>9. Cardinality(Alone(Done, t, b)') <= Cardinality(Alone(B, t, b) \cup {q}) /\ IsFiniteSet(Alone(Done, t, b)')
        BY <2>4, <2>8, FS_Subset
    <2>10. /\ Cardinality(Alone(B, t, b)) \in Nat /\ Cardinality(Alone(B, t, b) \cup {q}) \in Nat
           /\ Cardinality(Alone(Done, t, b)') \in Nat /\ Cardinality(Told(B, t, b)) \in Nat
           /\ loaded[q][t][Column(b)] \in Nat
        BY <2>7, <2>8, <2>9, <1>9, FS_CardinalityType DEF TypeOK, Counts, Column
    <2> HIDE DEF B, W
    <2>11. /\ Cardinality(Alone(Done, t, b)') <= W
           /\ W <= Cardinality(Told(Done, t, b)')
        BY <1>9, <2>1, <2>2, <2>5, <2>6, <2>8, <2>9, <2>10 DEF Between
    <2> QED BY <1>1, <2>11 DEF Between
<1> QED BY <1>10, <1>11

LEMMA CountsNext ==
    TypeOK /\ SessionInv /\ BeforeInv /\ LoadedInv /\ CountsInv /\ [Next]_vars => CountsInv'
<1> SUFFICES ASSUME TypeOK, SessionInv, BeforeInv, LoadedInv, CountsInv, [Next]_vars PROVE CountsInv'
    OBVIOUS
<1>1. CASE counts' = counts /\ Done' = Done
    <2>1. ASSUME NEW t \in Promotion, NEW b \in BOOLEAN PROVE Between(counts[t][Column(b)], Done, t, b)'
        <3> PICK n : n = counts[t][Column(b)]
            OBVIOUS
        <3> PICK B : B = Done
            OBVIOUS
        <3>1. Between(n, B, t, b)'
            BY BetweenKept DEF CountsInv
        <3>2. Told(B, t, b)' = Told(Done, t, b)' /\ Alone(B, t, b)' = Alone(Done, t, b)'
            BY <1>1 DEF Told, Alone
        <3> QED BY <1>1, <3>1, <3>2 DEF Between, Column
    <2> QED BY <1>1, <2>1 DEF CountsInv
<1>2. ASSUME NEW q \in Run, CommitRun(q) PROVE CountsInv'
    <2>1. Done' = Done \cup {q}
        BY <1>2 DEF CommitRun, Goto, Done, TypeOK, Request
    <2>2. IsFiniteSet(Done')
        BY <2>1, FS_AddElement DEF CountsInv
    <2> QED BY <1>2, <2>2, CommitCounts DEF CountsInv
<1> QED BY <1>1, <1>2, CommitOrKept
-----------------------------------------------------------------------------
LEMMA PackInvariant == Spec => []PackInv
<1>1. PackInv /\ [Next]_vars => PackInv'
    BY TypeNext, TestsNext, SessionNext, BeforeNext, LoadedNext, CountsNext DEF PackInv
<1> QED BY <1>1, InitPack, PTL DEF Spec

LEMMA CountsMeaning ==
    ASSUME CountsInv, NEW t \in Promotion
    PROVE  /\ counts[t].pass <= Cardinality({q \in Ran(t) : Passed(q, t)})
           /\ counts[t].fail <= Cardinality({q \in Ran(t) : ~Passed(q, t)})
           /\ counts[t].pass >= Cardinality({q \in RanAlone(t) : Passed(q, t)})
           /\ counts[t].fail >= Cardinality({q \in RanAlone(t) : ~Passed(q, t)})
<1>1. Done \cap Ran(t) = Ran(t)
    BY DEF Done, Ran
<1>2. Told(Done, t, TRUE) = {q \in Ran(t) : Passed(q, t)} /\ Told(Done, t, FALSE) = {q \in Ran(t) : ~Passed(q, t)}
    BY <1>1 DEF Told
<1>3. /\ Alone(Done, t, TRUE) = {q \in RanAlone(t) : Passed(q, t)}
      /\ Alone(Done, t, FALSE) = {q \in RanAlone(t) : ~Passed(q, t)}
    <2>1. ASSUME NEW b \in BOOLEAN
          PROVE  Alone(Done, t, b) = {q \in Told(Done, t, b) : \A p \in Ran(t) \ {q} : ~Overlap(q, p)}
        BY <1>1 DEF Alone
    <2>2. \A p, q : Overlap(p, q) <=> Overlap(q, p)
        BY DEF Overlap
    <2>3. RanAlone(t) = {q \in Ran(t) : \A p \in Ran(t) \ {q} : ~Overlap(q, p)}
        BY <2>2 DEF RanAlone
    <2> QED BY <1>2, <2>1, <2>3
<1>4. Between(counts[t].pass, Done, t, TRUE) /\ Between(counts[t].fail, Done, t, FALSE)
    BY DEF CountsInv, Column
<1> QED BY <1>2, <1>3, <1>4 DEF Between

(* The upper bound: a counter never tells more than the results that were   *)
(* answered, for any number of overlapping runs, run-alls and restarts.     *)
THEOREM CountersWithinRunsCorrect == Spec => []CountersWithinRuns
<1>1. PackInv => CountersWithinRuns
    BY CountsMeaning DEF PackInv, CountersWithinRuns
<1> QED BY <1>1, PackInvariant, PTL

(* The lower bound: no stale increment of another request takes back what a *)
(* run that overlapped no other run of the test has counted.                *)
THEOREM LoneRunsCountedCorrect == Spec => []LoneRunsCounted
<1>1. PackInv => LoneRunsCounted
    BY CountsMeaning DEF PackInv, LoneRunsCounted
<1> QED BY <1>1, PackInvariant, PTL
=============================================================================
