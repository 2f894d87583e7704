------------------------------ MODULE ConsoleProofs ------------------------------
(***************************************************************************)
(* What the views of the console promise whatever the bounds, one view      *)
(* after the other: a step of a view is one of WebConsole with that view    *)
(* mounted, and it stays mounted.                                           *)
(***************************************************************************)
EXTENDS WebConsole, FiniteSetTheorems, TLAPS

(* A request is a record of six fields; those that are pending are few      *)
(* enough that one more could always be told from them.                     *)
IsRequest(r) == r = [no |-> r.no, op |-> r.op, stage |-> r.stage, run |-> r.run, arg |-> r.arg, seen |-> r.seen]

PendingOK == /\ IsFiniteSet(pending) /\ Cardinality(pending) <= MaxPending
             /\ \A p \in pending : IsRequest(p)

LEMMA SomeNumberIsFree ==
    ASSUME NEW N \in Nat, NEW others, IsFiniteSet(others), Cardinality(others) < N, NEW request, IsRequest(request)
    PROVE  \E n \in 1..N : [request EXCEPT !.no = n] \notin others
<1> SUFFICES ASSUME \A n \in 1..N : [request EXCEPT !.no = n] \in others PROVE FALSE
    OBVIOUS
<1> DEFINE f == [n \in 1..N |-> [request EXCEPT !.no = n]]
<1>1. N >= 1
    <2>1. Cardinality(others) \in Nat
        BY FS_CardinalityType
    <2> QED BY <2>1
<1>2. IsFiniteSet(1..N) /\ Cardinality(1..N) = N
    BY <1>1, FS_Interval
<1>3. f \in [1..N -> others]
    OBVIOUS
<1>4. \A m, n \in 1..N : f[m] = f[n] => m = n
    <2>1. \A n \in 1..N : f[n].no = n
        BY DEF IsRequest
    <2> QED BY <2>1
<1> HIDE DEF f
<1>5. PICK S : S = 1..N
    OBVIOUS
<1>6. IsFiniteSet(S) /\ Cardinality(others) < Cardinality(S) /\ f \in [S -> others]
    BY <1>2, <1>3, <1>5
<1>7. \E m, n \in S : m # n /\ f[m] = f[n]
    BY <1>6, FS_PigeonHole
<1> QED BY <1>4, <1>5, <1>7

(* The request that is added differs from the given one in its number only. *)
Added(N, others, request) ==
    others \cup {CHOOSE r \in {[request EXCEPT !.no = n] : n \in 1..N} : r \notin others}

LEMMA AddedIs ==
    ASSUME NEW N \in Nat, NEW others, IsFiniteSet(others), Cardinality(others) < N,
           \A p \in others : IsRequest(p), NEW request, IsRequest(request)
    PROVE  /\ IsFiniteSet(Added(N, others, request))
           /\ Cardinality(Added(N, others, request)) = Cardinality(others) + 1
           /\ \A p \in Added(N, others, request) : IsRequest(p)
           /\ \E r : /\ r \notin others /\ Added(N, others, request) = others \cup {r}
                     /\ r.op = request.op /\ r.stage = request.stage /\ r.run = request.run
                     /\ r.arg = request.arg /\ r.seen = request.seen
<1> DEFINE numbered == {[request EXCEPT !.no = n] : n \in 1..N}
           r        == CHOOSE q \in numbered : q \notin others
<1>1. r \in numbered /\ r \notin others
    BY SomeNumberIsFree
<1>2. Added(N, others, request) = others \cup {r}
    BY DEF Added
<1>3. /\ IsRequest(r)
      /\ r.op = request.op /\ r.stage = request.stage /\ r.run = request.run
      /\ r.arg = request.arg /\ r.seen = request.seen
    BY <1>1 DEF IsRequest
<1> HIDE DEF r
<1>4. IsFiniteSet(others \cup {r}) /\ Cardinality(others \cup {r}) = Cardinality(others) + 1
    BY <1>1, FS_AddElement
<1> QED BY <1>1, <1>2, <1>3, <1>4

LEMMA WithIs ==
    ASSUME NEW others, IsFiniteSet(others), Cardinality(others) < MaxPending,
           \A p \in others : IsRequest(p), NEW request, IsRequest(request)
    PROVE  /\ IsFiniteSet(With(others, request)) /\ Cardinality(With(others, request)) <= MaxPending
           /\ \A p \in With(others, request) : IsRequest(p)
           /\ \E r : /\ r \notin others /\ With(others, request) = others \cup {r}
                     /\ r.op = request.op /\ r.stage = request.stage /\ r.run = request.run
                     /\ r.arg = request.arg /\ r.seen = request.seen
<1>1. Cardinality(others) \in Nat /\ MaxPending \in Nat
    BY FS_CardinalityType, BoundsAssumption
<1>2. With(others, request) = Added(MaxPending, others, request)
    BY DEF With, Added
<1> QED BY <1>1, <1>2, AddedIs

LEMMA NewRequestIs ==
    ASSUME NEW op, NEW stage, NEW run, NEW arg
    PROVE  LET r == NewRequest(op, stage, run, arg)
           IN  /\ IsRequest(r) /\ r.op = op /\ r.stage = stage /\ r.run = run /\ r.arg = arg
               /\ r.seen = Seen(stage, server)
BY DEF NewRequest, IsRequest

(* The three ways in which the requests of a view change.                   *)
LEMMA SendIs ==
    ASSUME PendingOK, NEW op, NEW stage, NEW run, NEW arg, Send(op, stage, run, arg)
    PROVE  /\ PendingOK'
           /\ \E r : /\ r \notin pending /\ pending' = pending \cup {r}
                     /\ r.op = op /\ r.stage = stage /\ r.run = run /\ r.arg = arg /\ r.seen = Seen(stage, server)
BY WithIs, NewRequestIs DEF Send, PendingOK

LEMMA RemovedIs ==
    ASSUME PendingOK, NEW p \in pending
    PROVE  /\ IsFiniteSet(pending \ {p}) /\ Cardinality(pending \ {p}) < MaxPending
           /\ \A q \in pending \ {p} : IsRequest(q)
<1>1. Cardinality(pending) \in Nat /\ MaxPending \in Nat
    BY FS_CardinalityType, BoundsAssumption DEF PendingOK
<1> QED BY <1>1, FS_RemoveElement DEF PendingOK

GoneOn(p, stage, run, seen) == [p EXCEPT !.stage = stage, !.run = run, !.seen = seen]

LEMMA GoneOnIs ==
    ASSUME NEW p, IsRequest(p), NEW stage, NEW run, NEW seen
    PROVE  GoneOn(p, stage, run, seen)
               = [no |-> p.no, op |-> p.op, stage |-> stage, run |-> run, arg |-> p.arg, seen |-> seen]
<1>1. PICK no, op, s, r, arg, n : no = p.no /\ op = p.op /\ s = p.stage /\ r = p.run /\ arg = p.arg /\ n = p.seen
    OBVIOUS
<1>2. p = [no |-> no, op |-> op, stage |-> s, run |-> r, arg |-> arg, seen |-> n]
    BY <1>1 DEF IsRequest
<1>3. PICK q : q = [p EXCEPT !.stage = stage]
    OBVIOUS
<1>4. PICK t : t = [q EXCEPT !.run = run]
    OBVIOUS
<1>5. q = [no |-> no, op |-> op, stage |-> stage, run |-> r, arg |-> arg, seen |-> n]
    BY <1>2, <1>3
<1>6. t = [no |-> no, op |-> op, stage |-> stage, run |-> run, arg |-> arg, seen |-> n]
    BY <1>4, <1>5
<1>7. [t EXCEPT !.seen = seen] = [no |-> no, op |-> op, stage |-> stage, run |-> run, arg |-> arg, seen |-> seen]
    BY <1>6
<1>8. [p EXCEPT !.stage = stage, !.run = run, !.seen = seen]
          = [[[p EXCEPT !.stage = stage] EXCEPT !.run = run] EXCEPT !.seen = seen]
    OBVIOUS
<1> QED BY <1>1, <1>3, <1>4, <1>7, <1>8 DEF GoneOn

LEMMA GoesIs ==
    ASSUME PendingOK, NEW p \in pending, NEW stage, NEW run, Goes(p, stage, run)
    PROVE  /\ PendingOK'
           /\ \E r : /\ r \notin pending \ {p} /\ pending' = (pending \ {p}) \cup {r}
                     /\ r.op = p.op /\ r.stage = stage /\ r.run = run /\ r.arg = p.arg /\ r.seen = Seen(stage, server')
<1> DEFINE request == [p EXCEPT !.stage = stage, !.run = run, !.seen = Seen(stage, server')]
<1>1. /\ IsRequest(request) /\ request.op = p.op /\ request.stage = stage /\ request.run = run
      /\ request.arg = p.arg /\ request.seen = Seen(stage, server')
    <2>1. IsRequest(p)
        BY DEF PendingOK
    <2>2. PICK seen : seen = Seen(stage, server')
        OBVIOUS
    <2>3. GoneOn(p, stage, run, seen)
              = [no |-> p.no, op |-> p.op, stage |-> stage, run |-> run, arg |-> p.arg, seen |-> seen]
        BY <2>1, GoneOnIs
    <2>4. request = [no |-> p.no, op |-> p.op, stage |-> stage, run |-> run, arg |-> p.arg, seen |-> seen]
        BY <2>2, <2>3 DEF GoneOn
    <2> HIDE DEF request
    <2> QED BY <2>2, <2>4 DEF IsRequest
<1>2. pending' = With(pending \ {p}, request)
    BY DEF Goes
<1> HIDE DEF request
<1>3. PICK others : others = pending \ {p}
    OBVIOUS
<1>4. IsFiniteSet(others) /\ Cardinality(others) < MaxPending /\ \A q \in others : IsRequest(q)
    BY <1>3, RemovedIs
<1>5. PICK now : now = With(others, request)
    OBVIOUS
<1>6. /\ IsFiniteSet(now) /\ Cardinality(now) <= MaxPending
      /\ \A q \in now : IsRequest(q)
      /\ \E r : /\ r \notin others /\ now = others \cup {r}
                /\ r.op = request.op /\ r.stage = request.stage /\ r.run = request.run
                /\ r.arg = request.arg /\ r.seen = request.seen
    BY <1>1, <1>4, <1>5, WithIs
<1>7. pending' = now
    BY <1>2, <1>3, <1>5
<1> QED BY <1>1, <1>3, <1>6, <1>7 DEF PendingOK

LEMMA ReturnsIs ==
    ASSUME PendingOK, NEW p \in pending, Returns(p)
    PROVE  PendingOK'
<1>1. IsFiniteSet(pending \ {p}) /\ Cardinality(pending \ {p}) < MaxPending
    BY RemovedIs
<1>2. Cardinality(pending \ {p}) <= MaxPending
    <2>1. Cardinality(pending \ {p}) \in Nat /\ MaxPending \in Nat
        BY <1>1, FS_CardinalityType, BoundsAssumption
    <2> QED BY <1>1, <2>1
<1>3. \A q \in pending \ {p} : IsRequest(q)
    BY DEF PendingOK
<1>4. pending' = pending \ {p}
    BY DEF Returns
<1> HIDE DEF IsRequest
<1> QED BY <1>1, <1>2, <1>3, <1>4 DEF PendingOK

(* A view mounts with one request, or none.                                 *)
LEMMA MountIs ==
    ASSUME \/ pending = {}
           \/ \E op, stage, run, arg : pending = {NewRequest(op, stage, run, arg)}
    PROVE  PendingOK
<1>1. MaxPending \in Nat /\ MaxPending >= 1
    BY BoundsAssumption
<1>2. CASE pending = {}
    BY <1>1, <1>2, FS_EmptySet DEF PendingOK
<1>3. ASSUME NEW op, NEW stage, NEW run, NEW arg, pending = {NewRequest(op, stage, run, arg)} PROVE PendingOK
    <2>1. PICK r : r = NewRequest(op, stage, run, arg)
        OBVIOUS
    <2>2. IsRequest(r) /\ pending = {r}
        BY <1>3, <2>1, NewRequestIs
    <2>3. IsFiniteSet(pending) /\ Cardinality(pending) = 1
        BY <2>2, FS_Singleton
    <2> QED BY <1>1, <2>2, <2>3 DEF PendingOK
<1> QED BY <1>2, <1>3
-----------------------------------------------------------------------------
(* The issue card.  What it waits for and has not cancelled is the issue of *)
(* its present key.                                                         *)
CardInv ==
    view = "card" =>
        /\ PendingOK
        /\ ui \in Card!CardState
        /\ \A p \in pending : p.stage = "live" => p.arg = ui.key
        /\ \A p, q \in pending : p.stage = "live" /\ q.stage = "live" => p = q
        /\ ui.issue \in {Nil, ui.key}
        /\ Card!NeverStuck

(* What the card takes from ConsoleClient is what the console takes.        *)
LEMMA CardTerms ==
    /\ Card!Run = Run
    /\ \A op, stage, run, arg : Card!NewRequest(op, stage, run, arg) = NewRequest(op, stage, run, arg)
    /\ \A others, request : Card!With(others, request) = With(others, request)
    /\ \A p : Card!Returns(p) <=> Returns(p)
    /\ Card!Cardinality(pending) = Cardinality(pending)
<1>1. Card!Run = Run
    BY DEF Card!Run, Run
<1>2. ASSUME NEW op, NEW stage, NEW run, NEW arg PROVE Card!NewRequest(op, stage, run, arg) = NewRequest(op, stage, run, arg)
    BY DEF Card!NewRequest, NewRequest, Card!Seen, Seen
<1>3. ASSUME NEW others, NEW request PROVE Card!With(others, request) = With(others, request)
    BY DEF Card!With, With
<1>4. ASSUME NEW p PROVE Card!Returns(p) <=> Returns(p)
    BY DEF Card!Returns, Returns
<1>5. Card!Cardinality(pending) = Cardinality(pending)
    BY DEF Card!Cardinality, Cardinality, Card!IsFiniteSet, IsFiniteSet
<1> QED BY <1>1, <1>2, <1>3, <1>4, <1>5

LEMMA CancelledIs ==
    ASSUME PendingOK
    PROVE  LET cancelled == {[p EXCEPT !.stage = "cancelled"] : p \in pending}
           IN  /\ IsFiniteSet(cancelled) /\ Cardinality(cancelled) <= Cardinality(pending)
               /\ \A q \in cancelled : IsRequest(q) /\ q.stage = "cancelled"
<1> DEFINE cancelled == {[p EXCEPT !.stage = "cancelled"] : p \in pending}
           f == [p \in pending |-> [p EXCEPT !.stage = "cancelled"]]
<1>1. f \in Surjection(pending, cancelled)
    BY DEF Surjection
<1>2. IsFiniteSet(cancelled) /\ Cardinality(cancelled) <= Cardinality(pending)
    BY <1>1, FS_Surjection DEF PendingOK
<1>3. ASSUME NEW p \in pending
      PROVE  IsRequest([p EXCEPT !.stage = "cancelled"]) /\ [p EXCEPT !.stage = "cancelled"].stage = "cancelled"
    <2>1. PICK no, op, s, r, arg, n : p = [no |-> no, op |-> op, stage |-> s, run |-> r, arg |-> arg, seen |-> n]
        BY DEF PendingOK, IsRequest
    <2>2. PICK q : q = [p EXCEPT !.stage = "cancelled"]
        OBVIOUS
    <2>3. q = [no |-> no, op |-> op, stage |-> "cancelled", run |-> r, arg |-> arg, seen |-> n]
        BY <2>1, <2>2
    <2>4. IsRequest(q) /\ q.stage = "cancelled"
        BY <2>3 DEF IsRequest
    <2> QED BY <2>2, <2>4
<1> QED BY <1>2, <1>3

LEMMA CardMounts == Init => CardInv
<1> SUFFICES ASSUME Init, view = "card" PROVE CardInv
    BY DEF CardInv
<1>1. PICK k \in Run : ui = Card!Blank(k) /\ pending = {NewRequest("issue", "live", Nil, k)}
    BY CardTerms DEF Init, Card!Mount
<1>2. PendingOK
    BY <1>1, MountIs
<1>3. PICK r : r = NewRequest("issue", "live", Nil, k)
    OBVIOUS
<1>4. r.arg = k /\ r.stage = "live" /\ pending = {r}
    BY <1>1, <1>3, NewRequestIs
<1>5. ui \in Card!CardState /\ ui.key = k /\ ui.issue = Nil /\ ui.loading
    BY <1>1, CardTerms DEF Card!Blank, Card!CardState
<1> QED BY <1>2, <1>4, <1>5 DEF CardInv, Card!NeverStuck

LEMMA CardNext ==
    ASSUME [Next]_consolevars, view = "card"
    PROVE  /\ view' = "card"
           /\ UNCHANGED <<server, pending, ui, past>> \/ Card!Next
BY DEF Next, consolevars, clientvars

(* A rendering cancels what was asked for, and asks for the issue of the    *)
(* key it is given.                                                         *)
LEMMA RenderIs ==
    ASSUME CardInv, view = "card", Card!Render
    PROVE  \E k \in Run : /\ ui' = Card!Blank(k) /\ PendingOK'
                          /\ \E r \in pending' : /\ r.stage = "live" /\ r.arg = k
                                                 /\ \A p \in pending' : p.stage = "live" => p = r
<1> DEFINE cancelled == {[p EXCEPT !.stage = "cancelled"] : p \in pending}
<1>1. PICK k \in Run : /\ pending' = With(cancelled, NewRequest("issue", "live", Nil, k))
                       /\ ui' = Card!Blank(k)
    BY CardTerms DEF Card!Render
<1>2. PICK others : others = cancelled
    OBVIOUS
<1>3. PICK request : request = NewRequest("issue", "live", Nil, k)
    OBVIOUS
<1>4. PendingOK /\ Cardinality(pending) < MaxPending
    <2>1. PendingOK
        BY DEF CardInv
    <2>2. Cardinality(pending) < MaxPending
        BY CardTerms DEF Card!Render
    <2> QED BY <2>1, <2>2
<1>5. /\ IsFiniteSet(others) /\ Cardinality(others) <= Cardinality(pending)
      /\ \A q \in others : IsRequest(q) /\ q.stage = "cancelled"
    BY <1>2, <1>4, CancelledIs
<1>6. Cardinality(others) < MaxPending
    <2>1. /\ Cardinality(others) \in Nat /\ Cardinality(pending) \in Nat /\ MaxPending \in Nat
        BY <1>4, <1>5, FS_CardinalityType, BoundsAssumption DEF PendingOK
    <2> QED BY <1>4, <1>5, <2>1
<1>7. IsRequest(request) /\ request.arg = k /\ request.stage = "live"
    BY <1>3, NewRequestIs
<1>8. PICK now : now = With(others, request)
    OBVIOUS
<1>9. /\ IsFiniteSet(now) /\ Cardinality(now) <= MaxPending
      /\ \A p \in now : IsRequest(p)
      /\ \E r : now = others \cup {r} /\ r.arg = request.arg /\ r.stage = request.stage
    BY <1>5, <1>6, <1>7, <1>8, WithIs
<1>10. pending' = now
    BY <1>1, <1>2, <1>3, <1>8
<1>11. PendingOK'
    BY <1>9, <1>10 DEF PendingOK
<1>12. PICK r : now = others \cup {r} /\ r.arg = request.arg /\ r.stage = request.stage
    BY <1>9
<1>13. /\ r \in pending' /\ r.stage = "live" /\ r.arg = k
       /\ \A p \in pending' : p.stage = "live" => p = r
    BY <1>5, <1>7, <1>10, <1>12
<1> QED BY <1>1, <1>11, <1>13

LEMMA CardInvHolds == CardInv /\ [Next]_consolevars => CardInv'
<1> SUFFICES ASSUME CardInv, [Next]_consolevars, view' = "card" PROVE CardInv'
    BY DEF CardInv
<1>1. view = "card"
    BY DEF Next, consolevars
<1>2. UNCHANGED <<server, pending, ui, past>> \/ Card!Next
    BY <1>1, CardNext
<1>3. CASE UNCHANGED <<server, pending, ui, past>>
    BY <1>1, <1>3 DEF CardInv, PendingOK, Card!NeverStuck
<1>4. CASE Card!Render
    <2>1. PICK k \in Run : /\ ui' = Card!Blank(k) /\ PendingOK'
                           /\ \E r \in pending' : /\ r.stage = "live" /\ r.arg = k
                                                  /\ \A p \in pending' : p.stage = "live" => p = r
        BY <1>1, <1>4, RenderIs
    <2>2. ui' \in Card!CardState /\ ui'.key = k /\ ui'.issue = Nil /\ ui'.loading
        BY <2>1, CardTerms DEF Card!Blank, Card!CardState
    <2> QED BY <2>1, <2>2 DEF CardInv, Card!NeverStuck
<1>5. CASE Card!Answers
    <2>1. PICK p \in pending : Card!FetchAnswer(p) \/ Card!FetchFails(p)
        BY <1>5 DEF Card!Answers
    <2>2. Returns(p)
        BY <2>1, CardTerms DEF Card!FetchAnswer, Card!FetchFails
    <2>3. PendingOK'
        BY <1>1, <2>2, ReturnsIs DEF CardInv
    <2>4. ui' \in Card!CardState /\ ui'.key = ui.key /\ ui'.issue \in {Nil, ui.key}
        <3>1. ui \in Card!CardState /\ ui.issue \in {Nil, ui.key} /\ (p.stage = "live" => p.arg = ui.key)
            BY <1>1 DEF CardInv
        <3> QED BY <2>1, <3>1 DEF Card!FetchAnswer, Card!FetchFails, Card!CardState
    <2>5. pending' = pending \ {p}
        BY <2>2 DEF Returns
    <2>6. Card!NeverStuck'
        <3>1. /\ ui \in Card!CardState /\ Card!NeverStuck
              /\ \A q, r \in pending : q.stage = "live" /\ r.stage = "live" => q = r
            BY <1>1 DEF CardInv
        <3>2. CASE p.stage = "live"
            <4>1. ~ui'.loading
                BY <2>1, <3>1, <3>2 DEF Card!FetchAnswer, Card!FetchFails, Card!CardState
            <4> QED BY <2>5, <3>1, <3>2, <4>1 DEF Card!NeverStuck
        <3>3. CASE p.stage # "live"
            <4>1. ui' = ui
                BY <2>1, <3>3 DEF Card!FetchAnswer, Card!FetchFails
            <4> QED BY <2>5, <3>1, <3>3, <4>1 DEF Card!NeverStuck
        <3> QED BY <3>2, <3>3
    <2> QED BY <1>1, <2>3, <2>4, <2>5, <2>6 DEF CardInv
<1> QED BY <1>2, <1>3, <1>4, <1>5 DEF Card!Next

(* A step of the card is one of FreshView, or changes neither the key nor   *)
(* what is shown with it.                                                   *)
LEMMA CardStep ==
    ASSUME CardInv, [Next]_consolevars
    PROVE  [Fresh!Next]_<<CardKey, CardIssue>>
<1>1. CASE view # "card"
    <2>1. view' # "card"
        BY <1>1 DEF Next, consolevars
    <2> QED BY <1>1, <2>1 DEF CardKey, CardIssue
<1>2. CASE view = "card"
    <2>1. view' = "card" /\ (UNCHANGED <<server, pending, ui, past>> \/ Card!Next)
        BY <1>2, CardNext
    <2>2. CASE UNCHANGED <<server, pending, ui, past>>
        BY <1>2, <2>1, <2>2 DEF CardKey, CardIssue
    <2>3. CASE Card!Render
        <3>1. PICK k \in Run : ui' = Card!Blank(k)
            BY <2>3, CardTerms DEF Card!Render
        <3>2. CardKey' \in Run /\ CardIssue' = Nil
            BY <2>1, <3>1 DEF CardKey, CardIssue, Card!Blank
        <3> QED BY <3>2 DEF Fresh!Next, Fresh!Change
    <2>4. CASE Card!Answers
        <3>1. PICK p \in pending : Card!FetchAnswer(p) \/ Card!FetchFails(p)
            BY <2>4 DEF Card!Answers
        <3>2. ui \in Card!CardState /\ (p.stage = "live" => p.arg = ui.key)
            BY <1>2 DEF CardInv
        <3>3. CASE Card!FetchAnswer(p) /\ p.stage = "live"
            <4>1. ui'.key = ui.key /\ ui'.issue = ui.key
                BY <3>2, <3>3 DEF Card!FetchAnswer, Card!CardState
            <4>2. ui.key # Nil
                BY <3>2, NilAssumption, BoundsAssumption DEF Card!CardState, Card!Run
            <4> QED BY <1>2, <2>1, <4>1, <4>2 DEF Fresh!Next, Fresh!Show, CardKey, CardIssue
        <3>4. CASE ~(Card!FetchAnswer(p) /\ p.stage = "live")
            <4>1. ui'.key = ui.key /\ ui'.issue = ui.issue
                BY <3>1, <3>2, <3>4 DEF Card!FetchAnswer, Card!FetchFails, Card!CardState
            <4> QED BY <1>2, <2>1, <4>1 DEF CardKey, CardIssue
        <3> QED BY <3>3, <3>4
    <2> QED BY <2>1, <2>2, <2>3, <2>4 DEF Card!Next
<1> QED BY <1>1, <1>2

(* The issue card implements FreshView: whatever the answers to its         *)
(* requests, their number and their order, it shows nothing or the issue of *)
(* its last key.                                                            *)
THEOREM CardIsFreshCorrect == Spec => CardIsFresh
<1>1. Init => Fresh!Init
    <2> SUFFICES ASSUME Init PROVE Fresh!Init
        OBVIOUS
    <2>1. CASE view = "card"
        <3>1. PICK k \in Run : ui = Card!Blank(k)
            BY <2>1, CardTerms DEF Init, Card!Mount
        <3> QED BY <2>1, <3>1 DEF Card!Blank, Fresh!Init, CardKey, CardIssue
    <2>2. CASE view # "card"
        BY <2>2 DEF Fresh!Init, CardKey, CardIssue
    <2> QED BY <2>1, <2>2
<1>2. CardInv /\ [Next]_consolevars => [Fresh!Next]_<<CardKey, CardIssue>>
    BY CardStep
<1> QED BY <1>1, <1>2, CardMounts, CardInvHolds, PTL DEF Spec, CardIsFresh, Fresh!Spec
-----------------------------------------------------------------------------
(* The shell.  Its state is made of the former one by a few functions; what *)
(* each of them keeps is said of any state u.  The timer is the one of the  *)
(* open page, and none runs in a narrow window.                             *)
TimerIsOfPage(u) == u.timer \in {Nil, u.path} /\ (u.mobile => u.timer = Nil)
StepIsOfTour(u)  == u.tour # Nil => u.step < Shell!TourSteps[u.tour]
TourIsComing(u)  == ~u.mobile /\ u.path \notin u.seen /\ Shell!TourSteps[u.path] > 0
                    => u.path \in {u.timer, u.tour}
SearchIsShown(u) == u.path = "/traces" /\ u.text = Nil => u.query = Nil

ShellOK(u) == /\ u \in Shell!ShellState
              /\ TimerIsOfPage(u)
              /\ StepIsOfTour(u)
              /\ TourIsComing(u)
              /\ SearchIsShown(u)

(* No tour starts from u to v.                                              *)
NoTour(u, v) == v.tour \in {Nil, u.tour}

LEMMA StepsAreCounted == \A p \in Page : Shell!TourSteps[p] \in Nat
BY ConsoleAssumption DEF Shell!TourSteps

LEMMA GoToIs ==
    ASSUME NEW u, ShellOK(u), NEW p \in Page, NEW q \in Shell!Text
    PROVE  /\ ShellOK(Shell!GoTo(u, p, q)) /\ NoTour(u, Shell!GoTo(u, p, q))
           /\ Shell!GoTo(u, p, q).path = p
<1> DEFINE v == Shell!GoTo(u, p, q)
<1>1. u \in Shell!ShellState
    BY DEF ShellOK
<1>2. CASE p = u.path /\ q = u.query
    BY <1>1, <1>2 DEF Shell!GoTo, NoTour
<1>3. CASE ~(p = u.path /\ q = u.query)
    <2>1. /\ v \in Shell!ShellState
          /\ v.path = p /\ v.query = q /\ v.mobile = u.mobile
          /\ v.tour = u.tour /\ v.step = u.step /\ v.seen = u.seen
          /\ v.text = IF p = "/traces" THEN q ELSE u.text
          /\ v.timer = IF p = u.path \/ u.mobile THEN u.timer ELSE p
        BY <1>1, <1>3 DEF Shell!GoTo, Shell!ShellState, Shell!Text
    <2> HIDE DEF v
    <2>2. TimerIsOfPage(v) /\ StepIsOfTour(v) /\ TourIsComing(v) /\ SearchIsShown(v)
        BY <2>1 DEF ShellOK, TimerIsOfPage, StepIsOfTour, TourIsComing, SearchIsShown
    <2>3. ShellOK(v) /\ NoTour(u, v) /\ v.path = p
        BY <2>1, <2>2 DEF ShellOK, NoTour
    <2> QED BY <2>3 DEF v
<1> QED BY <1>2, <1>3

LEMMA EndTourIs ==
    ASSUME NEW u, ShellOK(u)
    PROVE  ShellOK(Shell!endTour(u)) /\ NoTour(u, Shell!endTour(u))
<1> DEFINE v == Shell!endTour(u)
<1>1. u \in Shell!ShellState
    BY DEF ShellOK
<1>2. CASE u.tour = Nil
    BY <1>2 DEF Shell!endTour, NoTour
<1>3. CASE u.tour # Nil
    <2>1. u.tour \in Page
        BY <1>1, <1>3 DEF Shell!ShellState
    <2>2. /\ v \in Shell!ShellState
          /\ v.path = u.path /\ v.query = u.query /\ v.mobile = u.mobile /\ v.text = u.text
          /\ v.timer = u.timer /\ v.tour = Nil /\ v.seen = u.seen \cup {u.tour}
        BY <1>1, <1>3, <2>1 DEF Shell!endTour, Shell!ShellState
    <2> HIDE DEF v
    <2>3. TimerIsOfPage(v) /\ StepIsOfTour(v) /\ TourIsComing(v) /\ SearchIsShown(v)
        BY <2>2 DEF ShellOK, TimerIsOfPage, StepIsOfTour, TourIsComing, SearchIsShown
    <2>4. ShellOK(v) /\ NoTour(u, v)
        BY <2>2, <2>3 DEF ShellOK, NoTour
    <2> QED BY <2>4 DEF v
<1> QED BY <1>2, <1>3

LEMMA OnNextIs ==
    ASSUME NEW u, ShellOK(u)
    PROVE  ShellOK(Shell!onNext(u)) /\ NoTour(u, Shell!onNext(u))
<1> DEFINE v == [u EXCEPT !.step = @ + 1]
<1>1. u \in Shell!ShellState
    BY DEF ShellOK
<1>2. CASE u.tour = Nil
    BY <1>2 DEF Shell!onNext, NoTour
<1>3. CASE u.tour # Nil /\ ~(u.step < Shell!TourSteps[u.tour] - 1)
    BY <1>3, EndTourIs DEF Shell!onNext
<1>4. CASE u.tour # Nil /\ u.step < Shell!TourSteps[u.tour] - 1
    <2>1. Shell!onNext(u) = v
        BY <1>4 DEF Shell!onNext
    <2>2. /\ v \in Shell!ShellState
          /\ v.path = u.path /\ v.query = u.query /\ v.mobile = u.mobile /\ v.text = u.text
          /\ v.timer = u.timer /\ v.tour = u.tour /\ v.seen = u.seen /\ v.step = u.step + 1
        BY <1>1 DEF Shell!ShellState
    <2> HIDE DEF v
    <2>3. u.tour \in Page /\ u.step \in Nat
        BY <1>1, <1>4 DEF Shell!ShellState
    <2>4. StepIsOfTour(v)
        BY <1>4, <2>2, <2>3, StepsAreCounted DEF StepIsOfTour
    <2>5. TimerIsOfPage(v) /\ TourIsComing(v) /\ SearchIsShown(v)
        BY <2>2 DEF ShellOK, TimerIsOfPage, TourIsComing, SearchIsShown
    <2> QED BY <2>1, <2>2, <2>4, <2>5 DEF ShellOK, NoTour
<1> QED BY <1>2, <1>3, <1>4

(* Neither the drawer nor the palette is told by any of these.              *)
LEMMA DrawersAreFree ==
    ASSUME NEW u, ShellOK(u), NEW v \in Shell!ShellState,
           v.path = u.path, v.query = u.query, v.mobile = u.mobile, v.text = u.text,
           v.timer = u.timer, v.tour = u.tour, v.seen = u.seen, v.step = u.step
    PROVE  ShellOK(v) /\ NoTour(u, v)
BY DEF ShellOK, NoTour, TimerIsOfPage, StepIsOfTour, TourIsComing, SearchIsShown

LEMMA NavigateToIs ==
    ASSUME NEW u, ShellOK(u), NEW p \in Page
    PROVE  ShellOK(Shell!navigateTo(u, p)) /\ NoTour(u, Shell!navigateTo(u, p))
<1>1. PICK w : w = Shell!GoTo(u, p, Nil)
    OBVIOUS
<1>2. ShellOK(w) /\ NoTour(u, w)
    BY <1>1, GoToIs DEF Shell!Text
<1>3. PICK v : v = [w EXCEPT !.palette = FALSE]
    OBVIOUS
<1>4. w \in Shell!ShellState
    BY <1>2 DEF ShellOK
<1>5. /\ v \in Shell!ShellState
      /\ v.path = w.path /\ v.query = w.query /\ v.mobile = w.mobile /\ v.text = w.text
      /\ v.timer = w.timer /\ v.tour = w.tour /\ v.seen = w.seen /\ v.step = w.step
    BY <1>3, <1>4 DEF Shell!ShellState
<1>6. ShellOK(v) /\ NoTour(w, v)
    BY <1>2, <1>5, DrawersAreFree
<1> QED BY <1>1, <1>2, <1>3, <1>6 DEF NoTour, Shell!navigateTo

LEMMA SubmitSearchIs ==
    ASSUME NEW u, ShellOK(u)
    PROVE  ShellOK(Shell!submitSearch(u)) /\ NoTour(u, Shell!submitSearch(u))
<1>1. "/traces" \in Page /\ u.text \in Shell!Text
    BY ConsoleAssumption DEF ShellOK, Shell!ShellState
<1> QED BY <1>1, GoToIs DEF Shell!submitSearch, NoTour

(* The tour of the open page, which was never ended, starts when its timer  *)
(* runs out, and no other.                                                  *)
Due(u, v) == v.tour \notin {Nil, u.tour} => v.tour = v.path /\ v.tour \notin u.seen

LEMMA TimeoutIs ==
    ASSUME ShellOK(ui), Shell!Timeout
    PROVE  ShellOK(ui') /\ Due(ui, ui')
<1> DEFINE u == [ui EXCEPT !.timer = Nil]
           v == [u EXCEPT !.tour = ui.timer, !.step = 0]
<1>1. ui \in Shell!ShellState /\ ui.timer # Nil /\ ui.timer = ui.path
    BY DEF ShellOK, TimerIsOfPage, Shell!Timeout
<1>2. /\ u \in Shell!ShellState
      /\ u.path = ui.path /\ u.query = ui.query /\ u.mobile = ui.mobile /\ u.text = ui.text
      /\ u.timer = Nil /\ u.tour = ui.tour /\ u.seen = ui.seen /\ u.step = ui.step
    BY <1>1 DEF Shell!ShellState
<1>3. CASE Shell!TourSteps[ui.timer] = 0 \/ ui.timer \in ui.seen
    <2>1. ui' = u
        BY <1>2, <1>3 DEF Shell!Timeout, Shell!Becomes
    <2> HIDE DEF u
    <2>2. ShellOK(u) /\ Due(ui, u)
        BY <1>1, <1>2, <1>3 DEF ShellOK, TimerIsOfPage, StepIsOfTour, TourIsComing, SearchIsShown, Due
    <2> QED BY <2>1, <2>2
<1>4. CASE Shell!TourSteps[ui.timer] # 0 /\ ui.timer \notin ui.seen
    <2>1. ui' = v
        BY <1>2, <1>4 DEF Shell!Timeout, Shell!Becomes, Shell!startTour
    <2>2. ui.timer \in Page
        BY <1>1 DEF Shell!ShellState
    <2> HIDE DEF u
    <2>3. /\ v \in Shell!ShellState
          /\ v.path = u.path /\ v.query = u.query /\ v.mobile = u.mobile /\ v.text = u.text
          /\ v.timer = Nil /\ v.tour = ui.timer /\ v.seen = u.seen /\ v.step = 0
        BY <1>2, <2>2 DEF Shell!ShellState
    <2> HIDE DEF v
    <2>4. Shell!TourSteps[ui.timer] \in Nat
        BY <2>2, StepsAreCounted
    <2>5. 0 < Shell!TourSteps[ui.timer]
        BY <1>4, <2>4
    <2>6. ShellOK(v) /\ Due(ui, v)
        BY <1>1, <1>2, <1>4, <2>3, <2>5 DEF ShellOK, TimerIsOfPage, StepIsOfTour, TourIsComing, SearchIsShown, Due
    <2> QED BY <2>1, <2>6
<1> QED BY <1>3, <1>4

(* A search that is typed; the emptied one of the list leaves its address.  *)
LEMMA HandleSearchIs ==
    ASSUME ShellOK(ui), Shell!handleSearch
    PROVE  ShellOK(ui') /\ NoTour(ui, ui')
<1>1. PICK t \in Shell!Text :
          LET u == [ui EXCEPT !.text = t]
          IN  ui' = IF t = Nil /\ u.path = "/traces" THEN Shell!GoTo(u, "/traces", Nil) ELSE u
    BY DEF Shell!handleSearch, Shell!Becomes
<1>2. PICK u : u = [ui EXCEPT !.text = t]
    OBVIOUS
<1>3. ui \in Shell!ShellState
    BY DEF ShellOK
<1>4. /\ u \in Shell!ShellState
      /\ u.path = ui.path /\ u.query = ui.query /\ u.mobile = ui.mobile /\ u.text = t
      /\ u.timer = ui.timer /\ u.tour = ui.tour /\ u.seen = ui.seen /\ u.step = ui.step
    BY <1>2, <1>3 DEF Shell!ShellState
<1>5. ui' = IF t = Nil /\ u.path = "/traces" THEN Shell!GoTo(u, "/traces", Nil) ELSE u
    BY <1>1, <1>2
<1>6. CASE ~(t = Nil /\ u.path = "/traces" /\ u.query # Nil)
    <2>1. ui' = u
        BY <1>5, <1>6 DEF Shell!GoTo
    <2> QED BY <1>4, <1>6, <2>1 DEF ShellOK, NoTour, TimerIsOfPage, StepIsOfTour, TourIsComing, SearchIsShown
<1>7. CASE t = Nil /\ u.path = "/traces" /\ u.query # Nil
    <2>1. PICK v : v = Shell!GoTo(u, "/traces", Nil)
        OBVIOUS
    <2>2. /\ v \in Shell!ShellState
          /\ v.path = u.path /\ v.query = Nil /\ v.mobile = u.mobile
          /\ v.timer = u.timer /\ v.tour = u.tour /\ v.seen = u.seen /\ v.step = u.step
        BY <1>4, <1>7, <2>1 DEF Shell!GoTo, Shell!ShellState, Shell!Text
    <2>3. ui' = v
        BY <1>5, <1>7, <2>1
    <2> QED BY <1>4, <2>2, <2>3 DEF ShellOK, NoTour, TimerIsOfPage, StepIsOfTour, TourIsComing, SearchIsShown
<1> QED BY <1>6, <1>7

LEMMA ResizeIs ==
    ASSUME ShellOK(ui), Shell!Resize
    PROVE  ShellOK(ui') /\ NoTour(ui, ui')
<1>1. ui \in Shell!ShellState
    BY DEF ShellOK
<1>2. PICK u : u = [ui EXCEPT !.mobile = ~@]
    OBVIOUS
<1>3. /\ u \in Shell!ShellState
      /\ u.path = ui.path /\ u.query = ui.query /\ u.text = ui.text /\ u.mobile = ~ui.mobile
      /\ u.tour = ui.tour /\ u.seen = ui.seen /\ u.step = ui.step
    BY <1>1, <1>2 DEF Shell!ShellState
<1>4. ui' = [u EXCEPT !.timer = IF u.mobile THEN Nil ELSE u.path]
    BY <1>2 DEF Shell!Resize, Shell!Becomes, Shell!TimerFor
<1>5. /\ ui' \in Shell!ShellState
      /\ ui'.path = u.path /\ ui'.query = u.query /\ ui'.text = u.text /\ ui'.mobile = u.mobile
      /\ ui'.tour = u.tour /\ ui'.seen = u.seen /\ ui'.step = u.step
      /\ ui'.timer = IF u.mobile THEN Nil ELSE u.path
    BY <1>3, <1>4 DEF Shell!ShellState
<1> QED BY <1>3, <1>5 DEF ShellOK, NoTour, TimerIsOfPage, StepIsOfTour, TourIsComing, SearchIsShown

LEMMA EnterIs ==
    ASSUME ShellOK(ui), Shell!Enter
    PROVE  ShellOK(ui') /\ NoTour(ui, ui')
<1>1. PICK u : u = Shell!onNext(ui)
    OBVIOUS
<1>2. ShellOK(u) /\ NoTour(ui, u)
    BY <1>1, OnNextIs
<1>3. \/ ui' = Shell!submitSearch(u)
      \/ ui' = Shell!onNext(u)
      \/ \E p \in Page : ui' = Shell!navigateTo(u, p)
    BY <1>1 DEF Shell!Enter, Shell!Becomes
<1>4. ShellOK(ui') /\ NoTour(u, ui')
    BY <1>2, <1>3, SubmitSearchIs, OnNextIs, NavigateToIs
<1> QED BY <1>2, <1>4 DEF NoTour

LEMMA DrawerIs ==
    ASSUME ShellOK(ui), Shell!ToggleNav \/ Shell!TogglePalette \/ Shell!Escape \/ Shell!Navigate
    PROVE  ShellOK(ui') /\ NoTour(ui, ui')
<1>1. ASSUME NEW w, ShellOK(w), NoTour(ui, w), NEW n \in BOOLEAN, NEW b \in BOOLEAN,
             \/ ui' = [w EXCEPT !.nav = n]
             \/ ui' = [w EXCEPT !.palette = b]
             \/ ui' = [w EXCEPT !.palette = b, !.nav = n]
      PROVE  ShellOK(ui') /\ NoTour(ui, ui')
    <2>1. w \in Shell!ShellState
        BY <1>1 DEF ShellOK
    <2>2. /\ ui' \in Shell!ShellState
          /\ ui'.path = w.path /\ ui'.query = w.query /\ ui'.mobile = w.mobile /\ ui'.text = w.text
          /\ ui'.timer = w.timer /\ ui'.tour = w.tour /\ ui'.seen = w.seen /\ ui'.step = w.step
        BY <1>1, <2>1 DEF Shell!ShellState
    <2>3. ShellOK(ui') /\ NoTour(w, ui')
        BY <1>1, <2>2, DrawersAreFree
    <2> QED BY <1>1, <2>3 DEF NoTour
<1>2. ui.nav \in BOOLEAN /\ ui.palette \in BOOLEAN /\ NoTour(ui, ui)
    BY DEF ShellOK, Shell!ShellState, NoTour
<1>3. CASE Shell!ToggleNav
    <2>1. PICK n \in BOOLEAN : ui' = [ui EXCEPT !.nav = n]
        BY <1>2, <1>3 DEF Shell!ToggleNav, Shell!Becomes
    <2> QED BY <1>1, <1>2, <2>1
<1>4. CASE Shell!TogglePalette
    <2>1. PICK b \in BOOLEAN : ui' = [ui EXCEPT !.palette = b]
        BY <1>2, <1>4 DEF Shell!TogglePalette, Shell!Becomes
    <2> QED BY <1>1, <1>2, <2>1
<1>5. CASE Shell!Escape
    <2>1. PICK w : w = Shell!endTour(ui)
        OBVIOUS
    <2>2. ShellOK(w) /\ NoTour(ui, w)
        BY <2>1, EndTourIs
    <2>3. ui' = [w EXCEPT !.palette = FALSE, !.nav = FALSE]
        BY <1>5, <2>1 DEF Shell!Escape, Shell!Becomes
    <2> QED BY <1>1, <2>2, <2>3
<1>6. CASE Shell!Navigate
    <2>1. PICK p \in Page, q \in Shell!Text : ui' = [Shell!GoTo(ui, p, q) EXCEPT !.nav = FALSE]
        BY <1>6 DEF Shell!Navigate, Shell!Becomes
    <2>2. PICK w : w = Shell!GoTo(ui, p, q)
        OBVIOUS
    <2>3. ShellOK(w) /\ NoTour(ui, w)
        BY <2>2, GoToIs
    <2>4. ui' = [w EXCEPT !.nav = FALSE]
        BY <2>1, <2>2
    <2> QED BY <1>1, <2>3, <2>4
<1> QED BY <1>3, <1>4, <1>5, <1>6

LEMMA ShellNext ==
    ASSUME ShellOK(ui), Shell!Next
    PROVE  ShellOK(ui') /\ Due(ui, ui')
<1>1. CASE Shell!Timeout
    BY <1>1, TimeoutIs
<1>2. CASE Shell!ToggleNav \/ Shell!TogglePalette \/ Shell!Escape \/ Shell!Navigate
    BY <1>2, DrawerIs DEF NoTour, Due
<1>3. CASE Shell!handleSearch
    BY <1>3, HandleSearchIs DEF NoTour, Due
<1>4. CASE Shell!Resize
    BY <1>4, ResizeIs DEF NoTour, Due
<1>5. CASE Shell!Enter
    BY <1>5, EnterIs DEF NoTour, Due
<1>6. CASE Shell!Advance \/ Shell!Skip
    BY <1>6, OnNextIs, EndTourIs DEF Shell!Advance, Shell!Skip, Shell!Becomes, NoTour, Due
<1>7. CASE Shell!PickPage
    BY <1>7, NavigateToIs DEF Shell!PickPage, Shell!Becomes, NoTour, Due
<1> QED BY <1>1, <1>2, <1>3, <1>4, <1>5, <1>6, <1>7 DEF Shell!Next

ShellInv == view = "shell" => ShellOK(ui)

LEMMA ShellMounts == Init => ShellInv
<1> SUFFICES ASSUME Init, view = "shell" PROVE ShellOK(ui)
    BY DEF ShellInv
<1>1. Shell!Mount
    BY DEF Init
<1>2. PICK p \in Page, narrow \in BOOLEAN, old \in SUBSET Page :
          LET u == [path |-> p, query |-> Nil, text |-> Nil, mobile |-> narrow, nav |-> FALSE,
                    palette |-> FALSE, timer |-> Nil, tour |-> Nil, step |-> 0, seen |-> old]
          IN  ui = [u EXCEPT !.timer = Shell!TimerFor(u)]
    BY <1>1 DEF Shell!Mount
<1>3. ui = [path |-> p, query |-> Nil, text |-> Nil, mobile |-> narrow, nav |-> FALSE,
            palette |-> FALSE, timer |-> IF narrow THEN Nil ELSE p, tour |-> Nil, step |-> 0, seen |-> old]
    BY <1>2 DEF Shell!TimerFor
<1>4. ui \in Shell!ShellState
    BY <1>3 DEF Shell!ShellState, Shell!Text
<1> QED BY <1>3, <1>4 DEF ShellOK, TimerIsOfPage, StepIsOfTour, TourIsComing, SearchIsShown

LEMMA ShellStep ==
    ASSUME ShellInv, [Next]_consolevars
    PROVE  ShellInv' /\ (view = "shell" => Due(ui, ui'))
<1>1. view' = view
    BY DEF Next, consolevars
<1>2. CASE view = "shell"
    <2>1. Shell!Next \/ UNCHANGED ui
        BY <1>2 DEF Next, consolevars, clientvars
    <2>2. ShellOK(ui)
        BY <1>2 DEF ShellInv
    <2>3. CASE Shell!Next
        BY <1>1, <2>2, <2>3, ShellNext DEF ShellInv
    <2>4. CASE UNCHANGED ui
        BY <1>1, <2>2, <2>4 DEF ShellInv, Due
    <2> QED BY <2>1, <2>3, <2>4
<1>3. CASE view # "shell"
    BY <1>1, <1>3 DEF ShellInv
<1> QED BY <1>2, <1>3

(* A tour that starts is that of the page that is open, and was never       *)
(* ended on this browser before: the timer of a page that was left is       *)
(* never the one that runs out, whatever keys, clicks, navigations and      *)
(* resizings came between.                                                  *)
THEOREM TourIsDueCorrect == Spec => TourIsDue
<1>1. ShellInv /\ [Next]_consolevars => [view = "shell" => Shell!TourIsDue]_consolevars
    BY ShellStep DEF Due, Shell!TourIsDue
<1>2. ShellInv /\ [Next]_consolevars => ShellInv'
    BY ShellStep
<1> QED BY <1>1, <1>2, ShellMounts, PTL DEF Spec, TourIsDue
-----------------------------------------------------------------------------
(* The card of a tour.  Every look for an element that is still to come is  *)
(* for the element of the present step.                                     *)
TipInv ==
    view = "tip" =>
        /\ ui \in Tip!TipState
        /\ Tip!SpotlightIsOfStep
        /\ \A t \in ui.looks : t.of = ui.step

LEMMA TipMounts == Init => TipInv
<1> SUFFICES ASSUME Init, view = "tip" PROVE TipInv
    BY DEF TipInv
<1>1. PICK i \in DOMAIN Tip!Placement, h \in CardHeight : \E r \in Tip!findRect(i) :
          ui = [step |-> i, rect |-> r, looks |-> Tip!Looks(i), h |-> h]
    BY DEF Init, Tip!Mount
<1>2. PICK r \in Tip!findRect(i) : ui = [step |-> i, rect |-> r, looks |-> Tip!Looks(i), h |-> h]
    BY <1>1
<1>3. ui.step = i /\ ui.rect = r /\ ui.looks = Tip!Looks(i)
    BY <1>2
<1>4. \A t \in Tip!Looks(i) : t.of = i
    BY DEF Tip!Looks
<1>5. r # Nil => r.of = i
    BY DEF Tip!findRect
<1>6. ui \in Tip!TipState
    BY <1>2 DEF Tip!TipState, Tip!findRect, Tip!Looks
<1> QED BY <1>3, <1>4, <1>5, <1>6 DEF TipInv, Tip!SpotlightIsOfStep

LEMMA TipStep == TipInv /\ [Next]_consolevars => TipInv'
<1> SUFFICES ASSUME TipInv, [Next]_consolevars, view = "tip" PROVE TipInv'
    BY DEF TipInv, Next, consolevars
<1>1. Tip!Next \/ UNCHANGED ui
    BY DEF Next, consolevars, clientvars
<1>2. /\ ui \in Tip!TipState /\ (ui.rect # Nil => ui.rect.of = ui.step)
      /\ \A t \in ui.looks : t.of = ui.step
    BY DEF TipInv, Tip!SpotlightIsOfStep
<1>3. CASE UNCHANGED ui
    BY <1>2, <1>3 DEF TipInv, Tip!SpotlightIsOfStep
<1>4. ASSUME NEW i \in DOMAIN Tip!Placement, Tip!Turn(i) PROVE TipInv'
    <2>1. PICK r \in Tip!findRect(i), h \in CardHeight :
              ui' = [[ui EXCEPT !.step = i, !.rect = r, !.looks = Tip!Looks(i)] EXCEPT !.h = h]
        BY <1>4 DEF Tip!Turn, Tip!Renders
    <2>2. \A t \in Tip!Looks(i) : t.of = i
        BY DEF Tip!Looks
    <2>3. r # Nil => r.of = i
        BY DEF Tip!findRect
    <2>4. Tip!Looks(i) \subseteq [of : DOMAIN Tip!Placement, after : {100, 400}]
        BY DEF Tip!Looks
    <2>5. r \in {Nil} \cup [of : DOMAIN Tip!Placement, box : Box]
        BY DEF Tip!findRect
    <2>6. PICK steps, rects, looks : /\ steps = DOMAIN Tip!Placement
                                     /\ rects = {Nil} \cup [of : DOMAIN Tip!Placement, box : Box]
                                     /\ looks = SUBSET [of : DOMAIN Tip!Placement, after : {100, 400}]
        OBVIOUS
    <2>7. Tip!TipState = [step : steps, rect : rects, looks : looks, h : CardHeight]
        BY <2>6 DEF Tip!TipState
    <2>8. PICK new : new = Tip!Looks(i)
        OBVIOUS
    <2>9. i \in steps /\ r \in rects /\ new \in looks
        BY <2>4, <2>5, <2>6, <2>8
    <2>10. ui \in [step : steps, rect : rects, looks : looks, h : CardHeight]
        BY <1>2, <2>7
    <2>11. ui' = [[ui EXCEPT !.step = i, !.rect = r, !.looks = new] EXCEPT !.h = h]
        BY <2>1, <2>8
    <2>12. /\ ui' \in [step : steps, rect : rects, looks : looks, h : CardHeight]
           /\ ui'.step = i /\ ui'.rect = r /\ ui'.looks = new
        BY <2>9, <2>10, <2>11
    <2>13. ui' \in Tip!TipState
        BY <2>7, <2>12
    <2> QED BY <2>2, <2>3, <2>8, <2>12, <2>13 DEF TipInv, Tip!SpotlightIsOfStep
<1>5. ASSUME NEW t \in ui.looks, Tip!Look(t) PROVE TipInv'
    <2>1. PICK r \in Tip!findRect(t.of), h \in CardHeight :
              ui' = [[ui EXCEPT !.rect = r, !.looks = @ \ {t}] EXCEPT !.h = h]
        BY <1>5 DEF Tip!Look, Tip!Renders
    <2>2. t.of = ui.step /\ t.of \in DOMAIN Tip!Placement
        BY <1>2 DEF Tip!TipState
    <2>3. r # Nil => r.of = ui.step
        BY <2>2 DEF Tip!findRect
    <2>4. r \in {Nil} \cup [of : DOMAIN Tip!Placement, box : Box]
        BY <2>2 DEF Tip!findRect
    <2>5. PICK rects, look : /\ rects = {Nil} \cup [of : DOMAIN Tip!Placement, box : Box]
                             /\ look = [of : DOMAIN Tip!Placement, after : {100, 400}]
        OBVIOUS
    <2>6. Tip!TipState = [step : DOMAIN Tip!Placement, rect : rects, looks : SUBSET look, h : CardHeight]
        BY <2>5 DEF Tip!TipState
    <2>7. ui \in [step : DOMAIN Tip!Placement, rect : rects, looks : SUBSET look, h : CardHeight]
        BY <1>2, <2>6
    <2>8. r \in rects
        BY <2>4, <2>5
    <2>9. /\ ui' \in [step : DOMAIN Tip!Placement, rect : rects, looks : SUBSET look, h : CardHeight]
          /\ ui'.step = ui.step /\ ui'.rect = r /\ ui'.looks = ui.looks \ {t}
        BY <2>1, <2>7, <2>8
    <2>10. ui' \in Tip!TipState
        BY <2>6, <2>9
    <2> QED BY <1>2, <2>3, <2>9, <2>10 DEF TipInv, Tip!SpotlightIsOfStep
<1> QED BY <1>1, <1>3, <1>4, <1>5 DEF Tip!Next

(* What is kept off the edges of a window that is large enough lies in it;  *)
(* in any other it does not pass the near edge.                             *)
LEMMA WithinLies ==
    ASSUME NEW x \in Int, NEW card \in Int, NEW size \in Int
    PROVE  LET at == Tip!Within(x, card, size)
           IN  /\ card + 24 <= size => 12 <= at /\ at + card <= size - 12
               /\ at >= 12
BY DEF Tip!Within, Tip!Greatest, Tip!Least, Tip!Margin

LEMMA MiddleLies ==
    ASSUME NEW card \in Int, NEW size \in Int, card + 24 <= size
    PROVE  LET at == Tip!Middle(0, size, card)
           IN  12 <= at /\ at + card <= size - 12
BY DEF Tip!Middle

LEMMA TipIsInWindow ==
    ASSUME TipInv, view = "tip"
    PROVE  Tip!TipFits
<1> SUFFICES ASSUME NEW s \in WindowSize
             PROVE  LET tip == Tip!calcTooltipPosition(ui, s)
                        Lies(x, card, size) ==
                            /\ card + 24 <= size => 12 <= x /\ x + card <= size - 12
                            /\ ui.rect # Nil => x >= 12
                    IN  Lies(tip.top, ui.h, s.height) /\ Lies(tip.left, 330, s.width)
    BY DEF Tip!TipFits, Tip!Margin, Tip!CardWidth
<1>1. /\ ui.step \in 1..4 /\ ui.h \in Int
      /\ ui.rect # Nil => ui.rect.box \in [top : Int, left : Int, width : Int, height : Int]
    <2>1. /\ ui.step \in DOMAIN Tip!Placement /\ ui.h \in CardHeight
          /\ ui.rect # Nil => ui.rect.box \in Box
        BY DEF TipInv, Tip!TipState
    <2>2. DOMAIN Tip!Placement = 1..4
        BY DEF Tip!Placement
    <2> QED BY <2>1, <2>2, PixelAssumption
<1>2. s.width \in Int /\ s.height \in Int
    BY PixelAssumption
<1>3. PICK tip : tip = Tip!calcTooltipPosition(ui, s)
    OBVIOUS
<1>4. CASE ui.rect = Nil
    <2>1. tip.top = Tip!Middle(0, s.height, ui.h) /\ tip.left = Tip!Middle(0, s.width, 330)
        BY <1>3, <1>4 DEF Tip!calcTooltipPosition, Tip!CardWidth
    <2> QED BY <1>1, <1>2, <1>3, <1>4, <2>1, MiddleLies
<1>5. CASE ui.rect # Nil
    <2>1. PICK place : place = Tip!Beside(ui.rect.box, Tip!Placement[ui.step], ui.h)
        OBVIOUS
    <2>2. place.top \in Int /\ place.left \in Int
        BY <1>1, <1>5, <2>1 DEF Tip!Beside, Tip!Placement, Tip!Middle, Tip!CardWidth, Tip!GapWidth
    <2>3. tip.top = Tip!Within(place.top, ui.h, s.height) /\ tip.left = Tip!Within(place.left, 330, s.width)
        BY <1>3, <1>5, <2>1 DEF Tip!calcTooltipPosition, Tip!CardWidth
    <2> QED BY <1>1, <1>2, <1>3, <2>2, <2>3, WithinLies
<1> QED BY <1>4, <1>5

(* The tour of the open page comes unless it is not due, the step that is   *)
(* drawn is one of it, the spotlight is on the element of that step, and    *)
(* the card lies in the window with its buttons, whatever the sizes and     *)
(* places: in a window too small for it, its upper left corner does.        *)
THEOREM TourGuidesCorrect == Spec => []TourGuides
<1>1. ShellInv /\ TipInv => TourGuides
    <2> SUFFICES ASSUME ShellInv, TipInv PROVE TourGuides
        OBVIOUS
    <2>1. view = "shell" => Shell!TourIsAwaited /\ Shell!StepInTour
        BY DEF ShellInv, ShellOK, StepIsOfTour, TourIsComing, Shell!TourIsAwaited, Shell!StepInTour
    <2>2. view = "tip" => Tip!SpotlightIsOfStep
        BY DEF TipInv
    <2>3. view = "tip" => Tip!TipFits
        BY TipIsInWindow
    <2> QED BY <2>1, <2>2, <2>3 DEF TourGuides
<1>2. ShellInv /\ [Next]_consolevars => ShellInv'
    BY ShellStep
<1> QED BY <1>1, <1>2, ShellMounts, TipMounts, TipStep, PTL DEF Spec
-----------------------------------------------------------------------------
(* The server, as any view sees it: what a view has it do, and that a test  *)
(* that was saved stays.                                                    *)
ServerState == [runs : 0..MaxRuns, replays : Nat, tests : {t \in Seq(Nat) : Len(t) <= MaxTests}, ran : 0..MaxRuns]

ServerOK == server \in ServerState

TestsStay == \A replay : Saved(replay) => Saved(replay)'

LEMMA ServerIs ==
    ASSUME NEW s \in ServerState
    PROVE  s.runs \in 0..MaxRuns /\ s.replays \in Nat /\ s.tests \in Seq(Nat) /\ Len(s.tests) \in 0..MaxTests
           /\ s.ran \in 0..MaxRuns
<1> SUFFICES Len(s.tests) \in Nat /\ MaxTests \in Nat
    BY DEF ServerState
<1>1. s.tests \in Seq(Nat)
    BY DEF ServerState
<1> QED BY <1>1, BoundsAssumption

LEMMA TestAdded ==
    ASSUME ServerOK, NEW n \in Nat, Len(server.tests) < MaxTests, server' = [server EXCEPT !.tests = Append(@, n)]
    PROVE  /\ ServerOK' /\ TestsStay /\ server'.runs = server.runs
           /\ \A replay : replay.no = n => Saved(replay)'
<1>1. PICK tests : tests = server.tests
    OBVIOUS
<1>2. tests \in Seq(Nat) /\ Len(tests) < MaxTests
    BY <1>1, ServerIs DEF ServerOK
<1>3. PICK now : now = Append(tests, n)
    OBVIOUS
<1>4. /\ now \in Seq(Nat) /\ Len(now) = Len(tests) + 1 /\ now[Len(now)] = n
      /\ \A i \in 1..Len(tests) : now[i] = tests[i]
    BY <1>2, <1>3
<1>5. server' = [server EXCEPT !.tests = now]
    BY <1>1, <1>3
<1>6. Len(tests) \in Nat /\ Len(now) \in 1..Len(now) /\ MaxTests \in Nat
    BY <1>2, <1>4, BoundsAssumption
<1>7. now \in {t \in Seq(Nat) : Len(t) <= MaxTests}
    BY <1>2, <1>4, <1>6
<1>8. ServerOK' /\ server'.tests = now /\ server'.runs = server.runs
    BY <1>5, <1>7 DEF ServerOK, ServerState
<1>9. ASSUME NEW replay, replay.no = n PROVE Saved(replay)'
    BY <1>4, <1>6, <1>8, <1>9 DEF Saved
<1>10. ASSUME NEW other, Saved(other) PROVE Saved(other)'
    <2>1. PICK i \in 1..Len(tests) : tests[i] = other.no
        BY <1>1, <1>10 DEF Saved
    <2>2. i \in 1..Len(now) /\ now[i] = other.no
        BY <1>4, <1>6, <2>1
    <2> QED BY <1>8, <2>2 DEF Saved
<1> QED BY <1>8, <1>9, <1>10 DEF TestsStay

LEMMA SaveTestIs ==
    ASSUME ServerOK, NEW replay, replay.no \in Nat, SaveTest(replay)
    PROVE  ServerOK' /\ TestsStay /\ Saved(replay)' /\ replay.done /\ server'.runs = server.runs
BY TestAdded DEF SaveTest

LEMMA StoreReplayIs ==
    ASSUME ServerOK, StoreReplay, NEW run \in Run, NEW done \in BOOLEAN
    PROVE  /\ ServerOK' /\ TestsStay /\ server'.runs = server.runs
           /\ NewReplay(run, done) \in Replay /\ NewReplay(run, done).run = run
<1>1. server.replays \in Nat /\ server.replays < MaxReplays /\ MaxReplays \in Nat
    BY BoundsAssumption, ServerIs DEF ServerOK, StoreReplay
<1>2. server' = [server EXCEPT !.replays = @ + 1] /\ server.replays + 1 \in Nat
    BY <1>1 DEF StoreReplay
<1>3. ServerOK' /\ server'.tests = server.tests /\ server'.runs = server.runs
    BY <1>1, <1>2 DEF ServerOK, ServerState
<1>4. TestsStay
    BY <1>3 DEF TestsStay, Saved
<1>5. server.replays + 1 \in 1..MaxReplays
    BY <1>1
<1> QED BY <1>3, <1>4, <1>5 DEF NewReplay, Replay

LEMMA RecordRunIs ==
    ASSUME ServerOK, RecordRun
    PROVE  ServerOK' /\ TestsStay /\ server'.runs = server.runs + 1 /\ server'.ran = server.ran
<1>1. server.runs \in 0..MaxRuns /\ server.runs < MaxRuns /\ MaxRuns \in Nat
    BY BoundsAssumption, ServerIs DEF ServerOK, RecordRun
<1>2. server' = [server EXCEPT !.runs = @ + 1] /\ server.runs + 1 \in 0..MaxRuns
    BY <1>1 DEF RecordRun
<1>3. ServerOK' /\ server'.tests = server.tests /\ server'.runs = server.runs + 1 /\ server'.ran = server.ran
    BY <1>2 DEF ServerOK, ServerState
<1> QED BY <1>3 DEF TestsStay, Saved

LEMMA RunTestsIs ==
    ASSUME ServerOK, RunTests
    PROVE  ServerOK' /\ server'.runs = server.runs /\ server'.ran = server.ran + 1 /\ server.ran + 1 \in 1..MaxRuns
<1>1. server.ran \in 0..MaxRuns /\ server.ran < MaxRuns /\ MaxRuns \in Nat
    BY BoundsAssumption, ServerIs DEF ServerOK, RunTests
<1>2. server' = [server EXCEPT !.ran = @ + 1] /\ server.ran + 1 \in 0..MaxRuns /\ server.ran + 1 \in 1..MaxRuns
    BY <1>1 DEF RunTests
<1> QED BY <1>2 DEF ServerOK, ServerState

LEMMA SameServer ==
    ASSUME ServerOK, UNCHANGED server
    PROVE  ServerOK' /\ TestsStay
BY DEF ServerOK, TestsStay, Saved

LEMMA HoldingIs ==
    ASSUME NEW n \in 0..MaxRuns, Holding(n)
    PROVE  ServerOK /\ server.runs = n
<1>1. PICK none : none = <<>>
    OBVIOUS
<1>4. none \in {t \in Seq(Nat) : Len(t) <= MaxTests}
    <2>1. none \in Seq(Nat) /\ Len(none) = 0 /\ 0 <= MaxTests
        BY <1>1, BoundsAssumption
    <2> QED BY <2>1
<1>2. 0 \in 0..MaxRuns
    BY BoundsAssumption
<1>3. server = [runs |-> n, replays |-> 0, tests |-> none, ran |-> 0]
    BY <1>1 DEF Holding, EmptyServer
<1> QED BY <1>2, <1>3, <1>4 DEF ServerOK, ServerState

(* What a list held when it was asked for.                                  *)
SeenState == [runs : 0..MaxRuns, tests : 0..MaxTests, ran : 0..MaxRuns]

LEMMA SeenIs ==
    ASSUME NEW s \in ServerState, NEW stage \in {"list", "lists", "runs"}
    PROVE  /\ Seen(stage, s) \in SeenState
           /\ Seen(stage, s).runs = s.runs /\ Seen(stage, s).tests = Len(s.tests) /\ Seen(stage, s).ran = s.ran
BY ServerIs DEF Seen, SeenState

(* What a request is like that was added to those of a view.                *)
IsOf(r, op, stage, run, arg) == r.op = op /\ r.stage = stage /\ r.run = run /\ r.arg = arg

LEMMA SentIs ==
    ASSUME PendingOK, NEW op, NEW stage, NEW run, NEW arg, Send(op, stage, run, arg)
    PROVE  PendingOK' /\ \E r : /\ pending' = pending \cup {r} /\ IsOf(r, op, stage, run, arg)
                                    /\ r.seen = Seen(stage, server)
BY SendIs DEF IsOf

LEMMA WentIs ==
    ASSUME PendingOK, NEW p \in pending, NEW stage, NEW run, Goes(p, stage, run)
    PROVE  PendingOK' /\ \E r : /\ pending' = (pending \ {p}) \cup {r} /\ IsOf(r, p.op, stage, run, p.arg)
                                    /\ r.seen = Seen(stage, server')
BY GoesIs DEF IsOf

LEMMA MountedIs ==
    ASSUME NEW op, NEW stage, NEW run, NEW arg, pending = {NewRequest(op, stage, run, arg)}
    PROVE  PendingOK /\ \A p \in pending : IsOf(p, op, stage, run, arg) /\ p.seen = Seen(stage, server)
<1>1. PICK r : r = NewRequest(op, stage, run, arg)
    OBVIOUS
<1>2. IsOf(r, op, stage, run, arg) /\ r.seen = Seen(stage, server)
    BY <1>1, NewRequestIs DEF IsOf
<1> QED BY <1>1, <1>2, MountIs
=============================================================================
