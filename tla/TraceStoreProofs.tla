-------------------------- MODULE TraceStoreProofs --------------------------
(***************************************************************************)
(* Proofs about TraceStore, for every set of runs, requests, tools and      *)
(* operations.                                                              *)
(***************************************************************************)
EXTENDS TraceStore, TLAPS

(* Which handler a request can be in, given what it asks for.  TypeOK is    *)
(* inductive only together with it: the fields a step reads from op[q]      *)
(* exist because the request is of the kind that handler serves.            *)
PhaseOK ==
    /\ \A q \in Request :
          /\ phase[q] \in {"resolve", "define", "execute"} => op[q].kind = "tool"
          /\ phase[q] \in {"index", "insert", "commit"} => Recording(q)
          /\ phase[q] = "update" => op[q].kind = "complete"
    /\ \A q \in defining : op[q].kind = "tool"

TypeInv == TypeOK /\ PhaseOK

(* Why concurrent recorders leave the trace of a run whole.  A step is the  *)
(* row of its own request; an uncommitted row holds an index nobody has     *)
(* committed; an index that was read is still the successor of a committed  *)
(* one, because steps are never deleted; and on a run left to the store an  *)
(* index that was read is either lost to a committed step or above them all.*)
Chosen(q) == Recording(q) /\ op[q].index = NoIndex /\ phase[q] \in {"insert", "commit"}

StepIsItsRequest == \A s \in steps : /\ s.run = op[s.by].run
                                     /\ Recording(s.by)
                                     /\ phase[s.by] = "ok"
OpenIsFree == \A q \in Request : Open(q) => ~IndexTaken(q)

ChosenFollows == \A q \in Request : Chosen(q) =>
                    \/ idx[q] = 1
                    \/ \E t \in steps : t.run = op[q].run /\ t.index = idx[q] - 1

AutoPositive == \A s \in steps : s.run \in AutoRun => s.index >= 1

ChosenIsLast == \A q \in Request : Chosen(q) /\ op[q].run \in AutoRun =>
                   /\ idx[q] >= 1
                   /\ \/ IndexTaken(q)
                      \/ \A t \in StepsOf(op[q].run) : t.index < idx[q]

IndexInv == /\ StepIsItsRequest
            /\ UniqueIndex
            /\ OpenIsFree
            /\ NoGaps
            /\ ChosenFollows
            /\ AutoPositive
            /\ ChosenIsLast
-----------------------------------------------------------------------------
(* The fields of an operation have the types of its kind.                   *)
LEMMA OperationFields ==
    ASSUME NEW o \in Operation
    PROVE  /\ o.run \in Run
           /\ o.kind \in {"tool", "llm", "complete"}
           /\ o.kind = "tool" => o.tool \in Tool /\ o.index \in Int \cup {NoIndex}
           /\ o.kind = "llm" => o.index \in Int \cup {NoIndex}
           /\ o.kind = "complete" => o.status \in {"completed", "failed"} /\ o.meta \in BOOLEAN
  <1>1. o \in ToolCall \/ o \in LlmCapture \/ o \in Completion
    BY OperationAssumption
  <1>2. CASE o \in ToolCall
    BY <1>2 DEF ToolCall
  <1>3. CASE o \in LlmCapture
    BY <1>3 DEF LlmCapture
  <1>4. CASE o \in Completion
    BY <1>4 DEF Completion
  <1> QED BY <1>1, <1>2, <1>3, <1>4

LEMMA TypeInit == Init => TypeInv
  <1> SUFFICES ASSUME Init PROVE TypeInv
    OBVIOUS
  <1>1. NoRun \in RunRow
    BY DEF NoRun, RunRow, RunStatus
  <1>2. contracts \subseteq Contract
    BY SeededAssumption DEF Init, Contract
  <1>3. TypeOK
    BY <1>1, <1>2 DEF Init, TypeOK, Phase
  <1>4. PhaseOK
    BY DEF Init, PhaseOK
  <1> QED BY <1>3, <1>4 DEF TypeInv

LEMMA TypeStep == TypeInv /\ [Next]_vars => TypeInv'
  <1> SUFFICES ASSUME TypeInv, [Next]_vars PROVE TypeInv'
    OBVIOUS
  <1> USE DEF TypeInv
  <1>0. ASSUME NEW q \in Request
        PROVE  /\ op[q] \in Operation /\ op[q].run \in Run
               /\ op[q].kind \in {"tool", "llm", "complete"}
               /\ op[q].kind = "tool" => op[q].tool \in Tool /\ op[q].index \in Int \cup {NoIndex}
               /\ op[q].kind = "llm" => op[q].index \in Int \cup {NoIndex}
               /\ op[q].kind = "complete" => op[q].status \in {"completed", "failed"} /\ op[q].meta \in BOOLEAN
    <2>1. op[q] \in Operation
      BY DEF TypeOK
    <2> QED BY <2>1, OperationFields
  <1>1. ASSUME NEW r \in Run, StartRun(r) PROVE TypeInv'
    <2>1. TypeOK'
      BY <1>1 DEF StartRun, TypeOK, RunRow, RunStatus, session
    <2>2. PhaseOK'
      BY <1>1 DEF StartRun, PhaseOK, Recording, session
    <2> QED BY <2>1, <2>2
  <1>2. ASSUME NEW q \in Request, ReceiveUnknown(q) PROVE TypeInv'
    <2>1. TypeOK'
      BY <1>2 DEF ReceiveUnknown, TypeOK, Goto, Phase, Answered, tables, session
    <2>2. PhaseOK'
      BY <1>2 DEF ReceiveUnknown, PhaseOK, Recording, Goto, TypeOK, tables, session
    <2> QED BY <2>1, <2>2
  <1>3. ASSUME NEW q \in Request, ReceiveToolCall(q) PROVE TypeInv'
    <2>1. TypeOK'
      BY <1>3 DEF ReceiveToolCall, TypeOK, Goto, Phase, Working, tables, session
    <2>2. PhaseOK'
      BY <1>3 DEF ReceiveToolCall, PhaseOK, Recording, Goto, TypeOK, tables, session
    <2> QED BY <2>1, <2>2
  <1>4. ASSUME NEW q \in Request, ReceiveCapture(q) PROVE TypeInv'
    <2>1. TypeOK'
      BY <1>4, <1>0 DEF ReceiveCapture, ToIndexing, TypeOK, Goto, Phase, Working, tables
    <2>2. PhaseOK'
      BY <1>4 DEF ReceiveCapture, ToIndexing, PhaseOK, Recording, Goto, TypeOK, tables
    <2> QED BY <2>1, <2>2
  <1>5. ASSUME NEW q \in Request, ReceiveCompletion(q) PROVE TypeInv'
    <2>1. TypeOK'
      BY <1>5, <1>0 DEF ReceiveCompletion, TypeOK, Goto, Phase, Working, tables
    <2>2. PhaseOK'
      BY <1>5 DEF ReceiveCompletion, PhaseOK, Recording, Goto, TypeOK, tables
    <2> QED BY <2>1, <2>2
  <1>6. ASSUME NEW q \in Request, ResolveContract(q) PROVE TypeInv'
    <2>1. TypeOK'
      BY <1>6 DEF ResolveContract, TypeOK, Goto, Phase, Working, Contract, tables
    <2>2. PhaseOK'
      BY <1>6 DEF ResolveContract, PhaseOK, Recording, Goto, TypeOK, tables
    <2> QED BY <2>1, <2>2
  <1>7. ASSUME NEW q \in Request, DefineContract(q) PROVE TypeInv'
    <2>1. TypeOK'
      BY <1>7 DEF DefineContract, Abort, TypeOK, Goto, Phase, Working, Answered, tables
    <2>2. PhaseOK'
      BY <1>7 DEF DefineContract, Abort, PhaseOK, Recording, Goto, TypeOK, tables
    <2> QED BY <2>1, <2>2
  <1>8. ASSUME NEW q \in Request, ExecuteTool(q) PROVE TypeInv'
    <2>0. op[q].kind = "tool"
      BY <1>8 DEF ExecuteTool, PhaseOK
    <2>1. TypeOK'
      BY <1>8, <1>0, <2>0 DEF ExecuteTool, ToIndexing, TypeOK, Goto, Phase, Working, tables
    <2>2. PhaseOK'
      BY <1>8, <2>0 DEF ExecuteTool, ToIndexing, PhaseOK, Recording, Goto, TypeOK, tables
    <2> QED BY <2>1, <2>2
  <1>9. ASSUME NEW q \in Request, ReadNextIndex(q) PROVE TypeInv'
    <2>0. NextIndexes(op[q].run) \subseteq Int
      BY DEF NextIndexes, StepsOf, TypeOK, StepRow
    <2>1. TypeOK'
      BY <1>9, <2>0 DEF ReadNextIndex, TypeOK, Goto, Phase, Working, tables
    <2>2. PhaseOK'
      BY <1>9 DEF ReadNextIndex, PhaseOK, Recording, Goto, TypeOK, tables
    <2> QED BY <2>1, <2>2
  <1>10. ASSUME NEW q \in Request, InsertStep(q) PROVE TypeInv'
    <2>1. TypeOK'
      BY <1>10 DEF InsertStep, Abort, TypeOK, Goto, Phase, Working, Answered, tables
    <2>2. PhaseOK'
      BY <1>10 DEF InsertStep, Abort, PhaseOK, Recording, Goto, TypeOK, tables
    <2> QED BY <2>1, <2>2
  <1>11. ASSUME NEW q \in Request, CommitStep(q) PROVE TypeInv'
    <2>0. [run |-> op[q].run, index |-> idx[q], by |-> q, gen |-> gen[q]] \in StepRow
      BY <1>0 DEF TypeOK, StepRow
    <2>1. {[tool |-> op[p].tool, gen |-> gen[p]] : p \in defining \cap {q}} \subseteq Contract
      BY <1>0 DEF TypeOK, PhaseOK, Contract
    <2>2. TypeOK'
      BY <1>11, <2>0, <2>1 DEF CommitStep, TypeOK, Goto, Phase, Answered
    <2>3. PhaseOK'
      BY <1>11 DEF CommitStep, PhaseOK, Recording, Goto, TypeOK
    <2> QED BY <2>2, <2>3
  <1>12. ASSUME NEW q \in Request, CompleteRun(q) PROVE TypeInv'
    <2>0. op[q].kind = "complete"
      BY <1>12 DEF CompleteRun, PhaseOK
    <2>1. Merged(q) \in RunRow
      BY <1>0, <2>0 DEF Merged, RunRow, RunStatus, TypeOK
    <2>2. TypeOK'
      BY <1>12, <1>0, <2>1 DEF CompleteRun, TypeOK, Goto, Phase, Answered, session
    <2>3. PhaseOK'
      BY <1>12 DEF CompleteRun, PhaseOK, Recording, Goto, TypeOK, session
    <2> QED BY <2>2, <2>3
  <1>13. CASE Restart
    <2>1. TypeOK'
      BY <1>13, SeededAssumption, GenerationAssumption
      DEF Restart, TypeOK, Contract, Phase, Working, Answered
    <2>2. PhaseOK'
      BY <1>13 DEF Restart, PhaseOK, Recording, TypeOK, Working
    <2> QED BY <2>1, <2>2
  <1>14. CASE UNCHANGED vars
    <2>1. TypeOK'
      BY <1>14 DEF vars, tables, session, TypeOK
    <2>2. PhaseOK'
      BY <1>14 DEF vars, tables, session, PhaseOK, Recording
    <2> QED BY <2>1, <2>2
  <1> QED
    BY <1>1, <1>2, <1>3, <1>4, <1>5, <1>6, <1>7, <1>8, <1>9, <1>10, <1>11,
       <1>12, <1>13, <1>14 DEF Next, Receive, Serve

LEMMA TypeInvariant == Spec => []TypeInv
  BY TypeInit, TypeStep, PTL DEF Spec

(* Every reachable state of the trace store is of its type.                 *)
THEOREM TypeCorrect == Spec => []TypeOK
  BY TypeInvariant, PTL DEF TypeInv
-----------------------------------------------------------------------------
LEMMA IndexInit == Init => IndexInv
  BY DEF Init, IndexInv, StepIsItsRequest, UniqueIndex, Open, OpenIsFree, NoGaps,
         Chosen, ChosenFollows, AutoPositive, ChosenIsLast

(* A step that leaves the steps alone and brings no request with a chosen   *)
(* index to "insert", nor any request to "commit", keeps the invariant.     *)
LEMMA IndexFrame ==
    ASSUME TypeInv, IndexInv, UNCHANGED <<steps, op>>,
           \A p \in Request :
              \/ phase'[p] = phase[p] /\ idx'[p] = idx[p]
              \/ phase[p] # "ok" /\ phase'[p] \notin {"insert", "commit"}
              \/ phase[p] # "ok" /\ phase'[p] = "insert" /\ op[p].index # NoIndex
    PROVE  IndexInv'
  <1> USE DEF TypeInv
  <1>1. StepIsItsRequest'
    BY DEF IndexInv, StepIsItsRequest, Recording, TypeOK, StepRow
  <1>2. UniqueIndex'
    BY DEF IndexInv, UniqueIndex, Open, Recording
  <1>3. OpenIsFree'
    BY DEF IndexInv, OpenIsFree, Open, Recording, IndexTaken, IndexesOf, StepsOf
  <1>4. NoGaps'
    BY DEF IndexInv, NoGaps
  <1>5. ChosenFollows'
    BY DEF IndexInv, ChosenFollows, Chosen, Recording
  <1>6. AutoPositive'
    BY DEF IndexInv, AutoPositive
  <1>7. ChosenIsLast'
    BY DEF IndexInv, ChosenIsLast, Chosen, Recording, IndexTaken, IndexesOf, StepsOf
  <1> QED BY <1>1, <1>2, <1>3, <1>4, <1>5, <1>6, <1>7 DEF IndexInv

(* The index a recorder reads starts the trace or follows its last step.    *)
LEMMA NextIndexIsLast ==
    ASSUME TypeOK, NEW r \in Run, NEW k \in NextIndexes(r)
    PROVE  /\ k \in Int
           /\ \A t \in StepsOf(r) : t.index < k
           /\ k = 1 \/ \E t \in steps : t.run = r /\ t.index = k - 1
           /\ k = 1 \/ \E t \in StepsOf(r) : k = t.index + 1
  BY DEF NextIndexes, StepsOf, TypeOK, StepRow

(* A request becomes a recorder at "insert".                                *)
LEMMA IndexRead ==
    ASSUME TypeInv, IndexInv, NEW q \in Request, ReadNextIndex(q)
    PROVE  IndexInv'
  <1> USE DEF TypeInv
  <1>0. PICK k \in NextIndexes(op[q].run) : idx' = [idx EXCEPT ![q] = k]
    BY DEF ReadNextIndex
  <1>a. op[q].run \in Run
    BY OperationFields DEF TypeOK
  <1>b. /\ phase' = [phase EXCEPT ![q] = "insert"]
        /\ phase[q] = "index"
        /\ UNCHANGED <<steps, op>>
        /\ idx'[q] = k
        /\ \A p \in Request \ {q} : idx'[p] = idx[p] /\ phase'[p] = phase[p]
        /\ phase'[q] = "insert"
    BY <1>0 DEF ReadNextIndex, Goto, tables, TypeOK
  <1>c. /\ k \in Int
        /\ \A t \in StepsOf(op[q].run) : t.index < k
        /\ k = 1 \/ \E t \in steps : t.run = op[q].run /\ t.index = k - 1
        /\ k = 1 \/ \E t \in StepsOf(op[q].run) : k = t.index + 1
    BY <1>a, NextIndexIsLast
  <1>1. StepIsItsRequest'
    BY <1>b DEF IndexInv, StepIsItsRequest, Recording, TypeOK, StepRow
  <1>2. UniqueIndex'
    BY <1>b DEF IndexInv, UniqueIndex, Open, Recording
  <1>3. OpenIsFree'
    BY <1>b DEF IndexInv, OpenIsFree, Open, Recording, IndexTaken, IndexesOf, StepsOf
  <1>4. NoGaps'
    BY <1>b DEF IndexInv, NoGaps
  <1>5. ChosenFollows'
    <2> SUFFICES ASSUME NEW p \in Request, Chosen(p)'
                 PROVE  (idx[p] = 1 \/ \E t \in steps : t.run = op[p].run /\ t.index = idx[p] - 1)'
      BY DEF ChosenFollows
    <2>1. CASE p = q
      BY <2>1, <1>b, <1>c
    <2>2. CASE p # q
      BY <2>2, <1>b DEF IndexInv, ChosenFollows, Chosen, Recording
    <2> QED BY <2>1, <2>2
  <1>6. AutoPositive'
    BY <1>b DEF IndexInv, AutoPositive
  <1>7. ChosenIsLast'
    <2> SUFFICES ASSUME NEW p \in Request, Chosen(p)', op[p].run \in AutoRun
                 PROVE  (/\ idx[p] >= 1
                         /\ \/ IndexTaken(p)
                            \/ \A t \in StepsOf(op[p].run) : t.index < idx[p])'
      BY <1>b DEF ChosenIsLast
    <2>1. CASE p = q
      <3>1. k >= 1
        <4>1. CASE k = 1
          BY <4>1
        <4>2. CASE k # 1
          <5>1. PICK t \in StepsOf(op[q].run) : k = t.index + 1
            BY <4>2, <1>c
          <5>2. t \in steps /\ t.run \in AutoRun /\ t.index \in Int
            BY <2>1 DEF StepsOf, TypeOK, StepRow
          <5>3. t.index >= 1
            BY <5>2 DEF IndexInv, AutoPositive
          <5> QED BY <5>1, <5>2, <5>3
        <4> QED BY <4>1, <4>2
      <3> QED BY <2>1, <3>1, <1>b, <1>c DEF StepsOf
    <2>2. CASE p # q
      BY <2>2, <1>b DEF IndexInv, ChosenIsLast, Chosen, Recording, IndexTaken, IndexesOf, StepsOf
    <2> QED BY <2>1, <2>2
  <1> QED BY <1>1, <1>2, <1>3, <1>4, <1>5, <1>6, <1>7 DEF IndexInv

(* record_step's flush: the row takes an index that no row has.             *)
LEMMA IndexInserted ==
    ASSUME TypeInv, IndexInv, NEW q \in Request, InsertStep(q)
    PROVE  IndexInv'
  <1> USE DEF TypeInv
  <1>1. CASE IndexTaken(q)
    <2>1. /\ UNCHANGED <<steps, op, idx>>
          /\ phase' = [phase EXCEPT ![q] = "conflict"]
          /\ phase[q] = "insert"
      BY <1>1 DEF InsertStep, Abort, Goto, tables
    <2> QED BY <2>1, IndexFrame DEF TypeOK
  <1>2. CASE ~IndexTaken(q)
    <2>1. /\ UNCHANGED <<steps, op, idx>>
          /\ phase' = [phase EXCEPT ![q] = "commit"]
          /\ phase[q] = "insert"
          /\ \A p \in Request \ {q} : phase'[p] = phase[p]
          /\ phase'[q] = "commit"
      BY <1>2 DEF InsertStep, Goto, tables, TypeOK
    <2>2. StepIsItsRequest'
      BY <2>1 DEF IndexInv, StepIsItsRequest, Recording, TypeOK, StepRow
    <2>3. UniqueIndex'
      <3>1. \A p \in Request \ {q} : Open(p) => ~(op[p].run = op[q].run /\ idx[p] = idx[q])
        BY DEF InsertStep, IndexHeld, Open
      <3> QED BY <2>1, <3>1 DEF IndexInv, UniqueIndex, Open, Recording
    <2>4. OpenIsFree'
      BY <2>1, <1>2 DEF IndexInv, OpenIsFree, Open, Recording, IndexTaken, IndexesOf, StepsOf
    <2>5. NoGaps'
      BY <2>1 DEF IndexInv, NoGaps
    <2>6. ChosenFollows'
      BY <2>1 DEF IndexInv, ChosenFollows, Chosen, Recording
    <2>7. AutoPositive'
      BY <2>1 DEF IndexInv, AutoPositive
    <2>8. ChosenIsLast'
      BY <2>1 DEF IndexInv, ChosenIsLast, Chosen, Recording, IndexTaken, IndexesOf, StepsOf
    <2> QED BY <2>2, <2>3, <2>4, <2>5, <2>6, <2>7, <2>8 DEF IndexInv
  <1> QED BY <1>1, <1>2

(* On a run left to the store every recorder lets the store choose.         *)
LEMMA AutoRunIsChosen ==
    ASSUME TypeOK, NEW q \in Request, Recording(q), op[q].run \in AutoRun
    PROVE  op[q].index = NoIndex
  BY DEF AutoRun, Recording, TypeOK

(* The step that commits on such a run comes after every committed step.    *)
LEMMA CommitIsLast ==
    ASSUME TypeInv, IndexInv, NEW q \in Request, CommitStep(q), op[q].run \in AutoRun
    PROVE  /\ idx[q] >= 1
           /\ \A t \in StepsOf(op[q].run) : t.index < idx[q]
  <1>1. Open(q)
    BY DEF CommitStep, TypeInv, PhaseOK, Open
  <1>2. Chosen(q)
    BY <1>1, AutoRunIsChosen DEF TypeInv, Chosen, Open
  <1> QED BY <1>1, <1>2 DEF IndexInv, ChosenIsLast, OpenIsFree

(* When it commits, every other recorder of the run loses: the index it has *)
(* chosen is the one that is committed, or was lost before.                 *)
LEMMA CommitKeepsLast ==
    ASSUME TypeInv, IndexInv, NEW q \in Request, CommitStep(q), op[q].run \in AutoRun,
           NEW p \in Request, Chosen(p), p # q, op[p].run = op[q].run
    PROVE  idx[p] = idx[q] \/ IndexTaken(p)
  <1> USE DEF TypeInv
  <1> SUFFICES ASSUME ~IndexTaken(p) PROVE idx[p] = idx[q]
    OBVIOUS
  <1>1. /\ idx[p] \in Int /\ idx[q] \in Int
        /\ \A t \in steps : t.index \in Int
    BY DEF TypeOK, StepRow
  <1>2. Chosen(q)
    BY AutoRunIsChosen DEF CommitStep, PhaseOK, Chosen
  <1>3. idx[q] >= 1 /\ \A t \in StepsOf(op[q].run) : t.index < idx[q]
    BY CommitIsLast
  <1>4. idx[p] >= 1 /\ \A t \in StepsOf(op[q].run) : t.index < idx[p]
    BY DEF IndexInv, ChosenIsLast
  <1>5. idx[q] = 1 \/ \E t \in StepsOf(op[q].run) : t.index = idx[q] - 1
    BY <1>2 DEF IndexInv, ChosenFollows, StepsOf
  <1>6. idx[p] = 1 \/ \E t \in StepsOf(op[q].run) : t.index = idx[p] - 1
    BY DEF IndexInv, ChosenFollows, StepsOf
  <1>7. idx[q] <= idx[p]
    BY <1>1, <1>4, <1>5 DEF StepsOf
  <1>8. idx[p] <= idx[q]
    BY <1>1, <1>3, <1>6 DEF StepsOf
  <1> QED BY <1>1, <1>7, <1>8

(* The route's commit: the row is the new end of the trace.                 *)
LEMMA IndexCommitted ==
    ASSUME TypeInv, IndexInv, NEW q \in Request, CommitStep(q)
    PROVE  IndexInv'
  <1> USE DEF TypeInv
  <1> DEFINE row == [run |-> op[q].run, index |-> idx[q], by |-> q, gen |-> gen[q]]
  <1>0. /\ steps' = steps \cup {row}
        /\ UNCHANGED <<op, idx>>
        /\ phase[q] = "commit" /\ phase'[q] = "ok"
        /\ \A p \in Request \ {q} : phase'[p] = phase[p]
    BY DEF CommitStep, Goto, TypeOK
  <1>a. Recording(q) /\ Open(q)
    BY <1>0 DEF PhaseOK, Open
  <1>b. row.run = op[q].run /\ row.index = idx[q] /\ row.by = q
    OBVIOUS
  <1>c. \A s \in steps : s.run = op[q].run => s.index # idx[q]
    BY <1>a DEF IndexInv, OpenIsFree, IndexTaken, IndexesOf, StepsOf
  <1> HIDE DEF row
  <1>1. StepIsItsRequest'
    BY <1>0, <1>a, <1>b DEF IndexInv, StepIsItsRequest, Recording, TypeOK, StepRow
  <1>2. UniqueIndex'
    BY <1>0, <1>b, <1>c DEF IndexInv, UniqueIndex, Open, Recording
  <1>3. OpenIsFree'
    <2> SUFFICES ASSUME NEW p \in Request, Open(p)', IndexTaken(p)' PROVE FALSE
      BY DEF OpenIsFree
    <2>1. p # q /\ Open(p)
      BY <1>0 DEF Open, Recording
    <2>2. PICK s \in steps' : s.run = op[p].run /\ s.index = idx[p]
      BY <1>0 DEF IndexTaken, IndexesOf, StepsOf
    <2>3. CASE s \in steps
      BY <2>1, <2>2, <2>3 DEF IndexInv, OpenIsFree, IndexTaken, IndexesOf, StepsOf
    <2>4. CASE s = row
      BY <2>1, <2>2, <2>4, <1>a, <1>b DEF IndexInv, UniqueIndex
    <2> QED BY <1>0, <2>3, <2>4
  <1>4. NoGaps'
    <2> SUFFICES ASSUME NEW s \in steps', op[s.by].index = NoIndex
                 PROVE  s.index = 1 \/ \E t \in steps' : t.run = s.run /\ t.index = s.index - 1
      BY <1>0 DEF NoGaps
    <2>1. CASE s \in steps
      BY <2>1, <1>0 DEF IndexInv, NoGaps
    <2>2. CASE s = row
      <3>1. Chosen(q)
        BY <2>2, <1>0, <1>a, <1>b DEF Chosen
      <3> QED BY <2>2, <3>1, <1>0, <1>b DEF IndexInv, ChosenFollows
    <2> QED BY <1>0, <2>1, <2>2
  <1>5. ChosenFollows'
    <2> SUFFICES ASSUME NEW p \in Request, Chosen(p)'
                 PROVE  idx[p] = 1 \/ \E t \in steps' : t.run = op[p].run /\ t.index = idx[p] - 1
      BY <1>0 DEF ChosenFollows
    <2>1. p # q /\ Chosen(p)
      BY <1>0 DEF Chosen, Recording
    <2> QED BY <2>1, <1>0 DEF IndexInv, ChosenFollows
  <1>6. AutoPositive'
    <2> SUFFICES ASSUME NEW s \in steps', s.run \in AutoRun PROVE s.index >= 1
      BY DEF AutoPositive, AutoRun
    <2>1. CASE s \in steps
      BY <2>1 DEF IndexInv, AutoPositive
    <2>2. CASE s = row
      BY <2>2, <1>b, CommitIsLast
    <2> QED BY <1>0, <2>1, <2>2
  <1>7. ChosenIsLast'
    <2> SUFFICES ASSUME NEW p \in Request, Chosen(p)', op[p].run \in AutoRun
                 PROVE  /\ idx[p] >= 1
                        /\ IndexTaken(p)' \/ \A t \in StepsOf(op[p].run)' : t.index < idx[p]
      BY <1>0 DEF ChosenIsLast, AutoRun, StepsOf
    <2>1. p # q /\ Chosen(p)
      BY <1>0 DEF Chosen, Recording
    <2>2. /\ idx[p] >= 1
          /\ IndexTaken(p) \/ \A t \in StepsOf(op[p].run) : t.index < idx[p]
      BY <2>1 DEF IndexInv, ChosenIsLast
    <2>3. IndexTaken(p) => IndexTaken(p)'
      BY <1>0 DEF IndexTaken, IndexesOf, StepsOf
    <2>4. CASE op[p].run = op[q].run
      <3>1. idx[p] = idx[q] \/ IndexTaken(p)
        BY <2>1, <2>4, CommitKeepsLast
      <3>2. idx[p] = idx[q] => IndexTaken(p)'
        BY <2>4, <1>0, <1>b DEF IndexTaken, IndexesOf, StepsOf
      <3> QED BY <2>2, <2>3, <3>1, <3>2
    <2>5. CASE op[p].run # op[q].run
      BY <2>2, <2>3, <2>5, <1>0, <1>b DEF StepsOf
    <2> QED BY <2>4, <2>5
  <1> QED BY <1>1, <1>2, <1>3, <1>4, <1>5, <1>6, <1>7 DEF IndexInv

LEMMA IndexStep == TypeInv /\ IndexInv /\ [Next]_vars => IndexInv'
  <1> SUFFICES ASSUME TypeInv, IndexInv, [Next]_vars PROVE IndexInv'
    OBVIOUS
  <1> USE DEF TypeInv
  <1>1. ASSUME NEW r \in Run, StartRun(r) PROVE IndexInv'
    BY <1>1, IndexFrame DEF StartRun, session
  <1>2. ASSUME NEW q \in Request, Receive(q) PROVE IndexInv'
    BY <1>2, IndexFrame
    DEF Receive, ReceiveUnknown, ReceiveToolCall, ReceiveCapture, ReceiveCompletion,
        ToIndexing, Goto, TypeOK, tables, session
  <1>3. ASSUME NEW q \in Request, ResolveContract(q) PROVE IndexInv'
    BY <1>3, IndexFrame DEF ResolveContract, Goto, TypeOK, tables
  <1>4. ASSUME NEW q \in Request, DefineContract(q) PROVE IndexInv'
    BY <1>4, IndexFrame DEF DefineContract, Abort, Goto, TypeOK, tables
  <1>5. ASSUME NEW q \in Request, ExecuteTool(q) PROVE IndexInv'
    BY <1>5, IndexFrame DEF ExecuteTool, ToIndexing, Goto, TypeOK, tables
  <1>6. ASSUME NEW q \in Request, CompleteRun(q) PROVE IndexInv'
    BY <1>6, IndexFrame DEF CompleteRun, Goto, TypeOK, session
  <1>7. CASE Restart
    BY <1>7, IndexFrame DEF Restart, TypeOK, Working
  <1>8. CASE UNCHANGED vars
    BY <1>8, IndexFrame DEF vars, tables, session
  <1> QED
    BY <1>1, <1>2, <1>3, <1>4, <1>5, <1>6, <1>7, <1>8, IndexRead, IndexInserted, IndexCommitted
    DEF Next, Serve

LEMMA IndexInvariant == Spec => [](TypeInv /\ IndexInv)
  <1>1. Init => TypeInv /\ IndexInv
    BY TypeInit, IndexInit
  <1>2. TypeInv /\ IndexInv /\ [Next]_vars => (TypeInv /\ IndexInv)'
    BY TypeStep, IndexStep
  <1> QED BY <1>1, <1>2, PTL DEF Spec

(* A step_index names one step of its run, however many clients record.     *)
THEOREM UniqueIndexCorrect == Spec => []UniqueIndex
  BY IndexInvariant, PTL DEF IndexInv

(* Conflicts and restarts leave no hole below an index the store chose.     *)
THEOREM NoGapsCorrect == Spec => []NoGaps
  BY IndexInvariant, PTL DEF IndexInv

(* Steps are never deleted, and a run left to the store only grows at its   *)
(* end: two readers of it see one the prefix of the other.                  *)
THEOREM AppendOnlyCorrect == Spec => AppendOnly
  <1>1. ASSUME TypeInv, IndexInv, [Next]_vars
        PROVE  [steps \subseteq steps' /\ GrowsAtTheEnd]_vars
    <2>1. ASSUME NEW q \in Request, CommitStep(q)
          PROVE  steps \subseteq steps' /\ GrowsAtTheEnd
      BY <1>1, <2>1, CommitIsLast DEF CommitStep, GrowsAtTheEnd, StepsOf, TypeInv, TypeOK
    <2>2. CASE UNCHANGED steps
      BY <2>2 DEF GrowsAtTheEnd
    <2>3. CASE UNCHANGED vars
      BY <2>3
    <2>4. UNCHANGED vars \/ UNCHANGED steps \/ \E q \in Request : CommitStep(q)
      BY <1>1
      DEF Next, Receive, Serve, StartRun, ReceiveUnknown, ReceiveToolCall, ReceiveCapture,
          ReceiveCompletion, ResolveContract, DefineContract, ExecuteTool, ReadNextIndex,
          InsertStep, CompleteRun, Restart, tables
    <2> QED BY <2>1, <2>2, <2>3, <2>4
  <1> QED BY <1>1, IndexInvariant, PTL DEF Spec, AppendOnly
-----------------------------------------------------------------------------
(* A request has executed its tool exactly when it is past the live call,   *)
(* unless it ended before; then it stays so.                                *)
ExecutedInv ==
    \A q \in Request :
        /\ phase[q] \in {"idle", "resolve", "define", "execute"} => q \notin executed
        /\ op[q].kind = "tool" /\ phase[q] \in {"index", "insert", "commit", "ok"} => q \in executed

OkIsStored == \A q \in Request : Recording(q) /\ phase[q] = "ok" => \E s \in steps : s.by = q

OneStepEach == \A s, t \in steps : s.by = t.by => s = t

AnswerInv == /\ ExecutedInv
             /\ OkIsStored
             /\ OneStepEach
             /\ ConflictHasWinner

(* What the contract registry owes to a request that has resolved its       *)
(* contract: a committed row of its tool that is no older, or a row of its  *)
(* own session.  A release never is older than a committed contract.        *)
Resolved(q) == op[q].kind = "tool" /\ phase[q] \in {"execute", "index", "insert", "commit"}

ContractsReleased == \A c \in contracts : c.gen <= release

DefiningIsResolved == \A q \in defining : Resolved(q) /\ gen[q] <= release

ResolvedHasContract ==
    \A q \in Request : Resolved(q) /\ q \notin defining =>
        \E c \in contracts : c.tool = op[q].tool /\ gen[q] <= c.gen

ContractInv == /\ ContractsReleased
               /\ DefiningIsResolved
               /\ ResolvedHasContract
               /\ StepsHaveContracts

(* A completion that has loaded a run which was over writes a run that is   *)
(* over still: the status it leaves alone was asked for.                    *)
Over == {"completed", "failed"}

LoadedOverIsOver ==
    \A q \in Request : phase[q] = "update" =>
        /\ seen[q].status \in Over => runs[op[q].run].status \in Over
        /\ runs[op[q].run].status # "absent"

StatusInv == LoadedOverIsOver /\ StatusWasAsked

(* The requests whose metadata a row holds have been answered, so what they *)
(* had loaded is settled; a loaded row is causal like the stored one.       *)
MetaAnswered ==
    /\ \A r \in Run : \A p \in runs[r].meta : phase[p] = "ok"
    /\ \A q \in Request : \A p \in seen[q].meta : phase[p] = "ok"

LoadedCausal == \A q \in Request : \A p \in seen[q].meta : seen[p].meta \subseteq seen[q].meta

MetaInv == MetaAnswered /\ LoadedCausal /\ MetadataCausal
-----------------------------------------------------------------------------
LEMMA AnswerInit == Init => AnswerInv
  BY DEF Init, AnswerInv, ExecutedInv, OkIsStored, OneStepEach, ConflictHasWinner

(* A release and a commit keep every tool that the registry knows.          *)
LEMMA KnownStaysKnown ==
    ASSUME TypeInv, [Next]_vars, NEW t \in Tool, ContractKnown(t)
    PROVE  ContractKnown(t)'
  <1>1. CASE Restart
    <2>1. PICK c \in contracts : c.tool = t
      BY DEF ContractKnown
    <2>2. PICK g \in {release, release + 1} :
             contracts' = {d \in contracts : d.tool \notin Seeded} \cup [tool : Seeded, gen : {g}]
      BY <1>1 DEF Restart
    <2>3. CASE t \in Seeded
      <3>1. [tool |-> t, gen |-> g] \in contracts'
        BY <2>2, <2>3
      <3> QED BY <3>1 DEF ContractKnown
    <2>4. CASE t \notin Seeded
      BY <2>1, <2>2, <2>4 DEF ContractKnown
    <2> QED BY <2>3, <2>4
  <1>2. CASE contracts \subseteq contracts'
    BY <1>2 DEF ContractKnown
  <1>3. Restart \/ contracts \subseteq contracts'
    BY DEF Next, Receive, Serve, StartRun, ReceiveUnknown, ReceiveToolCall, ReceiveCapture,
           ReceiveCompletion, ResolveContract, DefineContract, ExecuteTool, ReadNextIndex,
           InsertStep, CommitStep, CompleteRun, tables, vars
  <1> QED BY <1>1, <1>2, <1>3

(* What was the reason of a conflict stays there: the steps only grow and   *)
(* the request is over.                                                     *)
LEMMA ConflictStays ==
    ASSUME TypeInv, AnswerInv, [Next]_vars, steps \subseteq steps', UNCHANGED op,
           NEW q \in Request, phase[q] = "conflict",
           idx'[q] = idx[q], q \in executed' => q \in executed
    PROVE  \/ \E s \in steps' : s.by # q /\ s.run = op[q].run /\ s.index = idx'[q]
           \/ op[q].kind = "tool" /\ q \notin executed' /\ ContractKnown(op[q].tool)'
  <1>1. CASE \E s \in steps : s.by # q /\ s.run = op[q].run /\ s.index = idx[q]
    BY <1>1
  <1>2. CASE op[q].kind = "tool" /\ q \notin executed /\ ContractKnown(op[q].tool)
    <2>1. op[q].tool \in Tool
      BY <1>2, OperationFields DEF TypeInv, TypeOK
    <2> QED BY <1>2, <2>1, KnownStaysKnown
  <1> QED BY <1>1, <1>2 DEF AnswerInv, ConflictHasWinner

(* A step of the handler that neither commits nor gives up.                 *)
LEMMA AnswerFrame ==
    ASSUME TypeInv, AnswerInv, [Next]_vars, UNCHANGED <<steps, op>>,
           ExecutedInv',
           \A p \in Request :
              /\ phase'[p] = "ok" => phase[p] = "ok" \/ op[p].kind = "complete"
              /\ phase'[p] = "conflict" =>
                    phase[p] = "conflict" /\ idx'[p] = idx[p] /\ (p \in executed' => p \in executed)
    PROVE  AnswerInv'
  <1>1. OkIsStored'
    BY DEF AnswerInv, OkIsStored, Recording
  <1>2. OneStepEach'
    BY DEF AnswerInv, OneStepEach
  <1>3. ConflictHasWinner'
    BY ConflictStays DEF ConflictHasWinner
  <1> QED BY <1>1, <1>2, <1>3 DEF AnswerInv

LEMMA AnswerStep == TypeInv /\ IndexInv /\ AnswerInv /\ [Next]_vars => AnswerInv'
  <1> SUFFICES ASSUME TypeInv, IndexInv, AnswerInv, [Next]_vars PROVE AnswerInv'
    OBVIOUS
  <1> USE DEF TypeInv
  <1>1. ASSUME NEW r \in Run, StartRun(r) PROVE AnswerInv'
    <2>1. ExecutedInv'
      BY <1>1 DEF StartRun, AnswerInv, ExecutedInv, session
    <2> QED BY <1>1, <2>1, AnswerFrame DEF StartRun, session
  <1>2. ASSUME NEW q \in Request, Receive(q) PROVE AnswerInv'
    <2>1. ExecutedInv'
      BY <1>2
      DEF Receive, ReceiveUnknown, ReceiveToolCall, ReceiveCapture, ReceiveCompletion,
          ToIndexing, Goto, AnswerInv, ExecutedInv, TypeOK
    <2> QED
      BY <1>2, <2>1, AnswerFrame
      DEF Receive, ReceiveUnknown, ReceiveToolCall, ReceiveCapture, ReceiveCompletion,
          ToIndexing, Goto, TypeOK, tables, session
  <1>3. ASSUME NEW q \in Request, ResolveContract(q) PROVE AnswerInv'
    <2>1. ExecutedInv'
      BY <1>3 DEF ResolveContract, Goto, AnswerInv, ExecutedInv, TypeOK
    <2> QED BY <1>3, <2>1, AnswerFrame DEF ResolveContract, Goto, TypeOK, tables
  <1>4. ASSUME NEW q \in Request, DefineContract(q) PROVE AnswerInv'
    <2>1. ExecutedInv'
      BY <1>4 DEF DefineContract, Abort, Goto, AnswerInv, ExecutedInv, TypeOK
    <2>2. CASE ~ContractKnown(op[q].tool)
      BY <1>4, <2>1, <2>2, AnswerFrame DEF DefineContract, Goto, TypeOK, tables
    <2>3. CASE ContractKnown(op[q].tool)
      <3>1. /\ UNCHANGED <<tables, op, idx, executed>>
            /\ phase[q] = "define"
            /\ phase' = [phase EXCEPT ![q] = "conflict"]
        BY <1>4, <2>3 DEF DefineContract, Abort, Goto
      <3>2. op[q].kind = "tool" /\ q \notin executed
        BY <3>1 DEF PhaseOK, AnswerInv, ExecutedInv
      <3>3. OkIsStored' /\ OneStepEach'
        BY <3>1 DEF AnswerInv, OkIsStored, OneStepEach, Recording, tables, TypeOK
      <3>4. ConflictHasWinner'
        <4> SUFFICES ASSUME NEW p \in Request, phase'[p] = "conflict"
                     PROVE  \/ \E s \in steps' : s.by # p /\ s.run = op[p].run /\ s.index = idx'[p]
                            \/ op[p].kind = "tool" /\ p \notin executed' /\ ContractKnown(op[p].tool)'
          BY <3>1 DEF ConflictHasWinner, ContractKnown
        <4>1. CASE p = q
          BY <2>3, <3>1, <3>2, <4>1 DEF ContractKnown, tables
        <4>2. CASE p # q
          BY <3>1, <4>2, ConflictStays DEF TypeOK, tables
        <4> QED BY <4>1, <4>2
      <3> QED BY <2>1, <3>3, <3>4 DEF AnswerInv
    <2> QED BY <2>2, <2>3
  <1>5. ASSUME NEW q \in Request, ExecuteTool(q) PROVE AnswerInv'
    <2>1. ExecutedInv'
      BY <1>5 DEF ExecuteTool, ToIndexing, Goto, AnswerInv, ExecutedInv, TypeOK
    <2> QED BY <1>5, <2>1, AnswerFrame DEF ExecuteTool, ToIndexing, Goto, TypeOK, tables
  <1>6. ASSUME NEW q \in Request, ReadNextIndex(q) PROVE AnswerInv'
    <2>1. ExecutedInv'
      BY <1>6 DEF ReadNextIndex, Goto, AnswerInv, ExecutedInv, TypeOK
    <2> QED BY <1>6, <2>1, AnswerFrame DEF ReadNextIndex, Goto, TypeOK, tables
  <1>7. ASSUME NEW q \in Request, InsertStep(q) PROVE AnswerInv'
    <2>1. ExecutedInv'
      BY <1>7 DEF InsertStep, Abort, Goto, AnswerInv, ExecutedInv, TypeOK
    <2>2. CASE ~IndexTaken(q)
      BY <1>7, <2>1, <2>2, AnswerFrame DEF InsertStep, Goto, TypeOK, tables
    <2>3. CASE IndexTaken(q)
      <3>1. /\ UNCHANGED <<tables, op, idx, executed>>
            /\ phase[q] = "insert"
            /\ phase' = [phase EXCEPT ![q] = "conflict"]
        BY <1>7, <2>3 DEF InsertStep, Abort, Goto
      <3>2. \E s \in steps : s.by # q /\ s.run = op[q].run /\ s.index = idx[q]
        BY <2>3, <3>1 DEF IndexTaken, IndexesOf, StepsOf, IndexInv, StepIsItsRequest
      <3>3. OkIsStored' /\ OneStepEach'
        BY <3>1 DEF AnswerInv, OkIsStored, OneStepEach, Recording, tables, TypeOK
      <3>4. ConflictHasWinner'
        <4> SUFFICES ASSUME NEW p \in Request, phase'[p] = "conflict"
                     PROVE  \/ \E s \in steps' : s.by # p /\ s.run = op[p].run /\ s.index = idx'[p]
                            \/ op[p].kind = "tool" /\ p \notin executed' /\ ContractKnown(op[p].tool)'
          BY <3>1 DEF ConflictHasWinner, ContractKnown
        <4>1. CASE p = q
          BY <3>1, <3>2, <4>1 DEF tables
        <4>2. CASE p # q
          BY <3>1, <4>2, ConflictStays DEF TypeOK, tables
        <4> QED BY <4>1, <4>2
      <3> QED BY <2>1, <3>3, <3>4 DEF AnswerInv
    <2> QED BY <2>2, <2>3
  <1>8. ASSUME NEW q \in Request, CommitStep(q) PROVE AnswerInv'
    <2> DEFINE row == [run |-> op[q].run, index |-> idx[q], by |-> q, gen |-> gen[q]]
    <2>1. /\ steps' = steps \cup {row}
          /\ UNCHANGED <<op, idx, executed>>
          /\ phase[q] = "commit"
          /\ phase' = [phase EXCEPT ![q] = "ok"]
          /\ row.by = q
      BY <1>8 DEF CommitStep, Goto
    <2> HIDE DEF row
    <2>2. ExecutedInv'
      BY <2>1 DEF AnswerInv, ExecutedInv, TypeOK
    <2>3. \A s \in steps : s.by # q
      BY <2>1 DEF IndexInv, StepIsItsRequest
    <2>4. OneStepEach'
      BY <2>1, <2>3 DEF AnswerInv, OneStepEach
    <2>5. OkIsStored'
      BY <2>1 DEF AnswerInv, OkIsStored, Recording, TypeOK
    <2>6. ConflictHasWinner'
      BY <2>1, ConflictStays DEF ConflictHasWinner, TypeOK
    <2> QED BY <2>2, <2>4, <2>5, <2>6 DEF AnswerInv
  <1>9. ASSUME NEW q \in Request, CompleteRun(q) PROVE AnswerInv'
    <2>1. op[q].kind = "complete"
      BY <1>9 DEF CompleteRun, PhaseOK
    <2>2. ExecutedInv'
      BY <1>9, <2>1 DEF CompleteRun, Goto, AnswerInv, ExecutedInv, TypeOK
    <2> QED BY <1>9, <2>1, <2>2, AnswerFrame DEF CompleteRun, Goto, TypeOK, session
  <1>10. CASE Restart
    <2>1. ExecutedInv'
      BY <1>10 DEF Restart, Working, AnswerInv, ExecutedInv, TypeOK
    <2> QED BY <1>10, <2>1, AnswerFrame DEF Restart, Working, TypeOK
  <1>11. CASE UNCHANGED vars
    <2>1. ExecutedInv'
      BY <1>11 DEF vars, AnswerInv, ExecutedInv
    <2> QED BY <1>11, <2>1, AnswerFrame DEF vars, tables, session
  <1> QED
    BY <1>1, <1>2, <1>3, <1>4, <1>5, <1>6, <1>7, <1>8, <1>9, <1>10, <1>11 DEF Next, Serve

LEMMA AnswerInvariant == Spec => [](TypeInv /\ IndexInv /\ AnswerInv)
  <1>1. Init => AnswerInv
    BY AnswerInit
  <1>2. TypeInv /\ IndexInv /\ AnswerInv /\ [Next]_vars => AnswerInv'
    BY AnswerStep
  <1> QED BY <1>1, <1>2, IndexInvariant, PTL DEF Spec

(* 200 if and only if the request has one step, and a tool step only of a   *)
(* tool that ran: POST /tool-proxy/call and /llm/capture.                   *)
THEOREM AnswersMatchStepsCorrect == Spec => []AnswersMatchSteps
  <1>1. TypeInv /\ IndexInv /\ AnswerInv => AnswersMatchSteps
    BY DEF AnswersMatchSteps, IndexInv, StepIsItsRequest, AnswerInv, OkIsStored, OneStepEach,
           ExecutedInv
  <1> QED BY <1>1, AnswerInvariant, PTL

(* A request that fails on a unique key has lost to another that holds it   *)
(* in the database: no two recorders fail because of each other.            *)
THEOREM ConflictHasWinnerCorrect == Spec => []ConflictHasWinner
  BY AnswerInvariant, PTL DEF AnswerInv
-----------------------------------------------------------------------------
LEMMA ContractInit == Init => ContractInv
  BY DEF Init, ContractInv, ContractsReleased, DefiningIsResolved, ResolvedHasContract,
         StepsHaveContracts, Resolved

(* A step of the handler that keeps the registry and defines nothing.       *)
LEMMA ContractFrame ==
    ASSUME TypeInv, ContractInv, UNCHANGED <<steps, contracts, release, op>>,
           defining' \subseteq defining,
           \A p \in Request :
              /\ Resolved(p)' /\ p \notin defining' =>
                    \/ Resolved(p) /\ p \notin defining /\ gen'[p] = gen[p]
                    \/ \E c \in contracts : c.tool = op[p].tool /\ gen'[p] <= c.gen
              /\ p \in defining' => Resolved(p)' /\ gen'[p] = gen[p]
    PROVE  ContractInv'
  <1>1. ContractsReleased'
    BY DEF ContractInv, ContractsReleased
  <1>2. DefiningIsResolved'
    BY DEF ContractInv, DefiningIsResolved, TypeInv, TypeOK
  <1>3. ResolvedHasContract'
    BY DEF ContractInv, ResolvedHasContract
  <1>4. StepsHaveContracts'
    BY DEF ContractInv, StepsHaveContracts
  <1> QED BY <1>1, <1>2, <1>3, <1>4 DEF ContractInv

(* A restart merges the descriptors of the code over the committed rows:    *)
(* none of them gets older, and none is lost.                               *)
LEMMA RestartRenews ==
    ASSUME TypeInv, ContractInv, Restart, NEW c \in contracts
    PROVE  \E d \in contracts' : d.tool = c.tool /\ c.gen <= d.gen
  <1>1. PICK g \in {release, release + 1} :
           contracts' = {d \in contracts : d.tool \notin Seeded} \cup [tool : Seeded, gen : {g}]
    BY DEF Restart
  <1>2. c.gen \in Nat /\ c.gen <= release /\ release \in Nat
    BY DEF TypeInv, TypeOK, Contract, ContractInv, ContractsReleased
  <1>3. CASE c.tool \in Seeded
    <2>1. [tool |-> c.tool, gen |-> g] \in contracts'
      BY <1>1, <1>3
    <2> QED BY <1>1, <1>2, <2>1
  <1>4. CASE c.tool \notin Seeded
    BY <1>1, <1>2, <1>4
  <1> QED BY <1>3, <1>4

LEMMA ContractStep == TypeInv /\ IndexInv /\ ContractInv /\ [Next]_vars => ContractInv'
  <1> SUFFICES ASSUME TypeInv, IndexInv, ContractInv, [Next]_vars PROVE ContractInv'
    OBVIOUS
  <1> USE DEF TypeInv
  <1>1. ASSUME NEW r \in Run, StartRun(r) PROVE ContractInv'
    BY <1>1, ContractFrame DEF StartRun, Resolved, session, TypeOK, ContractInv, DefiningIsResolved
  <1>2. ASSUME NEW q \in Request, Receive(q) PROVE ContractInv'
    <2>1. /\ UNCHANGED <<steps, contracts, release, op, gen, defining>>
          /\ phase[q] = "idle"
          /\ \A p \in Request : Resolved(p)' => Resolved(p)
      BY <1>2
      DEF Receive, ReceiveUnknown, ReceiveToolCall, ReceiveCapture, ReceiveCompletion,
          ToIndexing, Goto, Resolved, TypeOK, tables, session
    <2>2. \A p \in defining : p # q /\ Resolved(p)'
      BY <1>2, <2>1
      DEF Receive, ReceiveUnknown, ReceiveToolCall, ReceiveCapture, ReceiveCompletion,
          ToIndexing, Goto, Resolved, TypeOK, ContractInv, DefiningIsResolved
    <2> QED BY <2>1, <2>2, ContractFrame
  <1>3. ASSUME NEW q \in Request, ResolveContract(q) PROVE ContractInv'
    <2>1. /\ UNCHANGED <<steps, contracts, release, op, defining>>
          /\ phase[q] = "resolve"
          /\ \A p \in Request \ {q} : phase'[p] = phase[p] /\ gen'[p] = gen[p]
          /\ \/ phase'[q] = "define"
             \/ \E c \in contracts : c.tool = op[q].tool /\ gen'[q] = c.gen
      BY <1>3 DEF ResolveContract, Goto, TypeOK, tables
    <2>2. q \notin defining
      BY <2>1 DEF ContractInv, DefiningIsResolved, Resolved
    <2>3. \A c \in contracts : c.gen <= c.gen
      BY DEF TypeOK, Contract
    <2> QED BY <2>1, <2>2, <2>3, ContractFrame DEF Resolved, ContractInv, DefiningIsResolved, TypeOK
  <1>4. ASSUME NEW q \in Request, DefineContract(q) PROVE ContractInv'
    <2>1. q \notin defining /\ op[q].kind = "tool"
      BY <1>4 DEF DefineContract, ContractInv, DefiningIsResolved, Resolved, PhaseOK
    <2>2. CASE ContractKnown(op[q].tool)
      BY <1>4, <2>1, <2>2, ContractFrame
      DEF DefineContract, Abort, Goto, Resolved, TypeOK, tables, ContractInv, DefiningIsResolved
    <2>3. CASE ~ContractKnown(op[q].tool)
      <3>1. /\ UNCHANGED <<steps, contracts, release, op>>
            /\ defining' = defining \cup {q}
            /\ gen' = [gen EXCEPT ![q] = IF op[q].tool \in Seeded THEN release ELSE 0]
            /\ phase' = [phase EXCEPT ![q] = "execute"]
        BY <1>4, <2>3 DEF DefineContract, Goto, tables
      <3>2. ContractsReleased' /\ StepsHaveContracts'
        BY <3>1 DEF ContractInv, ContractsReleased, StepsHaveContracts
      <3>3. DefiningIsResolved'
        BY <2>1, <3>1 DEF ContractInv, DefiningIsResolved, Resolved, TypeOK
      <3>4. ResolvedHasContract'
        BY <2>1, <3>1 DEF ContractInv, ResolvedHasContract, Resolved, TypeOK
      <3> QED BY <3>2, <3>3, <3>4 DEF ContractInv
    <2> QED BY <2>2, <2>3
  <1>5. ASSUME NEW q \in Request, ExecuteTool(q) PROVE ContractInv'
    <2>1. /\ UNCHANGED <<steps, contracts, release, op, gen, defining>>
          /\ \A p \in Request : Resolved(p)' <=> Resolved(p)
      BY <1>5 DEF ExecuteTool, ToIndexing, Goto, Resolved, TypeOK, tables
    <2> QED BY <2>1, ContractFrame DEF ContractInv, DefiningIsResolved, TypeOK
  <1>6. ASSUME NEW q \in Request, ReadNextIndex(q) PROVE ContractInv'
    <2>1. /\ UNCHANGED <<steps, contracts, release, op, gen, defining>>
          /\ \A p \in Request : Resolved(p)' <=> Resolved(p)
      BY <1>6 DEF ReadNextIndex, Goto, Resolved, TypeOK, tables
    <2> QED BY <2>1, ContractFrame DEF ContractInv, DefiningIsResolved, TypeOK
  <1>7. ASSUME NEW q \in Request, InsertStep(q) PROVE ContractInv'
    <2>1. /\ UNCHANGED <<steps, contracts, release, op, gen>>
          /\ phase[q] = "insert"
          /\ \/ phase' = [phase EXCEPT ![q] = "conflict"] /\ defining' = defining \ {q}
             \/ phase' = [phase EXCEPT ![q] = "commit"] /\ UNCHANGED defining
      BY <1>7 DEF InsertStep, Abort, Goto, tables
    <2> QED BY <2>1, ContractFrame DEF Resolved, TypeOK, ContractInv, DefiningIsResolved
  <1>8. ASSUME NEW q \in Request, CommitStep(q) PROVE ContractInv'
    <2> DEFINE row == [run |-> op[q].run, index |-> idx[q], by |-> q, gen |-> gen[q]]
               new == {[tool |-> op[p].tool, gen |-> gen[p]] : p \in defining \cap {q}}
    <2>1. /\ steps' = steps \cup {row}
          /\ contracts' = contracts \cup new
          /\ UNCHANGED <<release, op, gen>>
          /\ defining' = defining \ {q}
          /\ phase[q] = "commit"
          /\ phase' = [phase EXCEPT ![q] = "ok"]
      BY <1>8 DEF CommitStep, Goto
    <2>2. \A c \in new : c.gen = gen[q] /\ q \in defining
      OBVIOUS
    <2>3. q \in defining => [tool |-> op[q].tool, gen |-> gen[q]] \in new
      OBVIOUS
    <2>4. row.by = q /\ row.gen = gen[q]
      OBVIOUS
    <2> HIDE DEF row, new
    <2>5. ContractsReleased'
      BY <2>1, <2>2 DEF ContractInv, ContractsReleased, DefiningIsResolved
    <2>6. DefiningIsResolved'
      BY <2>1 DEF ContractInv, DefiningIsResolved, Resolved, TypeOK
    <2>7. ResolvedHasContract'
      BY <2>1 DEF ContractInv, ResolvedHasContract, Resolved, TypeOK
    <2>8. StepsHaveContracts'
      <3>1. op[q].kind = "tool" => \E c \in contracts' : c.tool = op[q].tool /\ gen[q] <= c.gen
        <4>1. gen[q] <= gen[q]
          BY DEF TypeOK
        <4>2. op[q].kind = "tool" => Resolved(q)
          BY <2>1 DEF Resolved
        <4> QED BY <2>1, <2>3, <4>1, <4>2 DEF ContractInv, ResolvedHasContract
      <3> QED BY <2>1, <2>4, <3>1 DEF ContractInv, StepsHaveContracts
    <2> QED BY <2>5, <2>6, <2>7, <2>8 DEF ContractInv
  <1>9. ASSUME NEW q \in Request, CompleteRun(q) PROVE ContractInv'
    <2>1. /\ UNCHANGED <<steps, contracts, release, op, gen, defining>>
          /\ \A p \in Request : Resolved(p)' <=> Resolved(p)
      BY <1>9 DEF CompleteRun, Goto, Resolved, TypeOK, session
    <2> QED BY <2>1, ContractFrame DEF ContractInv, DefiningIsResolved, TypeOK
  <1>10. CASE Restart
    <2>1. PICK g \in {release, release + 1} :
             /\ release' = g
             /\ contracts' = {d \in contracts : d.tool \notin Seeded} \cup [tool : Seeded, gen : {g}]
      BY <1>10 DEF Restart
    <2>2. ContractsReleased'
      BY <2>1 DEF ContractInv, ContractsReleased, TypeOK, Contract
    <2>3. DefiningIsResolved' /\ ResolvedHasContract'
      BY <1>10 DEF Restart, DefiningIsResolved, ResolvedHasContract, Resolved, Working, TypeOK
    <2>4. StepsHaveContracts'
      <3> SUFFICES ASSUME NEW s \in steps, op[s.by].kind = "tool"
                   PROVE  \E d \in contracts' : d.tool = op[s.by].tool /\ s.gen <= d.gen
        BY <1>10 DEF Restart, StepsHaveContracts
      <3>1. PICK c \in contracts : c.tool = op[s.by].tool /\ s.gen <= c.gen
        BY DEF ContractInv, StepsHaveContracts
      <3>2. PICK d \in contracts' : d.tool = c.tool /\ c.gen <= d.gen
        BY <1>10, RestartRenews
      <3>3. s.gen \in Nat /\ c.gen \in Nat /\ d.gen \in Nat
        BY <2>1 DEF TypeOK, StepRow, Contract
      <3> QED BY <3>1, <3>2, <3>3
    <2> QED BY <2>2, <2>3, <2>4 DEF ContractInv
  <1>11. CASE UNCHANGED vars
    BY <1>11, ContractFrame DEF vars, tables, session, Resolved, ContractInv, DefiningIsResolved, TypeOK
  <1> QED
    BY <1>1, <1>2, <1>3, <1>4, <1>5, <1>6, <1>7, <1>8, <1>9, <1>10, <1>11 DEF Next, Serve

(* The contract a tool step was recorded under is in the registry, at its   *)
(* generation or a later one, over releases and restarts: record_step and   *)
(* ensure_default_contracts, although no foreign key relates the tables.    *)
THEOREM StepsHaveContractsCorrect == Spec => []StepsHaveContracts
  <1>1. ContractInv => StepsHaveContracts
    BY DEF ContractInv
  <1> QED BY <1>1, ContractInit, ContractStep, IndexInvariant, PTL DEF Spec
-----------------------------------------------------------------------------
(* The statuses that answered completions of a run have asked for.          *)
Asked(r) == {op[q].status : q \in {x \in Request : /\ op[x].kind = "complete"
                                                   /\ op[x].run = r
                                                   /\ phase[x] = "ok"}}

LEMMA StatusInit == Init => StatusInv
  <1> SUFFICES ASSUME Init PROVE StatusInv
    OBVIOUS
  <1>1. LoadedOverIsOver
    BY DEF Init, LoadedOverIsOver
  <1>2. \A r \in Run : Asked(r) = {} /\ runs[r].status = "absent"
    BY DEF Init, Asked, NoRun
  <1>3. StatusWasAsked
    BY <1>2 DEF StatusWasAsked, Asked
  <1> QED BY <1>1, <1>3 DEF StatusInv

(* A step of the handler that answers no completion.                        *)
LEMMA StatusFrame ==
    ASSUME TypeInv, StatusInv, UNCHANGED <<runs, op>>,
           \A p \in Request :
              /\ op[p].kind = "complete" => (phase'[p] = "ok" <=> phase[p] = "ok")
              /\ phase'[p] = "update" =>
                    \/ phase[p] = "update" /\ seen'[p] = seen[p]
                    \/ seen'[p] = runs[op[p].run] /\ runs[op[p].run].status # "absent"
    PROVE  StatusInv'
  <1>1. LoadedOverIsOver'
    BY DEF StatusInv, LoadedOverIsOver, TypeInv, PhaseOK
  <1>2. \A r \in Run : Asked(r)' = Asked(r)
    BY DEF Asked
  <1>3. StatusWasAsked'
    BY <1>2 DEF StatusInv, StatusWasAsked, Asked
  <1> QED BY <1>1, <1>3 DEF StatusInv

(* The UPDATE: the status is the one asked for, or one asked for before.    *)
LEMMA StatusWritten ==
    ASSUME TypeInv, StatusInv, NEW q \in Request, CompleteRun(q)
    PROVE  StatusInv'
  <1> USE DEF TypeInv
  <1>1. /\ runs' = [runs EXCEPT ![op[q].run] = Merged(q)]
        /\ phase[q] = "update"
        /\ phase' = [phase EXCEPT ![q] = "ok"]
        /\ UNCHANGED <<op, seen>>
    BY DEF CompleteRun, Goto, session
  <1>2. op[q].kind = "complete" /\ op[q].status \in Over /\ op[q].run \in Run
    BY <1>1, OperationFields DEF TypeOK, PhaseOK, Over
  <1>3. Merged(q).status = IF op[q].status # seen[q].status THEN op[q].status
                           ELSE runs[op[q].run].status
    BY DEF Merged
  <1>4. seen[q].status \in Over => runs[op[q].run].status \in Over
    BY <1>1 DEF StatusInv, LoadedOverIsOver
  <1>5. Merged(q).status \in Over
    BY <1>2, <1>3, <1>4
  <1>6. LoadedOverIsOver'
    BY <1>1, <1>2, <1>5 DEF StatusInv, LoadedOverIsOver, TypeOK, PhaseOK, Over
  <1>7. \A r \in Run : Asked(r)' = IF r = op[q].run THEN Asked(r) \cup {op[q].status} ELSE Asked(r)
    BY <1>1, <1>2 DEF Asked, TypeOK
  <1>8. Merged(q).status \in Asked(op[q].run) \cup {op[q].status}
    BY <1>2, <1>3, <1>4 DEF StatusInv, StatusWasAsked, Asked, Over
  <1>9. ASSUME NEW r \in Run
        PROVE  /\ Asked(r)' # {} => runs'[r].status \in {"completed", "failed"}
               /\ runs'[r].status \in {"completed", "failed"} => runs'[r].status \in Asked(r)'
    <2>1. CASE r = op[q].run
      BY <2>1, <1>1, <1>5, <1>7, <1>8 DEF TypeOK, Over
    <2>2. CASE r # op[q].run
      <3>1. runs'[r] = runs[r] /\ Asked(r)' = Asked(r)
        BY <2>2, <1>1, <1>7 DEF TypeOK
      <3> QED BY <3>1 DEF StatusInv, StatusWasAsked, Asked
    <2> QED BY <2>1, <2>2
  <1>10. StatusWasAsked'
    BY <1>9 DEF StatusWasAsked, Asked
  <1> QED BY <1>6, <1>10 DEF StatusInv

LEMMA StatusStep == TypeInv /\ StatusInv /\ [Next]_vars => StatusInv'
  <1> SUFFICES ASSUME TypeInv, StatusInv, [Next]_vars PROVE StatusInv'
    OBVIOUS
  <1> USE DEF TypeInv
  <1>1. ASSUME NEW r \in Run, StartRun(r) PROVE StatusInv'
    <2>1. /\ runs[r].status = "absent"
          /\ runs' = [runs EXCEPT ![r].status = "running"]
          /\ UNCHANGED <<op, phase, seen>>
      BY <1>1 DEF StartRun, session
    <2>2. /\ runs'[r].status = "running"
          /\ \A s \in Run \ {r} : runs'[s] = runs[s]
      BY <2>1 DEF TypeOK, RunRow
    <2>3. LoadedOverIsOver'
      <3> SUFFICES ASSUME NEW p \in Request, phase[p] = "update"
                   PROVE  /\ seen[p].status \in Over => runs'[op[p].run].status \in Over
                          /\ runs'[op[p].run].status # "absent"
        BY <2>1 DEF LoadedOverIsOver
      <3>1. op[p].run \in Run /\ runs[op[p].run].status # "absent"
        BY OperationFields DEF StatusInv, LoadedOverIsOver, TypeOK
      <3> QED BY <2>1, <2>2, <3>1 DEF StatusInv, LoadedOverIsOver
    <2>4. \A x \in Run : Asked(x)' = Asked(x)
      BY <2>1 DEF Asked
    <2>5. Asked(r) = {}
      BY <2>1 DEF StatusInv, StatusWasAsked, Asked
    <2>6. \A x \in Run : /\ Asked(x) # {} => runs[x].status \in {"completed", "failed"}
                         /\ runs[x].status \in {"completed", "failed"} => runs[x].status \in Asked(x)
      BY DEF StatusInv, StatusWasAsked, Asked
    <2>7. \A x \in Run : /\ Asked(x)' # {} => runs'[x].status \in {"completed", "failed"}
                         /\ runs'[x].status \in {"completed", "failed"} => runs'[x].status \in Asked(x)'
      BY <2>2, <2>4, <2>5, <2>6
    <2>8. StatusWasAsked'
      BY <2>7 DEF StatusWasAsked, Asked
    <2> QED BY <2>3, <2>8 DEF StatusInv
  <1>2. ASSUME NEW q \in Request, Receive(q) PROVE StatusInv'
    BY <1>2, StatusFrame
    DEF Receive, ReceiveUnknown, ReceiveToolCall, ReceiveCapture, ReceiveCompletion,
        ToIndexing, Goto, TypeOK, tables, session
  <1>3. ASSUME NEW q \in Request, ResolveContract(q) PROVE StatusInv'
    BY <1>3, StatusFrame DEF ResolveContract, Goto, TypeOK, tables
  <1>4. ASSUME NEW q \in Request, DefineContract(q) PROVE StatusInv'
    BY <1>4, StatusFrame DEF DefineContract, Abort, Goto, TypeOK, tables
  <1>5. ASSUME NEW q \in Request, ExecuteTool(q) PROVE StatusInv'
    BY <1>5, StatusFrame DEF ExecuteTool, ToIndexing, Goto, TypeOK, tables
  <1>6. ASSUME NEW q \in Request, ReadNextIndex(q) PROVE StatusInv'
    BY <1>6, StatusFrame DEF ReadNextIndex, Goto, TypeOK, tables
  <1>7. ASSUME NEW q \in Request, InsertStep(q) PROVE StatusInv'
    BY <1>7, StatusFrame DEF InsertStep, Abort, Goto, TypeOK, tables
  <1>8. ASSUME NEW q \in Request, CommitStep(q) PROVE StatusInv'
    <2>1. op[q].kind # "complete"
      BY <1>8 DEF CommitStep, PhaseOK, Recording
    <2> QED BY <1>8, <2>1, StatusFrame DEF CommitStep, Goto, TypeOK
  <1>9. ASSUME NEW q \in Request, CompleteRun(q) PROVE StatusInv'
    BY <1>9, StatusWritten
  <1>10. CASE Restart
    BY <1>10, StatusFrame DEF Restart, Working, TypeOK
  <1>11. CASE UNCHANGED vars
    BY <1>11, StatusFrame DEF vars, tables, session
  <1> QED
    BY <1>1, <1>2, <1>3, <1>4, <1>5, <1>6, <1>7, <1>8, <1>9, <1>10, <1>11 DEF Next, Serve

(* A run is over exactly when a completion was answered, with a status that *)
(* an answered completion asked for, although the UPDATE of a stale session *)
(* leaves the status column alone: complete_run.                            *)
THEOREM StatusWasAskedCorrect == Spec => []StatusWasAsked
  <1>1. StatusInv => StatusWasAsked
    BY DEF StatusInv
  <1> QED BY <1>1, StatusInit, StatusStep, TypeInvariant, PTL DEF Spec
-----------------------------------------------------------------------------
LEMMA MetaInit == Init => MetaInv
  BY DEF Init, NoRun, MetaInv, MetaAnswered, LoadedCausal, MetadataCausal

(* A step that writes no metadata and loads a row only into the session of  *)
(* a request that has just been received.                                   *)
LEMMA MetaFrame ==
    ASSUME TypeInv, MetaInv, UNCHANGED op,
           \A r \in Run : runs'[r].meta = runs[r].meta,
           \A p \in Request :
              /\ phase[p] = "ok" => phase'[p] = "ok"
              /\ \/ seen'[p] = seen[p]
                 \/ phase[p] # "ok" /\ \E r \in Run : seen'[p] = runs[r]
    PROVE  MetaInv'
  <1> USE DEF TypeInv
  <1>1. \A r \in Run : runs[r].meta \subseteq Request
    BY DEF TypeOK, RunRow
  <1>2. \A q \in Request : seen[q].meta \subseteq Request
    BY DEF TypeOK, RunRow
  <1>3. \A p \in Request : phase[p] = "ok" => seen'[p] = seen[p]
    OBVIOUS
  <1>4. MetaAnswered'
    BY <1>1, <1>2 DEF MetaInv, MetaAnswered
  <1>5. LoadedCausal'
    <2> SUFFICES ASSUME NEW q \in Request, NEW p \in seen'[q].meta
                 PROVE  seen'[p].meta \subseteq seen'[q].meta
      BY DEF LoadedCausal
    <2>1. CASE seen'[q] = seen[q]
      BY <1>2, <1>3, <2>1 DEF MetaInv, MetaAnswered, LoadedCausal
    <2>2. CASE \E r \in Run : seen'[q] = runs[r]
      BY <1>1, <1>3, <2>2 DEF MetaInv, MetaAnswered, MetadataCausal
    <2> QED BY <2>1, <2>2
  <1>6. MetadataCausal'
    BY <1>1, <1>3 DEF MetaInv, MetaAnswered, MetadataCausal
  <1> QED BY <1>4, <1>5, <1>6 DEF MetaInv

LEMMA MetaStep == TypeInv /\ MetaInv /\ [Next]_vars => MetaInv'
  <1> SUFFICES ASSUME TypeInv, MetaInv, [Next]_vars PROVE MetaInv'
    OBVIOUS
  <1> USE DEF TypeInv
  <1>1. ASSUME NEW r \in Run, StartRun(r) PROVE MetaInv'
    <2>1. \A x \in Run : runs'[x].meta = runs[x].meta
      BY <1>1 DEF StartRun, TypeOK, RunRow
    <2> QED BY <1>1, <2>1, MetaFrame DEF StartRun, session
  <1>2. ASSUME NEW q \in Request, Receive(q) PROVE MetaInv'
    <2>1. op[q].run \in Run
      BY OperationFields DEF TypeOK
    <2> QED
      BY <1>2, <2>1, MetaFrame
      DEF Receive, ReceiveUnknown, ReceiveToolCall, ReceiveCapture, ReceiveCompletion,
          ToIndexing, Goto, TypeOK, tables, session
  <1>3. ASSUME NEW q \in Request, Serve(q), ~CompleteRun(q) PROVE MetaInv'
    BY <1>3, MetaFrame
    DEF Serve, ResolveContract, DefineContract, ExecuteTool, ReadNextIndex, InsertStep,
        CommitStep, ToIndexing, Abort, Goto, TypeOK, tables
  <1>4. ASSUME NEW q \in Request, CompleteRun(q) PROVE MetaInv'
    <2>1. /\ runs' = [runs EXCEPT ![op[q].run] = Merged(q)]
          /\ phase[q] = "update"
          /\ phase' = [phase EXCEPT ![q] = "ok"]
          /\ UNCHANGED <<op, seen>>
      BY <1>4 DEF CompleteRun, Goto, session
    <2>2. op[q].run \in Run
      BY OperationFields DEF TypeOK
    <2>3. Merged(q).meta = IF op[q].meta THEN seen[q].meta \cup {q} ELSE runs[op[q].run].meta
      BY DEF Merged
    <2>4. /\ runs'[op[q].run].meta = Merged(q).meta
          /\ \A r \in Run \ {op[q].run} : runs'[r] = runs[r]
      BY <2>1, <2>2 DEF TypeOK
    <2>5. \A p \in Request : phase[p] = "ok" => phase'[p] = "ok"
      BY <2>1 DEF TypeOK
    <2>6. phase'[q] = "ok"
      BY <2>1 DEF TypeOK
    <2>7. \A r \in Run : runs[r].meta \subseteq Request /\ seen[q].meta \subseteq Request
      BY DEF TypeOK, RunRow
    <2>8. MetaAnswered'
      <3>1. \A r \in Run : \A p \in runs'[r].meta : phase'[p] = "ok"
        BY <2>3, <2>4, <2>5, <2>6, <2>7 DEF MetaInv, MetaAnswered
      <3>2. \A x \in Request : \A p \in seen'[x].meta : phase'[p] = "ok"
        BY <2>1, <2>5 DEF MetaInv, MetaAnswered, TypeOK, RunRow
      <3> QED BY <3>1, <3>2 DEF MetaAnswered
    <2>9. LoadedCausal'
      BY <2>1 DEF MetaInv, LoadedCausal
    <2>10. MetadataCausal'
      <3> SUFFICES ASSUME NEW r \in Run, NEW p \in runs'[r].meta
                   PROVE  seen[p].meta \subseteq runs'[r].meta
        BY <2>1 DEF MetadataCausal
      <3>1. CASE runs'[r].meta = runs[r].meta
        BY <3>1 DEF MetaInv, MetadataCausal
      <3>2. CASE runs'[r].meta = seen[q].meta \cup {q}
        BY <3>2 DEF MetaInv, LoadedCausal
      <3> QED BY <2>3, <2>4, <3>1, <3>2
    <2> QED BY <2>8, <2>9, <2>10 DEF MetaInv
  <1>5. CASE Restart
    BY <1>5, MetaFrame DEF Restart, Working, TypeOK
  <1>6. CASE UNCHANGED vars
    BY <1>6, MetaFrame DEF vars, tables, session
  <1> QED BY <1>1, <1>2, <1>3, <1>4, <1>5, <1>6 DEF Next

(* Completions that overlap may lose each other's metadata, but what a      *)
(* completion had read is kept as long as its own is: the merge of          *)
(* complete_run over the row its session loaded.                            *)
THEOREM MetadataCausalCorrect == Spec => []MetadataCausal
  <1>1. MetaInv => MetadataCausal
    BY DEF MetaInv
  <1> QED BY <1>1, MetaInit, MetaStep, TypeInvariant, PTL DEF Spec
=============================================================================
