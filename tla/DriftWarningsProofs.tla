-------------------------- MODULE DriftWarningsProofs --------------------------
(***************************************************************************)
(* Proofs about the drift warnings, for every set of requests and checks:   *)
(* the store with warnings is a store, and what checks may repeat or miss.  *)
(***************************************************************************)
EXTENDS DriftWarnings, TraceStoreProofs

allvars == <<vars, dvars>>

(* The rows of a session are answers to its findings; a finding it has      *)
(* dealt with has a row in the database or in its session; what it began    *)
(* with is still there.                                                     *)
DealtWith ==
    \A c \in Check : checks[c].phase = "logging" =>
        \A k \in checks[c].reported :
            \/ k \in checks[c].todo
            \/ Rows(k) # {}
            \/ \E w \in checks[c].found : w.key = k

BaseStays == \A c \in Check : checks[c].base \subseteq warnings

DriftInv == /\ DriftTypeOK
            /\ DealtWith
            /\ BaseStays
            /\ DuplicatesNeedOverlap
            /\ FailsOnDuplicatesOnly
            /\ FindingsPersisted
-----------------------------------------------------------------------------
LEMMA DriftStepIsStoreStep == [DriftNext]_allvars => [Next]_vars
  BY DEF DriftNext, allvars, dvars, Next, StoreStep, RecordAndCheck, Serve, CheckStep, CheckRun,
         Replay, Begin, LogWarning, FinishCheck, RestartAll

(* The store with warnings implements the store: a check leaves its tables  *)
(* alone, so what is proved of TraceStore holds of it.                      *)
THEOREM DriftImplementsStore == DriftSpec => Spec
  <1>1. DriftInit => Init
    BY DEF DriftInit
  <1>2. [DriftNext]_allvars => [Next]_vars
    BY DriftStepIsStoreStep
  <1> QED BY <1>1, <1>2, PTL DEF DriftSpec, Spec, allvars

LEMMA DriftInitial == DriftInit => DriftInv
  <1> SUFFICES ASSUME DriftInit PROVE DriftInv
    OBVIOUS
  <1>1. Fresh \in CheckState
    BY DEF Fresh, CheckState
  <1>2. DriftTypeOK
    BY <1>1 DEF DriftInit, DriftTypeOK, Fresh
  <1>3. /\ DealtWith /\ BaseStays /\ DuplicatesNeedOverlap /\ FailsOnDuplicatesOnly
        /\ FindingsPersisted
    BY DEF DriftInit, Fresh, DealtWith, BaseStays, DuplicatesNeedOverlap, FailsOnDuplicatesOnly,
           FindingsPersisted
  <1> QED BY <1>2, <1>3 DEF DriftInv

(* Rows are only added, and each check is left alone or closed.             *)
LEMMA DriftFrame ==
    ASSUME DriftInv, warnings \subseteq warnings', warnings' \subseteq WarningRow,
           checks' \in [Check -> CheckState],
           \A c \in Check : \/ checks'[c] = checks[c]
                            \/ checks'[c].phase = "lost" /\ checks'[c].found = {}
                               /\ checks'[c].reported = checks[c].reported
                               /\ checks'[c].todo = checks[c].todo
                               /\ checks'[c].base = checks[c].base
    PROVE  DriftInv'
  <1>1. DriftTypeOK'
    BY DEF DriftInv, DriftTypeOK
  <1>2. \A k : Rows(k) \subseteq Rows(k)'
    BY DEF Rows
  <1>3. DealtWith'
    BY <1>2 DEF DriftInv, DealtWith
  <1>4. BaseStays'
    BY DEF DriftInv, BaseStays
  <1>5. DuplicatesNeedOverlap'
    BY DEF DriftInv, DuplicatesNeedOverlap
  <1>6. FailsOnDuplicatesOnly'
    BY <1>2 DEF DriftInv, FailsOnDuplicatesOnly
  <1>7. FindingsPersisted'
    BY <1>2 DEF DriftInv, FindingsPersisted
  <1> QED BY <1>1, <1>3, <1>4, <1>5, <1>6, <1>7 DEF DriftInv

LEMMA FindingsTyped ==
    ASSUME TypeInv, NEW s \in steps
    PROVE  /\ s.by \in Request
           /\ \A shapes \in ShapeFindings(s.by) : shapes \subseteq Key
           /\ DescriptorFindings(s) \subseteq Key
  <1>1. s.by \in Request
    BY DEF TypeInv, TypeOK, StepRow
  <1>2. \A t \in Shape \cup {"descriptor_drift"} : [step |-> s.by, type |-> t] \in Key
    BY <1>1 DEF Key, WarningType
  <1>3. [step : {s.by}, type : Shape] \subseteq Key
    BY <1>1 DEF Key, WarningType
  <1>4. \A shapes \in ShapeFindings(s.by) : shapes \subseteq Key
    BY <1>3 DEF ShapeFindings
  <1>5. DescriptorFindings(s) \subseteq Key
    BY <1>2 DEF DescriptorFindings
  <1> QED BY <1>1, <1>4, <1>5

(* A request begins with the rows that are committed.                       *)
LEMMA BeginKeeps ==
    ASSUME DriftInv, NEW c \in Check, NEW kind \in {"drift", "replay"}, NEW keys \in SUBSET Key,
           Begin(c, kind, keys)
    PROVE  DriftInv'
  <1> DEFINE new == [phase |-> "logging", kind |-> kind, reported |-> keys, todo |-> keys,
                     found |-> {}, base |-> warnings]
  <1>1. new \in CheckState
    BY DEF CheckState, DriftInv, DriftTypeOK
  <1>2. /\ new.phase = "logging" /\ new.reported = keys /\ new.todo = keys /\ new.found = {}
        /\ new.base = warnings
    OBVIOUS
  <1>3. checks' = [checks EXCEPT ![c] = new] /\ warnings' = warnings
    BY DEF Begin
  <1> HIDE DEF new
  <1>4. DriftTypeOK'
    BY <1>1, <1>2, <1>3 DEF DriftInv, DriftTypeOK
  <1>5. checks'[c] = new /\ \A d \in Check \ {c} : checks'[d] = checks[d]
    BY <1>3 DEF DriftInv, DriftTypeOK
  <1>6. DealtWith'
    BY <1>2, <1>3, <1>5 DEF DriftInv, DealtWith, Rows
  <1>7. BaseStays'
    BY <1>2, <1>3, <1>5 DEF DriftInv, BaseStays
  <1>8. DuplicatesNeedOverlap'
    BY <1>2, <1>5 DEF DriftInv, DuplicatesNeedOverlap
  <1>9. FailsOnDuplicatesOnly' /\ FindingsPersisted'
    BY <1>2, <1>3, <1>5 DEF DriftInv, FailsOnDuplicatesOnly, FindingsPersisted, Rows
  <1> QED BY <1>4, <1>6, <1>7, <1>8, <1>9 DEF DriftInv

(* log_drift_warning: whichever way it goes, the finding is dealt with, or  *)
(* there are two rows to show for the failure.                              *)
LEMMA LogKeeps ==
    ASSUME DriftInv, NEW c \in Check, LogWarning(c)
    PROVE  DriftInv'
  <1> DEFINE old == checks[c]
  <1>1. PICK k \in old.todo :
          \/ /\ \E v, w \in Rows(k) : v # w
             /\ checks' = [checks EXCEPT ![c].phase = "failed", ![c].found = {}]
          \/ /\ \E w \in Rows(k) : Rows(k) = {w}
             /\ checks' = [checks EXCEPT ![c].todo = @ \ {k}]
          \/ /\ k.step = NoStep \/ Rows(k) = {}
             /\ checks' = [checks EXCEPT ![c].todo  = @ \ {k},
                                         ![c].found = @ \cup {[by |-> c, key |-> k]}]
    BY DEF LogWarning
  <1>2. /\ old \in CheckState /\ old.phase = "logging" /\ k \in old.reported /\ k \in Key
        /\ warnings' = warnings
    BY <1>1 DEF LogWarning, DriftInv, DriftTypeOK, CheckState
  <1>3. \A d \in Check \ {c} : checks'[d] = checks[d]
    BY <1>1 DEF DriftInv, DriftTypeOK
  <1>4. \A x : Rows(x)' = Rows(x)
    BY <1>2 DEF Rows
  <1>5. CASE checks' = [checks EXCEPT ![c].phase = "failed", ![c].found = {}]
             /\ \E v, w \in Rows(k) : v # w
    <2>1. checks'[c] = [old EXCEPT !.phase = "failed", !.found = {}]
      BY <1>5 DEF DriftInv, DriftTypeOK
    <2>2. DriftTypeOK'
      BY <1>2, <1>5 DEF DriftInv, DriftTypeOK, CheckState
    <2>3. /\ checks'[c].phase = "failed" /\ checks'[c].found = {}
          /\ checks'[c].reported = old.reported /\ checks'[c].base = old.base
      BY <1>2, <2>1 DEF CheckState
    <2>4. DealtWith' /\ BaseStays' /\ DuplicatesNeedOverlap'
      BY <1>2, <1>3, <1>4, <2>3 DEF DriftInv, DealtWith, BaseStays, DuplicatesNeedOverlap
    <2>5. FailsOnDuplicatesOnly'
      BY <1>2, <1>3, <1>4, <1>5, <2>3 DEF DriftInv, FailsOnDuplicatesOnly
    <2>6. FindingsPersisted'
      BY <1>3, <1>4, <2>3 DEF DriftInv, FindingsPersisted
    <2> QED BY <2>2, <2>4, <2>5, <2>6 DEF DriftInv
  <1>6. CASE checks' = [checks EXCEPT ![c].todo = @ \ {k}] /\ \E w \in Rows(k) : Rows(k) = {w}
    <2>1. checks'[c] = [old EXCEPT !.todo = @ \ {k}]
      BY <1>6 DEF DriftInv, DriftTypeOK
    <2>2. DriftTypeOK'
      BY <1>2, <1>6 DEF DriftInv, DriftTypeOK, CheckState
    <2>3. /\ checks'[c].phase = "logging" /\ checks'[c].found = old.found
          /\ checks'[c].reported = old.reported /\ checks'[c].base = old.base
          /\ checks'[c].todo = old.todo \ {k}
      BY <1>2, <2>1 DEF CheckState
    <2>4. DealtWith'
      BY <1>2, <1>3, <1>4, <1>6, <2>3 DEF DriftInv, DealtWith
    <2>5. BaseStays' /\ DuplicatesNeedOverlap'
      BY <1>2, <1>3, <1>4, <2>3 DEF DriftInv, BaseStays, DuplicatesNeedOverlap
    <2>6. FailsOnDuplicatesOnly' /\ FindingsPersisted'
      BY <1>3, <1>4, <2>3 DEF DriftInv, FailsOnDuplicatesOnly, FindingsPersisted
    <2> QED BY <2>2, <2>4, <2>5, <2>6 DEF DriftInv
  <1>7. CASE /\ checks' = [checks EXCEPT ![c].todo  = @ \ {k},
                                         ![c].found = @ \cup {[by |-> c, key |-> k]}]
             /\ k.step = NoStep \/ Rows(k) = {}
    <2> DEFINE row == [by |-> c, key |-> k]
    <2>0. row \in WarningRow /\ row.key = k /\ row.by = c
      BY <1>2 DEF WarningRow
    <2>1. checks'[c] = [old EXCEPT !.todo = @ \ {k}, !.found = @ \cup {row}]
      BY <1>7 DEF DriftInv, DriftTypeOK
    <2> HIDE DEF row
    <2>2. /\ checks'[c].phase = "logging" /\ checks'[c].found = old.found \cup {row}
          /\ checks'[c].reported = old.reported /\ checks'[c].base = old.base
          /\ checks'[c].todo = old.todo \ {k} /\ checks'[c] \in CheckState
      <3>1. old.found \cup {row} \in SUBSET WarningRow /\ old.todo \ {k} \in SUBSET Key
        BY <1>2, <2>0 DEF CheckState
      <3> QED BY <1>2, <2>1, <3>1 DEF CheckState
    <2>3. DriftTypeOK'
      <3>1. checks' \in [Check -> CheckState]
        BY <1>3, <1>7, <2>2 DEF DriftInv, DriftTypeOK
      <3> QED BY <1>2, <1>3, <2>0, <2>2, <3>1 DEF DriftInv, DriftTypeOK
    <2>4. DealtWith'
      BY <1>2, <1>3, <1>4, <2>0, <2>2 DEF DriftInv, DealtWith
    <2>5. BaseStays'
      BY <1>2, <1>3, <2>2 DEF DriftInv, BaseStays
    <2>6. DuplicatesNeedOverlap'
      <3>1. \A v \in old.base : v.key = k => k.step = NoStep
        BY <1>7 DEF DriftInv, BaseStays, Rows
      <3> QED BY <1>3, <2>0, <2>2, <3>1 DEF DriftInv, DuplicatesNeedOverlap
    <2>7. FailsOnDuplicatesOnly' /\ FindingsPersisted'
      BY <1>3, <1>4, <2>2 DEF DriftInv, FailsOnDuplicatesOnly, FindingsPersisted
    <2> QED BY <2>3, <2>4, <2>5, <2>6, <2>7 DEF DriftInv
  <1> QED BY <1>1, <1>5, <1>6, <1>7

(* The commit of a check: its rows are there for all to see.                *)
LEMMA FinishKeeps ==
    ASSUME DriftInv, NEW c \in Check, FinishCheck(c)
    PROVE  DriftInv'
  <1>1. /\ checks' = [checks EXCEPT ![c].phase = "ok"]
        /\ warnings' = warnings \cup checks[c].found
        /\ checks[c].phase = "logging" /\ checks[c].todo = {}
    BY DEF FinishCheck
  <1>2. /\ checks'[c] = [checks[c] EXCEPT !.phase = "ok"]
        /\ \A d \in Check \ {c} : checks'[d] = checks[d]
        /\ checks[c] \in CheckState
    BY <1>1 DEF DriftInv, DriftTypeOK
  <1>3. /\ checks'[c].phase = "ok" /\ checks'[c].found = checks[c].found
        /\ checks'[c].reported = checks[c].reported /\ checks'[c].base = checks[c].base
        /\ checks'[c].todo = checks[c].todo
    BY <1>2 DEF CheckState
  <1>4. DriftTypeOK'
    <2>1. checks' \in [Check -> CheckState]
      BY <1>1 DEF DriftInv, DriftTypeOK, CheckState
    <2>2. warnings' \subseteq WarningRow
      BY <1>1, <1>2 DEF DriftInv, DriftTypeOK, CheckState
    <2>3. ASSUME NEW d \in Check
          PROVE  /\ checks'[d].todo \subseteq checks'[d].reported
                 /\ \A w \in checks'[d].found : w.by = d /\ w.key \in checks'[d].reported
                 /\ checks'[d].phase \in {"failed", "lost"} => checks'[d].found = {}
      <3>1. CASE d = c
        BY <1>3, <3>1 DEF DriftInv, DriftTypeOK
      <3>2. CASE d # c
        BY <1>2, <3>2 DEF DriftInv, DriftTypeOK
      <3> QED BY <3>1, <3>2
    <2> QED BY <2>1, <2>2, <2>3 DEF DriftTypeOK
  <1>5. \A k : \A w \in Rows(k) : w \in Rows(k)'
    BY <1>1 DEF Rows
  <1>6. DealtWith'
    <2>1. ASSUME NEW d \in Check, checks'[d].phase = "logging" PROVE checks'[d] = checks[d]
      BY <1>2, <1>3, <2>1
    <2> QED BY <1>5, <2>1 DEF DriftInv, DealtWith
  <1>7. BaseStays' /\ DuplicatesNeedOverlap'
    <2>1. \A d \in Check : checks'[d].base = checks[d].base /\ checks'[d].found = checks[d].found
      BY <1>2, <1>3
    <2>2. BaseStays'
      BY <1>1, <2>1 DEF DriftInv, BaseStays
    <2>3. DuplicatesNeedOverlap'
      BY <2>1 DEF DriftInv, DuplicatesNeedOverlap
    <2> QED BY <2>2, <2>3
  <1>8. FailsOnDuplicatesOnly'
    <2> SUFFICES ASSUME NEW d \in Check, checks'[d].phase = "failed"
                 PROVE  \E k \in checks'[d].reported : \E v, w \in Rows(k)' : v # w
      BY DEF FailsOnDuplicatesOnly
    <2>1. checks'[d] = checks[d]
      BY <1>2, <1>3
    <2>2. PICK k \in checks[d].reported : \E v, w \in Rows(k) : v # w
      BY <2>1 DEF DriftInv, FailsOnDuplicatesOnly
    <2> QED BY <1>5, <2>1, <2>2
  <1>9. FindingsPersisted'
    <2>1. ASSUME NEW k \in checks[c].reported PROVE Rows(k)' # {}
      <3>1. CASE Rows(k) # {}
        BY <1>5, <3>1
      <3>2. CASE \E w \in checks[c].found : w.key = k
        BY <1>1, <3>2 DEF Rows
      <3> QED BY <1>1, <3>1, <3>2 DEF DriftInv, DealtWith
    <2> QED BY <1>2, <1>3, <1>5, <2>1 DEF DriftInv, FindingsPersisted
  <1> QED BY <1>4, <1>6, <1>7, <1>8, <1>9 DEF DriftInv

LEMMA DriftKeeps == TypeInv /\ DriftInv /\ [DriftNext]_allvars => DriftInv'
  <1> SUFFICES ASSUME TypeInv, DriftInv, [DriftNext]_allvars PROVE DriftInv'
    OBVIOUS
  <1>1. CASE UNCHANGED dvars
    BY <1>1, DriftFrame DEF dvars, DriftInv, DriftTypeOK
  <1>2. ASSUME NEW q \in Request, RecordAndCheck(q) PROVE DriftInv'
    <2>1. PICK keys \in ShapeFindings(q) : warnings' = warnings \cup [by : {q}, key : keys]
      BY <1>2 DEF RecordAndCheck
    <2>2. keys \subseteq Key
      BY <2>1 DEF ShapeFindings, Key, WarningType
    <2>3. warnings' \subseteq WarningRow
      BY <2>1, <2>2 DEF WarningRow, DriftInv, DriftTypeOK
    <2> QED BY <1>2, <2>1, <2>3, DriftFrame DEF RecordAndCheck, DriftInv, DriftTypeOK
  <1>3. ASSUME NEW c \in Check, CheckStep(c) PROVE DriftInv'
    <2>1. PICK s \in steps :
             \/ Begin(c, "drift", {})
             \/ \E shapes \in ShapeFindings(s.by) : Begin(c, "drift", shapes \cup DescriptorFindings(s))
      BY <1>3 DEF CheckStep
    <2>2. \A shapes \in ShapeFindings(s.by) : shapes \cup DescriptorFindings(s) \in SUBSET Key
      BY FindingsTyped
    <2>3. {} \in SUBSET Key
      OBVIOUS
    <2> QED BY <2>1, <2>2, <2>3, BeginKeeps
  <1>4. ASSUME NEW c \in Check, CheckRun(c) PROVE DriftInv'
    <2>1. PICK r \in Run :
             \E shapes \in SUBSET [step : {s.by : s \in ToolSteps(r)}, type : Shape] :
                Begin(c, "drift", shapes \cup UNION {DescriptorFindings(s) : s \in ToolSteps(r)})
      BY <1>4 DEF CheckRun
    <2>2. ToolSteps(r) \subseteq steps
      BY DEF ToolSteps, StepsOf
    <2>3. UNION {DescriptorFindings(s) : s \in ToolSteps(r)} \subseteq Key
      BY <2>2, FindingsTyped
    <2>4. [step : {s.by : s \in ToolSteps(r)}, type : Shape] \subseteq Key
      BY <2>2, FindingsTyped DEF Key, WarningType
    <2> QED BY <2>1, <2>3, <2>4, BeginKeeps
  <1>5. ASSUME NEW c \in Check, Replay(c) PROVE DriftInv'
    <2>1. PICK r \in Run :
             \/ Begin(c, "replay", {})
             \/ \E step \in {s.by : s \in StepsOf(r)} \cup {NoStep} :
                   Begin(c, "replay", {[step |-> step, type |-> "side_effect_blocked"]})
      BY <1>5 DEF Replay
    <2>2. \A step \in {s.by : s \in StepsOf(r)} \cup {NoStep} :
             {[step |-> step, type |-> "side_effect_blocked"]} \in SUBSET Key
      BY DEF Key, WarningType, StepsOf, TypeInv, TypeOK, StepRow
    <2>3. {} \in SUBSET Key
      OBVIOUS
    <2> QED BY <2>1, <2>2, <2>3, BeginKeeps
  <1>6. CASE RestartAll
    <2> DEFINE closed(c) == IF checks[c].phase = "logging"
                            THEN [checks[c] EXCEPT !.phase = "lost", !.found = {}] ELSE checks[c]
    <2>1. warnings' = warnings /\ checks' = [c \in Check |-> closed(c)]
      BY <1>6 DEF RestartAll
    <2>2. ASSUME NEW c \in Check
          PROVE  /\ closed(c) \in CheckState
                 /\ \/ closed(c) = checks[c]
                    \/ closed(c).phase = "lost" /\ closed(c).found = {}
                       /\ closed(c).reported = checks[c].reported
                       /\ closed(c).todo = checks[c].todo
                       /\ closed(c).base = checks[c].base
      <3>1. checks[c] \in CheckState
        BY DEF DriftInv, DriftTypeOK
      <3>2. CASE checks[c].phase = "logging"
        <4>1. closed(c) = [checks[c] EXCEPT !.phase = "lost", !.found = {}]
          BY <3>2
        <4> QED BY <3>1, <4>1 DEF CheckState
      <3>3. CASE checks[c].phase # "logging"
        BY <3>1, <3>3
      <3> QED BY <3>2, <3>3
    <2> HIDE DEF closed
    <2> QED BY <2>1, <2>2, DriftFrame DEF DriftInv, DriftTypeOK
  <1> QED
    BY <1>1, <1>2, <1>3, <1>4, <1>5, <1>6, LogKeeps, FinishKeeps DEF DriftNext, allvars

LEMMA DriftInvariant == DriftSpec => []DriftInv
  <1>1. DriftSpec => []TypeInv
    BY DriftImplementsStore, TypeInvariant, PTL
  <1> QED BY <1>1, DriftInitial, DriftKeeps, PTL DEF DriftSpec, allvars

(* The tables and sessions of the checks are of their type.                 *)
THEOREM DriftTypeCorrect == DriftSpec => []DriftTypeOK
  BY DriftInvariant, PTL DEF DriftInv

(* A check or a replay repeats no warning that was committed when it began. *)
THEOREM DuplicatesNeedOverlapCorrect == DriftSpec => []DuplicatesNeedOverlap
  BY DriftInvariant, PTL DEF DriftInv

(* The only way for a check to fail is scalar_one_or_none over two rows.    *)
THEOREM FailsOnDuplicatesOnlyCorrect == DriftSpec => []FailsOnDuplicatesOnly
  BY DriftInvariant, PTL DEF DriftInv

(* Every finding of an answered check has a row.                            *)
THEOREM FindingsPersistedCorrect == DriftSpec => []FindingsPersisted
  BY DriftInvariant, PTL DEF DriftInv

(* The guarantees of the store hold while checks and replays write warnings *)
(* beside it, in the transactions of the recorders and in their own.        *)
THEOREM StoreHoldsWithWarnings ==
    DriftSpec => /\ [](UniqueIndex /\ NoGaps /\ AnswersMatchSteps /\ ConflictHasWinner)
                 /\ [](StepsHaveContracts /\ StatusWasAsked /\ MetadataCausal)
                 /\ AppendOnly
  BY DriftImplementsStore, UniqueIndexCorrect, NoGapsCorrect, AnswersMatchStepsCorrect,
     ConflictHasWinnerCorrect, StepsHaveContractsCorrect, StatusWasAskedCorrect,
     MetadataCausalCorrect, AppendOnlyCorrect, PTL
=============================================================================
