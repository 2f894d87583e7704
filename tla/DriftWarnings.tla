---------------------------- MODULE DriftWarnings ----------------------------
(***************************************************************************)
(* The table drift_warnings and its writers, added to the trace store.      *)
(* The gateway checks a step for drift in the transaction that records it;  *)
(* POST /drift/check and /runs/{id}/drift/check-all check recorded steps    *)
(* again; a strict or exploratory replay warns of the write it blocked.     *)
(* All of them go through log_drift_warning, which looks for a row of the   *)
(* same step and type before it inserts one; no constraint stands behind    *)
(* it.  A warning is visible to others when its transaction commits.        *)
(***************************************************************************)
EXTENDS TraceStore

CONSTANTS
    Check,          \* requests that check or replay what is recorded
    NoStep          \* the step_id of a replay event without a recorded step

ASSUME NoStepAssumption == NoStep \notin Request

VARIABLES
    warnings,       \* table drift_warnings, committed rows
    checks          \* the checking requests and their sessions

dvars == <<warnings, checks>>

Shape       == {"input_schema_drift", "output_schema_drift"}
WarningType == Shape \cup {"descriptor_drift", "side_effect_blocked"}
Key         == [step : Request \cup {NoStep}, type : WarningType]
WarningRow  == [by : Request \cup Check, key : Key]

(* kind     - "drift" or "replay"                                           *)
(* reported - the findings of the request                                   *)
(* todo     - those it has not passed to log_drift_warning yet              *)
(* found    - the rows it has inserted, uncommitted                         *)
(* base     - the rows that were committed when it began                    *)
CheckState == [phase    : {"idle", "logging", "ok", "failed", "lost"},
               kind     : {"drift", "replay"},
               reported : SUBSET Key,
               todo     : SUBSET Key,
               found    : SUBSET WarningRow,
               base     : SUBSET WarningRow]

Fresh == [phase |-> "idle", kind |-> "drift", reported |-> {}, todo |-> {}, found |-> {}, base |-> {}]
-----------------------------------------------------------------------------
DriftInit == /\ Init
             /\ warnings = {}
             /\ checks = [c \in Check |-> Fresh]

(* check_step in the recording transaction: the session's contract is the   *)
(* one the snapshot names, so only the shapes can differ.  No other session *)
(* can know the step, so no row for it exists.                              *)
ShapeFindings(q) ==
    IF op[q].kind = "tool" THEN SUBSET [step : {q}, type : Shape] ELSE {{}}

RecordAndCheck(q) ==
    /\ CommitStep(q)
    /\ \E keys \in ShapeFindings(q) : warnings' = warnings \cup [by : {q}, key : keys]
    /\ UNCHANGED checks

(* check_step of a recorded tool step: the shapes are data, the descriptor  *)
(* has drifted when the contract is of another generation than the step.    *)
DescriptorFindings(s) ==
    {[step |-> s.by, type |-> "descriptor_drift"] :
        c \in {d \in contracts : d.tool = op[s.by].tool /\ d.gen # s.gen}}

(* Begin a request that will log the given findings.                        *)
Begin(c, kind, keys) ==
    /\ checks[c].phase = "idle"
    /\ checks' = [checks EXCEPT ![c] =
          [phase |-> "logging", kind |-> kind, reported |-> keys, todo |-> keys,
           found |-> {}, base |-> warnings]]
    /\ UNCHANGED <<vars, warnings>>

ToolSteps(r) == {s \in StepsOf(r) : op[s.by].kind = "tool"}

(* POST /drift/check: one step, nothing to find on an llm step.             *)
CheckStep(c) ==
    \E s \in steps :
        \/ op[s.by].kind # "tool" /\ Begin(c, "drift", {})
        \/ /\ op[s.by].kind = "tool"
           /\ \E shapes \in ShapeFindings(s.by) :
                 Begin(c, "drift", shapes \cup DescriptorFindings(s))

(* POST /runs/{id}/drift/check-all: the tool steps of a run.                *)
CheckRun(c) ==
    \E r \in Run :
        /\ ToolSteps(r) # {}
        /\ \E shapes \in SUBSET [step : {s.by : s \in ToolSteps(r)}, type : Shape] :
              Begin(c, "drift", shapes \cup UNION {DescriptorFindings(s) : s \in ToolSteps(r)})

(* A replay logs the write tool the firewall blocked, if the workflow came  *)
(* to one, against the recorded step its cursor was at, if there was one.   *)
Replay(c) ==
    \E r \in Run :
        /\ runs[r].status # "absent"
        /\ \/ Begin(c, "replay", {})
           \/ \E step \in {s.by : s \in StepsOf(r)} \cup {NoStep} :
                 Begin(c, "replay", {[step |-> step, type |-> "side_effect_blocked"]})
-----------------------------------------------------------------------------
Rows(k) == {w \in warnings : w.key = k}

(* Mutant: no SELECT before the INSERT.                                     *)
LogBlindly(c) ==
    /\ checks[c].phase = "logging"
    /\ \E k \in checks[c].todo :
          checks' = [checks EXCEPT ![c].todo  = @ \ {k},
                                   ![c].found = @ \cup {[by |-> c, key |-> k]}]
    /\ UNCHANGED <<vars, warnings>>

(* Mutant: scalar_one, which also fails when there is no row.               *)
LogExpectingOne(c) ==
    /\ checks[c].phase = "logging"
    /\ \E k \in checks[c].todo :
          checks' = IF \E w \in Rows(k) : Rows(k) = {w}
                    THEN [checks EXCEPT ![c].todo = @ \ {k}]
                    ELSE [checks EXCEPT ![c].phase = "failed", ![c].found = {}]
    /\ UNCHANGED <<vars, warnings>>

(* Mutant: the session is not rolled back when the SELECT raises.           *)
LogFailsOpen(c) ==
    /\ checks[c].phase = "logging"
    /\ \E k \in checks[c].todo :
          checks' = IF Rows(k) = {} \/ k.step = NoStep
                    THEN [checks EXCEPT ![c].todo  = @ \ {k},
                                        ![c].found = @ \cup {[by |-> c, key |-> k]}]
                    ELSE IF \E v, w \in Rows(k) : v # w
                    THEN [checks EXCEPT ![c].phase = "failed"]
                    ELSE [checks EXCEPT ![c].todo = @ \ {k}]
    /\ UNCHANGED <<vars, warnings>>

(* log_drift_warning: SELECT, then INSERT when there is no row.  More than  *)
(* one row raises MultipleResultsFound: 500, and a rollback.  The INSERT    *)
(* touches nothing another session sees, so both are one step.              *)
LogWarning(c) ==
    /\ checks[c].phase = "logging"
    /\ \E k \in checks[c].todo :
          \/ /\ k.step # NoStep
             /\ \E v, w \in Rows(k) : v # w
             /\ checks' = [checks EXCEPT ![c].phase = "failed", ![c].found = {}]
          \/ /\ k.step # NoStep
             /\ \E w \in Rows(k) : Rows(k) = {w}
             /\ checks' = [checks EXCEPT ![c].todo = @ \ {k}]
          \/ /\ k.step = NoStep \/ Rows(k) = {}
             /\ checks' = [checks EXCEPT ![c].todo  = @ \ {k},
                                         ![c].found = @ \cup {[by |-> c, key |-> k]}]
    /\ UNCHANGED <<vars, warnings>>

(* Mutant: the route answers without a commit.                              *)
FinishUncommitted(c) ==
    /\ checks[c].phase = "logging" /\ checks[c].todo = {}
    /\ checks' = [checks EXCEPT ![c].phase = "ok"]
    /\ UNCHANGED <<vars, warnings>>

(* The route's commit; a replay stores its replays row in the same one.     *)
FinishCheck(c) ==
    /\ checks[c].phase = "logging"
    /\ checks[c].todo = {}
    /\ warnings' = warnings \cup checks[c].found
    /\ checks' = [checks EXCEPT ![c].phase = "ok"]
    /\ UNCHANGED vars

RestartAll ==
    /\ Restart
    /\ checks' = [c \in Check |-> IF checks[c].phase = "logging"
                                  THEN [checks[c] EXCEPT !.phase = "lost", !.found = {}]
                                  ELSE checks[c]]
    /\ UNCHANGED warnings

StoreStep == \/ \E r \in Run : StartRun(r)
             \/ \E q \in Request : Receive(q)
             \/ \E q \in Request : phase[q] # "commit" /\ Serve(q)

DriftNext == \/ StoreStep /\ UNCHANGED dvars
             \/ \E q \in Request : RecordAndCheck(q)
             \/ \E c \in Check : CheckStep(c) \/ CheckRun(c) \/ Replay(c)
             \/ \E c \in Check : LogWarning(c) \/ FinishCheck(c)
             \/ RestartAll

DriftSpec == DriftInit /\ [][DriftNext]_<<vars, dvars>>
-----------------------------------------------------------------------------
DriftTypeOK == /\ warnings \subseteq WarningRow
               /\ checks \in [Check -> CheckState]
               /\ \A c \in Check :
                     /\ checks[c].todo \subseteq checks[c].reported
                     /\ \A w \in checks[c].found : w.by = c /\ w.key \in checks[c].reported
                     /\ checks[c].phase \in {"failed", "lost"} => checks[c].found = {}

(* A check or replay repeats no warning that was there when it began, in    *)
(* the database or in its session: two rows of one (step, type) come only   *)
(* from requests that overlapped.  The docstring of the route and the text  *)
(* of the dialog say otherwise: RecheckAppends.                             *)
DuplicatesNeedOverlap ==
    \A c \in Check :
        \A w \in checks[c].found, v \in checks[c].base :
            w.key = v.key => w.key.step = NoStep

(* A check or replay is answered 500 only when two requests that overlapped *)
(* have left two rows for one of its findings.                              *)
FailsOnDuplicatesOnly ==
    \A c \in Check : checks[c].phase = "failed" =>
        \E k \in checks[c].reported : \E v, w \in Rows(k) : v # w

(* checker.py: findings are written before the caller hears of them: every  *)
(* finding of an answered check has a row, one of its own or an older one.  *)
FindingsPersisted ==
    \A c \in Check : checks[c].phase = "ok" =>
        \A k \in checks[c].reported : Rows(k) # {}

(* routes/drift.py: "Previously recorded findings for the same step are not *)
(* deduplicated here", and the dialog that starts a check: "Results are     *)
(* appended, not replaced."  So each finding of an answered check has a row *)
(* which that check inserted.                                               *)
RecheckAppends ==
    \A c \in Check : checks[c].phase = "ok" /\ checks[c].kind = "drift" =>
        \A k \in checks[c].reported : [by |-> c, key |-> k] \in warnings

(* SPEC.md: rechecking the same (step_id, warning_type) is idempotent.      *)
OneRowPerFinding ==
    \A v, w \in warnings : v.key = w.key /\ v.key.step # NoStep => v = w
=============================================================================
