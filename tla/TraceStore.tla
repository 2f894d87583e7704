------------------------------ MODULE TraceStore ------------------------------
(***************************************************************************)
(* The trace store of ProxyTrace: the tables runs, steps and tool_contracts *)
(* and the API handlers that record into them.  Every HTTP request runs in  *)
(* a database session of its own (db/session.py), so a request is a         *)
(* transaction whose statements interleave with those of the other          *)
(* requests at every `await'.  The database is PostgreSQL at its default    *)
(* isolation, READ COMMITTED: a SELECT sees committed rows only, an INSERT  *)
(* of a key that another transaction has inserted and not yet committed     *)
(* waits for that transaction, and an INSERT of a committed key fails.      *)
(*                                                                         *)
(* A step row is identified with the request that records it, so [by |-> q]*)
(* stands for the step_id.  Payloads are left out; what matters of them is  *)
(* the generation of the contract descriptor copied into the snapshot.      *)
(***************************************************************************)
EXTENDS Integers

CONSTANTS
    Run,            \* run ids
    Request,        \* HTTP requests, each received at most once
    Tool,           \* tool names
    Seeded,         \* the tools of DEFAULT_TOOL_DESCRIPTORS
    Operation,      \* what a request may ask for
    NoIndex,        \* the step_index of a request that names none
    MaxGeneration   \* bound on the releases that change the descriptors

ToolCall   == [kind : {"tool"}, run : Run, tool : Tool, index : Int \cup {NoIndex}]
LlmCapture == [kind : {"llm"}, run : Run, index : Int \cup {NoIndex}]
Completion == [kind : {"complete"}, run : Run,
               status : {"completed", "failed"}, meta : BOOLEAN]

ASSUME SeededAssumption     == Seeded \subseteq Tool
ASSUME OperationAssumption  == Operation \subseteq ToolCall \cup LlmCapture \cup Completion
ASSUME NoIndexAssumption    == NoIndex \notin Int
ASSUME GenerationAssumption == MaxGeneration \in Nat

VARIABLES
    runs,       \* table runs: status and the requests whose metadata it holds
    steps,      \* table steps, committed rows
    contracts,  \* table tool_contracts, committed rows
    release,    \* generation of the descriptors in the running code
    op,         \* what each request asks for
    phase,      \* where each request is in its handler
    idx,        \* the step_index a recording request will insert
    gen,        \* the descriptor generation a tool call resolved
    seen,       \* the runs row a completion loaded into its session
    defining,   \* requests with an uncommitted tool_contracts row
    executed    \* tool calls whose tool has been executed

tables  == <<runs, steps, contracts>>
session == <<idx, gen, seen, defining>>
vars    == <<tables, release, op, phase, session, executed>>

RunStatus == {"absent", "running", "completed", "failed"}
RunRow    == [status : RunStatus, meta : SUBSET Request]
StepRow   == [run : Run, index : Int, by : Request, gen : Nat]
Contract  == [tool : Tool, gen : Nat]

Working  == {"resolve", "define", "execute", "index", "insert", "commit", "update"}
Answered == {"ok", "not_found", "conflict", "lost"}
Phase    == {"idle"} \cup Working \cup Answered

NoRun == [status |-> "absent", meta |-> {}]
-----------------------------------------------------------------------------
Goto(q, p) == phase' = [phase EXCEPT ![q] = p]

StepsOf(r)   == {s \in steps : s.run = r}
IndexesOf(r) == {s.index : s \in StepsOf(r)}

(* Mutant: the SELECT sees the rows of open transactions too.               *)
DirtyNextIndexes(r) ==
    LET used == IndexesOf(r) \cup {idx[p] : p \in {x \in Request : phase[x] = "commit" /\ op[x].run = r}}
    IN  IF used = {} THEN {1} ELSE {i + 1 : i \in {j \in used : \A k \in used : k <= j}}

(* Mutant: max(step_index) of no rows is passed on as NULL.                 *)
NextIndexesOrNull(r) ==
    IF StepsOf(r) = {} THEN {NoIndex}
    ELSE {s.index + 1 : s \in {t \in StepsOf(r) : \A u \in StepsOf(r) : u.index <= t.index}}

(* next_step_index: the successor of the greatest committed index, 1 when   *)
(* there is none.  A set with one element.                                  *)
NextIndexes(r) ==
    IF StepsOf(r) = {} THEN {1}
    ELSE {s.index + 1 : s \in {t \in StepsOf(r) : \A u \in StepsOf(r) : u.index <= t.index}}

(* The two states of a unique key seen by an INSERT: committed, or inserted *)
(* by another transaction that is still open.                               *)
IndexTaken(q)  == idx[q] \in IndexesOf(op[q].run)
IndexHeld(q)   == \E p \in Request \ {q} :
                     /\ phase[p] = "commit"
                     /\ op[p].run = op[q].run
                     /\ idx[p] = idx[q]
ContractKnown(t) == \E c \in contracts : c.tool = t
ContractHeld(q)  == \E p \in defining \ {q} : op[p].tool = op[q].tool

(* Mutant: the IntegrityError is swallowed and the client gets 200.         *)
AbortAnswersOk(q) == defining' = defining \ {q} /\ Goto(q, "ok")

(* A statement failed: the session is rolled back and the client gets 500.  *)
Abort(q) == /\ defining' = defining \ {q}
            /\ Goto(q, "conflict")
-----------------------------------------------------------------------------
Init == /\ runs = [r \in Run |-> NoRun]
        /\ steps = {}
        /\ contracts = [tool : Seeded, gen : {0}]
        /\ release = 0
        /\ op \in [Request -> Operation]
        /\ phase = [q \in Request |-> "idle"]
        /\ idx = [q \in Request |-> 0]
        /\ gen = [q \in Request |-> 0]
        /\ seen = [q \in Request |-> NoRun]
        /\ defining = {}
        /\ executed = {}

(* POST /runs: one INSERT with a fresh uuid, which nothing can contend for. *)
StartRun(r) ==
    /\ runs[r].status = "absent"
    /\ runs' = [runs EXCEPT ![r].status = "running"]
    /\ UNCHANGED <<steps, contracts, release, op, phase, session, executed>>

(* The entry of every handler: get_run_for_workspace, or 404.               *)
ReceiveUnknown(q) ==
    /\ phase[q] = "idle"
    /\ runs[op[q].run].status = "absent"
    /\ Goto(q, "not_found")
    /\ UNCHANGED <<tables, release, op, session, executed>>

(* With no step_index in the request the handler looks for the next one.    *)
ToIndexing(q) ==
    IF op[q].index = NoIndex
    THEN Goto(q, "index") /\ UNCHANGED idx
    ELSE Goto(q, "insert") /\ idx' = [idx EXCEPT ![q] = op[q].index]

ReceiveToolCall(q) ==
    /\ phase[q] = "idle" /\ op[q].kind = "tool"
    /\ runs[op[q].run].status # "absent"
    /\ Goto(q, "resolve")
    /\ UNCHANGED <<tables, release, op, session, executed>>

ReceiveCapture(q) ==
    /\ phase[q] = "idle" /\ op[q].kind = "llm"
    /\ runs[op[q].run].status # "absent"
    /\ ToIndexing(q)
    /\ UNCHANGED <<tables, release, op, gen, seen, defining, executed>>

(* The run is loaded here; complete_run's session.get answers from the      *)
(* identity map and reads nothing newer.                                    *)
ReceiveCompletion(q) ==
    /\ phase[q] = "idle" /\ op[q].kind = "complete"
    /\ runs[op[q].run].status # "absent"
    /\ seen' = [seen EXCEPT ![q] = runs[op[q].run]]
    /\ Goto(q, "update")
    /\ UNCHANGED <<tables, release, op, idx, gen, defining, executed>>
-----------------------------------------------------------------------------
(* get_contract_or_default, the SELECT.                                     *)
ResolveContract(q) ==
    /\ phase[q] = "resolve"
    /\ \/ \E c \in contracts :
             /\ c.tool = op[q].tool
             /\ gen' = [gen EXCEPT ![q] = c.gen]
             /\ Goto(q, "execute")
       \/ /\ ~ContractKnown(op[q].tool)
          /\ Goto(q, "define")
          /\ UNCHANGED gen
    /\ UNCHANGED <<tables, release, op, idx, seen, defining, executed>>

(* get_contract_or_default, the INSERT of the default contract.  It waits   *)
(* for a transaction that holds the same key and fails on a committed one.  *)
DefineContract(q) ==
    /\ phase[q] = "define"
    /\ ~ContractHeld(q)
    /\ \/ /\ ContractKnown(op[q].tool)
          /\ Abort(q)
          /\ UNCHANGED gen
       \/ /\ ~ContractKnown(op[q].tool)
          /\ defining' = defining \cup {q}
          /\ gen' = [gen EXCEPT ![q] = IF op[q].tool \in Seeded THEN release ELSE 0]
          /\ Goto(q, "execute")
    /\ UNCHANGED <<tables, release, op, idx, seen, executed>>

(* _execute_tool: the live call.  An exception is caught and recorded like  *)
(* a response, so success and failure take the same path.                   *)
ExecuteTool(q) ==
    /\ phase[q] = "execute"
    /\ executed' = executed \cup {q}
    /\ ToIndexing(q)
    /\ UNCHANGED <<tables, release, op, gen, seen, defining>>

ReadNextIndex(q) ==
    /\ phase[q] = "index"
    /\ \E k \in NextIndexes(op[q].run) : idx' = [idx EXCEPT ![q] = k]
    /\ Goto(q, "insert")
    /\ UNCHANGED <<tables, release, op, gen, seen, defining, executed>>

(* Mutant: the table has no uq_steps_run_index.                             *)
InsertUnconstrained(q) ==
    /\ phase[q] = "insert"
    /\ Goto(q, "commit")
    /\ UNCHANGED <<tables, release, op, session, executed>>

(* Mutant: an insert gives up at once on a key held by an open transaction. *)
InsertNoWait(q) ==
    /\ phase[q] = "insert"
    /\ \/ (IndexTaken(q) \/ IndexHeld(q)) /\ Abort(q)
       \/ ~IndexTaken(q) /\ ~IndexHeld(q) /\ Goto(q, "commit") /\ UNCHANGED defining
    /\ UNCHANGED <<tables, release, op, idx, gen, seen, executed>>

(* record_step's flush, under the constraint uq_steps_run_index.            *)
InsertStep(q) ==
    /\ phase[q] = "insert"
    /\ ~IndexHeld(q)
    /\ \/ IndexTaken(q) /\ Abort(q)
       \/ ~IndexTaken(q) /\ Goto(q, "commit") /\ UNCHANGED defining
    /\ UNCHANGED <<tables, release, op, idx, gen, seen, executed>>

(* The route's commit publishes everything the session has flushed.         *)
CommitStep(q) ==
    /\ phase[q] = "commit"
    /\ steps' = steps \cup {[run |-> op[q].run, index |-> idx[q], by |-> q, gen |-> gen[q]]}
    /\ contracts' = contracts \cup
                       {[tool |-> op[p].tool, gen |-> gen[p]] : p \in defining \cap {q}}
    /\ defining' = defining \ {q}
    /\ Goto(q, "ok")
    /\ UNCHANGED <<runs, release, op, idx, gen, seen, executed>>
-----------------------------------------------------------------------------
(* Mutant: the metadata of the request replaces the stored metadata.        *)
MergedByReplacing(q) ==
    LET r == op[q].run IN
    [status |-> IF op[q].status # seen[q].status THEN op[q].status ELSE runs[r].status,
     meta   |-> IF op[q].meta THEN {q} ELSE runs[r].meta]

(* Mutant: only a completion that brings metadata writes the status.        *)
MergedWithMetaOnly(q) ==
    LET r == op[q].run IN
    IF op[q].meta THEN [status |-> op[q].status, meta |-> seen[q].meta \cup {q}] ELSE runs[r]

(* The UPDATE writes the columns that differ from the loaded row.           *)
Merged(q) ==
    LET r == op[q].run IN
    [status |-> IF op[q].status # seen[q].status THEN op[q].status ELSE runs[r].status,
     meta   |-> IF op[q].meta THEN seen[q].meta \cup {q} ELSE runs[r].meta]

(* complete_run: whatever the status was, the last writer wins.  The row    *)
(* lock of the UPDATE makes UPDATE and COMMIT one step.                     *)
CompleteRun(q) ==
    /\ phase[q] = "update"
    /\ runs' = [runs EXCEPT ![op[q].run] = Merged(q)]
    /\ Goto(q, "ok")
    /\ UNCHANGED <<steps, contracts, release, op, session, executed>>

(* Mutant: the contract table is emptied and seeded anew at startup.        *)
RestartFromSeed ==
    /\ \E g \in {release, release + 1} :
          g <= MaxGeneration /\ release' = g /\ contracts' = [tool : Seeded, gen : {g}]
    /\ phase' = [q \in Request |-> IF phase[q] \in Working THEN "lost" ELSE phase[q]]
    /\ defining' = {}
    /\ UNCHANGED <<runs, steps, op, idx, gen, seen, executed>>

(* Mutant: the connections of the stopped server stay open, with its locks. *)
RestartKeepsLocks ==
    /\ \E g \in {release, release + 1} :
          /\ g <= MaxGeneration
          /\ release' = g
          /\ contracts' = {c \in contracts : c.tool \notin Seeded}
                             \cup [tool : Seeded, gen : {g}]
    /\ phase' = [q \in Request |-> IF phase[q] \in Working THEN "lost" ELSE phase[q]]
    /\ UNCHANGED <<runs, steps, op, idx, gen, seen, defining, executed>>

(* The server stops and starts again, perhaps with another release: open    *)
(* transactions are rolled back and ensure_default_contracts merges the     *)
(* descriptors of the code over the rows of the same key.                   *)
Restart ==
    /\ \E g \in {release, release + 1} :
          /\ g <= MaxGeneration
          /\ release' = g
          /\ contracts' = {c \in contracts : c.tool \notin Seeded}
                             \cup [tool : Seeded, gen : {g}]
    /\ phase' = [q \in Request |-> IF phase[q] \in Working THEN "lost" ELSE phase[q]]
    /\ defining' = {}
    /\ UNCHANGED <<runs, steps, op, idx, gen, seen, executed>>
-----------------------------------------------------------------------------
Receive(q) == \/ ReceiveUnknown(q)
              \/ ReceiveToolCall(q)
              \/ ReceiveCapture(q)
              \/ ReceiveCompletion(q)

Serve(q) == \/ ResolveContract(q)
            \/ DefineContract(q)
            \/ ExecuteTool(q)
            \/ ReadNextIndex(q)
            \/ InsertStep(q)
            \/ CommitStep(q)
            \/ CompleteRun(q)

Next == \/ \E r \in Run : StartRun(r)
        \/ \E q \in Request : Receive(q) \/ Serve(q)
        \/ Restart

Spec == Init /\ [][Next]_vars

(* The event loop resumes every handler whose await can finish, and every   *)
(* tool execution ends: each HTTP client the tools use has a timeout.       *)
Fairness == \A q \in Request : WF_vars(Serve(q))

FairSpec == Spec /\ Fairness
-----------------------------------------------------------------------------
Recording(q)  == op[q].kind \in {"tool", "llm"}
Open(q)       == Recording(q) /\ phase[q] = "commit"

(* The runs on which every client lets the store choose the index.          *)
AutoRun == {r \in Run : \A o \in Operation :
               o.kind \in {"tool", "llm"} /\ o.run = r => o.index = NoIndex}

TypeOK == /\ runs \in [Run -> RunRow]
          /\ steps \subseteq StepRow
          /\ contracts \subseteq Contract
          /\ release \in Nat
          /\ op \in [Request -> Operation]
          /\ phase \in [Request -> Phase]
          /\ idx \in [Request -> Int]
          /\ gen \in [Request -> Nat]
          /\ seen \in [Request -> RunRow]
          /\ defining \subseteq Request
          /\ executed \subseteq Request

(* A step_index names one step of its run, whatever indexes the clients ask *)
(* for and however their transactions overlap: fetch_step and the patch of  *)
(* an exploratory replay look a step up by it.                              *)
UniqueIndex ==
    /\ \A s, t \in steps : s.run = t.run /\ s.index = t.index => s = t
    /\ \A p, q \in Request : Open(p) /\ Open(q) /\ op[p].run = op[q].run /\ idx[p] = idx[q] => p = q

(* Concurrent recorders, conflicts and restarts leave no hole in a trace:   *)
(* an index that record_step chose is 1 or follows an index that is there.  *)
NoGaps ==
    \A s \in steps : op[s.by].index = NoIndex =>
        s.index = 1 \/ \E t \in steps : t.run = s.run /\ t.index = s.index - 1

(* The committed trace of a run only grows at its end, so that two readers  *)
(* of the run (fetch_steps in a replay, a regression, the console) see one  *)
(* the prefix of the other.                                                 *)
GrowsAtTheEnd ==
    \A s \in steps' \ steps, t \in steps :
        s.run \in AutoRun /\ s.run = t.run => t.index < s.index
AppendOnly == [][steps \subseteq steps' /\ GrowsAtTheEnd]_vars

(* The answer of the gateway tells what the trace holds: 200 if and only if *)
(* the request has one step, and a tool step only of a tool that ran.       *)
AnswersMatchSteps ==
    \A q \in Request : Recording(q) =>
        /\ phase[q] = "ok" <=> \E s \in steps : s.by = q
        /\ \A s, t \in steps : s.by = q /\ t.by = q => s = t
        /\ phase[q] = "ok" /\ op[q].kind = "tool" => q \in executed

(* A request fails on a unique key only when another request has won it: no *)
(* two recorders fail because of each other.                                *)
ConflictHasWinner ==
    \A q \in Request : phase[q] = "conflict" =>
        \/ \E s \in steps : s.by # q /\ s.run = op[q].run /\ s.index = idx[q]
        \/ op[q].kind = "tool" /\ q \notin executed /\ ContractKnown(op[q].tool)

(* The contract a tool step was recorded under is in the registry, at that  *)
(* generation or a later one, although no foreign key says so.              *)
StepsHaveContracts ==
    \A s \in steps : op[s.by].kind = "tool" =>
        \E c \in contracts : c.tool = op[s.by].tool /\ s.gen <= c.gen

(* A run is completed or failed exactly when a completion was answered, and *)
(* its status is one that an answered completion asked for.                 *)
StatusWasAsked ==
    \A r \in Run :
        LET asked == {op[q].status : q \in {x \in Request : /\ op[x].kind = "complete"
                                                          /\ op[x].run = r
                                                          /\ phase[x] = "ok"}}
        IN  /\ asked # {} => runs[r].status \in {"completed", "failed"}
            /\ runs[r].status \in {"completed", "failed"} => runs[r].status \in asked

(* Overlapping completions may lose each other's metadata, but metadata     *)
(* that a completion had read is never lost while its own is stored.        *)
MetadataCausal ==
    \A r \in Run : \A q \in runs[r].meta : seen[q].meta \subseteq runs[r].meta

(* SPEC.md: "For every tool call, the gateway must store ..." its record.   *)
EveryExecutionRecorded ==
    \A q \in executed : phase[q] \in {"ok", "conflict"} => \E s \in steps : s.by = q

(* SPEC.md: a version of a contract may be replaced silently only "before   *)
(* any baseline depends on it", here: before a step was recorded under it.  *)
ContractFrozenOnceUsed ==
    [][\A c \in contracts :
          (\E s \in steps : op[s.by].kind = "tool" /\ op[s.by].tool = c.tool /\ s.gen = c.gen)
          => c \in contracts']_vars

(* Waiting on the locks of other requests always ends: every request that a *)
(* handler has taken is answered, or lost in a restart.                     *)
EveryRequestAnswered ==
    \A q \in Request : phase[q] \in Working ~> phase[q] \in Answered
=============================================================================
