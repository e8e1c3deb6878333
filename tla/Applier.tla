------------------------------- MODULE Applier -------------------------------
(***************************************************************************)
(* Applying migration bundles to one target database.                      *)
(*                                                                         *)
(* A client is one `pgsd apply` (or one TUI apply worker).  It checks the   *)
(* bundle's source state, asks for risk approval, takes the advisory lock   *)
(* of the database on a connection of its own, reads the bundle's history,  *)
(* and runs the remaining units, keeping the history tables up to date.     *)
(*                                                                         *)
(* The database is modelled by what the history tables and the schema say   *)
(* after each commit: what an open transaction has done is visible to       *)
(* nobody and is represented by the client's control state only.  A client  *)
(* may be cancelled at every await, a history statement may fail, and a     *)
(* client or its connection may be lost between any two steps.             *)
(***************************************************************************)
EXTENDS Integers, FiniteSets

CONSTANTS
    Client,         \* processes that apply bundles to the database
    NoClient,       \* nobody holds the advisory lock
    Bundle,         \* validated bundle directories
    NoBundle,       \* the bundle of an id without a run
    Id,             \* bundle ids (the primary key of migration_runs)
    Digest,         \* sha256 values
    MaxUnits,       \* BOUND: the most units a bundle has
    IdOf,           \* [Bundle -> Id]
    UpSql,          \* [Bundle -> Digest]: up_sql_sha256
    Units,          \* [Bundle -> 0..MaxUnits]: len(bundle.units)
    UnitSql,        \* [Bundle -> [UnitIndex -> Digest]]: unit.sql_sha256
    Transactional,  \* [Bundle -> [UnitIndex -> BOOLEAN]]
    Statements,     \* [Bundle -> [UnitIndex -> Nat \ {0}]]: len(unit.statements)
    MaxRisk,        \* [Bundle -> Risk]: the highest max_risk of its units
    FormatVersion,  \* [Bundle -> {1, 2}]
    Source,         \* [Bundle -> SUBSET Bundle]: bundles applied in the source state
    HistoryLimit    \* the number of newest runs that list_history returns

UnitIndex == 0 .. (MaxUnits - 1)
Risk == {"safe", "destructive", "blocked"}
RunStatus == {"running", "applied", "failed", "cancelled"}
UnitStatus == {"pending", "running", "applied", "failed"}

NoUnit == -1    \* failed_unit_index IS NULL

ASSUME ClientAssumption == NoClient \notin Client

ASSUME BundleAssumption ==
    /\ NoBundle \notin Bundle
    /\ MaxUnits \in Nat
    /\ IdOf \in [Bundle -> Id]
    /\ UpSql \in [Bundle -> Digest]
    /\ Units \in [Bundle -> 0 .. MaxUnits]
    /\ UnitSql \in [Bundle -> [UnitIndex -> Digest]]
    /\ Transactional \in [Bundle -> [UnitIndex -> BOOLEAN]]
    /\ Statements \in [Bundle -> [UnitIndex -> Nat \ {0}]]
    /\ MaxRisk \in [Bundle -> Risk]
    /\ FormatVersion \in [Bundle -> {1, 2}]
    /\ Source \in [Bundle -> SUBSET Bundle]

ASSUME HistoryLimitAssumption == HistoryLimit \in Nat \ {0}

VARIABLES
    historySchema,  \* "absent", "foreign" (another layout) or "ready"
    run,            \* [Id -> the row of migration_runs, status "none" when absent]
    unit,           \* [Id -> [UnitIndex -> status of its migration_units row]]
    newer,          \* [Id -> ids whose run was started after this one's]
    effect,         \* [Id -> [UnitIndex -> how often the unit's SQL took effect]]
    leftover,       \* <<id, i>> whose statement left an INVALID index behind
    drifted,        \* somebody else changed the schema
    lock,           \* holder of the advisory lock
    pc,             \* [Client -> control state]
    bundle,         \* [Client -> bundle of the current or last attempt]
    approved,       \* [Client -> approve_destructive]
    resumed,        \* [Client -> history was found by load_history]
    idx,            \* [Client -> applied_unit_count, the index of the next unit]
    stmt,           \* [Client -> statements executed in the open transaction]
    outcome         \* [Client -> what the attempt is about to report]

database == <<historySchema, run, unit, newer, effect, leftover, drifted>>
history == <<historySchema, run, unit, newer>>
local == <<bundle, approved, resumed, idx, stmt, outcome>>
vars == <<database, lock, pc, local>>

NoRun == [status |-> "none", bundle |-> NoBundle, failedUnit |-> NoUnit]

PC == {"idle", "guard", "inspect", "confirm", "lock", "load", "bootstrap",
       "start", "unit", "tx", "exec", "mark", "record", "finishFailed",
       "finished", "cancelling", "unlock"}

\* Inside the try block of apply_migration.
Applying == {"load", "bootstrap", "start", "unit", "tx", "exec", "mark",
             "record", "finishFailed", "finished"}

\* Inside open_executor, after pg_advisory_lock returned.
Holding == Applying \cup {"cancelling", "unlock"}

TypeOK ==
    /\ historySchema \in {"absent", "foreign", "ready"}
    /\ run \in [Id -> [status : RunStatus \cup {"none"},
                       bundle : Bundle \cup {NoBundle},
                       failedUnit : UnitIndex \cup {NoUnit}]]
    /\ unit \in [Id -> [UnitIndex -> UnitStatus \cup {"none"}]]
    /\ newer \in [Id -> SUBSET Id]
    /\ effect \in [Id -> [UnitIndex -> Nat]]
    /\ leftover \subseteq Id \X UnitIndex
    /\ drifted \in BOOLEAN
    /\ lock \in Client \cup {NoClient}
    /\ pc \in [Client -> PC]
    /\ bundle \in [Client -> Bundle \cup {NoBundle}]
    /\ approved \in [Client -> BOOLEAN]
    /\ resumed \in [Client -> BOOLEAN]
    /\ idx \in [Client -> 0 .. MaxUnits]
    /\ stmt \in [Client -> Nat]
    /\ outcome \in [Client -> {"none", "applied", "failed", "stopped"}]

\* The database has no history yet, or uses the reserved schema for
\* something else; nobody is applying anything.
Init ==
    /\ historySchema \in {"absent", "foreign"}
    /\ run = [id \in Id |-> NoRun]
    /\ unit = [id \in Id |-> [i \in UnitIndex |-> "none"]]
    /\ newer = [id \in Id |-> {}]
    /\ effect = [id \in Id |-> [i \in UnitIndex |-> 0]]
    /\ leftover = {}
    /\ drifted = FALSE
    /\ lock = NoClient
    /\ pc = [c \in Client |-> "idle"]
    /\ bundle = [c \in Client |-> NoBundle]
    /\ approved = [c \in Client |-> FALSE]
    /\ resumed = [c \in Client |-> FALSE]
    /\ idx = [c \in Client |-> 0]
    /\ stmt = [c \in Client |-> 0]
    /\ outcome = [c \in Client |-> "none"]

-----------------------------------------------------------------------------
(* Helpers *)

Goto(c, label) == pc' = [pc EXCEPT ![c] = label]

\* The process exits: nothing of the attempt is left but the database.
Exit(c) ==
    /\ Goto(c, "idle")
    /\ bundle' = [bundle EXCEPT ![c] = NoBundle]
    /\ approved' = [approved EXCEPT ![c] = FALSE]
    /\ resumed' = [resumed EXCEPT ![c] = FALSE]
    /\ idx' = [idx EXCEPT ![c] = 0]
    /\ stmt' = [stmt EXCEPT ![c] = 0]
    /\ outcome' = [outcome EXCEPT ![c] = "none"]

\* An exception leaves apply_migration; open_executor unlocks on its way out.
Stop(c) ==
    /\ Goto(c, "unlock")
    /\ outcome' = [outcome EXCEPT ![c] = "stopped"]
    /\ UNCHANGED <<bundle, approved, resumed, idx, stmt>>

MyId(c) == IdOf[bundle[c]]

HasRun(id) == run[id].status # "none"

\* Faulty variant: the layout is compared without its digests.
LayoutMatchesModes(b, id) ==
    LET stored == run[id].bundle
    IN  /\ stored \in Bundle
        /\ Units[stored] = Units[b]
        /\ Transactional[stored] = Transactional[b]

\* _validate_history_layout: digests, number of units and each unit's digest
\* and mode agree with the rows written when the run was created.
LayoutMatches(b, id) ==
    LET stored == run[id].bundle
    IN  /\ stored \in Bundle
        /\ UpSql[stored] = UpSql[b]
        /\ Units[stored] = Units[b]
        /\ \A i \in 0 .. (Units[b] - 1) :
              /\ UnitSql[stored][i] = UnitSql[b][i]
              /\ Transactional[stored][i] = Transactional[b][i]

\* Faulty variant: resume at the first pending unit, past a failed one.
FirstPending(id, n, count) ==
    \A i \in 0 .. (count - 1) : unit[id][i] # "pending" <=> i < n

\* Unit n is _first_non_applied: what is applied is exactly the units below n.
FirstNonApplied(id, n, count) ==
    \A i \in 0 .. (count - 1) : unit[id][i] = "applied" <=> i < n

\* Faulty variants: no unit is in doubt; the last unit is not looked at.
NeverIndeterminate(b, id) == FALSE
IndeterminateButLast(b, id) ==
    \E i \in 0 .. (Units[b] - 2) :
        ~Transactional[b][i] /\ unit[id][i] = "running"

\* A unit of the bundle that the history says may or may not have run.
Indeterminate(b, id) ==
    \E i \in 0 .. (Units[b] - 1) :
        ~Transactional[b][i] /\ unit[id][i] = "running"

\* Faulty variant: a failed unit is not retried.
ResumesAtPending(b, n) ==
    /\ run[IdOf[b]].status # "applied"
    /\ LayoutMatches(b, IdOf[b])
    /\ FirstNonApplied(IdOf[b], n, Units[b])
    /\ n < Units[b]
    /\ unit[IdOf[b]][n] = "pending"

\* _resume_index raises no error and returns n.
ResumesAt(b, n) ==
    LET id == IdOf[b]
    IN  /\ run[id].status # "applied"
        /\ LayoutMatches(b, id)
        /\ FirstNonApplied(id, n, Units[b])
        /\ n < Units[b]
        /\ ~Indeterminate(b, id)

\* list_history returns the newest HistoryLimit runs; next(...) finds the id.
Listed(id) ==
    /\ historySchema = "ready"
    /\ HasRun(id)
    /\ Cardinality(newer[id]) < HistoryLimit

\* The inspected schema has the bundle's source fingerprint.
AtSource(b) ==
    /\ ~drifted
    /\ leftover = {}
    /\ \A x \in Source[b] :
          /\ run[IdOf[x]].bundle = x
          /\ \A i \in 0 .. (Units[x] - 1) : effect[IdOf[x]][i] > 0
    /\ \A id \in Id \ {IdOf[x] : x \in Source[b]}, i \in UnitIndex :
          effect[id][i] = 0

\* _risk_gate lets the bundle pass.
RiskAllowed(b, approve) ==
    /\ MaxRisk[b] # "blocked"
    /\ approve \/ MaxRisk[b] # "destructive"

\* Faulty variants: the unit is numbered from one; its index is not written.
FinishRunFromOne(id, status, failed) ==
    run' = [run EXCEPT ![id].status = status, ![id].failedUnit = failed + 1]
FinishRunStatusOnly(id, status, failed) ==
    run' = [run EXCEPT ![id].status = status]

\* finish_run writes both columns, NULL included.
FinishRun(id, status, failed) ==
    run' = [run EXCEPT ![id] = [status |-> status, bundle |-> @.bundle,
                                failedUnit |-> failed]]

-----------------------------------------------------------------------------
(* Before the lock: _apply_cmd and verify_source_state *)

\* pgsd apply starts.  BLOCKED bundles are refused at once; a format 1 bundle
\* has no source fingerprint, and --skip-source-check skips the guard.
BeginAttempt(c, b, skip) ==
    /\ pc[c] = "idle"
    /\ MaxRisk[b] # "blocked"
    /\ bundle' = [bundle EXCEPT ![c] = b]
    /\ Goto(c, IF skip \/ FormatVersion[b] = 1 THEN "confirm" ELSE "guard")
    /\ UNCHANGED <<database, lock, approved, resumed, idx, stmt, outcome>>

\* The guard reads the history, without the lock.  A schema of another layout is
\* an error, unless it has no tables: then it reads as an empty history.  A
\* previous run of the bundle id skips the check, whatever its status.
GuardReadHistory(c) ==
    /\ pc[c] = "guard"
    /\ \/ historySchema = "foreign" /\ Exit(c)
       \/ /\ Goto(c, IF Listed(MyId(c)) THEN "confirm" ELSE "inspect")
          /\ UNCHANGED local
    /\ UNCHANGED <<database, lock>>

\* The guard inspects the schema and compares fingerprints.
GuardInspect(c) ==
    /\ pc[c] = "inspect"
    /\ \/ AtSource(bundle[c]) /\ Goto(c, "confirm") /\ UNCHANGED local
       \/ ~AtSource(bundle[c]) /\ Exit(c)
    /\ UNCHANGED <<database, lock>>

\* The operator approves or declines; then the connection is opened and
\* pg_advisory_lock is called.
Confirm(c, yes) ==
    /\ pc[c] = "confirm"
    /\ \/ /\ RiskAllowed(bundle[c], yes)
          /\ Goto(c, "lock")
          /\ approved' = [approved EXCEPT ![c] = yes]
          /\ UNCHANGED <<bundle, resumed, idx, stmt, outcome>>
       \/ /\ ~RiskAllowed(bundle[c], yes)
          /\ Exit(c)
    /\ UNCHANGED <<database, lock>>

\* Faulty variant: the result of the lock request is not looked at.
AcquireLockUnguarded(c) ==
    /\ pc[c] = "lock"
    /\ lock' = c
    /\ Goto(c, "load")
    /\ UNCHANGED <<database, local>>

AcquireLock(c) ==
    /\ pc[c] = "lock"
    /\ lock = NoClient
    /\ lock' = c
    /\ Goto(c, "load")
    /\ UNCHANGED <<database, local>>

\* lock_timeout expires while somebody else holds the lock.
LockTimeout(c) ==
    /\ pc[c] = "lock"
    /\ lock # NoClient
    /\ Exit(c)
    /\ UNCHANGED <<database, lock>>

-----------------------------------------------------------------------------
(* Under the lock: apply_migration and PostgresMigrationExecutor *)

\* apply_migration goes no further: the risk gate, nothing to do, an unknown
\* layout of the reserved schema, or a history that must not be resumed.
Refused(b, approve) ==
    \/ ~RiskAllowed(b, approve)
    \/ Units[b] = 0
    \/ historySchema = "foreign"
    \/ HasRun(IdOf[b]) /\ \A n \in UnitIndex : ~ResumesAt(b, n)

\* _risk_gate, the empty bundle, load_history and _resume_index.
LoadHistory(c) ==
    /\ pc[c] = "load"
    /\ \/ Refused(bundle[c], approved[c]) /\ Stop(c)
       \/ /\ ~Refused(bundle[c], approved[c])
          /\ resumed' = [resumed EXCEPT ![c] = HasRun(MyId(c))]
          /\ \E n \in UnitIndex :
                /\ IF HasRun(MyId(c)) THEN ResumesAt(bundle[c], n) ELSE n = 0
                /\ idx' = [idx EXCEPT ![c] = n]
          /\ Goto(c, "bootstrap")
          /\ UNCHANGED <<bundle, approved, stmt, outcome>>
    /\ UNCHANGED <<database, lock>>

\* Faulty variant: CREATE ... IF NOT EXISTS without verifying the layout.
BootstrapUnverified(c) ==
    /\ pc[c] = "bootstrap"
    /\ historySchema' = "ready"
    /\ Goto(c, "start")
    /\ UNCHANGED <<run, unit, newer, effect, leftover, drifted, lock, local>>

\* _bootstrap_history: the reserved schema may have appeared since it was read.
Bootstrap(c) ==
    /\ pc[c] = "bootstrap"
    /\ \/ /\ historySchema = "foreign"
          /\ Stop(c)
          /\ UNCHANGED historySchema
       \/ /\ historySchema # "foreign"
          /\ historySchema' = "ready"
          /\ Goto(c, "start")
          /\ UNCHANGED local
    /\ UNCHANGED <<run, unit, newer, effect, leftover, drifted, lock>>

\* The rest of start_run: the run becomes the newest one.  An UPDATE that hits
\* no row and an INSERT of a taken key are errors.
StartRun(c) ==
    LET b == bundle[c]
        id == MyId(c)
    IN  /\ pc[c] = "start"
        /\ IF resumed[c] # HasRun(id)
           THEN Stop(c) /\ UNCHANGED <<run, unit, newer>>
           ELSE /\ run' = [run EXCEPT ![id] =
                              [status |-> "running",
                               bundle |-> IF resumed[c] THEN @.bundle ELSE b,
                               failedUnit |-> NoUnit]]
                /\ unit' = IF resumed[c] THEN unit
                           ELSE [unit EXCEPT ![id] =
                                    [i \in UnitIndex |->
                                       IF i < Units[b] THEN "pending" ELSE "none"]]
                /\ newer' = [j \in Id |->
                                IF j = id THEN {} ELSE newer[j] \cup {id}]
                /\ Goto(c, "unit")
                /\ UNCHANGED local
        /\ UNCHANGED <<historySchema, effect, leftover, drifted, lock>>

\* A transactional unit opens its transaction.  The 'running' status it writes
\* is part of that transaction, so nobody else ever sees it.
BeginUnit(c) ==
    /\ pc[c] = "unit"
    /\ idx[c] < Units[bundle[c]]
    /\ Transactional[bundle[c]][idx[c]]
    /\ Goto(c, "tx")
    /\ UNCHANGED <<database, lock, local>>

RunStatement(c) ==
    /\ pc[c] = "tx"
    /\ stmt[c] < Statements[bundle[c]][idx[c]]
    /\ stmt' = [stmt EXCEPT ![c] = @ + 1]
    /\ UNCHANGED <<database, lock, pc, bundle, approved, resumed, idx, outcome>>

\* The unit's DDL and its 'applied' marker commit together.
CommitUnit(c) ==
    LET id == MyId(c)
        i == idx[c]
    IN  /\ pc[c] = "tx"
        /\ stmt[c] = Statements[bundle[c]][i]
        /\ unit' = [unit EXCEPT ![id][i] = "applied"]
        /\ effect' = [effect EXCEPT ![id][i] = @ + 1]
        /\ idx' = [idx EXCEPT ![c] = i + 1]
        /\ stmt' = [stmt EXCEPT ![c] = 0]
        /\ Goto(c, "unit")
        /\ UNCHANGED <<historySchema, run, newer, leftover, drifted, lock,
                       bundle, approved, resumed, outcome>>

\* A statement fails: the whole transaction rolls back, the marker with it.
StatementFails(c) ==
    /\ pc[c] = "tx"
    /\ stmt[c] < Statements[bundle[c]][idx[c]]
    /\ stmt' = [stmt EXCEPT ![c] = 0]
    /\ Goto(c, "record")
    /\ UNCHANGED <<database, lock, bundle, approved, resumed, idx, outcome>>

\* A non-transactional unit commits 'running' before its statement is sent.
MarkRunning(c) ==
    LET id == MyId(c)
        i == idx[c]
    IN  /\ pc[c] = "unit"
        /\ i < Units[bundle[c]]
        /\ ~Transactional[bundle[c]][i]
        /\ unit' = [unit EXCEPT ![id][i] = "running"]
        /\ Goto(c, "exec")
        /\ UNCHANGED <<historySchema, run, newer, effect, leftover, drifted,
                       lock, local>>

\* An earlier attempt at the unit left its index behind, INVALID.
InTheWay(c) == <<MyId(c), idx[c]>> \in leftover

\* The single statement succeeds in autocommit.  It has no IF NOT EXISTS and
\* nothing is dropped before it, so nothing may be in its way.
ExecuteUnit(c) ==
    LET id == MyId(c)
        i == idx[c]
    IN  /\ pc[c] = "exec"
        /\ ~InTheWay(c)
        /\ effect' = [effect EXCEPT ![id][i] = @ + 1]
        /\ Goto(c, "mark")
        /\ UNCHANGED <<historySchema, run, unit, newer, leftover, drifted, lock,
                       local>>

\* The index of the name exists: every retry is refused until it is dropped.
ExecuteRefused(c) ==
    /\ pc[c] = "exec"
    /\ InTheWay(c)
    /\ Goto(c, "record")
    /\ UNCHANGED <<database, lock, local>>

\* What a statement that did not succeed may leave: an INVALID index when it
\* was to build one, or nothing.
MayLeaveIndex(c) ==
    leftover' \in {leftover, leftover \cup {<<MyId(c), idx[c]>>}}

ExecuteFails(c) ==
    /\ pc[c] = "exec"
    /\ MayLeaveIndex(c)
    /\ Goto(c, "record")
    /\ UNCHANGED <<history, effect, drifted, lock, local>>

MarkApplied(c) ==
    LET id == MyId(c)
        i == idx[c]
    IN  /\ pc[c] = "mark"
        /\ unit' = [unit EXCEPT ![id][i] = "applied"]
        /\ idx' = [idx EXCEPT ![c] = i + 1]
        /\ Goto(c, "unit")
        /\ UNCHANGED <<historySchema, run, newer, effect, leftover, drifted,
                       lock, bundle, approved, resumed, stmt, outcome>>

\* Faulty variant: the failure of a unit is not recorded.
RecordNoFailure(c) ==
    /\ pc[c] = "record"
    /\ Goto(c, "finishFailed")
    /\ UNCHANGED <<database, lock, local>>

\* _record_unit_failure, in a transaction of its own.
RecordFailure(c) ==
    /\ pc[c] = "record"
    /\ unit' = [unit EXCEPT ![MyId(c)][idx[c]] = "failed"]
    /\ Goto(c, "finishFailed")
    /\ UNCHANGED <<historySchema, run, newer, effect, leftover, drifted, lock,
                   local>>

\* finish_run commits a final status; its answer is still on the way.
FinishFailed(c) ==
    /\ pc[c] = "finishFailed"
    /\ FinishRun(MyId(c), "failed", idx[c])
    /\ outcome' = [outcome EXCEPT ![c] = "failed"]
    /\ Goto(c, "finished")
    /\ UNCHANGED <<historySchema, unit, newer, effect, leftover, drifted, lock,
                   bundle, approved, resumed, idx, stmt>>

FinishApplied(c) ==
    /\ pc[c] = "unit"
    /\ idx[c] = Units[bundle[c]]
    /\ FinishRun(MyId(c), "applied", NoUnit)
    /\ outcome' = [outcome EXCEPT ![c] = "applied"]
    /\ Goto(c, "finished")
    /\ UNCHANGED <<historySchema, unit, newer, effect, leftover, drifted, lock,
                   bundle, approved, resumed, idx, stmt>>

\* finish_run returns, and so does apply_migration.
Return(c) ==
    /\ pc[c] = "finished"
    /\ Goto(c, "unlock")
    /\ UNCHANGED <<database, lock, local>>

\* The handler of CancelledError records the cancellation, where a run row
\* exists; an error of that write is suppressed.
FinishCancelled(c) ==
    /\ pc[c] = "cancelling"
    /\ IF HasRun(MyId(c)) THEN FinishRun(MyId(c), "cancelled", NoUnit)
                           ELSE UNCHANGED run
    /\ Stop(c)
    /\ UNCHANGED <<historySchema, unit, newer, effect, leftover, drifted, lock>>

\* Faulty variant: the lock outlives the process (a pooled connection).
UnlockNothing(c) ==
    /\ pc[c] = "unlock"
    /\ Exit(c)
    /\ UNCHANGED <<database, lock>>

\* open_executor unlocks and closes the connection.
Unlock(c) ==
    /\ pc[c] = "unlock"
    /\ lock' = NoClient
    /\ Exit(c)
    /\ UNCHANGED database

-----------------------------------------------------------------------------
(* Cancellation, errors, loss, and the rest of the world *)

\* The task is cancelled at an await of apply_migration.  An open transaction
\* rolls back.  The statement of a non-transactional unit is cancelled too:
\* when it had completed already, that is ExecuteUnit and then this step.
Cancel(c) ==
    /\ pc[c] \in Applying
    /\ IF pc[c] = "exec" THEN MayLeaveIndex(c) ELSE UNCHANGED leftover
    /\ stmt' = [stmt EXCEPT ![c] = 0]
    /\ Goto(c, "cancelling")
    /\ UNCHANGED <<history, effect, drifted, lock, bundle, approved, resumed,
                   idx, outcome>>

\* A history statement fails, or the event callback raises: apply_migration
\* does not finish the run.  Likewise a second cancellation of the handler.
Abort(c) ==
    /\ pc[c] \in (Applying \ {"finished"}) \cup {"cancelling"}
    /\ Goto(c, "unlock")
    /\ stmt' = [stmt EXCEPT ![c] = 0]
    /\ outcome' = [outcome EXCEPT ![c] = "stopped"]
    /\ UNCHANGED <<database, lock, bundle, approved, resumed, idx>>

\* The process or its connection is lost, or it is interrupted before the
\* lock.  PostgreSQL rolls back and frees the session's lock together.
Crash(c) ==
    /\ pc[c] # "idle"
    /\ IF pc[c] = "exec" THEN MayLeaveIndex(c) ELSE UNCHANGED leftover
    /\ lock' = IF lock = c THEN NoClient ELSE lock
    /\ Exit(c)
    /\ UNCHANGED <<history, effect, drifted>>

\* Somebody else changes the schema.
Drift ==
    /\ ~drifted
    /\ drifted' = TRUE
    /\ UNCHANGED <<history, effect, leftover, lock, pc, local>>

\* Somebody else creates a schema with the reserved name.
ReserveName ==
    /\ historySchema = "absent"
    /\ historySchema' = "foreign"
    /\ UNCHANGED <<run, unit, newer, effect, leftover, drifted, lock, pc, local>>

\* An operator drops an INVALID index, as the bundle's README and pgsd apply
\* tell them to; nothing in the program does.
DropIndex ==
    /\ \E x \in leftover : leftover' = leftover \ {x}
    /\ UNCHANGED <<history, effect, drifted, lock, pc, local>>

\* What goes on beside the clients.
Elsewhere == Drift \/ ReserveName \/ DropIndex

-----------------------------------------------------------------------------

\* The steps a client takes by itself, in the order of the code.
Proceed(c) ==
    \/ GuardReadHistory(c) \/ GuardInspect(c)
    \/ AcquireLock(c) \/ LockTimeout(c)
    \/ LoadHistory(c) \/ Bootstrap(c) \/ StartRun(c)
    \/ BeginUnit(c) \/ RunStatement(c) \/ CommitUnit(c)
    \/ MarkRunning(c) \/ ExecuteUnit(c) \/ ExecuteRefused(c) \/ MarkApplied(c)
    \/ RecordFailure(c) \/ FinishFailed(c) \/ FinishApplied(c) \/ Return(c)
    \/ FinishCancelled(c) \/ Unlock(c)

\* What its operator decides.
Operate(c) ==
    \/ \E b \in Bundle, skip \in BOOLEAN : BeginAttempt(c, b, skip)
    \/ \E yes \in BOOLEAN : Confirm(c, yes)

\* What may go wrong.
Fault(c) ==
    \/ StatementFails(c) \/ ExecuteFails(c)
    \/ Cancel(c) \/ Abort(c) \/ Crash(c)

Next ==
    \/ \E c \in Client : Proceed(c) \/ Operate(c) \/ Fault(c)
    \/ Elsewhere

Spec == Init /\ [][Next]_vars

\* A running process executes its next step: statements return (or time out),
\* and PostgreSQL answers.  Operators and faults owe nothing.
FairSpec == Spec /\ \A c \in Client : WF_vars(Proceed(c))

-----------------------------------------------------------------------------
(* Properties *)

\* The client has passed start_run and not yet left the loop over the units.
InRun == {"unit", "tx", "exec", "mark", "record", "finishFailed"}

\* MARKER TRUTH.  A unit the history calls applied took effect exactly once; a
\* unit that took effect without being called applied is a non-transactional
\* one still called 'running'; and 'running' is never said of a transactional
\* unit.  (The markers of apply_unit against its DDL, through every failure.)
MarkerTruth ==
    \A id \in Id, i \in UnitIndex :
        /\ unit[id][i] = "applied" => effect[id][i] = 1
        /\ effect[id][i] # 0 /\ unit[id][i] # "applied" =>
              effect[id][i] = 1 /\ unit[id][i] = "running"
        /\ unit[id][i] = "running" => ~Transactional[run[id].bundle][i]

\* APPLIED PREFIX.  Every unit that was ever attempted has only applied units
\* before it, so _first_non_applied never meets a corrupt history and a resumed
\* run never skips a unit.
AppliedPrefix ==
    \A id \in Id, i, j \in UnitIndex :
        unit[id][i] \notin {"none", "pending"} /\ j < i =>
            unit[id][j] = "applied"

\* RUN STATUS TRUTH.  A run recorded as applied has no unit left to apply; a
\* run recorded as failed names, in failed_unit_index, its first unit that is
\* not applied, and that unit is recorded as failed.
RunStatusTruth ==
    \A id \in Id :
        /\ run[id].status = "applied" =>
              \A i \in 0 .. (Units[run[id].bundle] - 1) : unit[id][i] = "applied"
        /\ run[id].status = "failed" =>
              /\ run[id].failedUnit \in UnitIndex
              /\ unit[id][run[id].failedUnit] = "failed"
              /\ \A j \in 0 .. (run[id].failedUnit - 1) : unit[id][j] = "applied"

\* LOCAL COUNT.  While a client runs units, its applied_unit_count is the number
\* of units the database calls applied, its bundle is the one of the run, it
\* alone holds the lock and the run is recorded as running: nothing read from
\* the history before the first unit goes stale.
LocalCountExact ==
    \A c \in Client :
        pc[c] \in InRun =>
            /\ lock = c
            /\ run[MyId(c)].status = "running"
            /\ LayoutMatches(bundle[c], MyId(c))
            /\ FirstNonApplied(MyId(c), idx[c], Units[bundle[c]])

\* REPORTS.  When an attempt is about to report success every unit of its bundle
\* took effect; when it reports a failed unit, the history says which.
ReportTruth ==
    \A c \in Client :
        /\ outcome[c] = "applied" =>
              \A i \in 0 .. (Units[bundle[c]] - 1) :
                 effect[MyId(c)][i] = 1 /\ unit[MyId(c)][i] = "applied"
        /\ outcome[c] = "failed" => unit[MyId(c)][idx[c]] = "failed"

\* A client has started on a non-transactional unit of the id, and not let go.
WorkedOn(id) ==
    \E c \in Client : pc[c] \in {"exec", "mark", "record"} /\ MyId(c) = id

\* A unit recorded as running that no client is at work on stays as it is, and
\* so do the other units of its id; nobody starts on any of them.
LeavesDoubt ==
    \A id \in Id, i \in UnitIndex :
        unit[id][i] = "running" /\ ~WorkedOn(id) =>
            /\ unit'[id] = unit[id]
            /\ effect'[id] = effect[id]
            /\ ~WorkedOn(id)'

\* DOUBT IS KEPT.  A unit left 'running' by a client that is gone is never run
\* again, marked or forgotten by anybody: apply refuses the resume for ever.
DoubtIsKept == [][LeavesDoubt]_vars

\* The two bundles run the same SQL, unit by unit.
SameContent(b, x) ==
    /\ UpSql[b] = UpSql[x]
    /\ Units[b] = Units[x]
    /\ \A i \in 0 .. (Units[b] - 1) : UnitSql[b][i] = UnitSql[x][i]

\* What takes effect for an id has the content of the first run of that id.
RunsPinnedContent ==
    \A id \in Id :
        effect'[id] # effect[id] =>
           \E c \in Client :
              /\ bundle[c] \in Bundle
              /\ MyId(c) = id
              /\ SameContent(bundle[c], run[id].bundle)
              /\ MaxRisk[bundle[c]] = "destructive" => approved[c]

\* CONTENT IS PINNED.  The SQL of an id only ever runs for a bundle with the
\* content of the first run of that id, approved as its risk demands.
ContentPinned == [][RunsPinnedContent]_vars

\* NO COMMANDEERING.  Where the reserved schema has another layout, apply runs
\* no unit and writes no history, whenever that schema appeared.
ForeignSchemaUntouched ==
    [][historySchema = "foreign" =>
          UNCHANGED <<historySchema, run, unit, effect>>]_vars

\* THE LOCK IS RELEASED.  No failure, cancellation or refusal leaves a client
\* holding the lock for ever.
LockReleased == \A c \in Client : lock = c ~> lock # c

\* Everything of b took effect, or a client that is gone left a unit in doubt,
\* or another bundle has the id.
Settled(b) ==
    \/ \A i \in 0 .. (Units[b] - 1) : unit[IdOf[b]][i] = "applied"
    \/ Indeterminate(b, IdOf[b]) /\ ~WorkedOn(IdOf[b])
    \/ ~LayoutMatches(b, IdOf[b])

\* A client does what comes next or its operator decides something, without a
\* fault, or another session moves.
Undisturbed == (\E c \in Client : Proceed(c) \/ Operate(c)) \/ Elsewhere

\* The operator of each client tries each bundle again and again and sooner or
\* later approves its risk; PostgreSQL grants a contended lock sooner or later;
\* somebody drops the INVALID indexes that failed builds left behind; and from
\* some time on there are no faults.
Retried ==
    /\ \A c \in Client :
          /\ \A b \in Bundle : SF_vars(BeginAttempt(c, b, FALSE))
          /\ SF_vars(Confirm(c, TRUE))
          /\ SF_vars(AcquireLock(c))
    /\ WF_vars(DropIndex)
    /\ <>[][Undisturbed]_vars

\* RETRIES SUCCEED.  When faults cease, retrying settles every run that was
\* started: a failed, cancelled or abandoned run is not stuck half-way, once
\* the INVALID index its last attempt may have left is dropped.
RetriesSettle ==
    Retried => \A b \in Bundle : HasRun(IdOf[b]) ~> Settled(b)

\* What a reader of the database sees of the runs.
Owner == [id \in Id |-> run[id].bundle]
Done == [id \in Id |-> {i \in UnitIndex : effect[id][i] > 0}]
Known == [id \in Id |-> {i \in UnitIndex : unit[id][i] = "applied"}]
Complete == [id \in Id |-> run[id].status = "applied"]

Progress == INSTANCE BundleProgress WITH
    owner <- Owner, done <- Done, known <- Known, complete <- Complete

\* THE PROMISE.  The database implements BundleProgress: whatever clients do and
\* however they fail, the units of an id take effect once, in order, each
\* acknowledged before the next.
ImplementsProgress == Progress!Spec

\* THE GUARD KNOWS ITS RUNS.  Fingerprints are compared only for a bundle that
\* has no previous run.
GuardSkipsPreviousRuns ==
    [][\A c \in Client :
          pc[c] = "guard" /\ pc'[c] = "inspect" => ~HasRun(MyId(c))]_vars

\* A run recorded as failed or cancelled, with nothing in doubt, is resumable.
StoppedRunResumable ==
    \A id \in Id :
        run[id].status \in {"failed", "cancelled"}
          /\ ~Indeterminate(run[id].bundle, id)
        => \E n \in UnitIndex : ResumesAt(run[id].bundle, n)

-----------------------------------------------------------------------------
(* The inductive invariant behind the safety properties *)

\* Exactly the lock's holder is inside open_executor; a client that is not idle
\* has a bundle.
LockInv ==
    \A c \in Client :
        /\ pc[c] \in Holding <=> lock = c
        /\ pc[c] # "idle" => bundle[c] \in Bundle

\* Unit rows exist exactly for the units of the bundle that started the run.
RowInv ==
    \A id \in Id :
        /\ HasRun(id) <=> run[id].bundle \in Bundle
        /\ \A i \in UnitIndex :
              /\ unit[id][i] # "none" <=>
                    HasRun(id) /\ i < Units[run[id].bundle]
              /\ unit[id][i] = "none" => effect[id][i] = 0

\* What the client at work knows of the run it started or resumed.
Knows(c) ==
    /\ run[MyId(c)].status = "running"
    /\ LayoutMatches(bundle[c], MyId(c))
    /\ FirstNonApplied(MyId(c), idx[c], Units[bundle[c]])

\* Between load_history and start_run, what was read is still so.
ReadInv(c) ==
    pc[c] \in {"bootstrap", "start"} =>
        /\ idx[c] < Units[bundle[c]]
        /\ IF resumed[c] THEN HasRun(MyId(c)) /\ ResumesAt(bundle[c], idx[c])
                         ELSE ~HasRun(MyId(c)) /\ idx[c] = 0

\* In the loop over the units, the current unit is where the control state says.
LoopInv(c) ==
    LET i == idx[c]
        u == unit[MyId(c)][i]
        e == effect[MyId(c)][i]
        t == Transactional[bundle[c]][i]
    IN  /\ pc[c] \in InRun => Knows(c)
        /\ pc[c] \in InRun \ {"unit"} => i < Units[bundle[c]]
        /\ pc[c] \in {"unit", "tx"} => ~Indeterminate(bundle[c], MyId(c))
        /\ pc[c] = "tx" => t
        /\ pc[c] = "exec" => ~t /\ u = "running" /\ e = 0
        /\ pc[c] = "mark" => ~t /\ u = "running" /\ e = 1
        /\ pc[c] = "record" => e = 0
        /\ pc[c] = "finishFailed" => u = "failed"

\* What the attempt is about to report.
OutcomeInv(c) ==
    /\ pc[c] \notin {"finished", "cancelling", "unlock"} => outcome[c] = "none"
    /\ outcome[c] = "applied" =>
          /\ LayoutMatches(bundle[c], MyId(c))
          /\ \A i \in 0 .. (Units[bundle[c]] - 1) : unit[MyId(c)][i] = "applied"
    /\ outcome[c] = "failed" =>
          /\ idx[c] < Units[bundle[c]]
          /\ unit[MyId(c)][idx[c]] = "failed"

DatabaseInv ==
    /\ RowInv
    /\ MarkerTruth
    /\ AppliedPrefix
    /\ RunStatusTruth

ClientInv == \A c \in Client : ReadInv(c) /\ LoopInv(c) /\ OutcomeInv(c)

IInv == TypeOK /\ LockInv /\ DatabaseInv /\ ClientInv

\* Rows exist only in a history of pgschemadiff, which start_run has verified.
SchemaInv ==
    /\ \A id \in Id : HasRun(id) => historySchema = "ready"
    /\ \A c \in Client : pc[c] = "start" => historySchema = "ready"

\* Whoever asks for the lock has passed the risk gate of the command line.
ApprovalInv ==
    \A c \in Client :
        pc[c] \in Holding \cup {"lock"} => RiskAllowed(bundle[c], approved[c])

=============================================================================
