-------------------------- MODULE ApplierStepProofs --------------------------
(***************************************************************************)
(* Proofs about the steps of Applier: what no step does to a history that   *)
(* is in doubt, to a schema of somebody else, or to SQL that nobody         *)
(* approved; and that Applier implements BundleProgress: every step of       *)
(* every client is a step of BundleProgress or leaves Owner, Done, Known    *)
(* and Complete as they are.                                               *)
(***************************************************************************)
EXTENDS ApplierProofs

USE ClientAssumption, BundleAssumption DEF UnitIndex, RunStatus, UnitStatus, NoUnit

-----------------------------------------------------------------------------
(* What a step of one client leaves alone *)

LEMMA OthersKeepPlace ==
    ASSUME TypeOK, NEW c \in Client, Proceed(c) \/ Operate(c) \/ Fault(c),
           NEW d \in Client, d # c
    PROVE  pc'[d] = pc[d] /\ bundle'[d] = bundle[d] /\ approved'[d] = approved[d]
  <1> DEFINE Same == pc'[d] = pc[d] /\ bundle'[d] = bundle[d]
                        /\ approved'[d] = approved[d]
  <1>1. /\ pc \in [Client -> PC]
        /\ bundle \in [Client -> Bundle \cup {NoBundle}]
        /\ approved \in [Client -> BOOLEAN]
    BY DEF TypeOK
  <1> USE <1>1 DEF Goto, Exit, Stop, local
  <1>2. GuardReadHistory(c) \/ GuardInspect(c) \/ AcquireLock(c) \/ LockTimeout(c)
            => Same
    BY DEF GuardReadHistory, GuardInspect, AcquireLock, LockTimeout
  <1>3. LoadHistory(c) \/ Bootstrap(c) \/ StartRun(c) => Same
    BY DEF LoadHistory, Bootstrap, StartRun
  <1>4. BeginUnit(c) \/ RunStatement(c) \/ CommitUnit(c) => Same
    BY DEF BeginUnit, RunStatement, CommitUnit
  <1>5. MarkRunning(c) \/ ExecuteUnit(c) \/ ExecuteRefused(c) \/ MarkApplied(c)
            \/ RecordFailure(c) => Same
    BY DEF MarkRunning, ExecuteUnit, ExecuteRefused, MarkApplied, RecordFailure
  <1>6. FinishFailed(c) \/ FinishApplied(c) \/ Return(c) \/ FinishCancelled(c)
            \/ Unlock(c) => Same
    BY DEF FinishFailed, FinishApplied, Return, FinishCancelled, Unlock
  <1>7. Operate(c) => Same
    BY DEF Operate, BeginAttempt, Confirm
  <1>8. Fault(c) => Same
    BY DEF Fault, StatementFails, ExecuteFails, Cancel, Abort, Crash
  <1> QED
    BY <1>2, <1>3, <1>4, <1>5, <1>6, <1>7, <1>8 DEF Proceed

\* A client that holds the lock or waits for it keeps its bundle and its
\* approval, unless its process ends.
LEMMA KeepsBundle ==
    ASSUME TypeOK, NEW c \in Client, Proceed(c) \/ Operate(c) \/ Fault(c),
           pc[c] \in Holding \cup {"lock"}, pc'[c] # "idle"
    PROVE  bundle'[c] = bundle[c] /\ approved'[c] = approved[c]
  <1> DEFINE Same == bundle'[c] = bundle[c] /\ approved'[c] = approved[c]
  <1>1. pc \in [Client -> PC]
    BY DEF TypeOK
  <1> USE <1>1 DEF Goto, Exit, Stop, local
  <1>2. ~(GuardReadHistory(c) \/ GuardInspect(c) \/ Operate(c))
    BY DEF GuardReadHistory, GuardInspect, Operate, BeginAttempt, Confirm,
       Holding, Applying
  <1>3. AcquireLock(c) \/ LockTimeout(c) \/ LoadHistory(c) \/ Bootstrap(c)
            \/ StartRun(c) => Same
    BY DEF AcquireLock, LockTimeout, LoadHistory, Bootstrap, StartRun
  <1>4. BeginUnit(c) \/ RunStatement(c) \/ CommitUnit(c) => Same
    BY DEF BeginUnit, RunStatement, CommitUnit
  <1>5. MarkRunning(c) \/ ExecuteUnit(c) \/ ExecuteRefused(c) \/ MarkApplied(c)
            \/ RecordFailure(c) => Same
    BY DEF MarkRunning, ExecuteUnit, ExecuteRefused, MarkApplied, RecordFailure
  <1>6. FinishFailed(c) \/ FinishApplied(c) \/ Return(c) \/ FinishCancelled(c)
            \/ Unlock(c) => Same
    BY DEF FinishFailed, FinishApplied, Return, FinishCancelled, Unlock
  <1>7. Fault(c) => Same
    BY DEF Fault, StatementFails, ExecuteFails, Cancel, Abort, Crash
  <1> QED
    BY <1>2, <1>3, <1>4, <1>5, <1>6, <1>7 DEF Proceed

-----------------------------------------------------------------------------
(* Rows exist only in a verified history *)

\* Only start_run creates a row, and only finish_run and start_run change one.
LEMMA RunRows ==
    ASSUME IInv, NEW c \in Client, Proceed(c) \/ Operate(c) \/ Fault(c),
           NEW id \in Id, HasRun(id)'
    PROVE  HasRun(id) \/ pc[c] = "start"
  <1> SUFFICES ASSUME pc[c] # "start" PROVE HasRun(id)
    OBVIOUS
  <1>1. CASE \/ run' = run
             \/ \E x \in Id, status \in RunStatus,
                       failed \in UnitIndex \cup {NoUnit} :
                   HasRun(x) /\ FinishRun(x, status, failed)
    BY <1>1 DEF IInv, TypeOK, FinishRun, HasRun
  <1>2. CASE FinishFailed(c) \/ FinishApplied(c)
    <2>1. pc[c] \in InRun /\ MyId(c) \in Id /\ HasRun(MyId(c)) /\ LoopInv(c)
      BY <1>2, AtWork DEF FinishFailed, FinishApplied, InRun
    <2>2. pc[c] = "finishFailed" => idx[c] \in UnitIndex
      BY <2>1, CurrentUnit DEF LoopInv, InRun
    <2> QED
      BY <1>1, <1>2, <2>1, <2>2 DEF FinishFailed, FinishApplied
  <1>3. CASE FinishCancelled(c)
    <2>1. MyId(c) \in Id
      BY <1>3, Holder DEF FinishCancelled, Holding
    <2> QED
      BY <1>1, <1>3, <2>1 DEF FinishCancelled
  <1>4. CASE Proceed(c) /\ ~(FinishFailed(c) \/ FinishApplied(c) \/ FinishCancelled(c))
    BY <1>1, <1>4 DEF Proceed, GuardReadHistory, GuardInspect, AcquireLock,
       LockTimeout,
       LoadHistory, Bootstrap, StartRun, BeginUnit, RunStatement, CommitUnit,
       MarkRunning, ExecuteUnit, ExecuteRefused, MarkApplied, RecordFailure,
       Return, Unlock, database
  <1>5. CASE Operate(c) \/ Fault(c)
    BY <1>1, <1>5 DEF Operate, BeginAttempt, Confirm, Fault, StatementFails,
       ExecuteFails, Cancel, Abort, Crash, database, history
  <1> QED
    BY <1>2, <1>3, <1>4, <1>5

\* Only Bootstrap leads to start_run.
LEMMA ToStart ==
    ASSUME IInv, NEW c \in Client, Proceed(c) \/ Operate(c) \/ Fault(c),
           NEW d \in Client, pc'[d] = "start"
    PROVE  pc[d] = "start" \/ historySchema' = "ready"
  <1> USE DEF IInv, TypeOK, Goto, Exit, Stop
  <1>1. CASE d # c
    <2>1. pc'[d] = pc[d]
      BY <1>1 DEF Proceed, GuardReadHistory, GuardInspect, AcquireLock,
         LockTimeout, LoadHistory, Bootstrap, StartRun, BeginUnit, RunStatement,
         CommitUnit, MarkRunning, ExecuteUnit, ExecuteRefused, MarkApplied,
         RecordFailure,
         FinishFailed, FinishApplied, FinishCancelled, Return, Unlock, Operate,
         BeginAttempt, Confirm, Fault, StatementFails, ExecuteFails, Cancel,
         Abort, Crash
    <2> QED
      BY <2>1
  <1>2. CASE d = c
    BY <1>2 DEF Proceed, GuardReadHistory, GuardInspect, AcquireLock, LockTimeout,
       LoadHistory, Bootstrap, StartRun, BeginUnit, RunStatement, CommitUnit,
       MarkRunning, ExecuteUnit, ExecuteRefused, MarkApplied, RecordFailure,
       FinishFailed,
       FinishApplied, FinishCancelled, Return, Unlock, Operate, BeginAttempt,
       Confirm, Fault, StatementFails, ExecuteFails, Cancel, Abort, Crash
  <1> QED
    BY <1>1, <1>2

LEMMA NextSchemaInv == IInv /\ SchemaInv /\ [Next]_vars => SchemaInv'
  <1> SUFFICES ASSUME IInv, SchemaInv, [Next]_vars PROVE SchemaInv'
    OBVIOUS
  <1>1. ASSUME NEW c \in Client, Proceed(c) \/ Operate(c) \/ Fault(c)
        PROVE  SchemaInv'
    <2>1. historySchema = "ready" => historySchema' = "ready"
      BY <1>1 DEF Proceed, GuardReadHistory, GuardInspect, AcquireLock, LockTimeout,
          LoadHistory, Bootstrap, StartRun, BeginUnit, RunStatement, CommitUnit,
          MarkRunning, ExecuteUnit, ExecuteRefused, MarkApplied, RecordFailure,
          FinishFailed,
          FinishApplied, FinishCancelled, Return, Unlock, Operate, BeginAttempt,
          Confirm, Fault, StatementFails, ExecuteFails, Cancel, Abort, Crash,
          database, history
    <2>2. \A id \in Id : HasRun(id)' => historySchema' = "ready"
      BY <1>1, <2>1, RunRows DEF SchemaInv
    <2>3. \A d \in Client : pc'[d] = "start" => historySchema' = "ready"
      BY <1>1, <2>1, ToStart DEF SchemaInv
    <2> QED
      BY <2>2, <2>3 DEF SchemaInv
  <1>2. CASE Elsewhere
    BY <1>2 DEF SchemaInv, HasRun, Elsewhere, Drift, ReserveName, DropIndex, history
  <1>3. CASE UNCHANGED vars
    BY <1>3 DEF SchemaInv, HasRun, vars, database
  <1> QED
    BY <1>1, <1>2, <1>3 DEF Next

LEMMA SchemaInvariance == Spec => []SchemaInv
  <1>1. Init => SchemaInv
    BY DEF Init, SchemaInv, HasRun, NoRun
  <1> QED
    BY <1>1, NextSchemaInv, Invariance, PTL DEF Spec

\* Where the reserved schema is somebody else's, nobody has got to start_run.
LEMMA NothingStarted ==
    ASSUME IInv, SchemaInv, historySchema # "ready"
    PROVE  /\ \A id \in Id : ~HasRun(id)
           /\ \A c \in Client : pc[c] \notin InRun \cup {"start"}
  <1>1. \A id \in Id : ~HasRun(id)
    BY DEF SchemaInv
  <1>2. \A c \in Client : pc[c] \notin InRun
    BY <1>1, AtWork
  <1> QED
    BY <1>1, <1>2 DEF SchemaInv

\* apply never takes over a schema it did not create: no statement of a bundle
\* runs, and no row is written, while the reserved schema has another layout.
THEOREM ForeignIsUntouched == Spec => ForeignSchemaUntouched
  <1>1. ASSUME IInv, SchemaInv, [Next]_vars, historySchema = "foreign"
        PROVE  UNCHANGED <<historySchema, run, unit, effect>>
    <2>1. ASSUME NEW c \in Client, Proceed(c) \/ Operate(c) \/ Fault(c)
          PROVE  UNCHANGED <<historySchema, run, unit, effect>>
      <3>1. pc[c] \notin InRun \cup {"start"}
        BY <1>1, NothingStarted
      <3>2. CASE FinishCancelled(c)
        <4>1. MyId(c) \in Id
          BY <1>1, <3>2, Holder DEF FinishCancelled, Holding
        <4> QED
          BY <1>1, <3>2, <4>1, NothingStarted DEF FinishCancelled
      <3>3. CASE ~FinishCancelled(c)
        BY <1>1, <2>1, <3>1, <3>3 DEF InRun, database, history, Proceed,
           GuardReadHistory, GuardInspect, AcquireLock, LockTimeout,
             LoadHistory, Bootstrap, StartRun, BeginUnit, RunStatement, CommitUnit,
             MarkRunning, ExecuteUnit, ExecuteRefused, MarkApplied,
             RecordFailure, FinishFailed,
             FinishApplied, Return, Unlock, Operate, BeginAttempt,
             Confirm, Fault, StatementFails, ExecuteFails, Cancel, Abort, Crash
      <3> QED
        BY <3>2, <3>3
    <2>2. CASE Elsewhere \/ UNCHANGED vars
      BY <1>1, <2>2 DEF Elsewhere, Drift, ReserveName, DropIndex, vars, database,
         history
    <2> QED
      BY <1>1, <2>1, <2>2 DEF Next
  <1> QED
    BY <1>1, Invariance, SchemaInvariance, PTL DEF Spec, ForeignSchemaUntouched

-----------------------------------------------------------------------------
(* A history in doubt *)

\* A client in the loop whose unit is not under way sees nothing in doubt.
LEMMA NoDoubt ==
    ASSUME IInv, NEW c \in Client, pc[c] \in {"unit", "tx"},
           NEW i \in UnitIndex
    PROVE  unit[MyId(c)][i] # "running"
  <1>1. pc[c] \in InRun
    BY DEF InRun
  <1>2. PICK id \in Id, b \in Bundle : id = MyId(c) /\ b = bundle[c]
    BY <1>1, AtWork
  <1>3. /\ HasRun(id)
        /\ Units[run[id].bundle] = Units[b]
        /\ LayoutMatches(b, id)
        /\ ~Indeterminate(b, id)
        /\ Units[b] \in 0 .. MaxUnits
    BY <1>1, <1>2, AtWork DEF LoopInv, Knows
  <1> SUFFICES ASSUME unit[id][i] = "running" PROVE FALSE
    BY <1>2
  <1>4. i < Units[b]
    BY <1>3 DEF IInv, DatabaseInv, RowInv
  <1>5. i \in 0 .. (Units[b] - 1)
    BY <1>3, <1>4
  <1>6. ~Transactional[run[id].bundle][i]
    BY DEF IInv, DatabaseInv, MarkerTruth
  <1>7. Transactional[run[id].bundle][i] = Transactional[b][i]
    BY <1>3, <1>5 DEF LayoutMatches
  <1> QED
    BY <1>3, <1>5, <1>6, <1>7 DEF Indeterminate

\* Nobody starts on a unit of an id in doubt.
LEMMA NobodyStarts ==
    ASSUME IInv, NEW id \in Id, NEW i \in UnitIndex, unit[id][i] = "running",
           ~WorkedOn(id), NEW c \in Client, Proceed(c) \/ Operate(c) \/ Fault(c)
    PROVE  ~WorkedOn(id)'
  <1> SUFFICES ASSUME NEW d \in Client, pc'[d] \in {"exec", "mark", "record"},
                      IdOf[bundle'[d]] = id
               PROVE  FALSE
    BY DEF WorkedOn, MyId
  <1>1. pc[c] \in {"unit", "tx"} => IdOf[bundle[c]] # id
    BY NoDoubt DEF MyId
  <1>2. CASE d # c
    <2>1. pc'[d] = pc[d] /\ bundle'[d] = bundle[d]
      BY <1>2, OthersKeepPlace DEF IInv
    <2> QED
      BY <2>1 DEF WorkedOn, MyId
  <1>3. CASE d = c
    <2>1. pc[c] \in {"unit", "tx", "exec"}
      <3>1. pc \in [Client -> PC] /\ pc'[c] \in {"exec", "mark", "record"}
        BY <1>3 DEF IInv, TypeOK
      <3> USE <3>1 DEF Goto, Exit, Stop
      <3>2. Proceed(c) => pc[c] \in {"unit", "tx", "exec"}
        <4>1. ~(\/ GuardReadHistory(c) \/ GuardInspect(c) \/ AcquireLock(c)
                \/ LockTimeout(c) \/ LoadHistory(c) \/ Bootstrap(c))
          BY DEF GuardReadHistory, GuardInspect, AcquireLock, LockTimeout,
             LoadHistory, Bootstrap
        <4>2. ~(\/ StartRun(c) \/ MarkApplied(c) \/ RecordFailure(c)
                \/ FinishFailed(c) \/ FinishApplied(c) \/ Return(c)
                \/ FinishCancelled(c) \/ Unlock(c))
          BY DEF StartRun, MarkApplied, RecordFailure, FinishFailed,
             FinishApplied, Return, FinishCancelled, Unlock
        <4>3. (\/ BeginUnit(c) \/ RunStatement(c) \/ CommitUnit(c)
               \/ MarkRunning(c) \/ ExecuteUnit(c) \/ ExecuteRefused(c))
                => pc[c] \in {"unit", "tx", "exec"}
          BY DEF BeginUnit, RunStatement, CommitUnit, MarkRunning, ExecuteUnit,
             ExecuteRefused
        <4> QED
          BY <4>1, <4>2, <4>3 DEF Proceed
      <3>3. ~Operate(c)
        BY DEF Operate, BeginAttempt, Confirm
      <3>4. Fault(c) => pc[c] \in {"unit", "tx", "exec"}
        BY DEF Fault, StatementFails, ExecuteFails, Cancel, Abort, Crash
      <3> QED
        BY <3>2, <3>3, <3>4
    <2>2. bundle'[c] = bundle[c]
      BY <1>3, <2>1, KeepsBundle DEF IInv, Holding, Applying
    <2>3. CASE pc[c] \in {"unit", "tx"}
      BY <1>1, <1>3, <2>2, <2>3
    <2>4. CASE pc[c] = "exec"
      BY <1>3, <2>2, <2>4 DEF WorkedOn, MyId
    <2> QED
      BY <2>1, <2>3, <2>4
  <1> QED
    BY <1>2, <1>3

\* A non-transactional unit that a lost client left running is never run again,
\* and neither is any other unit of its bundle.
THEOREM DoubtStays == Spec => DoubtIsKept
  <1>1. ASSUME IInv, [Next]_vars, NEW id \in Id, NEW i \in UnitIndex,
               unit[id][i] = "running",
               ~WorkedOn(id)
        PROVE  unit'[id] = unit[id] /\ effect'[id] = effect[id] /\ ~WorkedOn(id)'
    <2>1. ASSUME NEW c \in Client, Proceed(c) \/ Operate(c) \/ Fault(c)
          PROVE  unit'[id] = unit[id] /\ effect'[id] = effect[id]
      <3> USE DEF WorkedOn
      <3>1. CASE StartRun(c)
        <4>1. HasRun(id)
          BY <1>1 DEF IInv, DatabaseInv, RowInv
        <4> QED
          BY <1>1, <3>1, <4>1 DEF StartRun, IInv, TypeOK
      <3>2. CASE CommitUnit(c) \/ MarkRunning(c)
        <4>1. MyId(c) # id
          BY <1>1, <3>2, NoDoubt DEF CommitUnit, MarkRunning
        <4> QED
          BY <1>1, <3>2, <4>1 DEF CommitUnit, MarkRunning, IInv, TypeOK
      <3>3. CASE ExecuteUnit(c) \/ MarkApplied(c) \/ RecordFailure(c)
        BY <1>1, <3>3 DEF ExecuteUnit, MarkApplied, RecordFailure, IInv, TypeOK
      <3>4. CASE ~(\/ StartRun(c) \/ CommitUnit(c) \/ MarkRunning(c)
                   \/ ExecuteUnit(c) \/ MarkApplied(c) \/ RecordFailure(c))
        BY <2>1, <3>4 DEF Proceed, GuardReadHistory, GuardInspect, AcquireLock,
           LockTimeout, LoadHistory, Bootstrap, BeginUnit, RunStatement,
           ExecuteRefused,
           FinishFailed, FinishApplied, FinishCancelled, Return, Unlock, Operate,
           BeginAttempt, Confirm, Fault, StatementFails, ExecuteFails, Cancel,
           Abort, Crash, database, history
      <3> QED
        BY <3>1, <3>2, <3>3, <3>4
    <2>2. CASE Elsewhere \/ UNCHANGED vars
      BY <1>1, <2>2 DEF Elsewhere, Drift, ReserveName, DropIndex, vars, database,
         history, local,
         WorkedOn, MyId
    <2> QED
      BY <1>1, <2>1, <2>2, NobodyStarts DEF Next
  <1>2. IInv /\ [Next]_vars => LeavesDoubt
    BY <1>1 DEF LeavesDoubt
  <1> QED
    BY <1>2, Invariance, PTL DEF Spec, DoubtIsKept

-----------------------------------------------------------------------------
(* What may run *)

\* Whoever gets as far as the lock came through Confirm, and its bundle and
\* its approval do not change before the attempt ends.
LEMMA ApprovalStep ==
    ASSUME IInv, ApprovalInv, NEW c \in Client,
           Proceed(c) \/ Operate(c) \/ Fault(c)
    PROVE  ApprovalInv'
  <1> SUFFICES ASSUME NEW d \in Client, pc'[d] \in Holding \cup {"lock"}
               PROVE  RiskAllowed(bundle[d], approved[d])'
    BY DEF ApprovalInv
  <1>1. d # c => pc'[d] = pc[d] /\ bundle'[d] = bundle[d] /\ approved'[d] = approved[d]
    BY OthersKeepPlace DEF IInv
  <1>2. d = c /\ pc[c] \in Holding \cup {"lock"} =>
            bundle'[c] = bundle[c] /\ approved'[c] = approved[c]
    BY KeepsBundle DEF IInv, Holding, Applying
  <1>3. CASE d # c
    BY <1>1, <1>3 DEF ApprovalInv, RiskAllowed
  <1>4. CASE d = c /\ pc[c] \in Holding \cup {"lock"}
    BY <1>2, <1>4 DEF ApprovalInv, RiskAllowed
  <1>5. CASE d = c /\ pc[c] \notin Holding \cup {"lock"}
    <2> USE DEF IInv, TypeOK, Goto, Exit, Stop
    <2>1. PICK yes \in BOOLEAN : Confirm(c, yes)
      <3>1. ~Proceed(c)
        <4>1. ~GuardReadHistory(c) /\ ~GuardInspect(c)
          BY <1>5 DEF GuardReadHistory, GuardInspect, Holding, Applying
        <4>2. ~(AcquireLock(c) \/ LockTimeout(c) \/ LoadHistory(c) \/ Bootstrap(c)
                \/ StartRun(c) \/ FinishCancelled(c) \/ Return(c) \/ Unlock(c))
          BY <1>5 DEF AcquireLock, LockTimeout, LoadHistory, Bootstrap, StartRun,
             FinishCancelled, Return, Unlock, Holding, Applying
        <4>3. ~(BeginUnit(c) \/ RunStatement(c) \/ CommitUnit(c) \/ MarkRunning(c)
                \/ ExecuteUnit(c) \/ ExecuteRefused(c) \/ MarkApplied(c)
                \/ RecordFailure(c) \/ FinishFailed(c) \/ FinishApplied(c))
          BY <1>5 DEF BeginUnit, RunStatement, CommitUnit, MarkRunning,
             ExecuteUnit, ExecuteRefused, MarkApplied, RecordFailure,
             FinishFailed, FinishApplied, Holding, Applying
        <4> QED
          BY <4>1, <4>2, <4>3 DEF Proceed
      <3>2. ~Fault(c)
        BY <1>5 DEF Fault, StatementFails, ExecuteFails, Cancel, Abort, Crash,
           Holding, Applying
      <3>3. \A b \in Bundle, skip \in BOOLEAN : ~BeginAttempt(c, b, skip)
        BY <1>5 DEF BeginAttempt, Holding, Applying
      <3> QED
        BY <3>1, <3>2, <3>3 DEF Operate
    <2>2. RiskAllowed(bundle[c], yes)
      BY <1>5, <2>1 DEF Confirm, Holding, Applying
    <2>3. bundle'[c] = bundle[c] /\ approved'[c] = yes
      BY <2>1, <2>2 DEF Confirm
    <2> QED
      BY <1>5, <2>2, <2>3 DEF RiskAllowed
  <1> QED
    BY <1>3, <1>4, <1>5

LEMMA ApprovalInvariance == Spec => []ApprovalInv
  <1>1. Init => ApprovalInv
    BY DEF Init, ApprovalInv, Holding, Applying
  <1>2. IInv /\ ApprovalInv /\ [Next]_vars => ApprovalInv'
    <2> SUFFICES ASSUME IInv, ApprovalInv, [Next]_vars PROVE ApprovalInv'
      OBVIOUS
    <2>1. CASE Elsewhere \/ UNCHANGED vars
      BY <2>1 DEF ApprovalInv, RiskAllowed, Elsewhere, Drift, ReserveName,
         DropIndex, vars, local
    <2> QED
      BY <2>1, ApprovalStep DEF Next
  <1> QED
    BY <1>1, <1>2, Invariance, PTL DEF Spec

\* The SQL of a bundle id runs only for a bundle with the content that its
\* first run recorded, and destructive SQL only with approval.
THEOREM ContentIsPinned == Spec => ContentPinned
  <1>1. ASSUME IInv, ApprovalInv, [Next]_vars, NEW id \in Id,
               effect'[id] # effect[id]
        PROVE  \E c \in Client :
                  /\ bundle[c] \in Bundle
                  /\ MyId(c) = id
                  /\ SameContent(bundle[c], run[id].bundle)
                  /\ MaxRisk[bundle[c]] = "destructive" => approved[c]
    <2>1. PICK c \in Client : CommitUnit(c) \/ ExecuteUnit(c)
      <3>1. ~(Elsewhere \/ UNCHANGED vars)
        BY <1>1 DEF Elsewhere, Drift, ReserveName, DropIndex, vars, database,
           history
      <3>2. PICK c \in Client : Proceed(c) \/ Operate(c) \/ Fault(c)
        BY <1>1, <3>1 DEF Next
      <3>3. ~(Operate(c) \/ Fault(c))
        BY <1>1 DEF Operate, BeginAttempt, Confirm, Fault, StatementFails,
           ExecuteFails, Cancel, Abort, Crash, database, history
      <3>4. CommitUnit(c) \/ ExecuteUnit(c)
        BY <1>1, <3>2, <3>3 DEF Proceed, GuardReadHistory, GuardInspect,
           AcquireLock, LockTimeout, LoadHistory, Bootstrap, StartRun, BeginUnit,
           RunStatement, MarkRunning, ExecuteRefused, MarkApplied, RecordFailure,
           FinishFailed,
           FinishApplied, FinishCancelled, Return, Unlock, database
      <3> QED
        BY <3>4
    <2>2. pc[c] \in InRun /\ pc[c] \in Holding
      BY <2>1 DEF CommitUnit, ExecuteUnit, InRun, Holding, Applying
    <2>3. bundle[c] \in Bundle /\ Knows(c)
      BY <1>1, <2>2, AtWork
    <2>4. MyId(c) = id
      BY <1>1, <2>1 DEF CommitUnit, ExecuteUnit, IInv, TypeOK
    <2>5. SameContent(bundle[c], run[id].bundle)
      BY <2>3, <2>4 DEF Knows, LayoutMatches, SameContent
    <2>6. MaxRisk[bundle[c]] = "destructive" => approved[c]
      BY <1>1, <2>2 DEF ApprovalInv, RiskAllowed
    <2> QED
      BY <2>3, <2>4, <2>5, <2>6
  <1>2. IInv /\ ApprovalInv /\ [Next]_vars => RunsPinnedContent
    BY <1>1 DEF RunsPinnedContent
  <1> QED
    BY <1>2, Invariance, ApprovalInvariance, PTL DEF Spec, ContentPinned

-----------------------------------------------------------------------------
(* Refinement *)

\* A step that changes no row, or none of what BundleProgress sees of it.
LEMMA SameView ==
    ASSUME \A id \in Id :
              /\ run'[id].bundle = run[id].bundle
              /\ run'[id].status = "applied" <=> run[id].status = "applied"
              /\ \A i \in UnitIndex :
                    /\ unit'[id][i] = "applied" <=> unit[id][i] = "applied"
                    /\ effect'[id][i] = effect[id][i]
    PROVE  UNCHANGED Progress!vars
  <1>1. Owner' = Owner
    BY DEF Owner
  <1>2. Done' = Done
    BY DEF Done
  <1>3. Known' = Known
    BY DEF Known
  <1>4. Complete' = Complete
    BY DEF Complete
  <1> QED
    BY <1>1, <1>2, <1>3, <1>4 DEF Progress!vars

LEMMA InitProgress == Init => Progress!Init
  <1> SUFFICES ASSUME Init PROVE Progress!Init
    OBVIOUS
  <1>1. Owner = [id \in Id |-> NoBundle]
    BY DEF Init, Owner, NoRun
  <1>2. Done = [id \in Id |-> {}]
    BY DEF Init, Done
  <1>3. Known = [id \in Id |-> {}]
    BY DEF Init, Known
  <1>4. Complete = [id \in Id |-> FALSE]
    BY DEF Init, Complete, NoRun
  <1> QED
    BY <1>1, <1>2, <1>3, <1>4 DEF Progress!Init

\* What the client at work knows is what BundleProgress asks of the next unit.
LEMMA AtNext ==
    ASSUME IInv, NEW c \in Client,
           pc[c] \in {"unit", "tx"} \/ pc[c] = "exec",
           idx[c] < Units[bundle[c]]
    PROVE  Progress!IsNext(MyId(c), idx[c])
  <1>1. pc[c] \in InRun
    BY DEF InRun
  <1>2. PICK id \in Id, i \in UnitIndex : id = MyId(c) /\ i = idx[c]
    BY <1>1, AtWork, CurrentUnit
  <1>3. /\ run[id].bundle \in Bundle
        /\ i < Units[run[id].bundle]
        /\ \A j \in 0 .. (i - 1) : unit[id][j] = "applied"
        /\ \A j \in UnitIndex : j > i => unit[id][j] \in {"none", "pending"}
        /\ unit[id][i] # "applied"
    BY <1>1, <1>2, AtWork, CurrentUnit
  <1>4. effect[id][i] = 0
    <2>1. CASE pc[c] = "exec"
      BY <1>1, <1>2, <2>1, AtWork DEF LoopInv
    <2>2. CASE pc[c] \in {"unit", "tx"}
      BY <1>2, <2>2, NotYet
    <2> QED
      BY <2>1, <2>2
  <1>5. MarkerTruth /\ effect \in [Id -> [UnitIndex -> Nat]]
    BY DEF IInv, DatabaseInv, TypeOK
  <1>6. ASSUME NEW k \in UnitIndex
        PROVE  /\ effect[id][k] > 0 <=> k < i
               /\ unit[id][k] = "applied" <=> k < i
    <2>1. CASE k < i
      <3>1. unit[id][k] = "applied"
        BY <1>3, <2>1
      <3> QED
        BY <1>5, <2>1, <3>1 DEF MarkerTruth
    <2>2. CASE k > i
      <3>1. unit[id][k] \in {"none", "pending"}
        BY <1>3, <2>2
      <3>2. effect[id][k] = 0
        BY <1>5, <3>1 DEF MarkerTruth
      <3> QED
        BY <2>2, <3>1, <3>2
    <2>3. CASE k = i
      BY <1>3, <1>4, <2>3
    <2> QED
      BY <2>1, <2>2, <2>3
  <1>7. Done[id] = 0 .. (i - 1)
    BY <1>6 DEF Done
  <1>8. Known[id] = 0 .. (i - 1)
    BY <1>6 DEF Known
  <1>9. Owner[id] = run[id].bundle
    BY DEF Owner
  <1> QED
    BY <1>2, <1>3, <1>7, <1>8, <1>9 DEF Progress!IsNext

\* A unit takes effect; a unit is acknowledged.
LEMMA DoneGrows ==
    ASSUME NEW id \in Id, NEW i \in UnitIndex,
           \A x \in Id, k \in UnitIndex :
              effect'[x][k] > 0 <=> effect[x][k] > 0 \/ (x = id /\ k = i)
    PROVE  Done' = [Done EXCEPT ![id] = @ \cup {i}]
  <1>1. ASSUME NEW x \in Id
        PROVE  Done'[x] = IF x = id THEN Done[id] \cup {i} ELSE Done[x]
    BY DEF Done
  <1> QED
    BY <1>1 DEF Done

LEMMA KnownGrows ==
    ASSUME NEW id \in Id, NEW i \in UnitIndex,
           \A x \in Id, k \in UnitIndex :
              unit'[x][k] = "applied" <=> unit[x][k] = "applied" \/ (x = id /\ k = i)
    PROVE  Known' = [Known EXCEPT ![id] = @ \cup {i}]
  <1>1. ASSUME NEW x \in Id
        PROVE  Known'[x] = IF x = id THEN Known[id] \cup {i} ELSE Known[x]
    BY DEF Known
  <1> QED
    BY <1>1 DEF Known

\* finish_run changes the status of one run and the bundle of none.
LEMMA FinishRunRows ==
    ASSUME IInv, NEW id \in Id, NEW status, NEW failed,
           FinishRun(id, status, failed)
    PROVE  /\ run'[id].status = status
           /\ \A x \in Id : x # id => run'[x] = run[x]
           /\ \A x \in Id : run'[x].bundle = run[x].bundle
  <1>1. run \in [Id -> [status : RunStatus \cup {"none"},
                        bundle : Bundle \cup {NoBundle},
                        failedUnit : UnitIndex \cup {NoUnit}]]
    BY DEF IInv, TypeOK
  <1> QED
    BY <1>1 DEF FinishRun

-----------------------------------------------------------------------------
(* The steps that a reader of the database can see *)

\* A transactional unit takes effect and is acknowledged in one step.
LEMMA CommitUnitMaps ==
    ASSUME IInv, NEW c \in Client, CommitUnit(c)
    PROVE  Progress!CommitUnit(MyId(c), idx[c])
  <1>1. pc[c] \in InRun /\ pc[c] = "tx"
    BY DEF CommitUnit, InRun
  <1>2. idx[c] < Units[bundle[c]] /\ Transactional[bundle[c]][idx[c]]
    BY <1>1, AtWork DEF LoopInv
  <1>3. PICK id \in Id, i \in UnitIndex : id = MyId(c) /\ i = idx[c]
    BY <1>1, <1>2, AtWork, CurrentUnit
  <1>4. Progress!IsNext(id, i)
    BY <1>1, <1>2, <1>3, AtNext
  <1>5. Transactional[Owner[id]][i]
    BY <1>1, <1>2, <1>3, CurrentUnit DEF Owner
  <1>6. effect[id][i] = 0
    BY <1>1, <1>2, <1>3, NotYet
  <1>7. \A x \in Id, k \in UnitIndex :
           effect'[x][k] > 0 <=> effect[x][k] > 0 \/ (x = id /\ k = i)
    <2>1. /\ \A x \in Id : x # id => effect'[x] = effect[x]
          /\ \A k \in UnitIndex : k # i => effect'[id][k] = effect[id][k]
          /\ effect'[id][i] = 1
      BY <1>3, <1>6 DEF CommitUnit, IInv, TypeOK
    <2> QED
      BY <2>1
  <1>8. \A x \in Id, k \in UnitIndex :
           unit'[x][k] = "applied" <=> unit[x][k] = "applied" \/ (x = id /\ k = i)
    <2>1. /\ \A x \in Id : x # id => unit'[x] = unit[x]
          /\ \A k \in UnitIndex : k # i => unit'[id][k] = unit[id][k]
          /\ unit'[id][i] = "applied"
      BY <1>3 DEF CommitUnit, IInv, TypeOK
    <2> QED
      BY <2>1
  <1>9. Done' = [Done EXCEPT ![id] = @ \cup {i}] /\ Known' = [Known EXCEPT ![id] = @ \cup {i}]
    BY <1>7, <1>8, DoneGrows, KnownGrows
  <1>10. Owner' = Owner /\ Complete' = Complete
    BY DEF CommitUnit, Owner, Complete
  <1> QED
    BY <1>3, <1>4, <1>5, <1>9, <1>10 DEF Progress!CommitUnit

\* A non-transactional unit takes effect before it is acknowledged.
LEMMA ExecuteUnitMaps ==
    ASSUME IInv, NEW c \in Client, ExecuteUnit(c)
    PROVE  Progress!ExecuteUnit(MyId(c), idx[c])
  <1>1. pc[c] \in InRun /\ pc[c] = "exec"
    BY DEF ExecuteUnit, InRun
  <1>2. /\ idx[c] < Units[bundle[c]] /\ ~Transactional[bundle[c]][idx[c]]
        /\ effect[MyId(c)][idx[c]] = 0
    BY <1>1, AtWork DEF LoopInv
  <1>3. PICK id \in Id, i \in UnitIndex : id = MyId(c) /\ i = idx[c]
    BY <1>1, <1>2, AtWork, CurrentUnit
  <1>4. Progress!IsNext(id, i)
    BY <1>1, <1>2, <1>3, AtNext
  <1>5. ~Transactional[Owner[id]][i]
    BY <1>1, <1>2, <1>3, CurrentUnit DEF Owner
  <1>6. \A x \in Id, k \in UnitIndex :
           effect'[x][k] > 0 <=> effect[x][k] > 0 \/ (x = id /\ k = i)
    <2>1. /\ \A x \in Id : x # id => effect'[x] = effect[x]
          /\ \A k \in UnitIndex : k # i => effect'[id][k] = effect[id][k]
          /\ effect'[id][i] = 1
      BY <1>2, <1>3 DEF ExecuteUnit, IInv, TypeOK
    <2> QED
      BY <2>1
  <1>7. Done' = [Done EXCEPT ![id] = @ \cup {i}]
    BY <1>6, DoneGrows
  <1>8. Owner' = Owner /\ Known' = Known /\ Complete' = Complete
    BY DEF ExecuteUnit, Owner, Known, Complete
  <1> QED
    BY <1>3, <1>4, <1>5, <1>7, <1>8 DEF Progress!ExecuteUnit

\* The unit that took effect is acknowledged.
LEMMA MarkAppliedMaps ==
    ASSUME IInv, NEW c \in Client, MarkApplied(c)
    PROVE  Progress!Acknowledge(MyId(c))
  <1>1. pc[c] \in InRun /\ pc[c] = "mark"
    BY DEF MarkApplied, InRun
  <1>2. /\ idx[c] < Units[bundle[c]]
        /\ effect[MyId(c)][idx[c]] = 1 /\ unit[MyId(c)][idx[c]] = "running"
    BY <1>1, AtWork DEF LoopInv
  <1>3. PICK id \in Id, i \in UnitIndex : id = MyId(c) /\ i = idx[c]
    BY <1>1, <1>2, AtWork, CurrentUnit
  <1>4. /\ \A j \in 0 .. (i - 1) : unit[id][j] = "applied"
        /\ \A j \in UnitIndex : j > i => unit[id][j] \in {"none", "pending"}
    BY <1>1, <1>2, <1>3, CurrentUnit
  <1>5. MarkerTruth /\ effect \in [Id -> [UnitIndex -> Nat]]
    BY DEF IInv, DatabaseInv, TypeOK
  <1>6. /\ \A x \in Id : x # id => unit'[x] = unit[x]
        /\ \A k \in UnitIndex : k # i => unit'[id][k] = unit[id][k]
        /\ unit'[id][i] = "applied"
        /\ effect' = effect /\ run' = run
    BY <1>3 DEF MarkApplied, IInv, TypeOK
  <1>7. ASSUME NEW k \in UnitIndex
        PROVE  unit'[id][k] = "applied" <=> effect[id][k] > 0
    <2>1. CASE k < i
      <3>1. unit[id][k] = "applied" /\ unit'[id][k] = unit[id][k]
        BY <1>4, <1>6, <2>1
      <3> QED
        BY <1>5, <3>1 DEF MarkerTruth
    <2>2. CASE k > i
      <3>1. unit[id][k] \in {"none", "pending"} /\ unit'[id][k] = unit[id][k]
        BY <1>4, <1>6, <2>2
      <3> QED
        BY <1>5, <3>1 DEF MarkerTruth
    <2>3. CASE k = i
      BY <1>2, <1>3, <1>6, <2>3
    <2> QED
      BY <2>1, <2>2, <2>3
  <1>8. Known[id] # Done[id]
    <2>1. i \notin Known[id] /\ i \in Done[id]
      BY <1>2, <1>3 DEF Known, Done
    <2> QED
      BY <2>1
  <1>9. Known' = [Known EXCEPT ![id] = Done[id]]
    <2>1. ASSUME NEW x \in Id
          PROVE  Known'[x] = IF x = id THEN Done[id] ELSE Known[x]
      BY <1>6, <1>7 DEF Known, Done
    <2> QED
      BY <2>1 DEF Known
  <1>10. Owner' = Owner /\ Done' = Done /\ Complete' = Complete
    BY <1>6 DEF Owner, Done, Complete
  <1> QED
    BY <1>3, <1>8, <1>9, <1>10 DEF Progress!Acknowledge

\* The first start_run of an id claims it; a resume cannot be seen.
LEMMA StartRunMaps ==
    ASSUME IInv, NEW c \in Client, StartRun(c)
    PROVE  Progress!Claim(MyId(c), bundle[c]) \/ UNCHANGED Progress!vars
  <1>1. PICK b \in Bundle, id \in Id : b = bundle[c] /\ id = MyId(c)
    BY Holder DEF StartRun, Holding, Applying
  <1>2. IdOf[b] = id /\ ReadInv(c) /\ effect' = effect
    BY <1>1 DEF MyId, IInv, ClientInv, StartRun
  <1>3. CASE resumed[c] # HasRun(id)
    BY <1>1, <1>2, <1>3, SameView DEF StartRun
  <1>4. CASE resumed[c] = HasRun(id) /\ resumed[c]
    <2>1. unit' = unit
      BY <1>1, <1>4 DEF StartRun
    <2>2. run[id].status # "applied"
      BY <1>1, <1>2, <1>4 DEF ReadInv, ResumesAt, StartRun, MyId
    <2>3. \A x \in Id : /\ run'[x].bundle = run[x].bundle
                        /\ run'[x].status = "applied" <=> run[x].status = "applied"
      <3>1. run' = [run EXCEPT ![id] = [status |-> "running", bundle |-> @.bundle,
                                        failedUnit |-> NoUnit]]
        BY <1>1, <1>4 DEF StartRun
      <3> QED
        BY <2>2, <3>1 DEF IInv, TypeOK
    <2> QED
      BY <1>2, <2>1, <2>3, SameView
  <1>5. CASE resumed[c] = HasRun(id) /\ ~resumed[c]
    <2>1. /\ run' = [run EXCEPT ![id] = [status |-> "running",
                                         bundle |-> IF resumed[c] THEN @.bundle ELSE b,
                                         failedUnit |-> NoUnit]]
          /\ unit' = [unit EXCEPT ![id] = [i \in UnitIndex |->
                                 IF i < Units[b] THEN "pending" ELSE "none"]]
      BY <1>1, <1>5 DEF StartRun
    <2>2. /\ run[id].bundle = NoBundle /\ run[id].status = "none"
          /\ \A i \in UnitIndex : unit[id][i] = "none"
      <3>1. ~HasRun(id)
        BY <1>5
      <3>2. /\ run[id].bundle \notin Bundle
            /\ \A i \in UnitIndex : unit[id][i] = "none"
        BY <3>1 DEF IInv, DatabaseInv, RowInv
      <3>3. run[id].bundle \in Bundle \cup {NoBundle}
        BY DEF IInv, TypeOK
      <3> QED
        BY <3>1, <3>2, <3>3 DEF HasRun
    <2>3. /\ \A x \in Id : x # id => run'[x] = run[x] /\ unit'[x] = unit[x]
          /\ run'[id].status = "running" /\ run'[id].bundle = b
          /\ \A i \in UnitIndex : unit'[id][i] # "applied"
      BY <1>5, <2>1 DEF IInv, TypeOK
    <2>4. Owner[id] = NoBundle /\ Owner' = [Owner EXCEPT ![id] = b]
      BY <2>2, <2>3 DEF Owner
    <2>5. Done' = Done
      BY <1>2 DEF Done
    <2>6. Known' = Known
      <3>1. \A x \in Id, i \in UnitIndex :
               unit'[x][i] = "applied" <=> unit[x][i] = "applied"
        BY <2>2, <2>3
      <3> QED
        BY <3>1 DEF Known
    <2>7. Complete' = Complete
      <3>1. \A x \in Id : run'[x].status = "applied" <=> run[x].status = "applied"
        BY <2>2, <2>3
      <3> QED
        BY <3>1 DEF Complete
    <2> QED
      BY <1>1, <1>2, <2>4, <2>5, <2>6, <2>7 DEF Progress!Claim
  <1> QED
    BY <1>3, <1>4, <1>5

\* The run is recorded as applied when all of it was acknowledged.
LEMMA FinishAppliedMaps ==
    ASSUME IInv, NEW c \in Client, FinishApplied(c)
    PROVE  Progress!Complete(MyId(c))
  <1>1. pc[c] \in InRun
    BY DEF FinishApplied, InRun
  <1>2. PICK id \in Id, n \in 0 .. MaxUnits : id = MyId(c) /\ n = Units[bundle[c]]
    BY <1>1, AtWork
  <1>3. /\ run[id].bundle \in Bundle /\ Units[run[id].bundle] = n
        /\ FirstNonApplied(id, n, n)
    BY <1>1, <1>2, AtWork DEF FinishApplied, Knows
  <1>4. /\ MarkerTruth /\ RowInv /\ effect \in [Id -> [UnitIndex -> Nat]]
    BY DEF IInv, DatabaseInv, TypeOK
  <1>5. ASSUME NEW k \in UnitIndex
        PROVE  /\ unit[id][k] = "applied" <=> k < n
               /\ effect[id][k] > 0 <=> k < n
    <2>1. CASE k < n
      <3>0. k \in 0 .. (n - 1)
        BY <2>1
      <3>1. unit[id][k] = "applied"
        BY <1>3, <2>1, <3>0 DEF FirstNonApplied
      <3> QED
        BY <1>4, <2>1, <3>1 DEF MarkerTruth
    <2>2. CASE ~(k < n)
      <3>1. unit[id][k] = "none"
        BY <1>3, <1>4, <2>2 DEF RowInv
      <3>2. effect[id][k] = 0
        BY <1>4, <3>1 DEF RowInv
      <3> QED
        BY <2>2, <3>1, <3>2
    <2> QED
      BY <2>1, <2>2
  <1>6. Known[id] = 0 .. (n - 1) /\ Done[id] = 0 .. (n - 1)
    BY <1>5 DEF Known, Done
  <1>7. Owner[id] = run[id].bundle
    BY DEF Owner
  <1>8. /\ \A x \in Id : run'[x].bundle = run[x].bundle
        /\ \A x \in Id : x # id => run'[x] = run[x]
        /\ run'[id].status = "applied"
        /\ UNCHANGED <<unit, effect>>
    BY <1>2, FinishRunRows DEF FinishApplied
  <1>9. Complete' = [Complete EXCEPT ![id] = TRUE]
    BY <1>8 DEF Complete
  <1>10. Owner' = Owner /\ Done' = Done /\ Known' = Known
    BY <1>8 DEF Owner, Done, Known
  <1> QED
    BY <1>2, <1>3, <1>6, <1>7, <1>9, <1>10 DEF Progress!Complete

\* A cancellation withdraws the record of success, if there is one.
LEMMA FinishCancelledMaps ==
    ASSUME IInv, NEW c \in Client, FinishCancelled(c)
    PROVE  Progress!Withdraw(MyId(c)) \/ UNCHANGED Progress!vars
  <1>1. PICK id \in Id : id = MyId(c)
    BY Holder DEF FinishCancelled, Holding
  <1>2. UNCHANGED <<unit, effect>>
    BY DEF FinishCancelled
  <1>3. CASE ~HasRun(id)
    BY <1>1, <1>2, <1>3, SameView DEF FinishCancelled
  <1>4. CASE HasRun(id)
    <2>1. /\ \A x \in Id : run'[x].bundle = run[x].bundle
          /\ \A x \in Id : x # id => run'[x] = run[x]
          /\ run'[id].status = "cancelled"
      BY <1>1, <1>4, FinishRunRows DEF FinishCancelled
    <2>2. CASE run[id].status = "applied"
      <3>1. Complete[id] /\ Complete' = [Complete EXCEPT ![id] = FALSE]
        BY <2>1, <2>2 DEF Complete
      <3>2. Owner' = Owner /\ Done' = Done /\ Known' = Known
        BY <1>2, <2>1 DEF Owner, Done, Known
      <3> QED
        BY <1>1, <3>1, <3>2 DEF Progress!Withdraw
    <2>3. CASE run[id].status # "applied"
      <3>1. \A x \in Id : run'[x].status = "applied" <=> run[x].status = "applied"
        BY <2>1, <2>3
      <3> QED
        BY <1>2, <2>1, <3>1, SameView
    <2> QED
      BY <2>2, <2>3
  <1> QED
    BY <1>3, <1>4

\* Running, failed and pending are the same to a reader of BundleProgress.
LEMMA HiddenMaps ==
    ASSUME IInv, NEW c \in Client,
           MarkRunning(c) \/ RecordFailure(c) \/ FinishFailed(c)
    PROVE  UNCHANGED Progress!vars
  <1>1. pc[c] \in InRun
    BY DEF MarkRunning, RecordFailure, FinishFailed, InRun
  <1>2. idx[c] < Units[bundle[c]]
    BY <1>1, AtWork DEF LoopInv, MarkRunning, RecordFailure, FinishFailed, InRun
  <1>3. PICK id \in Id, i \in UnitIndex : id = MyId(c) /\ i = idx[c]
    BY <1>1, <1>2, AtWork, CurrentUnit
  <1>4. unit[id][i] # "applied" /\ run[id].status = "running"
    BY <1>1, <1>2, <1>3, AtWork, CurrentUnit DEF Knows
  <1>5. CASE MarkRunning(c) \/ RecordFailure(c)
    <2>1. UNCHANGED <<run, effect>>
      BY <1>5 DEF MarkRunning, RecordFailure
    <2>2. \A x \in Id, k \in UnitIndex :
             unit'[x][k] = "applied" <=> unit[x][k] = "applied"
      <3>1. /\ \A x \in Id : x # id => unit'[x] = unit[x]
            /\ \A k \in UnitIndex : k # i => unit'[id][k] = unit[id][k]
            /\ unit'[id][i] \in {"running", "failed"}
        BY <1>3, <1>5 DEF MarkRunning, RecordFailure, IInv, TypeOK
      <3> QED
        BY <1>4, <3>1
    <2> QED
      BY <2>1, <2>2, SameView
  <1>6. CASE FinishFailed(c)
    <2>1. UNCHANGED <<unit, effect>>
      BY <1>6 DEF FinishFailed
    <2>2. \A x \in Id : /\ run'[x].bundle = run[x].bundle
                        /\ run'[x].status = "applied" <=> run[x].status = "applied"
      <3>1. /\ run'[id].status = "failed"
            /\ \A x \in Id : x # id => run'[x] = run[x]
            /\ \A x \in Id : run'[x].bundle = run[x].bundle
        BY <1>3, <1>6, FinishRunRows DEF FinishFailed
      <3> QED
        BY <1>4, <3>1
    <2> QED
      BY <2>1, <2>2, SameView
  <1> QED
    BY <1>5, <1>6

-----------------------------------------------------------------------------

LEMMA NextProgress ==
    ASSUME IInv, [Next]_vars
    PROVE  [Progress!Next]_(Progress!vars)
  <1>1. ASSUME NEW c \in Client, Proceed(c) \/ Operate(c) \/ Fault(c)
        PROVE  [Progress!Next]_(Progress!vars)
    <2>1. CASE CommitUnit(c) \/ ExecuteUnit(c)
      <3>1. pc[c] \in InRun /\ idx[c] < Units[bundle[c]]
        BY <2>1, AtWork DEF CommitUnit, ExecuteUnit, LoopInv, InRun
      <3>2. MyId(c) \in Id /\ idx[c] \in 0 .. (MaxUnits - 1)
        BY <3>1, AtWork, CurrentUnit
      <3> QED
        BY <2>1, <3>2, CommitUnitMaps, ExecuteUnitMaps DEF Progress!Next
    <2>2. CASE MarkApplied(c) \/ FinishApplied(c) \/ FinishCancelled(c) \/ StartRun(c)
      <3>1. MyId(c) \in Id /\ bundle[c] \in Bundle
        BY <2>2, Holder DEF MarkApplied, FinishApplied, FinishCancelled, StartRun,
           Holding, Applying
      <3> QED
        BY <2>2, <3>1, MarkAppliedMaps, FinishAppliedMaps, FinishCancelledMaps,
           StartRunMaps DEF Progress!Next
    <2>3. CASE MarkRunning(c) \/ RecordFailure(c) \/ FinishFailed(c)
      BY <2>3, HiddenMaps
    <2>4. CASE ~(\/ CommitUnit(c) \/ ExecuteUnit(c) \/ MarkApplied(c)
                 \/ FinishApplied(c) \/ FinishCancelled(c) \/ StartRun(c)
                 \/ MarkRunning(c) \/ RecordFailure(c) \/ FinishFailed(c))
      <3>1. UNCHANGED <<run, unit, effect>>
        BY <1>1, <2>4 DEF Proceed, GuardReadHistory, GuardInspect, AcquireLock,
           LockTimeout, LoadHistory, Bootstrap, BeginUnit, RunStatement,
           ExecuteRefused, Return,
           Unlock, Operate, BeginAttempt, Confirm, Fault, StatementFails,
           ExecuteFails, Cancel, Abort, Crash, database, history
      <3> QED
        BY <3>1, SameView
    <2> QED
      BY <2>1, <2>2, <2>3, <2>4
  <1>2. CASE Elsewhere \/ UNCHANGED vars
    <2>1. UNCHANGED <<run, unit, effect>>
      BY <1>2 DEF Elsewhere, Drift, ReserveName, DropIndex, vars, database, history
    <2> QED
      BY <2>1, SameView
  <1> QED
    BY <1>1, <1>2 DEF Next

\* Applying bundles keeps the promise of BundleProgress: seen from the
\* database, the units of an id take effect once and in order, each is
\* acknowledged before the next takes effect, and a run is called applied only
\* when all of it is, through every failure, cancellation, loss and retry.
THEOREM PromiseIsKept == Spec => ImplementsProgress
  <1>1. IInv /\ [Next]_vars => [Progress!Next]_(Progress!vars)
    BY NextProgress
  <1> QED
    BY <1>1, InitProgress, Invariance, PTL DEF Spec, ImplementsProgress,
       Progress!Spec

=============================================================================
