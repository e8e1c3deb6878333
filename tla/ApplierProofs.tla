---------------------------- MODULE ApplierProofs ----------------------------
(***************************************************************************)
(* Proofs about Applier: IInv is an inductive invariant of Spec, and the   *)
(* safety properties follow from it, for any clients, bundles, histories    *)
(* and limits.                                                             *)
(***************************************************************************)
EXTENDS Applier, TLAPS

USE ClientAssumption, BundleAssumption DEF UnitIndex, RunStatus, UnitStatus, NoUnit

\* Everything IInv says about one client.
OneClient(c) ==
    /\ pc[c] \in Holding <=> lock = c
    /\ pc[c] # "idle" => bundle[c] \in Bundle
    /\ ReadInv(c)
    /\ LoopInv(c)
    /\ OutcomeInv(c)

\* The control state and the local variables of d do not change.
Asleep(d) ==
    /\ pc'[d] = pc[d]
    /\ bundle'[d] = bundle[d]
    /\ resumed'[d] = resumed[d]
    /\ idx'[d] = idx[d]
    /\ outcome'[d] = outcome[d]

LEMMA InitIInv == Init => IInv
  <1> SUFFICES ASSUME Init PROVE IInv
    OBVIOUS
  <1>1. TypeOK
    <2>1. run \in [Id -> [status : RunStatus \cup {"none"},
                         bundle : Bundle \cup {NoBundle},
                         failedUnit : UnitIndex \cup {NoUnit}]]
      BY DEF Init, NoRun
    <2>2. idx \in [Client -> 0 .. MaxUnits]
      BY DEF Init
    <2> QED
      BY <2>1, <2>2 DEF Init, TypeOK, PC
  <1>2. LockInv
    BY DEF Init, LockInv, Holding, Applying
  <1>3. DatabaseInv
    BY DEF Init, DatabaseInv, RowInv, HasRun, NoRun, MarkerTruth,
           AppliedPrefix, RunStatusTruth
  <1>4. ClientInv
    BY DEF Init, ClientInv, ReadInv, LoopInv, OutcomeInv, InRun
  <1> QED
    BY <1>1, <1>2, <1>3, <1>4 DEF IInv

-----------------------------------------------------------------------------
(* What the other clients know *)

\* A client without the lock is outside open_executor and has nothing to report.
LEMMA WithoutLock ==
    ASSUME IInv, NEW d \in Client, lock # d
    PROVE  pc[d] \notin Holding /\ outcome[d] = "none"
  <1>1. pc[d] \notin Holding
    BY DEF IInv, LockInv
  <1>2. OutcomeInv(d)
    BY DEF IInv, ClientInv
  <1> QED
    BY <1>1, <1>2 DEF OutcomeInv, Holding, Applying

\* The holder of the lock may change the database, and release the lock:
\* the other clients rely on nothing.
LEMMA OthersWithoutLock ==
    ASSUME IInv, NEW c \in Client, lock = c, lock' \in {c, NoClient},
           NEW d \in Client, d # c, Asleep(d)
    PROVE  OneClient(d)'
  <1>1. pc[d] \notin Holding /\ outcome[d] = "none"
    BY WithoutLock
  <1>2. (pc[d] \in Holding <=> lock = d)' /\ (pc[d] # "idle" => bundle[d] \in Bundle)'
    BY <1>1 DEF Asleep, IInv, LockInv
  <1>3. ReadInv(d)' /\ LoopInv(d)'
    BY <1>1 DEF ReadInv, LoopInv, Asleep, Holding, Applying, InRun
  <1>4. OutcomeInv(d)'
    BY <1>1 DEF OutcomeInv, Asleep
  <1> QED
    BY <1>2, <1>3, <1>4 DEF OneClient

\* What is read from the rows is still so when the rows do not change.
LEMMA SameReading ==
    ASSUME UNCHANGED <<run, unit>>, NEW b, NEW id, NEW n, NEW m
    PROVE  /\ HasRun(id)' <=> HasRun(id)
           /\ LayoutMatches(b, id)' <=> LayoutMatches(b, id)
           /\ FirstNonApplied(id, n, m)' <=> FirstNonApplied(id, n, m)
           /\ Indeterminate(b, id)' <=> Indeterminate(b, id)
  <1>1. HasRun(id)' <=> HasRun(id)
    BY DEF HasRun
  <1>2. LayoutMatches(b, id)' <=> LayoutMatches(b, id)
    BY DEF LayoutMatches
  <1>3. FirstNonApplied(id, n, m)' <=> FirstNonApplied(id, n, m)
    BY DEF FirstNonApplied
  <1>4. Indeterminate(b, id)' <=> Indeterminate(b, id)
    BY DEF Indeterminate
  <1> QED
    BY <1>1, <1>2, <1>3, <1>4

\* A client keeps its part of the invariant when the rows do not change.
LEMMA OthersSameRows ==
    ASSUME IInv, NEW d \in Client, Asleep(d), UNCHANGED <<run, unit, effect>>,
           lock' = d <=> lock = d
    PROVE  OneClient(d)'
  <1>1. OneClient(d)
    BY DEF IInv, LockInv, ClientInv, OneClient
  <1>2. PICK b, id, n : b = bundle[d] /\ id = MyId(d) /\ n = idx[d]
    OBVIOUS
  <1>3. b = bundle'[d] /\ id = MyId(d)' /\ n = idx'[d]
    BY <1>2 DEF Asleep, MyId
  <1>4. /\ HasRun(id)' <=> HasRun(id)
        /\ LayoutMatches(b, id)' <=> LayoutMatches(b, id)
        /\ FirstNonApplied(id, n, Units[b])' <=> FirstNonApplied(id, n, Units[b])
        /\ Indeterminate(b, id)' <=> Indeterminate(b, id)
    BY SameReading
  <1>5. ReadInv(d)'
    <2>1. id = IdOf[b]
      BY <1>2 DEF MyId
    <2>2. ResumesAt(b, n)' <=> ResumesAt(b, n)
      BY <1>4, <2>1 DEF ResumesAt
    <2>3. ReadInv(d)
      BY <1>1 DEF OneClient
    <2> QED
      BY <1>2, <1>3, <1>4, <2>2, <2>3 DEF ReadInv, Asleep
  <1>6. LoopInv(d)'
    <2>1. Knows(d)' <=> Knows(d)
      BY <1>2, <1>3, <1>4 DEF Knows
    <2>2. LoopInv(d)
      BY <1>1 DEF OneClient
    <2> QED
      BY <1>2, <1>3, <1>4, <2>1, <2>2 DEF LoopInv, Asleep
  <1>7. OutcomeInv(d)'
    <2>1. OutcomeInv(d)
      BY <1>1 DEF OneClient
    <2> QED
      BY <1>2, <1>3, <1>4, <2>1 DEF OutcomeInv, Asleep
  <1> QED
    BY <1>1, <1>5, <1>6, <1>7 DEF OneClient, Asleep

\* What a step of client c has to establish.
LEMMA StepOf ==
    ASSUME IInv, NEW c \in Client, TypeOK', DatabaseInv', OneClient(c)',
           \A d \in Client \ {c} : Asleep(d),
           \/ /\ lock = c
              /\ lock' \in {c, NoClient}
           \/ /\ UNCHANGED <<run, unit, effect>>
              /\ \A d \in Client \ {c} : lock' = d <=> lock = d
    PROVE  IInv'
  <1>1. ASSUME NEW d \in Client PROVE OneClient(d)'
    BY OthersWithoutLock, OthersSameRows
  <1>2. LockInv' /\ ClientInv'
    BY <1>1 DEF OneClient, LockInv, ClientInv
  <1> QED
    BY <1>2 DEF IInv

LEMMA SameRows ==
    ASSUME DatabaseInv, UNCHANGED <<run, unit, effect>>
    PROVE  DatabaseInv'
  BY DEF DatabaseInv, RowInv, HasRun, MarkerTruth, AppliedPrefix, RunStatusTruth

-----------------------------------------------------------------------------
(* The steps before the lock, and the ends of an attempt *)

\* An exit leaves nothing of the attempt, if the lock is not left behind.
LEMMA ExitStep ==
    ASSUME IInv, NEW c \in Client, Exit(c), lock' # c
    PROVE  /\ pc' \in [Client -> PC]
           /\ bundle' \in [Client -> Bundle \cup {NoBundle}]
           /\ approved' \in [Client -> BOOLEAN]
           /\ resumed' \in [Client -> BOOLEAN]
           /\ idx' \in [Client -> 0 .. MaxUnits]
           /\ stmt' \in [Client -> Nat]
           /\ outcome' \in [Client -> {"none", "applied", "failed", "stopped"}]
           /\ OneClient(c)'
           /\ \A d \in Client \ {c} : Asleep(d)
  <1> USE DEF IInv, TypeOK, Exit, Goto
  <1>1. idx' \in [Client -> 0 .. MaxUnits]
    OBVIOUS
  <1>2. OneClient(c)'
    BY DEF OneClient, ReadInv, LoopInv, OutcomeInv, Holding, Applying, InRun
  <1>3. \A d \in Client \ {c} : Asleep(d)
    BY DEF Asleep
  <1> QED
    BY <1>1, <1>2, <1>3 DEF PC

\* A stop reports nothing of the run.
LEMMA StopStep ==
    ASSUME IInv, NEW c \in Client, Stop(c), lock = c, lock' = c
    PROVE  /\ pc' \in [Client -> PC]
           /\ outcome' \in [Client -> {"none", "applied", "failed", "stopped"}]
           /\ OneClient(c)'
           /\ \A d \in Client \ {c} : Asleep(d)
  <1> USE DEF IInv, TypeOK, Stop, Goto
  <1>1. OneClient(c)'
    BY DEF OneClient, ReadInv, LoopInv, OutcomeInv, Holding, Applying, InRun,
           LockInv
  <1>2. \A d \in Client \ {c} : Asleep(d)
    BY DEF Asleep
  <1> QED
    BY <1>1, <1>2 DEF PC

\* The control state of a client outside the lock changes.
LEMMA OutsideStep ==
    ASSUME IInv, NEW c \in Client, pc[c] \in PC \ Holding,
           NEW label \in PC \ (Holding \cup {"idle"}), Goto(c, label),
           UNCHANGED <<bundle, lock, resumed, idx, outcome>>, bundle[c] \in Bundle
    PROVE  /\ pc' \in [Client -> PC]
           /\ OneClient(c)'
           /\ \A d \in Client \ {c} : Asleep(d)
  <1> USE DEF IInv, TypeOK, Goto
  <1>1. lock # c /\ outcome[c] = "none"
    BY WithoutLock DEF LockInv
  <1>2. OneClient(c)'
    BY <1>1 DEF OneClient, ReadInv, LoopInv, OutcomeInv, Holding, Applying, InRun
  <1> QED
    BY <1>2 DEF Asleep

LEMMA BeginAttemptStep ==
    ASSUME IInv, NEW c \in Client, NEW b \in Bundle, NEW skip \in BOOLEAN,
           BeginAttempt(c, b, skip)
    PROVE  IInv'
  <1> USE DEF IInv, TypeOK, BeginAttempt, Goto, database
  <1>1. lock # c /\ outcome[c] = "none"
    BY WithoutLock DEF LockInv, Holding, Applying
  <1>2. pc'[c] \in {"confirm", "guard"} /\ bundle'[c] = b
    OBVIOUS
  <1>3. TypeOK'
    BY DEF PC
  <1>4. OneClient(c)'
    BY <1>1, <1>2 DEF OneClient, ReadInv, LoopInv, OutcomeInv, Holding, Applying, InRun
  <1>5. \A d \in Client \ {c} : Asleep(d)
    BY DEF Asleep
  <1> QED
    BY <1>1, <1>3, <1>4, <1>5, SameRows, StepOf

LEMMA GuardReadHistoryStep ==
    ASSUME IInv, NEW c \in Client, GuardReadHistory(c)
    PROVE  IInv'
  <1> USE DEF IInv, GuardReadHistory, database, local
  <1>1. lock # c /\ bundle[c] \in Bundle
    BY DEF LockInv, Holding, Applying
  <1>2. CASE Exit(c)
    BY <1>1, <1>2, ExitStep, SameRows, StepOf DEF TypeOK
  <1>3. CASE ~Exit(c)
    <2>1. PICK label \in {"confirm", "inspect"} : Goto(c, label) /\ UNCHANGED local
      BY <1>3
    <2>2. pc' \in [Client -> PC] /\ OneClient(c)' /\ \A d \in Client \ {c} : Asleep(d)
      BY <1>1, <2>1, OutsideStep DEF PC, Holding, Applying
    <2> QED
      BY <2>1, <2>2, SameRows, StepOf DEF TypeOK
  <1> QED
    BY <1>2, <1>3

LEMMA GuardInspectStep ==
    ASSUME IInv, NEW c \in Client, GuardInspect(c)
    PROVE  IInv'
  <1> USE DEF IInv, GuardInspect, database, local
  <1>1. lock # c /\ bundle[c] \in Bundle
    BY DEF LockInv, Holding, Applying
  <1>2. CASE Exit(c)
    BY <1>1, <1>2, ExitStep, SameRows, StepOf DEF TypeOK
  <1>3. CASE Goto(c, "confirm") /\ UNCHANGED local
    <2>1. pc' \in [Client -> PC] /\ OneClient(c)' /\ \A d \in Client \ {c} : Asleep(d)
      BY <1>1, <1>3, OutsideStep DEF PC, Holding, Applying
    <2> QED
      BY <1>3, <2>1, SameRows, StepOf DEF TypeOK
  <1> QED
    BY <1>2, <1>3

LEMMA ConfirmStep ==
    ASSUME IInv, NEW c \in Client, NEW yes \in BOOLEAN, Confirm(c, yes)
    PROVE  IInv'
  <1> USE DEF IInv, Confirm, database
  <1>1. lock # c /\ bundle[c] \in Bundle
    BY DEF LockInv, Holding, Applying
  <1>2. CASE Exit(c)
    BY <1>1, <1>2, ExitStep, SameRows, StepOf DEF TypeOK
  <1>3. CASE ~Exit(c)
    <2>1. pc' \in [Client -> PC] /\ OneClient(c)' /\ \A d \in Client \ {c} : Asleep(d)
      BY <1>1, <1>3, OutsideStep DEF PC, Holding, Applying
    <2>2. approved' \in [Client -> BOOLEAN]
      BY <1>3 DEF TypeOK
    <2>3. TypeOK'
      BY <1>3, <2>1, <2>2 DEF TypeOK
    <2> QED
      BY <1>3, <2>1, <2>3, SameRows, StepOf
  <1> QED
    BY <1>2, <1>3

LEMMA LockTimeoutStep ==
    ASSUME IInv, NEW c \in Client, LockTimeout(c)
    PROVE  IInv'
  <1> USE DEF IInv, LockTimeout, database
  <1>1. lock # c
    BY DEF LockInv, Holding, Applying
  <1> QED
    BY <1>1, ExitStep, SameRows, StepOf DEF TypeOK

LEMMA UnlockStep ==
    ASSUME IInv, NEW c \in Client, Unlock(c)
    PROVE  IInv'
  <1> USE DEF IInv, Unlock, database
  <1>1. lock = c /\ lock' = NoClient
    BY DEF LockInv, Holding, Applying
  <1> QED
    BY <1>1, ExitStep, SameRows, StepOf DEF TypeOK

-----------------------------------------------------------------------------
(* The steps under the lock that leave the rows alone *)

\* A client inside open_executor holds the lock and has a bundle, whose unit
\* range is within the table.
LEMMA Holder ==
    ASSUME IInv, NEW c \in Client, pc[c] \in Holding
    PROVE  /\ lock = c
           /\ bundle[c] \in Bundle
           /\ MyId(c) \in Id
           /\ Units[bundle[c]] \in 0 .. MaxUnits
           /\ idx[c] \in 0 .. MaxUnits
  BY DEF IInv, TypeOK, LockInv, Holding, Applying, MyId

LEMMA AcquireLockStep ==
    ASSUME IInv, NEW c \in Client, AcquireLock(c)
    PROVE  IInv'
  <1> USE DEF IInv, AcquireLock, database, local, Goto
  <1>1. bundle[c] \in Bundle /\ outcome[c] = "none"
    BY WithoutLock DEF LockInv, Holding, Applying
  <1>2. TypeOK'
    BY DEF TypeOK, PC
  <1>3. OneClient(c)'
    BY <1>1, <1>2 DEF OneClient, ReadInv, LoopInv, OutcomeInv, Holding, Applying,
                      InRun, TypeOK
  <1>4. \A d \in Client \ {c} : Asleep(d) /\ (lock' = d <=> lock = d)
    BY DEF Asleep, TypeOK
  <1> QED
    BY <1>2, <1>3, <1>4, SameRows, StepOf

LEMMA LoadHistoryStep ==
    ASSUME IInv, NEW c \in Client, LoadHistory(c)
    PROVE  IInv'
  <1> USE DEF IInv, LoadHistory, database
  <1>1. lock = c /\ bundle[c] \in Bundle /\ MyId(c) \in Id /\ outcome[c] = "none"
    BY Holder DEF Holding, Applying, ClientInv, OutcomeInv
  <1>2. CASE Refused(bundle[c], approved[c]) /\ Stop(c)
    <2>1. TypeOK'
      BY <1>1, <1>2, StopStep DEF TypeOK, Stop
    <2> QED
      BY <1>1, <1>2, <2>1, StopStep, SameRows, StepOf
  <1>3. CASE ~Refused(bundle[c], approved[c])
    <2>1. PICK n \in UnitIndex :
            /\ IF HasRun(MyId(c)) THEN ResumesAt(bundle[c], n) ELSE n = 0
            /\ idx' = [idx EXCEPT ![c] = n]
      BY <1>3
    <2>2. n < Units[bundle[c]]
      <3>1. CASE HasRun(MyId(c))
        BY <2>1, <3>1 DEF ResumesAt
      <3>2. CASE ~HasRun(MyId(c))
        <4>1. Units[bundle[c]] # 0 /\ n = 0
          BY <1>3, <2>1, <3>2 DEF Refused
        <4>2. Units[bundle[c]] \in Nat
          BY <1>1
        <4> QED
          BY <4>1, <4>2
      <3> QED
        BY <3>1, <3>2
    <2>3. /\ pc' = [pc EXCEPT ![c] = "bootstrap"]
          /\ resumed' = [resumed EXCEPT ![c] = HasRun(MyId(c))]
          /\ UNCHANGED <<bundle, approved, stmt, outcome>>
      BY <1>3 DEF Goto
    <2>4. TypeOK'
      <3>1. idx' \in [Client -> 0 .. MaxUnits]
        BY <2>1 DEF TypeOK
      <3>2. resumed' \in [Client -> BOOLEAN]
        BY <2>3 DEF TypeOK, HasRun
      <3> QED
        BY <2>3, <3>1, <3>2 DEF TypeOK, PC
    <2>5. idx'[c] = n /\ resumed'[c] = HasRun(MyId(c)) /\ pc'[c] = "bootstrap"
      BY <2>1, <2>3 DEF TypeOK
    <2>6. ReadInv(c)'
      <3>1. bundle'[c] = bundle[c] /\ MyId(c)' = MyId(c) /\ HasRun(MyId(c))' = HasRun(MyId(c))
        BY <2>3 DEF MyId, HasRun
      <3>2. CASE HasRun(MyId(c))
        <4>1. ResumesAt(bundle[c], n)
          BY <2>1, <3>2
        <4>2. ResumesAt(bundle[c], idx[c])'
          <5>1. PICK b, id : b = bundle[c] /\ id = MyId(c) /\ id = IdOf[b]
            BY DEF MyId
          <5>2. /\ LayoutMatches(b, id)' <=> LayoutMatches(b, id)
                /\ FirstNonApplied(id, n, Units[b])' <=> FirstNonApplied(id, n, Units[b])
                /\ Indeterminate(b, id)' <=> Indeterminate(b, id)
            BY SameReading
          <5>3. ResumesAt(b, n)'
            BY <4>1, <5>1, <5>2 DEF ResumesAt
          <5> QED
            BY <2>5, <3>1, <5>1, <5>3
        <4> QED
          BY <2>2, <2>5, <3>1, <3>2, <4>2 DEF ReadInv
      <3>3. CASE ~HasRun(MyId(c))
        BY <2>1, <2>2, <2>5, <3>1, <3>3 DEF ReadInv
      <3> QED
        BY <3>2, <3>3
    <2>7. OneClient(c)'
      BY <1>1, <2>3, <2>5, <2>6 DEF OneClient, LoopInv, OutcomeInv, Holding,
         Applying, InRun
    <2>8. \A d \in Client \ {c} : Asleep(d)
      BY <2>1, <2>3 DEF Asleep, TypeOK
    <2> QED
      BY <1>1, <2>4, <2>7, <2>8, SameRows, StepOf
  <1> QED
    BY <1>2, <1>3

LEMMA BootstrapStep ==
    ASSUME IInv, NEW c \in Client, Bootstrap(c)
    PROVE  IInv'
  <1> USE DEF IInv, Bootstrap
  <1>1. lock = c /\ bundle[c] \in Bundle /\ outcome[c] = "none" /\ ReadInv(c)
    BY Holder DEF Holding, Applying, ClientInv, OutcomeInv
  <1>2. CASE Stop(c) /\ UNCHANGED historySchema
    <2>1. TypeOK'
      BY <1>1, <1>2, StopStep DEF TypeOK, Stop
    <2> QED
      BY <1>1, <1>2, <2>1, StopStep, SameRows, StepOf
  <1>3. CASE historySchema' = "ready" /\ Goto(c, "start") /\ UNCHANGED local
    <2> USE <1>3 DEF Goto, local
    <2>1. TypeOK'
      BY DEF TypeOK, PC
    <2>2. pc'[c] = "start"
      BY DEF TypeOK
    <2>3. ReadInv(c)'
      BY <1>1, <2>2 DEF ReadInv, MyId, HasRun, ResumesAt,
         LayoutMatches, FirstNonApplied, Indeterminate
    <2>4. OneClient(c)'
      BY <1>1, <2>2, <2>3 DEF OneClient, LoopInv, OutcomeInv, Holding,
         Applying, InRun
    <2>5. \A d \in Client \ {c} : Asleep(d)
      BY DEF Asleep, TypeOK
    <2> QED
      BY <1>1, <2>1, <2>4, <2>5, SameRows, StepOf
  <1> QED
    BY <1>2, <1>3

\* A step of the holder that changes its control state only, within the run.
LEMMA InsideStep ==
    ASSUME IInv, NEW c \in Client, pc[c] \in Holding,
           NEW label \in Holding, Goto(c, label),
           UNCHANGED <<bundle, resumed, idx, outcome, run, unit, effect, lock>>,
           TypeOK', LoopInv(c)', label \notin {"bootstrap", "start"},
           outcome[c] = "none" \/ label = "unlock"
    PROVE  IInv'
  <1>1. lock = c /\ bundle[c] \in Bundle
    BY Holder
  <1>2. pc'[c] = label /\ \A d \in Client \ {c} : Asleep(d)
    BY DEF IInv, TypeOK, Goto, Asleep
  <1>3. ReadInv(c)'
    BY <1>2 DEF ReadInv
  <1>4. OutcomeInv(c)'
    <2>1. OutcomeInv(c)
      BY DEF IInv, ClientInv
    <2>2. PICK b, id : b = bundle[c] /\ id = MyId(c)
      OBVIOUS
    <2>3. bundle'[c] = b /\ MyId(c)' = id
      BY <2>2 DEF MyId
    <2>4. LayoutMatches(b, id)' <=> LayoutMatches(b, id)
      BY SameReading
    <2> QED
      BY <1>2, <2>1, <2>2, <2>3, <2>4 DEF OutcomeInv
  <1>5. OneClient(c)'
    BY <1>1, <1>2, <1>3, <1>4 DEF OneClient
  <1>6. DatabaseInv'
    BY SameRows DEF IInv
  <1> QED
    BY <1>1, <1>2, <1>5, <1>6, StepOf

\* What the client at work knows of its run and of the current unit.
LEMMA AtWork ==
    ASSUME IInv, NEW c \in Client, pc[c] \in InRun
    PROVE  /\ lock = c
           /\ bundle[c] \in Bundle
           /\ MyId(c) \in Id
           /\ outcome[c] = "none"
           /\ Knows(c)
           /\ LoopInv(c)
           /\ HasRun(MyId(c))
           /\ run[MyId(c)].bundle \in Bundle
           /\ Units[run[MyId(c)].bundle] = Units[bundle[c]]
           /\ Units[bundle[c]] \in 0 .. MaxUnits
           /\ idx[c] \in 0 .. MaxUnits
  <1>1. pc[c] \in Holding /\ LoopInv(c) /\ OutcomeInv(c)
    BY DEF InRun, Holding, Applying, IInv, ClientInv
  <1>2. Knows(c)
    BY <1>1 DEF LoopInv
  <1>3. outcome[c] = "none"
    BY <1>1 DEF OutcomeInv, InRun
  <1> QED
    BY <1>1, <1>2, <1>3, Holder DEF Knows, HasRun, LayoutMatches

LEMMA CurrentUnit ==
    ASSUME IInv, NEW c \in Client, pc[c] \in InRun, idx[c] < Units[bundle[c]]
    PROVE  /\ idx[c] \in UnitIndex
           /\ idx[c] \in 0 .. (Units[bundle[c]] - 1)
           /\ unit[MyId(c)][idx[c]] \in UnitStatus \ {"applied"}
           /\ Transactional[run[MyId(c)].bundle][idx[c]]
                 = Transactional[bundle[c]][idx[c]]
           /\ \A j \in 0 .. (idx[c] - 1) : unit[MyId(c)][j] = "applied"
           /\ \A j \in UnitIndex : j > idx[c] =>
                 unit[MyId(c)][j] \in {"none", "pending"}
  <1>1. /\ Units[bundle[c]] \in 0 .. MaxUnits
        /\ idx[c] \in 0 .. MaxUnits
        /\ Knows(c)
        /\ MyId(c) \in Id
        /\ HasRun(MyId(c))
        /\ Units[run[MyId(c)].bundle] = Units[bundle[c]]
    BY AtWork
  <1>2. idx[c] \in UnitIndex /\ idx[c] \in 0 .. (Units[bundle[c]] - 1)
    BY <1>1
  <1>3. \A j \in 0 .. (Units[bundle[c]] - 1) :
           unit[MyId(c)][j] = "applied" <=> j < idx[c]
    BY <1>1 DEF Knows, FirstNonApplied
  <1>4. /\ Transactional[run[MyId(c)].bundle][idx[c]]
              = Transactional[bundle[c]][idx[c]]
        /\ \A j \in 0 .. (idx[c] - 1) : unit[MyId(c)][j] = "applied"
    <2>1. \A i \in 0 .. (Units[bundle[c]] - 1) :
            Transactional[run[MyId(c)].bundle][i] = Transactional[bundle[c]][i]
      BY <1>1 DEF Knows, LayoutMatches
    <2>2. Transactional[run[MyId(c)].bundle][idx[c]]
            = Transactional[bundle[c]][idx[c]]
      BY <1>2, <2>1
    <2>3. ASSUME NEW j \in 0 .. (idx[c] - 1)
          PROVE  unit[MyId(c)][j] = "applied"
      <3>1. idx[c] \in Int /\ Units[bundle[c]] \in Int
        BY <1>1
      <3>2. j \in 0 .. (Units[bundle[c]] - 1) /\ j < idx[c]
        BY <3>1
      <3> QED
        BY <1>3, <3>2
    <2> QED
      BY <2>2, <2>3
  <1>5. unit[MyId(c)][idx[c]] # "applied"
    BY <1>2, <1>3
  <1>6. unit[MyId(c)][idx[c]] \in UnitStatus \ {"applied"}
    <2>0. unit \in [Id -> [UnitIndex -> UnitStatus \cup {"none"}]]
      BY DEF IInv, TypeOK
    <2>1. unit[MyId(c)][idx[c]] \in UnitStatus \cup {"none"}
      BY <1>1, <1>2, <2>0
    <2>2. unit[MyId(c)][idx[c]] # "none"
      BY <1>1, <1>2 DEF IInv, DatabaseInv, RowInv
    <2> QED
      BY <1>5, <2>1, <2>2
  <1>7. \A j \in UnitIndex : j > idx[c] => unit[MyId(c)][j] \in {"none", "pending"}
    BY <1>1, <1>2, <1>5 DEF IInv, DatabaseInv, AppliedPrefix
  <1> QED
    BY <1>2, <1>4, <1>6, <1>7

LEMMA BeginUnitStep ==
    ASSUME IInv, NEW c \in Client, BeginUnit(c)
    PROVE  IInv'
  <1> USE DEF BeginUnit, local, database
  <1>1. TypeOK'
    BY DEF IInv, TypeOK, PC, Goto
  <1>2. LoopInv(c) /\ outcome[c] = "none" /\ idx[c] < Units[bundle[c]]
    BY AtWork DEF InRun
  <1>3. pc'[c] = "tx"
    BY DEF IInv, TypeOK, Goto
  <1>4. LoopInv(c)'
    BY <1>2, <1>3 DEF LoopInv, InRun, Knows, MyId, LayoutMatches, FirstNonApplied,
                      Indeterminate
  <1>5. pc[c] \in Holding /\ "tx" \in Holding
    BY DEF Holding, Applying
  <1> QED
    BY <1>1, <1>2, <1>4, <1>5, InsideStep

LEMMA RunStatementStep ==
    ASSUME IInv, NEW c \in Client, RunStatement(c)
    PROVE  IInv'
  <1> USE DEF RunStatement, database
  <1>1. stmt' \in [Client -> Nat]
    <2>1. stmt \in [Client -> Nat]
      BY DEF IInv, TypeOK
    <2> QED
      BY <2>1
  <1>2. TypeOK'
    BY <1>1 DEF IInv, TypeOK
  <1>3. \A d \in Client : Asleep(d)
    BY DEF Asleep
  <1>4. OneClient(c)'
    BY <1>3, OthersSameRows
  <1> QED
    BY <1>2, <1>3, <1>4, SameRows, StepOf DEF IInv

LEMMA StatementFailsStep ==
    ASSUME IInv, NEW c \in Client, StatementFails(c)
    PROVE  IInv'
  <1> USE DEF StatementFails, database
  <1>1. TypeOK'
    BY DEF IInv, TypeOK, PC, Goto
  <1>2. pc[c] \in InRun /\ pc[c] = "tx"
    BY DEF InRun
  <1>3. LoopInv(c) /\ outcome[c] = "none" /\ MyId(c) \in Id
    BY <1>2, AtWork
  <1>4. idx[c] < Units[bundle[c]] /\ Transactional[bundle[c]][idx[c]]
    BY <1>2, <1>3 DEF LoopInv
  <1>5. pc'[c] = "record"
    BY DEF IInv, TypeOK, Goto
  <1>6. effect[MyId(c)][idx[c]] = 0
    BY <1>2, <1>3, <1>4, CurrentUnit DEF IInv, DatabaseInv, MarkerTruth
  <1>7. LoopInv(c)'
    BY <1>3, <1>2, <1>5, <1>6 DEF LoopInv, InRun, Knows, MyId, LayoutMatches, FirstNonApplied
  <1>8. pc[c] \in Holding /\ "record" \in Holding
    BY DEF Holding, Applying
  <1> QED
    BY <1>1, <1>3, <1>7, <1>8, InsideStep

LEMMA ExecuteFailsStep ==
    ASSUME IInv, NEW c \in Client, ExecuteFails(c)
    PROVE  IInv'
  <1> USE DEF ExecuteFails, local, history
  <1>1. pc[c] \in InRun /\ pc[c] = "exec"
    BY DEF InRun
  <1>2. LoopInv(c) /\ outcome[c] = "none" /\ MyId(c) \in Id
    BY <1>1, AtWork
  <1>3. idx[c] < Units[bundle[c]] /\ idx[c] \in UnitIndex
    BY <1>1, <1>2, CurrentUnit DEF LoopInv
  <1>4. TypeOK'
    <2>1. leftover' \subseteq Id \X UnitIndex
      BY <1>2, <1>3 DEF MayLeaveIndex, IInv, TypeOK
    <2> QED
      BY <2>1 DEF IInv, TypeOK, PC, Goto
  <1>5. pc'[c] = "record"
    BY DEF IInv, TypeOK, Goto
  <1>6. LoopInv(c)'
    BY <1>1, <1>2, <1>5 DEF LoopInv, InRun, Knows, MyId, LayoutMatches, FirstNonApplied
  <1>7. pc[c] \in Holding /\ "record" \in Holding
    BY DEF Holding, Applying
  <1> QED
    BY <1>2, <1>4, <1>6, <1>7, InsideStep

LEMMA ExecuteRefusedStep ==
    ASSUME IInv, NEW c \in Client, ExecuteRefused(c)
    PROVE  IInv'
  <1> USE DEF ExecuteRefused, local, database
  <1>1. pc[c] \in InRun /\ pc[c] = "exec"
    BY DEF InRun
  <1>2. LoopInv(c) /\ outcome[c] = "none"
    BY <1>1, AtWork
  <1>3. TypeOK'
    BY DEF IInv, TypeOK, PC, Goto
  <1>4. pc'[c] = "record"
    BY DEF IInv, TypeOK, Goto
  <1>5. LoopInv(c)'
    BY <1>1, <1>2, <1>4 DEF LoopInv, InRun, Knows, MyId, LayoutMatches, FirstNonApplied
  <1>6. pc[c] \in Holding /\ "record" \in Holding
    BY DEF Holding, Applying
  <1> QED
    BY <1>2, <1>3, <1>5, <1>6, InsideStep

LEMMA ReturnStep ==
    ASSUME IInv, NEW c \in Client, Return(c)
    PROVE  IInv'
  <1> USE DEF Return, local, database
  <1>1. TypeOK'
    BY DEF IInv, TypeOK, PC, Goto
  <1>2. pc'[c] = "unlock"
    BY DEF IInv, TypeOK, Goto
  <1>3. LoopInv(c)'
    BY <1>2 DEF LoopInv, InRun
  <1>4. pc[c] \in Holding /\ "unlock" \in Holding
    BY DEF Holding, Applying
  <1> QED
    BY <1>1, <1>3, <1>4, InsideStep

LEMMA CancelStep ==
    ASSUME IInv, NEW c \in Client, Cancel(c)
    PROVE  IInv'
  <1> USE DEF Cancel, history
  <1>1. pc[c] \in Holding /\ lock = c /\ bundle[c] \in Bundle /\ MyId(c) \in Id
    BY Holder DEF Holding
  <1>2. leftover' \subseteq Id \X UnitIndex
    <2>1. CASE pc[c] = "exec"
      <3>1. pc[c] \in InRun
        BY <2>1 DEF InRun
      <3>2. idx[c] \in UnitIndex
        BY <2>1, <3>1, AtWork, CurrentUnit DEF LoopInv
      <3> QED
        BY <1>1, <2>1, <3>2 DEF MayLeaveIndex, IInv, TypeOK
    <2>2. CASE pc[c] # "exec"
      BY <2>2 DEF IInv, TypeOK
    <2> QED
      BY <2>1, <2>2
  <1>3. TypeOK'
    BY <1>2 DEF IInv, TypeOK, PC, Goto
  <1>4. pc'[c] = "cancelling" /\ \A d \in Client \ {c} : Asleep(d)
    BY DEF IInv, TypeOK, Goto, Asleep
  <1>5. OutcomeInv(c)'
    <2>1. OutcomeInv(c)
      BY DEF IInv, ClientInv
    <2>2. PICK b, id : b = bundle[c] /\ id = MyId(c)
      OBVIOUS
    <2>3. bundle'[c] = b /\ MyId(c)' = id
      BY <2>2 DEF MyId
    <2>4. LayoutMatches(b, id)' <=> LayoutMatches(b, id)
      BY SameReading
    <2> QED
      BY <1>4, <2>1, <2>2, <2>3, <2>4 DEF OutcomeInv
  <1>6. OneClient(c)'
    BY <1>1, <1>4, <1>5 DEF OneClient, ReadInv, LoopInv, InRun, Holding
  <1> QED
    BY <1>1, <1>3, <1>4, <1>6, SameRows, StepOf DEF IInv

LEMMA AbortStep ==
    ASSUME IInv, NEW c \in Client, Abort(c)
    PROVE  IInv'
  <1> USE DEF Abort, database
  <1>1. pc[c] \in Holding /\ lock = c /\ bundle[c] \in Bundle
    BY Holder DEF Holding
  <1>2. TypeOK'
    BY DEF IInv, TypeOK, PC, Goto
  <1>3. pc'[c] = "unlock" /\ outcome'[c] = "stopped" /\ \A d \in Client \ {c} : Asleep(d)
    BY DEF IInv, TypeOK, Goto, Asleep
  <1>4. OneClient(c)'
    BY <1>1, <1>3 DEF OneClient, ReadInv, LoopInv, OutcomeInv, InRun, Holding
  <1> QED
    BY <1>1, <1>2, <1>3, <1>4, SameRows, StepOf DEF IInv

LEMMA CrashStep ==
    ASSUME IInv, NEW c \in Client, Crash(c)
    PROVE  IInv'
  <1> USE DEF Crash, history
  <1>1. leftover' \subseteq Id \X UnitIndex
    <2>1. CASE pc[c] = "exec"
      <3>1. pc[c] \in InRun
        BY <2>1 DEF InRun
      <3>2. idx[c] \in UnitIndex /\ MyId(c) \in Id
        BY <2>1, <3>1, AtWork, CurrentUnit DEF LoopInv
      <3> QED
        BY <2>1, <3>2 DEF MayLeaveIndex, IInv, TypeOK
    <2>2. CASE pc[c] # "exec"
      BY <2>2 DEF IInv, TypeOK
    <2> QED
      BY <2>1, <2>2
  <1>2. lock' # c /\ lock' \in Client \cup {NoClient}
    BY DEF IInv, TypeOK
  <1>3. \A d \in Client \ {c} : lock' = d <=> lock = d
    BY DEF IInv, TypeOK
  <1>4. TypeOK'
    BY <1>1, <1>2, ExitStep DEF IInv, TypeOK
  <1> QED
    BY <1>2, <1>3, <1>4, ExitStep, SameRows, StepOf DEF IInv

\* Steps of the rest of the world.
LEMMA WorldStep ==
    ASSUME IInv, Elsewhere
    PROVE  IInv'
  <1> USE DEF Elsewhere, Drift, ReserveName, DropIndex, history, local
  <1>1. UNCHANGED <<run, unit, effect, lock, pc, local>>
    OBVIOUS
  <1>2. TypeOK'
    BY DEF IInv, TypeOK
  <1>3. \A d \in Client : OneClient(d)'
    BY <1>1, OthersSameRows DEF Asleep
  <1>4. DatabaseInv'
    BY <1>1, SameRows DEF IInv
  <1> QED
    BY <1>2, <1>3, <1>4 DEF IInv, LockInv, ClientInv, OneClient

-----------------------------------------------------------------------------
(* The steps that change the row of the current unit *)

\* The current unit of client c now has status s, and took effect e times;
\* nothing else in the rows is different.
UnitBecomes(c, s, e) ==
    LET id == MyId(c)
        i == idx[c]
    IN  /\ run' = run
        /\ \A j \in Id : j # id => unit'[j] = unit[j] /\ effect'[j] = effect[j]
        /\ \A k \in UnitIndex : k # i =>
              unit'[id][k] = unit[id][k] /\ effect'[id][k] = effect[id][k]
        /\ unit'[id][i] = s
        /\ effect'[id][i] = e
        /\ bundle' = bundle

\* The markers that are true of a unit.
TrueMarker(c, s, e) ==
    \/ s = "applied" /\ e = 1
    \/ s = "failed" /\ e = 0
    \/ s = "running" /\ e \in {0, 1} /\ ~Transactional[bundle[c]][idx[c]]

LEMMA UnitRows ==
    ASSUME IInv, NEW c \in Client, pc[c] \in InRun, idx[c] < Units[bundle[c]],
           NEW s, NEW e, UnitBecomes(c, s, e), TrueMarker(c, s, e)
    PROVE  DatabaseInv'
  <1>0. PICK id \in Id, i \in UnitIndex : id = MyId(c) /\ i = idx[c]
    BY AtWork, CurrentUnit
  <1>1. /\ HasRun(id)
        /\ i < Units[run[id].bundle]
        /\ run[id].status = "running"
        /\ Transactional[run[id].bundle][i] = Transactional[bundle[c]][i]
        /\ \A j \in 0 .. (i - 1) : unit[id][j] = "applied"
        /\ \A j \in UnitIndex : j > i => unit[id][j] \in {"none", "pending"}
    BY <1>0, AtWork, CurrentUnit DEF Knows
  <1>2. /\ run' = run
        /\ \A j \in Id : j # id => unit'[j] = unit[j] /\ effect'[j] = effect[j]
        /\ \A k \in UnitIndex : k # i =>
              unit'[id][k] = unit[id][k] /\ effect'[id][k] = effect[id][k]
        /\ unit'[id][i] = s
        /\ effect'[id][i] = e
    BY <1>0 DEF UnitBecomes
  <1>3. /\ s \in {"applied", "failed", "running"}
        /\ s = "applied" => e = 1
        /\ e # 0 /\ s # "applied" => e = 1 /\ s = "running"
        /\ s = "running" => ~Transactional[run[id].bundle][i]
    BY <1>0, <1>1 DEF TrueMarker
  <1>4. RowInv /\ MarkerTruth /\ AppliedPrefix /\ RunStatusTruth
    BY DEF IInv, DatabaseInv
  <1>5. RowInv'
    <2> SUFFICES ASSUME NEW x \in Id
                 PROVE  /\ HasRun(x)' <=> (run[x].bundle \in Bundle)'
                        /\ \A k \in UnitIndex :
                              /\ unit'[x][k] # "none" <=>
                                    HasRun(x)' /\ k < Units[run'[x].bundle]
                              /\ unit'[x][k] = "none" => effect'[x][k] = 0
      BY DEF RowInv
    <2>1. /\ HasRun(x)' <=> (run[x].bundle \in Bundle)'
          /\ HasRun(x)' <=> HasRun(x)
      <3>1. HasRun(x) <=> run[x].bundle \in Bundle
        BY <1>4 DEF RowInv
      <3>2. HasRun(x)' <=> HasRun(x)
        BY <1>2 DEF HasRun
      <3> QED
        BY <1>2, <3>1, <3>2
    <2>2. CASE x # id
      <3>1. run'[x] = run[x] /\ unit'[x] = unit[x] /\ effect'[x] = effect[x]
        BY <1>2, <2>2
      <3> QED
        BY <1>4, <2>1, <3>1 DEF RowInv
    <2>3. CASE x = id
      <3>1. ASSUME NEW k \in UnitIndex
            PROVE  /\ unit'[id][k] # "none" <=>
                         HasRun(id) /\ k < Units[run[id].bundle]
                   /\ unit'[id][k] = "none" => effect'[id][k] = 0
        <4>1. CASE k = i
          BY <1>1, <1>2, <1>3, <4>1
        <4>2. CASE k # i
          <5>1. unit'[id][k] = unit[id][k] /\ effect'[id][k] = effect[id][k]
            BY <1>2, <4>2
          <5> QED
            BY <1>4, <5>1 DEF RowInv
        <4> QED
          BY <4>1, <4>2
      <3> QED
        BY <1>2, <2>1, <2>3, <3>1
    <2> QED
      BY <2>2, <2>3
  <1>6. MarkerTruth'
    <2> SUFFICES ASSUME NEW x \in Id, NEW k \in UnitIndex
                 PROVE  /\ unit'[x][k] = "applied" => effect'[x][k] = 1
                        /\ effect'[x][k] # 0 /\ unit'[x][k] # "applied" =>
                              effect'[x][k] = 1 /\ unit'[x][k] = "running"
                        /\ unit'[x][k] = "running" => ~Transactional[run[x].bundle][k]
      BY <1>2 DEF MarkerTruth
    <2>0. /\ unit[x][k] = "applied" => effect[x][k] = 1
          /\ effect[x][k] # 0 /\ unit[x][k] # "applied" =>
                effect[x][k] = 1 /\ unit[x][k] = "running"
          /\ unit[x][k] = "running" => ~Transactional[run[x].bundle][k]
      BY <1>4 DEF MarkerTruth
    <2>1. CASE x # id
      <3>1. unit'[x] = unit[x] /\ effect'[x] = effect[x]
        BY <1>2, <2>1
      <3> QED
        BY <2>0, <3>1
    <2>2. CASE x = id /\ k # i
      <3>1. unit'[x][k] = unit[x][k] /\ effect'[x][k] = effect[x][k]
        BY <1>2, <2>2
      <3> QED
        BY <2>0, <3>1
    <2>3. CASE x = id /\ k = i
      BY <1>2, <1>3, <2>3
    <2> QED
      BY <2>1, <2>2, <2>3
  <1>7. AppliedPrefix'
    <2> SUFFICES ASSUME NEW x \in Id, NEW k \in UnitIndex, NEW j \in UnitIndex,
                        unit'[x][k] \notin {"none", "pending"}, j < k
                 PROVE  unit'[x][j] = "applied"
      BY DEF AppliedPrefix
    <2>1. CASE x # id
      <3>1. unit'[x] = unit[x]
        BY <1>2, <2>1
      <3> QED
        BY <1>4, <3>1 DEF AppliedPrefix
    <2>2. CASE x = id
      <3>1. ~(k > i)
        <4> SUFFICES ASSUME k > i PROVE FALSE
          OBVIOUS
        <4>1. k # i
          OBVIOUS
        <4>2. unit'[id][k] = unit[id][k]
          BY <1>2, <4>1
        <4>3. unit[id][k] \in {"none", "pending"}
          BY <1>1
        <4> QED
          BY <2>2, <4>2, <4>3
      <3>2. j \in 0 .. (i - 1) /\ j # i
        BY <3>1
      <3> QED
        BY <1>1, <1>2, <2>2, <3>2
    <2> QED
      BY <2>1, <2>2
  <1>8. RunStatusTruth'
    <2> SUFFICES ASSUME NEW x \in Id
                 PROVE  /\ run[x].status = "applied" =>
                             \A k \in 0 .. (Units[run[x].bundle] - 1) :
                                unit'[x][k] = "applied"
                        /\ run[x].status = "failed" =>
                             /\ run[x].failedUnit \in UnitIndex
                             /\ unit'[x][run[x].failedUnit] = "failed"
                             /\ \A k \in 0 .. (run[x].failedUnit - 1) :
                                   unit'[x][k] = "applied"
      BY <1>2 DEF RunStatusTruth
    <2>1. CASE x = id
      BY <1>1, <2>1
    <2>2. CASE x # id
      <3>1. unit'[x] = unit[x]
        BY <1>2, <2>2
      <3> QED
        BY <1>4, <3>1 DEF RunStatusTruth
    <2> QED
      BY <2>1, <2>2
  <1> QED
    BY <1>5, <1>6, <1>7, <1>8 DEF DatabaseInv

\* The client's count follows its unit; nothing is in doubt but a unit
\* recorded as running.
LEMMA UnitKnown ==
    ASSUME IInv, NEW c \in Client, pc[c] \in InRun, idx[c] < Units[bundle[c]],
           NEW s, NEW e, UnitBecomes(c, s, e),
           idx'[c] = IF s = "applied" THEN idx[c] + 1 ELSE idx[c]
    PROVE  /\ Knows(c)'
           /\ s # "running" => ~Indeterminate(bundle[c], MyId(c))'
  <1>0. PICK id \in Id, i \in UnitIndex, b \in Bundle, n \in 0 .. MaxUnits :
            id = MyId(c) /\ i = idx[c] /\ b = bundle[c] /\ n = Units[b]
    BY AtWork, CurrentUnit
  <1>1. /\ i \in 0 .. (n - 1)
        /\ run[id].status = "running"
        /\ LayoutMatches(b, id)
        /\ \A j \in 0 .. (i - 1) : unit[id][j] = "applied"
        /\ \A j \in UnitIndex : j > i => unit[id][j] \in {"none", "pending"}
    BY <1>0, AtWork, CurrentUnit DEF Knows
  <1>2. /\ run' = run /\ MyId(c)' = id /\ bundle'[c] = b
        /\ \A k \in UnitIndex : k # i => unit'[id][k] = unit[id][k]
        /\ unit'[id][i] = s
        /\ idx'[c] = IF s = "applied" THEN i + 1 ELSE i
    BY <1>0 DEF UnitBecomes, MyId
  <1>3. ASSUME NEW k \in 0 .. (n - 1)
        PROVE  /\ unit'[id][k] = "applied" <=> k < idx'[c]
               /\ s # "running" => unit'[id][k] # "running"
    <2>1. k \in UnitIndex
      OBVIOUS
    <2>2. CASE k < i
      <3>1. k \in 0 .. (i - 1) /\ k # i
        BY <2>2
      <3>2. unit'[id][k] = "applied"
        BY <1>1, <1>2, <2>1, <3>1
      <3> QED
        BY <1>2, <2>2, <3>2
    <2>3. CASE k > i
      <3>1. unit[id][k] \in {"none", "pending"}
        BY <1>1, <2>1, <2>3
      <3>2. unit'[id][k] = unit[id][k]
        BY <1>2, <2>1, <2>3
      <3>3. ~(k < idx'[c])
        BY <1>2, <2>3
      <3> QED
        BY <3>1, <3>2, <3>3
    <2>4. CASE k = i
      BY <1>2, <2>4
    <2> QED
      BY <2>2, <2>3, <2>4
  <1>4. FirstNonApplied(id, idx[c], n)'
    BY <1>3 DEF FirstNonApplied
  <1>5. LayoutMatches(b, id)'
    BY <1>1, <1>2 DEF LayoutMatches
  <1>6. Knows(c)'
    BY <1>0, <1>1, <1>2, <1>4, <1>5 DEF Knows
  <1>7. s # "running" => ~Indeterminate(b, id)'
    BY <1>0, <1>3 DEF Indeterminate
  <1> QED
    BY <1>2, <1>6, <1>7

LEMMA UnitApplied ==
    ASSUME IInv, NEW c \in Client, pc[c] \in InRun, idx[c] < Units[bundle[c]],
           UnitBecomes(c, "applied", 1), idx'[c] = idx[c] + 1
    PROVE  Knows(c)' /\ ~Indeterminate(bundle[c], MyId(c))'
  <1>1. idx'[c] = IF "applied" = "applied" THEN idx[c] + 1 ELSE idx[c]
    OBVIOUS
  <1>2. "applied" # "running"
    OBVIOUS
  <1> QED
    BY <1>1, <1>2, UnitKnown

\* From its part about the holder, the rest of IInv follows.
LEMMA HolderStep ==
    ASSUME IInv, NEW c \in Client, lock = c, lock' = c, bundle[c] \in Bundle,
           NEW label \in Holding \ {"bootstrap", "start"}, Goto(c, label),
           UNCHANGED <<bundle, resumed>>,
           \A d \in Client \ {c} : idx'[d] = idx[d] /\ outcome'[d] = outcome[d],
           TypeOK', DatabaseInv', LoopInv(c)', OutcomeInv(c)'
    PROVE  IInv'
  <1>1. pc'[c] = label /\ \A d \in Client \ {c} : Asleep(d)
    BY DEF IInv, TypeOK, Goto, Asleep
  <1>2. pc'[c] \in Holding /\ pc'[c] \notin {"bootstrap", "start"}
    BY <1>1
  <1>3. ReadInv(c)'
    BY <1>2 DEF ReadInv
  <1>4. OneClient(c)'
    BY <1>2, <1>3 DEF OneClient
  <1> QED
    BY <1>1, <1>4, StepOf

\* Nothing is in doubt before a unit is marked: its row is not 'running'.
LEMMA NotYet ==
    ASSUME IInv, NEW c \in Client, pc[c] \in {"unit", "tx"},
           idx[c] < Units[bundle[c]]
    PROVE  effect[MyId(c)][idx[c]] = 0
  <1>1. pc[c] \in InRun
    BY DEF InRun
  <1>2. /\ MyId(c) \in Id /\ idx[c] \in UnitIndex
        /\ idx[c] \in 0 .. (Units[bundle[c]] - 1)
        /\ unit[MyId(c)][idx[c]] # "applied"
        /\ Transactional[run[MyId(c)].bundle][idx[c]]
              = Transactional[bundle[c]][idx[c]]
        /\ LoopInv(c)
    BY <1>1, AtWork, CurrentUnit
  <1>3. ~Indeterminate(bundle[c], MyId(c))
    BY <1>2 DEF LoopInv
  <1>4. unit[MyId(c)][idx[c]] = "running" => Transactional[bundle[c]][idx[c]]
    BY <1>2, <1>3 DEF Indeterminate
  <1>5. MarkerTruth
    BY DEF IInv, DatabaseInv
  <1>6. unit[MyId(c)][idx[c]] # "running"
    BY <1>2, <1>4, <1>5 DEF MarkerTruth
  <1> QED
    BY <1>2, <1>5, <1>6 DEF MarkerTruth

LEMMA MarkRunningStep ==
    ASSUME IInv, NEW c \in Client, MarkRunning(c)
    PROVE  IInv'
  <1> USE DEF MarkRunning, local
  <1>1. pc[c] \in InRun /\ pc[c] = "unit"
    BY DEF InRun
  <1>2. /\ lock = c /\ bundle[c] \in Bundle /\ MyId(c) \in Id
        /\ outcome[c] = "none" /\ idx[c] \in UnitIndex
        /\ effect[MyId(c)][idx[c]] = 0
    BY <1>1, AtWork, CurrentUnit, NotYet
  <1>3. TypeOK'
    BY <1>2 DEF IInv, TypeOK, PC, Goto
  <1>4. UnitBecomes(c, "running", 0)
    BY <1>2 DEF UnitBecomes, IInv, TypeOK
  <1>5. DatabaseInv'
    BY <1>1, <1>4, UnitRows DEF TrueMarker
  <1>6. Knows(c)'
    BY <1>1, <1>4, UnitKnown
  <1>7. pc'[c] = "exec"
    BY DEF IInv, TypeOK, Goto
  <1>8. LoopInv(c)'
    BY <1>4, <1>6, <1>7 DEF LoopInv, InRun, UnitBecomes, MyId
  <1>9. OutcomeInv(c)'
    BY <1>2, <1>7 DEF OutcomeInv
  <1>10. "exec" \in Holding \ {"bootstrap", "start"}
    BY DEF Holding, Applying
  <1> QED
    BY <1>2, <1>3, <1>5, <1>8, <1>9, <1>10, HolderStep

LEMMA CommitUnitStep ==
    ASSUME IInv, NEW c \in Client, CommitUnit(c)
    PROVE  IInv'
  <1> USE DEF CommitUnit
  <1>1. pc[c] \in InRun /\ pc[c] = "tx"
    BY DEF InRun
  <1>2. /\ lock = c /\ bundle[c] \in Bundle /\ MyId(c) \in Id
        /\ outcome[c] = "none" /\ LoopInv(c)
    BY <1>1, AtWork
  <1>3. idx[c] < Units[bundle[c]]
    BY <1>1, <1>2 DEF LoopInv
  <1>4. idx[c] \in UnitIndex /\ effect[MyId(c)][idx[c]] = 0
    BY <1>1, <1>3, CurrentUnit, NotYet
  <1>5. TypeOK'
    <2>1. idx' \in [Client -> 0 .. MaxUnits]
      <3>1. idx \in [Client -> 0 .. MaxUnits]
        BY DEF IInv, TypeOK
      <3>2. idx[c] + 1 \in 0 .. MaxUnits
        BY <1>4
      <3> QED
        BY <3>1, <3>2
    <2>2. effect' \in [Id -> [UnitIndex -> Nat]]
      <3>1. effect \in [Id -> [UnitIndex -> Nat]]
        BY DEF IInv, TypeOK
      <3>2. effect' = [effect EXCEPT ![MyId(c)][idx[c]] = 1]
        BY <1>4
      <3> QED
        BY <1>2, <1>4, <3>1, <3>2
    <2> QED
      BY <2>1, <2>2 DEF IInv, TypeOK, PC, Goto
  <1>6. UnitBecomes(c, "applied", 1)
    <2>1. /\ unit \in [Id -> [UnitIndex -> UnitStatus \cup {"none"}]]
          /\ effect \in [Id -> [UnitIndex -> Nat]]
      BY DEF IInv, TypeOK
    <2> QED
      BY <1>2, <1>4, <2>1 DEF UnitBecomes
  <1>7. DatabaseInv'
    BY <1>1, <1>3, <1>6, UnitRows DEF TrueMarker
  <1>8. pc'[c] = "unit" /\ idx'[c] = idx[c] + 1
    BY DEF IInv, TypeOK, Goto
  <1>9. Knows(c)' /\ ~Indeterminate(bundle[c], MyId(c))'
    BY <1>1, <1>3, <1>6, <1>8, UnitApplied
  <1>10. LoopInv(c)'
    BY <1>8, <1>9 DEF LoopInv, InRun
  <1>11. OutcomeInv(c)'
    BY <1>2, <1>8 DEF OutcomeInv
  <1>12. "unit" \in Holding \ {"bootstrap", "start"}
    BY DEF Holding, Applying
  <1>13. \A d \in Client \ {c} : idx'[d] = idx[d] /\ outcome'[d] = outcome[d]
    BY DEF IInv, TypeOK
  <1> QED
    BY <1>2, <1>5, <1>7, <1>10, <1>11, <1>12, <1>13, HolderStep

LEMMA ExecuteUnitStep ==
    ASSUME IInv, NEW c \in Client, ExecuteUnit(c)
    PROVE  IInv'
  <1> USE DEF ExecuteUnit, local
  <1>1. pc[c] \in InRun /\ pc[c] = "exec"
    BY DEF InRun
  <1>2. /\ lock = c /\ bundle[c] \in Bundle /\ MyId(c) \in Id
        /\ outcome[c] = "none" /\ LoopInv(c)
    BY <1>1, AtWork
  <1>3. /\ idx[c] < Units[bundle[c]]
        /\ ~Transactional[bundle[c]][idx[c]]
        /\ unit[MyId(c)][idx[c]] = "running"
        /\ effect[MyId(c)][idx[c]] = 0
    BY <1>1, <1>2 DEF LoopInv
  <1>4. idx[c] \in UnitIndex
    BY <1>1, <1>3, CurrentUnit
  <1>5. TypeOK'
    <2>1. effect' \in [Id -> [UnitIndex -> Nat]]
      <3>1. effect \in [Id -> [UnitIndex -> Nat]]
        BY DEF IInv, TypeOK
      <3>2. effect' = [effect EXCEPT ![MyId(c)][idx[c]] = 1]
        BY <1>3
      <3> QED
        BY <1>2, <1>4, <3>1, <3>2
    <2> QED
      BY <2>1 DEF IInv, TypeOK, PC, Goto
  <1>6. UnitBecomes(c, "running", 1)
    BY <1>2, <1>3, <1>4 DEF UnitBecomes, IInv, TypeOK
  <1>7. DatabaseInv'
    BY <1>1, <1>3, <1>6, UnitRows DEF TrueMarker
  <1>8. pc'[c] = "mark"
    BY DEF IInv, TypeOK, Goto
  <1>9. Knows(c)'
    BY <1>1, <1>3, <1>6, UnitKnown
  <1>10. LoopInv(c)'
    BY <1>3, <1>6, <1>8, <1>9 DEF LoopInv, InRun, UnitBecomes, MyId
  <1>11. OutcomeInv(c)'
    BY <1>2, <1>8 DEF OutcomeInv
  <1>12. "mark" \in Holding \ {"bootstrap", "start"}
    BY DEF Holding, Applying
  <1> QED
    BY <1>2, <1>5, <1>7, <1>10, <1>11, <1>12, HolderStep

LEMMA MarkAppliedStep ==
    ASSUME IInv, NEW c \in Client, MarkApplied(c)
    PROVE  IInv'
  <1> USE DEF MarkApplied
  <1>1. pc[c] \in InRun /\ pc[c] = "mark"
    BY DEF InRun
  <1>2. /\ lock = c /\ bundle[c] \in Bundle /\ MyId(c) \in Id
        /\ outcome[c] = "none" /\ LoopInv(c)
    BY <1>1, AtWork
  <1>3. idx[c] < Units[bundle[c]] /\ effect[MyId(c)][idx[c]] = 1
    BY <1>1, <1>2 DEF LoopInv
  <1>4. idx[c] \in UnitIndex
    BY <1>1, <1>3, CurrentUnit
  <1>5. TypeOK'
    <2>1. idx' \in [Client -> 0 .. MaxUnits]
      <3>1. idx \in [Client -> 0 .. MaxUnits]
        BY DEF IInv, TypeOK
      <3>2. idx[c] + 1 \in 0 .. MaxUnits
        BY <1>4
      <3> QED
        BY <3>1, <3>2
    <2> QED
      BY <2>1 DEF IInv, TypeOK, PC, Goto
  <1>6. UnitBecomes(c, "applied", 1)
    BY <1>2, <1>3, <1>4 DEF UnitBecomes, IInv, TypeOK
  <1>7. DatabaseInv'
    BY <1>1, <1>3, <1>6, UnitRows DEF TrueMarker
  <1>8. pc'[c] = "unit" /\ idx'[c] = idx[c] + 1
    BY DEF IInv, TypeOK, Goto
  <1>9. Knows(c)' /\ ~Indeterminate(bundle[c], MyId(c))'
    BY <1>1, <1>3, <1>6, <1>8, UnitApplied
  <1>10. LoopInv(c)'
    BY <1>8, <1>9 DEF LoopInv, InRun
  <1>11. OutcomeInv(c)'
    BY <1>2, <1>8 DEF OutcomeInv
  <1>12. "unit" \in Holding \ {"bootstrap", "start"}
    BY DEF Holding, Applying
  <1>13. \A d \in Client \ {c} : idx'[d] = idx[d] /\ outcome'[d] = outcome[d]
    BY DEF IInv, TypeOK
  <1> QED
    BY <1>2, <1>5, <1>7, <1>10, <1>11, <1>12, <1>13, HolderStep

LEMMA RecordFailureStep ==
    ASSUME IInv, NEW c \in Client, RecordFailure(c)
    PROVE  IInv'
  <1> USE DEF RecordFailure, local
  <1>1. pc[c] \in InRun /\ pc[c] = "record"
    BY DEF InRun
  <1>2. /\ lock = c /\ bundle[c] \in Bundle /\ MyId(c) \in Id
        /\ outcome[c] = "none" /\ LoopInv(c)
    BY <1>1, AtWork
  <1>3. idx[c] < Units[bundle[c]] /\ effect[MyId(c)][idx[c]] = 0
    BY <1>1, <1>2 DEF LoopInv
  <1>4. idx[c] \in UnitIndex
    BY <1>1, <1>3, CurrentUnit
  <1>5. TypeOK'
    BY <1>2, <1>4 DEF IInv, TypeOK, PC, Goto
  <1>6. UnitBecomes(c, "failed", 0)
    BY <1>2, <1>3, <1>4 DEF UnitBecomes, IInv, TypeOK
  <1>7. DatabaseInv'
    BY <1>1, <1>3, <1>6, UnitRows DEF TrueMarker
  <1>8. pc'[c] = "finishFailed"
    BY DEF IInv, TypeOK, Goto
  <1>9. Knows(c)'
    BY <1>1, <1>3, <1>6, UnitKnown
  <1>10. LoopInv(c)'
    BY <1>3, <1>6, <1>8, <1>9 DEF LoopInv, InRun, UnitBecomes, MyId
  <1>11. OutcomeInv(c)'
    BY <1>2, <1>8 DEF OutcomeInv
  <1>12. "finishFailed" \in Holding \ {"bootstrap", "start"}
    BY DEF Holding, Applying
  <1> QED
    BY <1>2, <1>5, <1>7, <1>10, <1>11, <1>12, HolderStep

-----------------------------------------------------------------------------
(* The steps that change the row of the run *)

\* A run gets a final status that its units justify.
LEMMA FinishRows ==
    ASSUME IInv, NEW id \in Id, HasRun(id),
           NEW status \in {"applied", "failed", "cancelled"},
           NEW failed \in UnitIndex \cup {NoUnit},
           FinishRun(id, status, failed), UNCHANGED <<unit, effect>>,
           status = "applied" =>
              \A i \in 0 .. (Units[run[id].bundle] - 1) : unit[id][i] = "applied",
           status = "failed" =>
              /\ failed \in UnitIndex
              /\ unit[id][failed] = "failed"
              /\ \A j \in 0 .. (failed - 1) : unit[id][j] = "applied"
    PROVE  /\ DatabaseInv'
           /\ run' \in [Id -> [status : RunStatus \cup {"none"},
                               bundle : Bundle \cup {NoBundle},
                               failedUnit : UnitIndex \cup {NoUnit}]]
           /\ run'[id].bundle = run[id].bundle
  <1>1. run \in [Id -> [status : RunStatus \cup {"none"},
                        bundle : Bundle \cup {NoBundle},
                        failedUnit : UnitIndex \cup {NoUnit}]]
    BY DEF IInv, TypeOK
  <1>2. /\ run'[id].status = status
        /\ run'[id].failedUnit = failed
        /\ \A x \in Id : x # id => run'[x] = run[x]
        /\ \A x \in Id : run'[x].bundle = run[x].bundle
        /\ \A x \in Id : HasRun(x)' <=> HasRun(x)
    BY <1>1 DEF FinishRun, HasRun
  <1>3. run' \in [Id -> [status : RunStatus \cup {"none"},
                         bundle : Bundle \cup {NoBundle},
                         failedUnit : UnitIndex \cup {NoUnit}]]
    <2>1. run' = [run EXCEPT ![id] = [status |-> status,
                                      bundle |-> run[id].bundle,
                                      failedUnit |-> failed]]
      BY <1>1 DEF FinishRun
    <2>2. run[id].bundle \in Bundle \cup {NoBundle}
      BY <1>1
    <2> QED
      BY <1>1, <2>1, <2>2
  <1>4. RowInv /\ MarkerTruth /\ AppliedPrefix /\ RunStatusTruth
    BY DEF IInv, DatabaseInv
  <1>5. RowInv'
    <2> SUFFICES ASSUME NEW x \in Id
                 PROVE  /\ HasRun(x)' <=> run'[x].bundle \in Bundle
                        /\ \A k \in UnitIndex :
                              /\ unit[x][k] # "none" <=>
                                    HasRun(x)' /\ k < Units[run'[x].bundle]
                              /\ unit[x][k] = "none" => effect[x][k] = 0
      BY DEF RowInv
    <2>1. run'[x].bundle = run[x].bundle /\ (HasRun(x)' <=> HasRun(x))
      BY <1>2
    <2> QED
      BY <1>4, <2>1 DEF RowInv
  <1>6. MarkerTruth' /\ AppliedPrefix'
    <2>1. MarkerTruth'
      <3> SUFFICES ASSUME NEW x \in Id, NEW k \in UnitIndex
                   PROVE  /\ unit[x][k] = "applied" => effect[x][k] = 1
                          /\ effect[x][k] # 0 /\ unit[x][k] # "applied" =>
                                effect[x][k] = 1 /\ unit[x][k] = "running"
                          /\ unit[x][k] = "running" =>
                                ~Transactional[run'[x].bundle][k]
        BY DEF MarkerTruth
      <3>1. run'[x].bundle = run[x].bundle
        BY <1>2
      <3> QED
        BY <1>4, <3>1 DEF MarkerTruth
    <2>2. AppliedPrefix'
      <3> SUFFICES ASSUME NEW x \in Id, NEW k \in UnitIndex, NEW j \in UnitIndex,
                          unit'[x][k] \notin {"none", "pending"}, j < k
                   PROVE  unit'[x][j] = "applied"
        BY DEF AppliedPrefix
      <3>1. unit[x][k] \notin {"none", "pending"}
        OBVIOUS
      <3>2. unit[x][j] = "applied"
        BY <1>4, <3>1 DEF AppliedPrefix
      <3> QED
        BY <3>2
    <2> QED
      BY <2>1, <2>2
  <1>7. RunStatusTruth'
    <2> SUFFICES ASSUME NEW x \in Id
                 PROVE  /\ run'[x].status = "applied" =>
                             \A k \in 0 .. (Units[run'[x].bundle] - 1) :
                                unit[x][k] = "applied"
                        /\ run'[x].status = "failed" =>
                             /\ run'[x].failedUnit \in UnitIndex
                             /\ unit[x][run'[x].failedUnit] = "failed"
                             /\ \A k \in 0 .. (run'[x].failedUnit - 1) :
                                   unit[x][k] = "applied"
      BY DEF RunStatusTruth
    <2>1. CASE x = id
      BY <1>2, <2>1
    <2>2. CASE x # id
      <3>1. run'[x] = run[x]
        BY <1>2, <2>2
      <3> QED
        BY <1>4, <3>1 DEF RunStatusTruth
    <2> QED
      BY <2>1, <2>2
  <1> QED
    BY <1>2, <1>3, <1>5, <1>6, <1>7 DEF DatabaseInv

LEMMA FinishFailedStep ==
    ASSUME IInv, NEW c \in Client, FinishFailed(c)
    PROVE  IInv'
  <1> USE DEF FinishFailed
  <1>1. pc[c] \in InRun /\ pc[c] = "finishFailed"
    BY DEF InRun
  <1>2. /\ lock = c /\ bundle[c] \in Bundle /\ MyId(c) \in Id
        /\ LoopInv(c) /\ HasRun(MyId(c))
    BY <1>1, AtWork
  <1>3. idx[c] < Units[bundle[c]] /\ unit[MyId(c)][idx[c]] = "failed"
    BY <1>1, <1>2 DEF LoopInv
  <1>4. /\ idx[c] \in UnitIndex
        /\ \A j \in 0 .. (idx[c] - 1) : unit[MyId(c)][j] = "applied"
    BY <1>1, <1>3, CurrentUnit
  <1>5. /\ DatabaseInv'
        /\ run' \in [Id -> [status : RunStatus \cup {"none"},
                            bundle : Bundle \cup {NoBundle},
                            failedUnit : UnitIndex \cup {NoUnit}]]
    BY <1>2, <1>3, <1>4, FinishRows
  <1>6. TypeOK'
    BY <1>5 DEF IInv, TypeOK, PC, Goto
  <1>7. /\ pc'[c] = "finished" /\ outcome'[c] = "failed"
        /\ \A d \in Client \ {c} : outcome'[d] = outcome[d]
    BY DEF IInv, TypeOK, Goto
  <1>8. LoopInv(c)'
    BY <1>7 DEF LoopInv, InRun
  <1>9. OutcomeInv(c)'
    BY <1>3, <1>7 DEF OutcomeInv, MyId
  <1>10. "finished" \in Holding \ {"bootstrap", "start"}
    BY DEF Holding, Applying
  <1> QED
    BY <1>2, <1>5, <1>6, <1>7, <1>8, <1>9, <1>10, HolderStep

LEMMA FinishAppliedStep ==
    ASSUME IInv, NEW c \in Client, FinishApplied(c)
    PROVE  IInv'
  <1> USE DEF FinishApplied
  <1>1. pc[c] \in InRun
    BY DEF InRun
  <1>2. /\ lock = c /\ bundle[c] \in Bundle /\ MyId(c) \in Id
        /\ Knows(c) /\ HasRun(MyId(c))
        /\ Units[run[MyId(c)].bundle] = Units[bundle[c]]
        /\ Units[bundle[c]] \in 0 .. MaxUnits
    BY <1>1, AtWork
  <1>3. \A i \in 0 .. (Units[bundle[c]] - 1) : unit[MyId(c)][i] = "applied"
    <2>1. FirstNonApplied(MyId(c), Units[bundle[c]], Units[bundle[c]])
      BY <1>2 DEF Knows
    <2>2. Units[bundle[c]] \in Int
      BY <1>2
    <2> QED
      <3>1. \A i \in 0 .. (Units[bundle[c]] - 1) : i < Units[bundle[c]]
        BY <2>2
      <3> QED
        BY <2>1, <3>1 DEF FirstNonApplied
  <1>4. /\ DatabaseInv'
        /\ run' \in [Id -> [status : RunStatus \cup {"none"},
                            bundle : Bundle \cup {NoBundle},
                            failedUnit : UnitIndex \cup {NoUnit}]]
        /\ run'[MyId(c)].bundle = run[MyId(c)].bundle
    BY <1>2, <1>3, FinishRows
  <1>5. TypeOK'
    BY <1>4 DEF IInv, TypeOK, PC, Goto
  <1>6. /\ pc'[c] = "finished" /\ outcome'[c] = "applied"
        /\ \A d \in Client \ {c} : outcome'[d] = outcome[d]
    BY DEF IInv, TypeOK, Goto
  <1>7. LoopInv(c)'
    BY <1>6 DEF LoopInv, InRun
  <1>8. OutcomeInv(c)'
    <2>1. LayoutMatches(bundle[c], MyId(c))'
      BY <1>2, <1>4 DEF Knows, LayoutMatches, MyId
    <2> QED
      BY <1>3, <1>6, <2>1 DEF OutcomeInv, MyId
  <1>9. "finished" \in Holding \ {"bootstrap", "start"}
    BY DEF Holding, Applying
  <1> QED
    BY <1>2, <1>4, <1>5, <1>6, <1>7, <1>8, <1>9, HolderStep

LEMMA FinishCancelledStep ==
    ASSUME IInv, NEW c \in Client, FinishCancelled(c)
    PROVE  IInv'
  <1> USE DEF FinishCancelled
  <1>1. lock = c /\ bundle[c] \in Bundle /\ MyId(c) \in Id
    BY Holder DEF Holding
  <1>2. /\ DatabaseInv'
        /\ run' \in [Id -> [status : RunStatus \cup {"none"},
                            bundle : Bundle \cup {NoBundle},
                            failedUnit : UnitIndex \cup {NoUnit}]]
    <2>1. CASE HasRun(MyId(c))
      BY <1>1, <2>1, FinishRows
    <2>2. CASE ~HasRun(MyId(c))
      BY <2>2, SameRows DEF IInv, TypeOK
    <2> QED
      BY <2>1, <2>2
  <1>3. TypeOK'
    BY <1>1, <1>2, StopStep DEF IInv, TypeOK, Stop
  <1> QED
    BY <1>1, <1>2, <1>3, StopStep, StepOf

\* A new run has a pending row for every unit; a resumed run keeps its rows.
LEMMA StartRunStep ==
    ASSUME IInv, NEW c \in Client, StartRun(c)
    PROVE  IInv'
  <1>0. PICK b \in Bundle, id \in Id : b = bundle[c] /\ id = MyId(c)
    BY Holder DEF StartRun, Holding, Applying
  <1>1. /\ lock = c /\ lock' = lock /\ pc[c] = "start" /\ bundle' = bundle
        /\ outcome[c] = "none" /\ ReadInv(c) /\ historySchema' = historySchema
        /\ UNCHANGED <<effect, leftover, drifted>>
    BY Holder DEF StartRun, Holding, Applying, IInv, ClientInv, OutcomeInv, local, Stop
  <1>2. CASE resumed[c] # HasRun(id)
    <2>1. Stop(c) /\ UNCHANGED <<run, unit, newer>>
      BY <1>0, <1>2 DEF StartRun
    <2>2. TypeOK'
      BY <1>1, <2>1, StopStep DEF IInv, TypeOK, Stop
    <2> QED
      BY <1>1, <2>1, <2>2, StopStep, SameRows, StepOf DEF IInv
  <1>3. CASE resumed[c] = HasRun(id)
    <2>1. /\ run' = [run EXCEPT ![id] =
                        [status |-> "running",
                         bundle |-> IF resumed[c] THEN @.bundle ELSE b,
                         failedUnit |-> NoUnit]]
          /\ unit' = IF resumed[c] THEN unit
                     ELSE [unit EXCEPT ![id] =
                              [i \in UnitIndex |->
                                 IF i < Units[b] THEN "pending" ELSE "none"]]
          /\ newer' = [j \in Id |-> IF j = id THEN {} ELSE newer[j] \cup {id}]
          /\ Goto(c, "unit")
          /\ UNCHANGED local
      BY <1>0, <1>3 DEF StartRun
    <2>2. /\ idx[c] < Units[b] /\ MyId(c)' = id
          /\ resumed[c] => HasRun(id) /\ ResumesAt(b, idx[c])
          /\ ~resumed[c] => ~HasRun(id) /\ idx[c] = 0
          /\ pc'[c] = "unit" /\ idx' = idx /\ outcome' = outcome
      BY <1>0, <1>1, <2>1 DEF ReadInv, Goto, local, IInv, TypeOK, MyId
    <2>3. /\ run'[id].status = "running" /\ HasRun(id)'
          /\ run'[id].bundle = IF resumed[c] THEN run[id].bundle ELSE b
          /\ \A x \in Id : x # id => run'[x] = run[x] /\ unit'[x] = unit[x]
          /\ resumed[c] => unit' = unit
          /\ ~resumed[c] => \A i \in UnitIndex :
                unit'[id][i] = IF i < Units[b] THEN "pending" ELSE "none"
      BY <2>1 DEF IInv, TypeOK, HasRun
    <2>4. /\ run'[id].bundle \in Bundle
          /\ resumed[c] => /\ LayoutMatches(b, id)
                           /\ FirstNonApplied(id, idx[c], Units[b])
                           /\ ~Indeterminate(b, id)
      <3>1. id = IdOf[b]
        BY <1>0 DEF MyId
      <3>2. resumed[c] => /\ LayoutMatches(b, id)
                          /\ FirstNonApplied(id, idx[c], Units[b])
                          /\ ~Indeterminate(b, id)
        BY <2>2, <3>1 DEF ResumesAt
      <3>3. resumed[c] => run[id].bundle \in Bundle
        BY <3>2 DEF LayoutMatches
      <3> QED
        BY <2>3, <3>2, <3>3
    <2>5. TypeOK'
      <3>1. run' \in [Id -> [status : RunStatus \cup {"none"},
                             bundle : Bundle \cup {NoBundle},
                             failedUnit : UnitIndex \cup {NoUnit}]]
        BY <2>1 DEF IInv, TypeOK
      <3>2. unit' \in [Id -> [UnitIndex -> UnitStatus \cup {"none"}]]
        BY <2>1 DEF IInv, TypeOK
      <3>3. newer' \in [Id -> SUBSET Id]
        BY <2>1 DEF IInv, TypeOK
      <3> QED
        BY <1>1, <2>1, <3>1, <3>2, <3>3 DEF IInv, TypeOK, PC, Goto, local
    <2>6. DatabaseInv'
      <3>1. RowInv /\ MarkerTruth /\ AppliedPrefix /\ RunStatusTruth
        BY DEF IInv, DatabaseInv
      <3>2. ~resumed[c] => \A i \in UnitIndex : effect[id][i] = 0
        BY <2>2, <3>1 DEF RowInv
      <3>3. CASE resumed[c]
        <4>1. \A x \in Id : run'[x].bundle = run[x].bundle /\ (HasRun(x)' <=> HasRun(x))
          BY <2>2, <2>3, <3>3 DEF HasRun
        <4>2. unit' = unit /\ effect' = effect
          BY <1>1, <2>3, <3>3
        <4>3. RowInv' /\ AppliedPrefix'
          <5>1. AppliedPrefix'
            BY <3>1, <4>2 DEF AppliedPrefix
          <5> SUFFICES ASSUME NEW x \in Id
                       PROVE  /\ HasRun(x)' <=> run'[x].bundle \in Bundle
                              /\ \A k \in UnitIndex :
                                    /\ unit[x][k] # "none" <=>
                                          HasRun(x)' /\ k < Units[run'[x].bundle]
                                    /\ unit[x][k] = "none" => effect[x][k] = 0
            BY <4>2, <5>1 DEF RowInv
          <5> QED
            BY <3>1, <4>1 DEF RowInv
        <4>4. MarkerTruth'
          <5> SUFFICES ASSUME NEW x \in Id, NEW k \in UnitIndex
                       PROVE  /\ unit[x][k] = "applied" => effect[x][k] = 1
                              /\ effect[x][k] # 0 /\ unit[x][k] # "applied" =>
                                    effect[x][k] = 1 /\ unit[x][k] = "running"
                              /\ unit[x][k] = "running" =>
                                    ~Transactional[run'[x].bundle][k]
            BY <4>2 DEF MarkerTruth
          <5>1. run'[x].bundle = run[x].bundle
            BY <4>1
          <5> QED
            BY <3>1, <5>1 DEF MarkerTruth
        <4>5. RunStatusTruth'
          <5> SUFFICES ASSUME NEW x \in Id
                       PROVE  /\ run'[x].status = "applied" =>
                                   \A k \in 0 .. (Units[run'[x].bundle] - 1) :
                                      unit[x][k] = "applied"
                              /\ run'[x].status = "failed" =>
                                   /\ run'[x].failedUnit \in UnitIndex
                                   /\ unit[x][run'[x].failedUnit] = "failed"
                                   /\ \A k \in 0 .. (run'[x].failedUnit - 1) :
                                         unit[x][k] = "applied"
            BY <4>2 DEF RunStatusTruth
          <5>1. x # id => run'[x] = run[x]
            BY <2>3
          <5>2. CASE x = id
            BY <2>3, <5>2
          <5>3. CASE x # id
            <6>1. run'[x] = run[x]
              BY <5>1, <5>3
            <6> QED
              BY <3>1, <6>1 DEF RunStatusTruth
          <5> QED
            BY <5>2, <5>3
        <4> QED
          BY <4>3, <4>4, <4>5 DEF DatabaseInv
      <3>4. CASE ~resumed[c]
        <4>1. RowInv'
          <5>1. \A x \in Id : x # id => run'[x] = run[x] /\ unit'[x] = unit[x]
            BY <2>3
          <5>2. run'[id].bundle = b /\ HasRun(id)' /\ effect' = effect
            BY <1>1, <2>3, <3>4
          <5>3. \A i \in UnitIndex :
                   unit'[id][i] = IF i < Units[b] THEN "pending" ELSE "none"
            BY <2>3, <3>4
          <5> SUFFICES ASSUME NEW x \in Id
                       PROVE  /\ HasRun(x)' <=> run'[x].bundle \in Bundle
                              /\ \A k \in UnitIndex :
                                    /\ unit'[x][k] # "none" <=>
                                          HasRun(x)' /\ k < Units[run'[x].bundle]
                                    /\ unit'[x][k] = "none" => effect[x][k] = 0
            BY <1>1 DEF RowInv
          <5>4. CASE x = id
            BY <3>2, <3>4, <5>2, <5>3, <5>4
          <5>5. CASE x # id
            <6>1. run'[x] = run[x] /\ unit'[x] = unit[x]
              BY <5>1, <5>5
            <6> QED
              BY <3>1, <6>1 DEF RowInv, HasRun
          <5> QED
            BY <5>4, <5>5
        <4>2. MarkerTruth'
          <5> SUFFICES ASSUME NEW x \in Id, NEW k \in UnitIndex
                       PROVE  /\ unit'[x][k] = "applied" => effect[x][k] = 1
                              /\ effect[x][k] # 0 /\ unit'[x][k] # "applied" =>
                                    effect[x][k] = 1 /\ unit'[x][k] = "running"
                              /\ unit'[x][k] = "running" =>
                                    ~Transactional[run'[x].bundle][k]
            BY <1>1 DEF MarkerTruth
          <5>1. CASE x = id
            BY <2>3, <3>2, <3>4, <5>1
          <5>2. CASE x # id
            <6>1. run'[x] = run[x] /\ unit'[x] = unit[x]
              BY <2>3, <5>2
            <6> QED
              <7>1. /\ unit[x][k] = "applied" => effect[x][k] = 1
                    /\ effect[x][k] # 0 /\ unit[x][k] # "applied" =>
                          effect[x][k] = 1 /\ unit[x][k] = "running"
                    /\ unit[x][k] = "running" => ~Transactional[run[x].bundle][k]
                BY <3>1 DEF MarkerTruth
              <7> QED
                BY <6>1, <7>1
          <5> QED
            BY <5>1, <5>2
        <4>3. AppliedPrefix'
          <5> SUFFICES ASSUME NEW x \in Id, NEW k \in UnitIndex, NEW j \in UnitIndex,
                              unit'[x][k] \notin {"none", "pending"}, j < k
                       PROVE  unit'[x][j] = "applied"
            BY DEF AppliedPrefix
          <5>1. x # id
            BY <2>3, <3>4
          <5>2. unit'[x] = unit[x]
            BY <2>3, <5>1
          <5> QED
            BY <3>1, <5>2 DEF AppliedPrefix
        <4>4. RunStatusTruth'
          <5> SUFFICES ASSUME NEW x \in Id
                       PROVE  /\ run'[x].status = "applied" =>
                                   \A k \in 0 .. (Units[run'[x].bundle] - 1) :
                                      unit'[x][k] = "applied"
                              /\ run'[x].status = "failed" =>
                                   /\ run'[x].failedUnit \in UnitIndex
                                   /\ unit'[x][run'[x].failedUnit] = "failed"
                                   /\ \A k \in 0 .. (run'[x].failedUnit - 1) :
                                         unit'[x][k] = "applied"
            BY DEF RunStatusTruth
          <5>1. x # id => run'[x] = run[x] /\ unit'[x] = unit[x]
            BY <2>3
          <5>2. CASE x = id
            BY <2>3, <5>2
          <5>3. CASE x # id
            <6>1. run'[x] = run[x] /\ unit'[x] = unit[x]
              BY <5>1, <5>3
            <6> QED
              BY <3>1, <6>1 DEF RunStatusTruth
          <5> QED
            BY <5>2, <5>3
        <4> QED
          BY <4>1, <4>2, <4>3, <4>4 DEF DatabaseInv
      <3> QED
        BY <3>3, <3>4
    <2>7. LoopInv(c)'
      <3>1. CASE resumed[c]
        <4>1. unit' = unit /\ run'[id].bundle = run[id].bundle
          BY <2>3, <3>1
        <4>2. /\ LayoutMatches(b, id)'
              /\ FirstNonApplied(id, idx[c], Units[b])'
              /\ ~Indeterminate(b, id)'
          <5>1. LayoutMatches(b, id)'
            BY <2>4, <3>1, <4>1 DEF LayoutMatches
          <5>2. FirstNonApplied(id, idx[c], Units[b])'
            BY <2>2, <2>4, <3>1, <4>1 DEF FirstNonApplied
          <5>3. ~Indeterminate(b, id)'
            BY <2>4, <3>1, <4>1 DEF Indeterminate
          <5> QED
            BY <5>1, <5>2, <5>3
        <4>3. Knows(c)'
          BY <1>0, <1>1, <2>2, <2>3, <4>2 DEF Knows
        <4> QED
          BY <1>0, <1>1, <2>2, <4>2, <4>3 DEF LoopInv, InRun
      <3>2. CASE ~resumed[c]
        <4>1. /\ LayoutMatches(b, id)'
              /\ FirstNonApplied(id, idx[c], Units[b])'
              /\ ~Indeterminate(b, id)'
          <5>1. run'[id].bundle = b /\ idx'[c] = 0
            BY <2>2, <2>3, <3>2
          <5>2. \A i \in 0 .. (Units[b] - 1) : i \in UnitIndex /\ unit'[id][i] = "pending"
            BY <2>3, <3>2
          <5>3. LayoutMatches(b, id)'
            BY <5>1 DEF LayoutMatches
          <5>4. FirstNonApplied(id, idx[c], Units[b])'
            BY <5>1, <5>2 DEF FirstNonApplied
          <5>5. ~Indeterminate(b, id)'
            BY <5>2 DEF Indeterminate
          <5> QED
            BY <5>3, <5>4, <5>5
        <4>2. Knows(c)'
          BY <1>0, <1>1, <2>2, <2>3, <4>1 DEF Knows
        <4> QED
          BY <1>0, <1>1, <2>2, <4>1, <4>2 DEF LoopInv, InRun
      <3> QED
        BY <3>1, <3>2
    <2>8. OutcomeInv(c)'
      BY <1>1, <2>2 DEF OutcomeInv
    <2>9. "unit" \in Holding \ {"bootstrap", "start"}
      BY DEF Holding, Applying
    <2> QED
      BY <1>0, <1>1, <2>1, <2>2, <2>5, <2>6, <2>7, <2>8, <2>9, HolderStep DEF local
  <1> QED
    BY <1>2, <1>3

-----------------------------------------------------------------------------
(* The invariant, and the safety properties *)

LEMMA StutterStep ==
    ASSUME IInv, UNCHANGED vars
    PROVE  IInv'
  <1>1. UNCHANGED <<run, unit, effect, lock, pc, bundle, resumed, idx, outcome>>
    BY DEF vars, database, local
  <1>2. TypeOK'
    BY DEF IInv, TypeOK, vars, database, local
  <1>3. \A d \in Client : OneClient(d)'
    BY <1>1, OthersSameRows DEF Asleep
  <1>4. DatabaseInv'
    BY <1>1, SameRows DEF IInv
  <1> QED
    BY <1>2, <1>3, <1>4 DEF IInv, LockInv, ClientInv, OneClient

LEMMA NextIInv == IInv /\ [Next]_vars => IInv'
  <1> SUFFICES ASSUME IInv, [Next]_vars PROVE IInv'
    OBVIOUS
  <1>1. ASSUME NEW c \in Client, Proceed(c) PROVE IInv'
    BY <1>1, GuardReadHistoryStep, GuardInspectStep, AcquireLockStep,
       LockTimeoutStep, LoadHistoryStep, BootstrapStep, StartRunStep,
       BeginUnitStep, RunStatementStep, CommitUnitStep, MarkRunningStep,
       ExecuteUnitStep, ExecuteRefusedStep, MarkAppliedStep, RecordFailureStep,
       FinishFailedStep,
       FinishAppliedStep, ReturnStep, FinishCancelledStep, UnlockStep
       DEF Proceed
  <1>2. ASSUME NEW c \in Client, Operate(c) PROVE IInv'
    BY <1>2, BeginAttemptStep, ConfirmStep DEF Operate
  <1>3. ASSUME NEW c \in Client, Fault(c) PROVE IInv'
    BY <1>3, StatementFailsStep, ExecuteFailsStep, CancelStep, AbortStep, CrashStep
       DEF Fault
  <1>4. CASE Elsewhere
    BY <1>4, WorldStep
  <1>5. CASE UNCHANGED vars
    BY <1>5, StutterStep
  <1> QED
    BY <1>1, <1>2, <1>3, <1>4, <1>5 DEF Next

\* The inductive invariant holds in every reachable state, whatever fails and
\* however many clients apply bundles at the same time.
THEOREM Invariance == Spec => []IInv
  BY InitIInv, NextIInv, PTL DEF Spec

\* Every variable keeps its type; in particular failed_unit_index always names
\* a unit.
THEOREM TypeCorrect == Spec => []TypeOK
  <1>1. IInv => TypeOK
    BY DEF IInv
  <1> QED
    BY <1>1, Invariance, PTL

\* The history never says that a unit was applied when it was not, nor the
\* other way round, except for a non-transactional unit that it calls running.
THEOREM MarkersAreTrue == Spec => []MarkerTruth
  <1>1. IInv => MarkerTruth
    BY DEF IInv, DatabaseInv
  <1> QED
    BY <1>1, Invariance, PTL

\* _first_non_applied never finds applied units that are not a prefix.
THEOREM AppliedIsPrefix == Spec => []AppliedPrefix
  <1>1. IInv => AppliedPrefix
    BY DEF IInv, DatabaseInv
  <1> QED
    BY <1>1, Invariance, PTL

\* The status that finish_run records is the one that the unit rows justify.
THEOREM StatusIsTrue == Spec => []RunStatusTruth
  <1>1. IInv => RunStatusTruth
    BY DEF IInv, DatabaseInv
  <1> QED
    BY <1>1, Invariance, PTL

\* What apply_migration read from the history stays true while it runs units:
\* two clients never work in the database at the same time.
THEOREM CountIsExact == Spec => []LocalCountExact
  <1>1. IInv => LocalCountExact
    <2> SUFFICES ASSUME IInv, NEW c \in Client, pc[c] \in InRun
                 PROVE  /\ lock = c
                        /\ run[MyId(c)].status = "running"
                        /\ LayoutMatches(bundle[c], MyId(c))
                        /\ FirstNonApplied(MyId(c), idx[c], Units[bundle[c]])
      BY DEF LocalCountExact
    <2> QED
      BY AtWork DEF Knows
  <1> QED
    BY <1>1, Invariance, PTL

\* What an attempt is about to report agrees with the schema and the history.
THEOREM ReportsAreTrue == Spec => []ReportTruth
  <1>1. IInv => ReportTruth
    <2> SUFFICES ASSUME IInv, NEW c \in Client
                 PROVE  /\ outcome[c] = "applied" =>
                             \A i \in 0 .. (Units[bundle[c]] - 1) :
                                effect[MyId(c)][i] = 1 /\ unit[MyId(c)][i] = "applied"
                        /\ outcome[c] = "failed" => unit[MyId(c)][idx[c]] = "failed"
      BY DEF ReportTruth
    <2>1. OutcomeInv(c)
      BY DEF IInv, ClientInv
    <2>2. ASSUME outcome[c] = "applied", NEW i \in 0 .. (Units[bundle[c]] - 1)
          PROVE  effect[MyId(c)][i] = 1 /\ unit[MyId(c)][i] = "applied"
      <3>1. unit[MyId(c)][i] = "applied"
        BY <2>1, <2>2 DEF OutcomeInv
      <3>2. pc[c] \in Holding
        BY <2>1, <2>2 DEF OutcomeInv, Holding, Applying
      <3>3. MyId(c) \in Id /\ Units[bundle[c]] \in 0 .. MaxUnits
        BY <3>2, Holder
      <3>4. i \in UnitIndex
        BY <3>3
      <3> QED
        BY <3>1, <3>3, <3>4 DEF IInv, DatabaseInv, MarkerTruth
    <2>3. ASSUME outcome[c] = "failed"
          PROVE  unit[MyId(c)][idx[c]] = "failed"
      BY <2>1, <2>3 DEF OutcomeInv
    <2> QED
      BY <2>2, <2>3
  <1> QED
    BY <1>1, Invariance, PTL

=============================================================================
