--------------------------- MODULE BundleProgress ---------------------------
(***************************************************************************)
(* What applying a bundle promises to whoever reads the target database:   *)
(* an id belongs to one bundle for ever; the bundle's units take effect in  *)
(* order and once; the history acknowledges a unit only after it took       *)
(* effect and before the next one does; a transactional unit takes effect   *)
(* and is acknowledged in one step; and a run is reported as applied only   *)
(* when all of it has been acknowledged.  There are no clients, locks,      *)
(* attempts or failures here: however those go, nothing else can be seen    *)
(* in the database.                                                        *)
(***************************************************************************)
EXTENDS Integers

CONSTANTS Id, Bundle, NoBundle, MaxUnits, IdOf, Units, Transactional

VARIABLES
    owner,      \* [Id -> the bundle that claimed the id]
    done,       \* [Id -> indexes of the units that took effect]
    known,      \* [Id -> indexes of the units the history calls applied]
    complete    \* [Id -> the run is recorded as applied]

vars == <<owner, done, known, complete>>

Init ==
    /\ owner = [id \in Id |-> NoBundle]
    /\ done = [id \in Id |-> {}]
    /\ known = [id \in Id |-> {}]
    /\ complete = [id \in Id |-> FALSE]

\* The first run of the id is recorded.
Claim(id, b) ==
    /\ owner[id] = NoBundle
    /\ IdOf[b] = id
    /\ owner' = [owner EXCEPT ![id] = b]
    /\ UNCHANGED <<done, known, complete>>

\* Unit n is the next one, and nothing is in doubt.
IsNext(id, n) ==
    /\ owner[id] \in Bundle
    /\ n < Units[owner[id]]
    /\ done[id] = 0 .. (n - 1)
    /\ known[id] = done[id]

CommitUnit(id, n) ==
    /\ IsNext(id, n)
    /\ Transactional[owner[id]][n]
    /\ done' = [done EXCEPT ![id] = @ \cup {n}]
    /\ known' = [known EXCEPT ![id] = @ \cup {n}]
    /\ UNCHANGED <<owner, complete>>

ExecuteUnit(id, n) ==
    /\ IsNext(id, n)
    /\ ~Transactional[owner[id]][n]
    /\ done' = [done EXCEPT ![id] = @ \cup {n}]
    /\ UNCHANGED <<owner, known, complete>>

Acknowledge(id) ==
    /\ known[id] # done[id]
    /\ known' = [known EXCEPT ![id] = done[id]]
    /\ UNCHANGED <<owner, done, complete>>

Complete(id) ==
    /\ owner[id] \in Bundle
    /\ known[id] = 0 .. (Units[owner[id]] - 1)
    /\ done[id] = known[id]
    /\ complete' = [complete EXCEPT ![id] = TRUE]
    /\ UNCHANGED <<owner, done, known>>

\* The record may be withdrawn, by a cancellation that arrives too late.
Withdraw(id) ==
    /\ complete[id]
    /\ complete' = [complete EXCEPT ![id] = FALSE]
    /\ UNCHANGED <<owner, done, known>>

Next ==
    \E id \in Id :
        \/ \E b \in Bundle : Claim(id, b)
        \/ \E n \in 0 .. (MaxUnits - 1) :
              CommitUnit(id, n) \/ ExecuteUnit(id, n)
        \/ Acknowledge(id)
        \/ Complete(id)
        \/ Withdraw(id)

Spec == Init /\ [][Next]_vars

=============================================================================
