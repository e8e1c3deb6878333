------------------------------ MODULE MCApplier ------------------------------
(* Finite instances of Applier.                                            *)
EXTENDS Applier, TLC

CONSTANTS c1, c2, b1, b2, b3, i1, i2

\* b1: a transactional unit of two statements, then a non-transactional one.
\* b2: the same units with other content under the id of b1, of format 1.
\* b3: one destructive unit, written for the schema that b1 leaves behind.
\* Any part of them may be the bundles of a run.
MCBundle == {b1, b2, b3}
MCIdOf == [b \in Bundle |-> IF b = b3 THEN i2 ELSE i1]
MCUpSql == [b \in Bundle |-> IF b = b1 THEN 1 ELSE IF b = b2 THEN 2 ELSE 3]
MCUnits == [b \in Bundle |-> IF b = b3 THEN 1 ELSE 2]
MCUnitSql == [b \in Bundle |-> [i \in UnitIndex |-> MCUpSql[b]]]
MCTransactional ==
    [b \in Bundle |-> [i \in UnitIndex |-> b = b3 \/ i = 0]]
MCStatements ==
    [b \in Bundle |-> [i \in UnitIndex |-> IF b = b1 /\ i = 0 THEN 2 ELSE 1]]
MCMaxRisk == [b \in Bundle |-> IF b = b3 THEN "destructive" ELSE "safe"]
MCFormatVersion == [b \in Bundle |-> IF b = b2 THEN 1 ELSE 2]
MCSource == [b \in Bundle |-> IF b = b3 THEN {b1} ELSE {}]

\* Only b1, for the runs that check liveness.
OneBundle == {b1}
OneIdOf == b1 :> i1
OneUpSql == b1 :> 1
OneUnits == b1 :> 2
OneUnitSql == b1 :> [i \in UnitIndex |-> 1]
OneTransactional == b1 :> [i \in UnitIndex |-> i = 0]
OneStatements == b1 :> [i \in UnitIndex |-> IF i = 0 THEN 2 ELSE 1]
OneMaxRisk == b1 :> "destructive"
OneFormatVersion == b1 :> 2
OneSource == b1 :> {}

MCSymmetry == Permutations(Client)
=============================================================================
