------------------------------ MODULE MigrateProofs ------------------------------
(***************************************************************************)
(* What Migrate does with any deltas and any statements: the units that     *)
(* split_units cuts them into, what must hold before a unit is applied,     *)
(* what the bundle that is applied has to do with the plan it was written   *)
(* for, that every delta gets its level and its statements, and that        *)
(* nothing is taken away below the level that says so.                      *)
(***************************************************************************)
EXTENDS Migrate, DiffProofs

\* What `current' holds can go into one unit.
OpenWell ==
    LET last == EndOf(units, Len(units))
    IN  IF open = 0 THEN at = last + 1
        ELSE /\ open = last + 1 /\ open < at
             /\ \A j \in open .. at - 1 :
                 /\ j \in DOMAIN statements
                 /\ ~Alone(statements[j])
                 /\ statements[j].new_unit => j = open

Intervals == [first : Nat, last : Nat]

SplitInv ==
    /\ at \in Nat \ {0} /\ open \in Nat /\ units \in Seq(Intervals)
    /\ \A i \in 1 .. Len(units) : WellCut(units, i)
    /\ phase \in {"compare", "order", "assess", "emit"} => at = 1 /\ open = 0 /\ units = <<>>
    /\ phase = "split" => OpenWell
    /\ phase \in {"write", "load", "apply"} =>
        EndOf(units, Len(units)) + 1 \notin DOMAIN statements

-----------------------------------------------------------------------------
\* Cutting one more unit.

LEMMA EndIsNat ==
    ASSUME NEW us \in Seq(Intervals)
    PROVE  EndOf(us, Len(us)) \in Nat
  <1>1. CASE Len(us) = 0
    BY <1>1 DEF EndOf
  <1>2. CASE Len(us) # 0
    <2>1. us[Len(us)] \in Intervals
      BY <1>2
    <2> QED BY <1>2, <2>1 DEF EndOf, Intervals
  <1> QED BY <1>1, <1>2

\* A unit that begins behind the others and is well cut itself can follow them.
LEMMA AppendWell ==
    ASSUME NEW us \in Seq(Intervals), \A i \in 1 .. Len(us) : WellCut(us, i),
           NEW first \in Nat, NEW last \in Nat,
           first = EndOf(us, Len(us)) + 1, first <= last,
           \A j \in first .. last :
                /\ j \in DOMAIN statements
                /\ Alone(statements[j]) => first = last
                /\ statements[j].new_unit => j = first
    PROVE  LET vs == Append(us, Unit(first, last))
           IN  /\ vs \in Seq(Intervals) /\ EndOf(vs, Len(vs)) = last
               /\ \A i \in 1 .. Len(vs) : WellCut(vs, i)
  <1> DEFINE vs == Append(us, Unit(first, last))
  <1>1. /\ vs \in Seq(Intervals) /\ Len(vs) = Len(us) + 1
        /\ vs[Len(us) + 1] = Unit(first, last)
        /\ \A i \in 1 .. Len(us) : vs[i] = us[i]
    BY DEF Unit, Intervals
  <1>2. EndOf(vs, Len(vs)) = last
    BY <1>1 DEF EndOf, Unit
  <1>3. \A i \in 0 .. Len(us) : EndOf(vs, i) = EndOf(us, i)
    BY <1>1 DEF EndOf
  <1>4. ASSUME NEW i \in 1 .. Len(us) PROVE WellCut(vs, i)
    <2>1. WellCut(us, i) /\ vs[i] = us[i] /\ EndOf(vs, i - 1) = EndOf(us, i - 1)
      BY <1>1, <1>3
    <2> QED BY <2>1 DEF WellCut
  <1>5. WellCut(vs, Len(us) + 1)
    <2>1. vs[Len(us) + 1].first = first /\ vs[Len(us) + 1].last = last
      BY <1>1 DEF Unit
    <2>2. EndOf(vs, Len(us) + 1 - 1) = EndOf(us, Len(us))
      BY <1>3
    <2> QED BY <2>1, <2>2 DEF WellCut
  <1> HIDE DEF vs
  <1>6. \A i \in 1 .. Len(vs) : WellCut(vs, i)
    BY <1>1, <1>4, <1>5
  <1> QED BY <1>1, <1>2, <1>6 DEF vs

\* What flushing `current' leaves: well cut units, up to the statement looked at.
LEMMA FlushedWell ==
    ASSUME SplitInv, OpenWell
    PROVE  /\ Flushed \in Seq(Intervals) /\ EndOf(Flushed, Len(Flushed)) = at - 1
           /\ \A i \in 1 .. Len(Flushed) : WellCut(Flushed, i)
  <1> USE EndIsNat
  <1>1. CASE open = 0
    BY <1>1 DEF SplitInv, OpenWell, Flushed
  <1>2. CASE open # 0
    <2>1. /\ units \in Seq(Intervals) /\ \A i \in 1 .. Len(units) : WellCut(units, i)
          /\ open \in Nat /\ at \in Nat \ {0}
      BY DEF SplitInv
    <2>2. /\ open = EndOf(units, Len(units)) + 1 /\ open <= at - 1 /\ at - 1 \in Nat
          /\ \A j \in open .. at - 1 :
                /\ j \in DOMAIN statements
                /\ Alone(statements[j]) => open = at - 1
                /\ statements[j].new_unit => j = open
      BY <1>2, <2>1 DEF OpenWell
    <2> QED BY ONLY <1>2, <2>1, <2>2, AppendWell DEF Flushed
  <1> QED BY <1>1, <1>2
-----------------------------------------------------------------------------
\* The invariant is inductive.

LEMMA InitSplit == Init => SplitInv
  <1>1. Init => phase = "compare" /\ at = 1 /\ open = 0 /\ units = <<>>
    BY DEF Init
  <1>2. units = <<>> => Len(units) = 0 /\ units \in Seq(Intervals)
    OBVIOUS
  <1> QED BY <1>1, <1>2 DEF SplitInv

\* Nothing of the cut changes, and the next phase does not look at it.
LEMMA Untouched ==
    ASSUME SplitInv, UNCHANGED <<statements, split>>,
           \/ phase' = phase
           \/ phase' = "end"
           \/ phase' \in {"order", "assess"} /\ phase \in {"compare", "order"}
           \/ phase' = "emit" /\ phase = "assess"
           \/ phase' \in {"load", "apply"} /\ phase \in {"write", "load", "apply"}
    PROVE  SplitInv'
  <1>1. UNCHANGED <<at, open, units, statements>>
    BY DEF split
  <1>2. \A i \in 1 .. Len(units) : WellCut(units, i)'
    BY <1>1 DEF SplitInv, WellCut, EndOf, Alone
  <1>3. phase' = "split" => OpenWell'
    BY <1>1 DEF SplitInv, OpenWell, EndOf, Alone
  <1> QED BY <1>1, <1>2, <1>3 DEF SplitInv, EndOf

LEMMA SplitStep == SplitInv /\ [Next]_vars => SplitInv'
  <1> SUFFICES ASSUME SplitInv, [Next]_vars PROVE SplitInv'
    OBVIOUS
  <1>1. CASE Compare \/ Order \/ Assess \/ Write \/ Load \/ LoadFaulty \/ Apply_unit \/ Applied
    <2>1. ASSUME Compare
          PROVE  phase = "compare" /\ phase' \in {"order", "end"} /\ UNCHANGED <<statements, split>>
      BY <2>1 DEF Compare, End, Continue, plan
    <2>2. ASSUME Order
          PROVE  phase = "order" /\ phase' \in {"assess", "end"} /\ UNCHANGED <<statements, split>>
      BY <2>2 DEF Order, End, Continue, plan
    <2>3. ASSUME Assess
          PROVE  phase = "assess" /\ phase' \in {"emit", "end"} /\ UNCHANGED <<statements, split>>
      BY <2>3 DEF Assess, End, Continue, plan
    <2>4. ASSUME Write
          PROVE  phase = "write" /\ phase' \in {"load", "end"} /\ UNCHANGED <<statements, split>>
      BY <2>4 DEF Write, End, Continue, plan
    <2>5. ASSUME Load
          PROVE  phase = "load" /\ phase' \in {"apply", "end"} /\ UNCHANGED <<statements, split>>
      BY <2>5 DEF Load, Loaded, End, Continue, plan
    <2>6. ASSUME LoadFaulty
          PROVE  phase = "load" /\ phase' \in {"apply", "end"} /\ UNCHANGED <<statements, split>>
      BY <2>6 DEF LoadFaulty, Loaded, End, Continue, plan
    <2>7. ASSUME Apply_unit
          PROVE  phase = "apply" /\ phase' \in {"apply", "end"} /\ UNCHANGED <<statements, split>>
      BY <2>7 DEF Apply_unit, End, Continue, plan
    <2>8. ASSUME Applied
          PROVE  phase = "apply" /\ phase' = "end" /\ UNCHANGED <<statements, split>>
      BY <2>8 DEF Applied, End, Continue, plan
    <2>9. UNCHANGED <<statements, split>>
      BY <1>1, <2>1, <2>2, <2>3, <2>4, <2>5, <2>6, <2>7, <2>8
    <2>10. \/ phase' = "end"
           \/ phase' \in {"order", "assess"} /\ phase \in {"compare", "order"}
           \/ phase' = "emit" /\ phase = "assess"
           \/ phase' \in {"load", "apply"} /\ phase \in {"write", "load", "apply"}
      BY <1>1, <2>1, <2>2, <2>3, <2>4, <2>5, <2>6, <2>7, <2>8
    <2> QED BY <2>9, <2>10, Untouched
  <1>2. CASE Terminated \/ UNCHANGED vars
    <2>1. phase' = phase /\ UNCHANGED <<statements, split>>
      BY <1>2 DEF Terminated, vars, plan
    <2> QED BY <2>1, Untouched
  <1>3. CASE Emit
    <2>1. /\ phase = "emit" /\ phase' \in {"split", "end"} /\ UNCHANGED <<at, open, units>>
      BY <1>3 DEF Emit, End, Continue, split
    <2>2. at = 1 /\ open = 0 /\ units = <<>>
      BY <2>1 DEF SplitInv
    <2> QED BY <2>1, <2>2 DEF SplitInv, OpenWell, EndOf
  <1>4. CASE Interrupt
    BY <1>4 DEF Interrupt, SplitInv, EndOf, Intervals
  <1>5. CASE SplitAlone
    <2>1. /\ phase = "split" /\ phase' = phase /\ statements' = statements
          /\ at \in DOMAIN statements /\ Alone(statements[at])
          /\ units' = Append(Flushed, Unit(at, at)) /\ open' = 0 /\ at' = at + 1
      BY <1>5 DEF SplitAlone, plan
    <2>2. at \in Nat \ {0} /\ OpenWell
      BY <2>1 DEF SplitInv
    <2>3. /\ Flushed \in Seq(Intervals) /\ EndOf(Flushed, Len(Flushed)) = at - 1
          /\ \A i \in 1 .. Len(Flushed) : WellCut(Flushed, i)
      BY <2>2, FlushedWell
    <2>4. /\ units' \in Seq(Intervals) /\ EndOf(units', Len(units')) = at
          /\ \A i \in 1 .. Len(units') : WellCut(units', i)
      <3> HIDE DEF Flushed
      <3>1. \A j \in at .. at : j = at
        BY <2>2
      <3> QED BY ONLY <2>1, <2>2, <2>3, <3>1, AppendWell
    <2> QED BY <2>1, <2>2, <2>4 DEF SplitInv, OpenWell, WellCut, EndOf
  <1>6. CASE SplitGrouped
    <2>1. /\ phase = "split" /\ phase' = phase /\ statements' = statements
          /\ at \in DOMAIN statements /\ ~Alone(statements[at]) /\ at' = at + 1
      BY <1>6 DEF SplitGrouped, plan
    <2>2. at \in Nat \ {0} /\ OpenWell /\ open \in Nat /\ units \in Seq(Intervals)
      BY <2>1 DEF SplitInv
    <2>3. CASE open # 0 /\ statements[at].new_unit
      <3>1. units' = Flushed /\ open' = at
        BY <1>6, <2>3 DEF SplitGrouped
      <3>2. /\ Flushed \in Seq(Intervals) /\ EndOf(Flushed, Len(Flushed)) = at - 1
            /\ \A i \in 1 .. Len(Flushed) : WellCut(Flushed, i)
        BY <2>2, FlushedWell
      <3>3. /\ units' \in Seq(Intervals) /\ EndOf(units', Len(units')) = at - 1
            /\ \A i \in 1 .. Len(units') : WellCut(units', i)
        BY ONLY <3>1, <3>2
      <3>4. \A j \in open' .. at' - 1 : j = at
        BY <2>1, <2>2, <3>1
      <3> QED BY <2>1, <2>2, <3>1, <3>3, <3>4 DEF SplitInv, OpenWell, WellCut, EndOf
    <2>4. CASE ~(open # 0 /\ statements[at].new_unit)
      <3>1. units' = units /\ open' = IF open = 0 THEN at ELSE open
        BY <1>6, <2>4 DEF SplitGrouped
      <3>2. \A i \in 1 .. Len(units') : WellCut(units', i)
        BY <3>1 DEF SplitInv
      <3>3. OpenWell'
        <4>1. CASE open = 0
          <5>1. \A j \in open' .. at' - 1 : j = at
            BY <2>1, <2>2, <3>1, <4>1
          <5> QED BY <2>1, <2>2, <3>1, <4>1, <5>1 DEF OpenWell, EndOf
        <4>2. CASE open # 0
          <5>1. open' = open /\ open < at /\ ~statements[at].new_unit
            BY <2>2, <2>4, <3>1, <4>2 DEF OpenWell
          <5>2. \A j \in open' .. at' - 1 : j \in open .. at - 1 \/ j = at
            BY <2>1, <2>2, <5>1
          <5> QED BY <2>1, <2>2, <3>1, <4>2, <5>1, <5>2 DEF OpenWell, EndOf
        <4> QED BY <4>1, <4>2
      <3>4. open' \in Nat /\ at' \in Nat \ {0}
        BY <2>1, <2>2, <3>1
      <3> QED BY <2>1, <2>2, <3>1, <3>2, <3>3, <3>4 DEF SplitInv, WellCut, EndOf
    <2> QED BY <2>3, <2>4
  <1>7. CASE SplitEnd
    <2>1. /\ phase = "split" /\ phase' = "write" /\ statements' = statements
          /\ at \notin DOMAIN statements /\ units' = Flushed /\ open' = 0 /\ at' = at
      BY <1>7 DEF SplitEnd, Continue, plan
    <2>2. at \in Nat \ {0} /\ OpenWell
      BY <2>1 DEF SplitInv
    <2>3. /\ Flushed \in Seq(Intervals) /\ EndOf(Flushed, Len(Flushed)) = at - 1
          /\ \A i \in 1 .. Len(Flushed) : WellCut(Flushed, i)
      BY <2>2, FlushedWell
    <2>4. /\ units' \in Seq(Intervals) /\ EndOf(units', Len(units')) = at - 1
          /\ \A i \in 1 .. Len(units') : WellCut(units', i)
      BY ONLY <2>1, <2>3
    <2> QED BY <2>1, <2>2, <2>4 DEF SplitInv, WellCut, EndOf
  <1> QED BY <1>1, <1>2, <1>3, <1>4, <1>5, <1>6, <1>7 DEF Next

LEMMA SplitInvariance == Spec => []SplitInv
  <1> QED BY InitSplit, SplitStep, PTL DEF Spec

\* split_units cuts any statements into well cut units that cover them all.
THEOREM UnitsAreWell == Spec => []UnitsWell
  <1>1. SplitInv => UnitsWell
    BY DEF SplitInv, UnitsWell, OpenWell
  <1> QED BY <1>1, SplitInvariance, PTL

-----------------------------------------------------------------------------
\* The gate.

\* From the emission on, the levels of the plan are those that passed the gate.
GateInv ==
    phase \in {"emit", "split", "write", "load", "apply"} =>
        passes_risk_limit(levels, request.maxRisk)

LEMMA GateStep == GateInv /\ [Next]_vars => GateInv'
  <1> SUFFICES ASSUME GateInv, [Next]_vars PROVE GateInv'
    OBVIOUS
  <1>1. CASE Compare
    <2>1. phase' \in {"order", "end"}
      BY <1>1 DEF Compare, End, Continue
    <2> QED BY <2>1 DEF GateInv
  <1>2. CASE Order
    <2>1. phase' \in {"assess", "end"}
      BY <1>2 DEF Order, End, Continue
    <2> QED BY <2>1 DEF GateInv
  <1>3. CASE Assess
    <2>1. request' = request /\ (phase' = "end" \/ passes_risk_limit(levels', request.maxRisk))
      BY <1>3 DEF Assess, End, Continue
    <2> QED BY <2>1 DEF GateInv
  <1>4. CASE Emit \/ SplitAlone \/ SplitGrouped \/ SplitEnd
    <2>1. /\ phase \in {"emit", "split"} /\ levels' = levels /\ request' = request
      BY <1>4 DEF Emit, SplitAlone, SplitGrouped, SplitEnd, plan
    <2> QED BY <2>1 DEF GateInv
  <1>5. CASE Write \/ Load \/ LoadFaulty \/ Apply_unit \/ Applied
    <2>1. /\ phase \in {"write", "load", "apply"} /\ levels' = levels /\ request' = request
      BY <1>5 DEF Write, Load, LoadFaulty, Apply_unit, Applied, plan
    <2> QED BY <2>1 DEF GateInv
  <1>6. CASE Interrupt
    BY <1>6 DEF Interrupt, GateInv
  <1>7. CASE Terminated \/ UNCHANGED vars
    BY <1>7 DEF Terminated, vars, plan, GateInv
  <1> QED BY <1>1, <1>2, <1>3, <1>4, <1>5, <1>6, <1>7 DEF Next

\* A database changes only by a plan that holds nothing BLOCKED and nothing above
\* the limit, whatever the bundle went through.
THEOREM OnlyGatedPlans ==
    Spec => [][catalog' # catalog => passes_risk_limit(levels, request.maxRisk)]_vars
  <1>1. Init => GateInv
    BY DEF Init, GateInv
  <1>2. GateInv /\ [Next]_vars =>
            [catalog' # catalog => passes_risk_limit(levels, request.maxRisk)]_vars
    <2> SUFFICES ASSUME GateInv, Next, catalog' # catalog
                 PROVE  passes_risk_limit(levels, request.maxRisk)
      OBVIOUS
    <2>1. phase = "apply"
      BY DEF Next, Compare, Order, Assess, Emit, SplitAlone, SplitGrouped, SplitEnd, Write, Load,
         LoadFaulty, Apply_unit, Applied, Interrupt, Terminated, vars
    <2> QED BY <2>1 DEF GateInv
  <1> QED BY <1>1, <1>2, GateStep, PTL DEF Spec

-----------------------------------------------------------------------------
\* The emitters and the risk levels agree.

\* The deltas whose handler may raise, those of tables apart.
Refusable(d) ==
    \/ d.kind = "ReplaceEnumLabels" /\ d.target.kind = "enum"
    \/ d.kind = "ReplaceCompositeType" /\ d.target.kind = "composite_type"
    \/ /\ d.kind \in {"ReplaceDomainType", "AlterDomainNullability", "AddDomainCheck",
                      "ValidateDomainCheck"}
       /\ d.target.kind = "domain_type"
    \/ d.kind = "ReplaceView" /\ d.target.kind = "view"
    \/ /\ d.kind \in {"CreateFunction", "ReplaceFunction", "DropFunction", "AlterFunctionOwner"}
       /\ d.target.kind = "function"
    \/ /\ d.kind \in {"CreateProcedure", "ReplaceProcedure", "DropProcedure",
                      "AlterProcedureOwner"}
       /\ d.target.kind = "procedure"

\* What joined sequences hold, one of them held.
LEMMA RangeOfJoined ==
    ASSUME NEW S, NEW s \in Seq(S), NEW t \in Seq(S), NEW e \in Range(s \o t)
    PROVE  e \in Range(s) \/ e \in Range(t)
  <1>1. PICK i \in 1 .. Len(s) + Len(t) : e = (s \o t)[i]
    BY ConcatProperties DEF Range
  <1>2. CASE i <= Len(s)
    BY <1>1, <1>2, ConcatProperties DEF Range
  <1>3. CASE i > Len(s)
    <2>1. e = t[i - Len(s)] /\ i - Len(s) \in 1 .. Len(t)
      BY <1>1, <1>3, ConcatProperties
    <2> QED BY <2>1 DEF Range
  <1> QED BY <1>2, <1>3

\* What creates an object and gives it an owner raises nothing.
LEMMA CreateRaisesNothing ==
    ASSUME NEW o, NEW p PROVE MigrationError \notin Range(WithOwner(create(o), p))
  <1> DEFINE S == {create(o), set(p.ref, "owner", p.owner)}
             s == <<create(o)>>
             t == Stated(p.ref, "owner", p.owner)
  <1>1. s \in Seq(S)
    OBVIOUS
  <1>2. t \in Seq(S) /\ MigrationError \notin Range(t)
    <2>1. CASE p.owner # <<>>
      BY <2>1 DEF Stated, When, Range, set, MigrationError
    <2>2. CASE p.owner = <<>>
      BY <2>2 DEF Stated, When, Range
    <2> QED BY <2>1, <2>2
  <1>3. MigrationError \notin Range(s)
    BY DEF Range, create, MigrationError
  <1>4. WithOwner(create(o), p) = s \o t
    BY DEF WithOwner
  <1> HIDE DEF S, s, t
  <1> QED BY <1>1, <1>2, <1>3, <1>4, RangeOfJoined

\* A handler raises for such a delta only if its level is BLOCKED: a plan that
\* passed the gate is written.
THEOREM RaisesOnlyWhenBlocked ==
    ASSUME NEW d, Refusable(d), NEW created, NEW resolved,
           MigrationError \in Range(Handler(d))
    PROVE  classify_risk(d, created, resolved) = BLOCKED
  <1> USE DEF BLOCKED, If
  <1>1. CASE d.kind \in {"ReplaceEnumLabels", "ReplaceCompositeType", "ReplaceDomainType"}
    BY <1>1 DEF Refusable, classify_risk, TypeRisk, TABLE_WORK, VIEW_CREATES, VIEW_DROPS
  <1>2. CASE d.kind = "AlterDomainNullability"
    <2>1. classify_risk(d, created, resolved) = TypeRisk(d)
      BY <1>2 DEF Refusable, classify_risk, TABLE_WORK, VIEW_CREATES, VIEW_DROPS
    <2>2. Handler(d) = emit_domain(d)
      BY <1>2 DEF Refusable, Handler
    <2>3. d.new_not_null /\ d.used_in_container
      BY <1>2, <2>2 DEF emit_domain, set, MigrationError, Range
    <2> QED BY <1>2, <2>1, <2>3 DEF TypeRisk
  <1>3. CASE d.kind \in {"AddDomainCheck", "ValidateDomainCheck"}
    <2>1. classify_risk(d, created, resolved) = TypeRisk(d)
      BY <1>3 DEF Refusable, classify_risk, TABLE_WORK, VIEW_CREATES, VIEW_DROPS
    <2>2. Handler(d) = emit_domain(d)
      BY <1>3 DEF Refusable, Handler
    <2>3. d.used_in_container
      <3>1. SUFFICES ASSUME ~d.used_in_container PROVE FALSE
        OBVIOUS
      <3>2. CASE d.kind = "AddDomainCheck"
        <4>1. CASE d.check.validated
          <5> DEFINE Added == add(d.target, "checks", [d.check EXCEPT !.validated = FALSE])
                     Valid == alter(d.target, "checks", d.check.name, "validated", TRUE)
                     S == {Added, drain, Valid}
          <5>1. Handler(d) = <<Added>> \o <<drain, Valid>>
            BY <2>2, <3>1, <3>2, <4>1 DEF emit_domain
          <5>2. <<Added>> \in Seq(S) /\ <<drain, Valid>> \in Seq(S)
            OBVIOUS
          <5>3. MigrationError \in Range(<<Added>>) \/ MigrationError \in Range(<<drain, Valid>>)
            <6> HIDE DEF Added, Valid, S
            <6> QED BY <5>1, <5>2, RangeOfJoined
          <5> QED BY <5>3 DEF Range, add, drain, alter, MigrationError
        <4>2. CASE ~d.check.validated
          <5>1. Handler(d) = <<add(d.target, "checks", [d.check EXCEPT !.validated = FALSE])>>
            BY <2>2, <3>1, <3>2, <4>2 DEF emit_domain
          <5> QED BY <5>1 DEF Range, add, MigrationError
        <4> QED BY <4>1, <4>2
      <3>3. CASE d.kind = "ValidateDomainCheck"
        <4>1. Handler(d) = <<drain, alter(d.target, "checks", d.check_name, "validated", TRUE)>>
          BY <2>2, <3>1, <3>3 DEF emit_domain
        <4> QED BY <4>1 DEF Range, drain, alter, MigrationError
      <3> QED BY <1>3, <3>2, <3>3
    <2> QED BY <1>3, <2>1, <2>3 DEF TypeRisk
  <1>4. CASE d.kind = "ReplaceView" /\ d.target.kind = "view"
    <2>1. classify_risk(d, created, resolved) = ViewRisk(d, resolved)
      BY <1>4 DEF classify_risk, TABLE_WORK, VIEW_CREATES, VIEW_DROPS
    <2>2. Handler(d) = emit_view(d)
      BY <1>4 DEF Handler
    <2>3. d.incompatible
      BY <1>4, <2>2 DEF emit_view, replace, Range, MigrationError
    <2> QED BY <1>4, <2>1, <2>3 DEF ViewRisk
  <1>5. CASE d.target.kind \in {"function", "procedure"}
    <2>1. d.kind \in {"CreateFunction", "ReplaceFunction", "DropFunction", "AlterFunctionOwner",
                     "CreateProcedure", "ReplaceProcedure", "DropProcedure",
                     "AlterProcedureOwner"}
      BY <1>5 DEF Refusable
    <2>2. classify_risk(d, created, resolved) = RoutineRisk(d)
      BY <1>5, <2>1 DEF classify_risk, TABLE_WORK, VIEW_CREATES, VIEW_DROPS
    <2>3. Handler(d) = emit_routine(d)
      BY <1>5, <2>1 DEF Handler
    <2>4. \/ \E f \in {OldRoutine(d), NewRoutine(d)} : f.language \notin {"sql", "plpgsql"}
          \/ d.kind \in {"CreateFunction", "ReplaceFunction"} /\ d.default_conflict
          \/ d.kind \in {"ReplaceFunction", "ReplaceProcedure"} /\ d.incompatible
      <3> SUFFICES ASSUME /\ ~(\E f \in {OldRoutine(d), NewRoutine(d)} :
                                    f.language \notin {"sql", "plpgsql"})
                          /\ ~(d.kind \in {"CreateFunction", "ReplaceFunction"}
                                    /\ d.default_conflict)
                          /\ ~(d.kind \in {"ReplaceFunction", "ReplaceProcedure"}
                                    /\ d.incompatible)
                   PROVE  FALSE
        OBVIOUS
      <3>1. CASE d.kind \in {"CreateFunction", "CreateProcedure"}
        <4>1. Handler(d) = WithOwner(create(WithoutOwner(d.routine)), d.routine)
          BY <2>3, <3>1 DEF emit_routine, ROUTINE_DROPS
        <4> QED BY <4>1, CreateRaisesNothing
      <3>2. CASE d.kind \in {"ReplaceFunction", "ReplaceProcedure"}
        <4>1. Handler(d) = <<replace(d.new_routine)>>
          BY <2>3, <3>2 DEF emit_routine, ROUTINE_DROPS
        <4> QED BY <4>1 DEF replace, Range, MigrationError
      <3>3. CASE d.kind \in {"DropFunction", "DropProcedure"}
        BY <2>3, <3>3 DEF emit_routine, drop, Range, MigrationError, ROUTINE_DROPS
      <3>4. CASE d.kind \in {"AlterFunctionOwner", "AlterProcedureOwner"}
        BY <2>3, <3>4 DEF emit_routine, set, Range, MigrationError, ROUTINE_DROPS
      <3> QED BY <2>1, <3>1, <3>2, <3>3, <3>4
    <2> QED BY <2>2, <2>4 DEF RoutineRisk
  <1> QED BY <1>1, <1>2, <1>3, <1>4, <1>5 DEF Refusable

-----------------------------------------------------------------------------
(* The bundle of a migration *)

Planned == [levels |-> levels, units |-> PlannedUnits]

SqlsOf(ss) == {ss[j].sql : j \in DOMAIN ss}
DeltasOf(ss) == {ss[j].delta : j \in DOMAIN ss}

\* The units of a plan have the statements of their intervals.
LEMMA UnitsPlanned ==
    ASSUME SplitInv
    PROVE  /\ Len(units) \in Nat /\ DOMAIN units = 1 .. Len(units)
           /\ DOMAIN PlannedUnits = 1 .. Len(units)
           /\ \A i \in 1 .. Len(units) :
                IsUnit(PlannedUnits[i], SqlsOf(statements), DeltasOf(statements))
  <1> DEFINE Q == SqlsOf(statements)
             D == DeltasOf(statements)
  <1>1. /\ units \in Seq(Intervals) /\ Len(units) \in Nat /\ DOMAIN units = 1 .. Len(units)
        /\ \A i \in 1 .. Len(units) : WellCut(units, i)
    BY DEF SplitInv
  <1>2. DOMAIN PlannedUnits = 1 .. Len(units)
    BY <1>1 DEF PlannedUnits
  <1>3. ASSUME NEW i \in 1 .. Len(units) PROVE IsUnit(PlannedUnits[i], Q, D)
    <2> DEFINE f == units[i].first
               l == units[i].last
               k == l - f + 1
               Taken(j) == [sql |-> statements[f + j - 1].sql, delta |-> statements[f + j - 1].delta]
               ss == [j \in 1 .. k |-> Taken(j)]
    <2>1. units[i] \in Intervals
      BY <1>1
    <2>2. f \in Nat /\ l \in Nat /\ f <= l /\ \A j \in f .. l : j \in DOMAIN statements
      BY <1>1, <2>1 DEF WellCut, Intervals
    <2>3. PlannedUnits[i].statements = ss
      BY <1>1 DEF PlannedUnits
    <2> HIDE DEF f, l
    <2>4. k \in Nat /\ k >= 1
      BY <2>2
    <2>5. ASSUME NEW j \in 1 .. k PROVE Taken(j) \in StatementsOver(Q, D)
      <3>1. f + j - 1 \in DOMAIN statements
        BY <2>2
      <3> QED
        BY <3>1 DEF StatementsOver, SqlsOf, DeltasOf
    <2> HIDE DEF k, Taken, Q, D
    <2>6. ss \in Seq(StatementsOver(Q, D)) /\ Len(ss) = k
      BY <2>4, <2>5
    <2>7. ss # <<>>
      BY <2>4, <2>6
    <2> QED
      BY <2>3, <2>6, <2>7 DEF IsUnit, IsSeq
  <1> QED
    BY <1>1, <1>2, <1>3

\* A manifest that assesses these levels, and whose entries have statements.
Readable(m, ls) ==
    /\ m.assessments = AssessmentsOf(ls) /\ IsSequence(m.units)
    /\ \A i \in DOMAIN m.units : IsSequence(m.units[i].statements)

\* The manifest of a migration is of that kind, and each entry a record of its own.
EntriesOf == EntriesOver(DeltasOf(statements), PlannedUnits)

LEMMA WrittenReadable ==
    ASSUME SplitInv
    PROVE  LET b == render_bundle(Planned)
           IN  /\ b = [up |-> b.up, manifest |-> b.manifest]
               /\ b.manifest = [delta_count |-> b.manifest.delta_count,
                                overall_max_risk |-> b.manifest.overall_max_risk,
                                assessments |-> b.manifest.assessments,
                                units |-> b.manifest.units, checksum |-> b.manifest.checksum]
               /\ b.manifest.assessments = AssessmentsOf(levels)
               /\ b.manifest.units \in Seq(EntriesOf)
               /\ \A i \in DOMAIN b.manifest.units :
                    /\ b.manifest.units[i].statements # <<>>
                    /\ IsSequence(b.manifest.units[i].statements)
  <1> DEFINE Q == SqlsOf(statements)
             D == DeltasOf(statements)
             us == PlannedUnits
             n == Len(units)
             x == ManifestUnits(Planned)
             highest == IF levels = <<>> THEN <<>> ELSE <<Highest(Range(levels))>>
             m == [delta_count |-> Len(levels), overall_max_risk |-> highest,
                   assessments |-> AssessmentsOf(levels), units |-> x.units, checksum |-> x.lines]
             b == render_bundle(Planned)
  <1>1. Planned.levels = levels /\ Planned.units = us
    BY DEF Planned
  <1>2. b = [up |-> x.lines, manifest |-> m]
    <2>1. render_bundle(Planned) =
            [up |-> x.lines,
             manifest |-> [delta_count |-> Len(Planned.levels),
                           overall_max_risk |->
                              IF Planned.levels = <<>> THEN <<>>
                              ELSE <<Highest(Range(Planned.levels))>>,
                           assessments |-> AssessmentsOf(Planned.levels),
                           units |-> x.units, checksum |-> x.lines]]
      BY Zenon DEF render_bundle, AssessmentsOf
    <2> QED
      BY <1>1, <2>1, Zenon
  <1>3. /\ n \in Nat /\ DOMAIN Planned.units = 1 .. n
        /\ \A i \in 1 .. n : IsUnit(Planned.units[i], Q, D)
    BY <1>1, UnitsPlanned
  <1> HIDE DEF Q, D, b, n
  <1>4. Rendered(x, Planned.units, n, Q, D)
    BY <1>3, AllRendered
  <1> HIDE DEF x
  <1>5. /\ IsSeq(x.units, EntriesOver(D, us)) /\ Len(x.units) = n
        /\ \A j \in 1 .. n : UnitPlaced(x.lines, j, x.units[j], us[j])
    BY <1>1, <1>4 DEF Rendered, IsFile
  <1>6. x.units \in Seq(EntriesOf)
    BY <1>5 DEF IsSeq, EntriesOf, D
  <1>7. ASSUME NEW i \in DOMAIN x.units
        PROVE  x.units[i].statements # <<>> /\ IsSequence(x.units[i].statements)
    <2> DEFINE ss == x.units[i].statements
    <2>1. i \in 1 .. n /\ x.units[i] \in EntriesOver(D, us)
      BY <1>5, SeqIs
    <2>2. Len(ss) = Len(us[i].statements) /\ IsUnit(us[i], Q, D)
      BY <1>1, <1>3, <1>5, <2>1 DEF UnitPlaced
    <2>3. ss \in Seq(RangesOver(D))
      BY <2>1 DEF EntriesOver
    <2> HIDE DEF ss
    <2>4. Len(us[i].statements) # 0
      <3>1. us[i].statements \in Seq(StatementsOver(Q, D)) /\ us[i].statements # <<>>
        BY <2>2 DEF IsUnit, IsSeq
      <3> QED
        BY <3>1, EmptySeq
    <2>5. ss # <<>>
      BY <2>2, <2>4
    <2>6. IsSequence(ss)
      BY <2>3, HasRange
    <2> QED
      BY <2>5, <2>6 DEF ss
  <1>8. /\ m.assessments = AssessmentsOf(levels) /\ m.units = x.units
        /\ m = [delta_count |-> m.delta_count, overall_max_risk |-> m.overall_max_risk,
                assessments |-> m.assessments, units |-> m.units, checksum |-> m.checksum]
    OBVIOUS
  <1> HIDE DEF m
  <1>9. b.manifest = m /\ b.up = x.lines
    BY <1>2
  <1>10. b = [up |-> b.up, manifest |-> b.manifest]
    BY <1>2, <1>9
  <1> QED
    BY <1>6, <1>7, <1>8, <1>9, <1>10 DEF b

LEMMA ExceptIsSequence ==
    ASSUME NEW S, NEW s \in Seq(S), NEW i, NEW x
    PROVE  IsSequence([s EXCEPT ![i] = x])
  <1> DEFINE t == [s EXCEPT ![i] = x]
  <1>1. Len(s) \in Nat /\ DOMAIN s = 1 .. Len(s)
    OBVIOUS
  <1>2. t = [k \in 1 .. Len(s) |-> t[k]]
    BY <1>1
  <1> HIDE DEF t
  <1>3. \A k \in 1 .. Len(s) : t[k] \in Range(t)
    BY <1>2 DEF Range
  <1>4. t \in Seq(Range(t))
    BY <1>1, <1>2, <1>3
  <1> QED
    BY <1>4 DEF IsSequence, t

\* So it stays, whatever fault there is in it.
LEMMA FaultyReadable ==
    ASSUME SplitInv, NEW b \in Faulty(render_bundle(Planned))
    PROVE  Readable(b.manifest, levels)
  <1> DEFINE w == render_bundle(Planned)
             m == w.manifest
             us == m.units
  <1>1. /\ w = [up |-> w.up, manifest |-> m]
        /\ m = [delta_count |-> m.delta_count, overall_max_risk |-> m.overall_max_risk,
                assessments |-> m.assessments, units |-> us, checksum |-> m.checksum]
        /\ m.assessments = AssessmentsOf(levels)
        /\ us \in Seq(EntriesOf)
        /\ \A i \in DOMAIN us : us[i].statements # <<>> /\ IsSequence(us[i].statements)
    BY WrittenReadable
  <1> DEFINE With(v) == [w EXCEPT !.manifest = [m EXCEPT !.units = v]]
  <1>2. \/ b = With(SubSeq(us, 1, Len(us) - 1))
        \/ \E i \in DOMAIN us : b = With([us EXCEPT ![i].statements = Tail(@)])
        \/ \E i \in DOMAIN us : b = With([us EXCEPT ![i].max_risk = SAFE])
        \/ b = [w EXCEPT !.up = RemoveAt(@, Len(@))]
    BY DEF Faulty
  <1> HIDE DEF w, m, us
  <1>3. ASSUME NEW v, b = With(v), IsSequence(v), \A i \in DOMAIN v : IsSequence(v[i].statements)
        PROVE  Readable(b.manifest, levels)
    <2>1. b.manifest = [m EXCEPT !.units = v]
      BY <1>1, <1>3
    <2>2. b.manifest.units = v /\ b.manifest.assessments = m.assessments
      BY <1>1, <2>1
    <2> QED
      BY <1>1, <1>3, <2>2 DEF Readable
  <1>4. CASE b = With(SubSeq(us, 1, Len(us) - 1))
    <2> DEFINE v == SubSeq(us, 1, Len(us) - 1)
    <2>1. \A i \in DOMAIN v : i \in DOMAIN us /\ v[i] = us[i]
      BY <1>1
    <2>2. \A i \in DOMAIN v : IsSequence(v[i].statements)
      BY <1>1, <2>1
    <2>3. v \in Seq(EntriesOf)
      BY <1>1
    <2> HIDE DEF v, With
    <2>4. IsSequence(v)
      BY <2>3, HasRange
    <2> QED
      BY <1>3, <1>4, <2>2, <2>4 DEF v
  <1>5. ASSUME NEW i \in DOMAIN us, b = With([us EXCEPT ![i].statements = Tail(@)])
        PROVE  Readable(b.manifest, levels)
    <2> DEFINE v == [us EXCEPT ![i].statements = Tail(@)]
               ss == us[i].statements
    <2>1. us[i] \in EntriesOf
      BY <1>1, <1>5
    <2>2. v[i].statements = Tail(ss)
      BY <1>1, <2>1 DEF EntriesOf, EntriesOver
    <2>3. DOMAIN v = DOMAIN us /\ \A k \in DOMAIN us : k # i => v[k] = us[k]
      BY <1>1
    <2>4. ss \in Seq(Range(ss)) /\ ss # <<>>
      BY <1>1, <1>5 DEF IsSequence
    <2> HIDE DEF v, With, ss
    <2>5. Tail(ss) \in Seq(Range(ss))
      BY <2>4
    <2>6. IsSequence(Tail(ss))
      BY <2>5, HasRange
    <2>7. \A k \in DOMAIN v : IsSequence(v[k].statements)
      BY <1>1, <2>2, <2>3, <2>6
    <2>8. IsSequence(v)
      BY <1>1, ExceptIsSequence DEF v
    <2> QED
      BY <1>3, <1>5, <2>7, <2>8 DEF v
  <1>6. ASSUME NEW i \in DOMAIN us, b = With([us EXCEPT ![i].max_risk = SAFE])
        PROVE  Readable(b.manifest, levels)
    <2> DEFINE v == [us EXCEPT ![i].max_risk = SAFE]
    <2>1. us[i] \in EntriesOf
      BY <1>1, <1>6
    <2>2. v[i].statements = us[i].statements
      BY <1>1, <2>1 DEF EntriesOf, EntriesOver
    <2>3. DOMAIN v = DOMAIN us /\ \A k \in DOMAIN us : k # i => v[k] = us[k]
      BY <1>1
    <2> HIDE DEF v, With
    <2>4. \A k \in DOMAIN v : IsSequence(v[k].statements)
      BY <1>1, <2>2, <2>3
    <2>5. IsSequence(v)
      BY <1>1, ExceptIsSequence DEF v
    <2> QED
      BY <1>3, <1>6, <2>4, <2>5 DEF v
  <1>7. CASE b = [w EXCEPT !.up = RemoveAt(@, Len(@))]
    <2>1. b.manifest = m
      BY <1>1, <1>7
    <2> QED
      BY <1>1, <2>1, HasRange DEF Readable
  <1> QED
    BY <1>2, <1>4, <1>5, <1>6, <1>7

Early == {"compare", "order", "assess", "emit", "split", "write", "load"}

\* What is in the bundle is the plan, and nothing is loaded before.
LoadInv ==
    /\ phase \in {"emit", "split", "write", "load", "apply"} => DOMAIN levels = DOMAIN deltas
    /\ phase \in Early => loaded = <<>>
    /\ phase = "load" => bundle = <<render_bundle(Planned)>> /\ Covers
    /\ loaded # <<>> => Whole(loaded, DOMAIN deltas, levels)

LEMMA WholeIs == (loaded # <<>> => Whole(loaded, DOMAIN deltas, levels)) <=> AcceptedWhole
  BY Zenon DEF Whole, DeltasIn, AcceptedWhole

LEMMA LoadedIsWhole ==
    ASSUME NEW b, Readable(b.manifest, levels), Loaded(b)
    PROVE  loaded' # <<>> => Whole(loaded', DOMAIN levels, levels)
  <1> DEFINE read == load_bundle(b.manifest, b.up)
  <1>1. CASE read = <<>>
    BY <1>1 DEF Loaded
  <1>2. CASE read # <<>>
    <2>1. loaded' = read[1]
      BY <1>2 DEF Loaded
    <2>2. Whole(read[1], DOMAIN levels, levels)
      BY <1>2, AcceptedIsWhole DEF Readable
    <2> QED
      BY <2>1, <2>2
  <1> QED
    BY <1>1, <1>2

LEMMA LoadStep == SplitInv /\ LoadInv /\ [Next]_vars => LoadInv'
  <1> SUFFICES ASSUME SplitInv, LoadInv, [Next]_vars PROVE LoadInv'
    OBVIOUS
  <1>1. ASSUME Compare \/ Order PROVE LoadInv'
    <2>1. /\ phase \in {"compare", "order"} /\ phase' \in {"order", "assess", "end"}
          /\ loaded' = loaded
      BY <1>1 DEF Compare, Order, End, Continue, files
    <2> QED
      BY <2>1 DEF LoadInv, Early
  <1>2. ASSUME Assess PROVE LoadInv'
    <2>1. phase = "assess" /\ phase' \in {"emit", "end"} /\ loaded' = loaded
      BY <1>2 DEF Assess, End, Continue, files
    <2>2. DOMAIN levels' = DOMAIN deltas'
      <3>1. levels' = assess_deltas(deltas')
        BY <1>2 DEF Assess
      <3> QED
        BY <3>1 DEF assess_deltas
    <2> QED
      BY <2>1, <2>2 DEF LoadInv, Early
  <1>3. ASSUME Emit \/ SplitAlone \/ SplitGrouped \/ SplitEnd PROVE LoadInv'
    <2>1. /\ phase \in {"emit", "split"} /\ phase' \in {"split", "write", "end"}
          /\ UNCHANGED <<loaded, levels, deltas>>
      BY <1>3 DEF Emit, SplitAlone, SplitGrouped, SplitEnd, End, Continue, files, plan
    <2> QED
      BY <2>1 DEF LoadInv, Early
  <1>4. ASSUME Write PROVE LoadInv'
    <2>1. /\ phase = "write" /\ phase' \in {"load", "end"}
          /\ UNCHANGED <<loaded, levels, deltas, statements, units>>
      BY <1>4 DEF Write, End, Continue, plan, split
    <2>2. phase' = "load" => Covers /\ bundle' = <<render_bundle(Planned)>>
      BY <1>4 DEF Write, End, Planned
    <2>3. Covers' = Covers
      BY <2>1 DEF Covers
    <2>4. Planned' = Planned
      BY <2>1 DEF Planned, PlannedUnits, max_risk_level
    <2>5. render_bundle(Planned)' = render_bundle(Planned)
      BY <2>4, Zenon
    <2> QED
      BY <2>1, <2>2, <2>3, <2>5 DEF LoadInv, Early
  <1>5. ASSUME Load \/ LoadFaulty PROVE LoadInv'
    <2>1. /\ phase = "load" /\ phase' \in {"apply", "end"} /\ UNCHANGED <<levels, deltas>>
          /\ \E b \in {bundle[1]} \cup Faulty(bundle[1]) : Loaded(b)
      BY <1>5 DEF Load, LoadFaulty, Loaded, End, Continue, plan
    <2>2. DOMAIN levels = DOMAIN deltas /\ bundle = <<render_bundle(Planned)>>
      BY <2>1 DEF LoadInv
    <2>3. PICK b \in {render_bundle(Planned)} \cup Faulty(render_bundle(Planned)) : Loaded(b)
      BY <2>1, <2>2
    <2>4. Readable(b.manifest, levels)
      BY <2>3, WrittenReadable, FaultyReadable, HasRange DEF Readable
    <2>5. loaded' # <<>> => Whole(loaded', DOMAIN levels, levels)
      BY <2>3, <2>4, LoadedIsWhole
    <2> QED
      BY <2>1, <2>2, <2>5 DEF LoadInv, Early
  <1>6. ASSUME Apply_unit \/ Applied PROVE LoadInv'
    <2>1. /\ phase = "apply" /\ phase' \in {"apply", "end"}
          /\ UNCHANGED <<loaded, levels, deltas>>
      BY <1>6 DEF Apply_unit, Applied, End, Continue, files, plan
    <2> QED
      BY <2>1 DEF LoadInv, Early
  <1>7. ASSUME Interrupt PROVE LoadInv'
    <2>1. loaded' = <<>> /\ phase' = "compare"
      BY <1>7 DEF Interrupt
    <2> QED
      BY <2>1 DEF LoadInv
  <1>8. ASSUME Terminated \/ UNCHANGED vars PROVE LoadInv'
    <2>1. UNCHANGED <<phase, loaded, bundle, levels, deltas, statements, units>>
      BY <1>8 DEF Terminated, vars, plan, split, files
    <2>2. Covers' = Covers
      BY <2>1 DEF Covers
    <2>3. Planned' = Planned
      BY <2>1 DEF Planned, PlannedUnits, max_risk_level
    <2>4. render_bundle(Planned)' = render_bundle(Planned)
      BY <2>3, Zenon
    <2> QED
      BY <2>1, <2>2, <2>4 DEF LoadInv
  <1> QED
    BY <1>1, <1>2, <1>3, <1>4, <1>5, <1>6, <1>7, <1>8 DEF Next

LEMMA LoadInvariance == Spec => []LoadInv
  <1>1. Init => LoadInv
    BY DEF Init, LoadInv
  <1> QED
    BY <1>1, LoadStep, SplitInvariance, PTL DEF Spec

\* Whatever fault a bundle has, what is read of it has statements for every delta
\* that was assessed, in units as risky as their deltas.
THEOREM ReadIsWhole == Spec => []AcceptedWhole
  <1>1. LoadInv => AcceptedWhole
    BY WholeIs DEF LoadInv
  <1> QED
    BY <1>1, LoadInvariance, PTL

-----------------------------------------------------------------------------
(* The plan that is written is one that the reader gives back *)

StatementsFrom(f, l) ==
    [j \in 1 .. l - f + 1 |-> [sql |-> statements[f + j - 1].sql, delta |-> statements[f + j - 1].delta]]

\* The units leave out no statement.
LEMMA NoneLeftOut ==
    ASSUME SplitInv, phase \in {"write", "load", "apply"}, IsSequence(statements)
    PROVE  \A j \in DOMAIN statements :
                \E i \in 1 .. Len(units) : units[i].first <= j /\ j <= units[i].last
  <1> DEFINE n == Len(units)
             In(j, k) == \E i \in 1 .. k : units[i].first <= j /\ j <= units[i].last
             T == {k \in Nat : k <= n => \A j \in Nat : 1 <= j /\ j <= EndOf(units, k) => In(j, k)}
  <1>1. /\ n \in Nat /\ DOMAIN units = 1 .. n
        /\ \A i \in 1 .. n : units[i].first \in Nat /\ units[i].last \in Nat
    <2>1. units \in Seq(Intervals)
      BY DEF SplitInv
    <2>2. \A i \in 1 .. Len(units) : units[i] \in Intervals
      BY <2>1
    <2> QED
      BY <2>1, <2>2 DEF Intervals
  <1>2. \A i \in 1 .. n : units[i].first = EndOf(units, i - 1) + 1
    BY DEF SplitInv, WellCut
  <1>3. EndOf(units, n) + 1 \notin DOMAIN statements
    BY DEF SplitInv
  <1>4. Len(statements) \in Nat /\ DOMAIN statements = 1 .. Len(statements)
    BY DEF IsSequence
  <1> HIDE DEF n
  <1>5. 0 \in T
    BY DEF EndOf
  <1>6. ASSUME NEW k \in Nat, k \in T PROVE k + 1 \in T
    <2> SUFFICES ASSUME k + 1 <= n, NEW j \in Nat, 1 <= j, j <= EndOf(units, k + 1)
                 PROVE  In(j, k + 1)
      OBVIOUS
    <2>1. k + 1 \in 1 .. n /\ (k + 1) - 1 = k /\ k + 1 # 0
      BY <1>1
    <2>2. j <= units[k + 1].last /\ units[k + 1].first = EndOf(units, k) + 1
      BY <1>2, <2>1 DEF EndOf
    <2>3. EndOf(units, k) \in Nat
      <3>1. CASE k = 0
        BY <3>1 DEF EndOf
      <3>2. CASE k # 0
        <4>1. k \in 1 .. n
          BY <1>1, <3>2
        <4> QED
          BY <1>1, <3>2, <4>1 DEF EndOf
      <3> QED
        BY <3>1, <3>2
    <2>4. CASE j <= EndOf(units, k)
      <3>1. In(j, k)
        BY <1>1, <1>6, <2>4
      <3>2. PICK i \in 1 .. k : units[i].first <= j /\ j <= units[i].last
        BY <3>1
      <3>3. i \in 1 .. k + 1
        OBVIOUS
      <3> QED
        BY <3>2, <3>3
    <2>5. CASE ~(j <= EndOf(units, k))
      <3>1. units[k + 1].first <= j
        BY <2>2, <2>3, <2>5
      <3>2. k + 1 \in 1 .. k + 1
        OBVIOUS
      <3> QED
        BY <2>2, <3>1, <3>2
    <2> QED
      BY <2>4, <2>5
  <1> HIDE DEF T
  <1>7. n \in T
    BY <1>1, <1>5, <1>6, ByInduction
  <1>8. \A j \in Nat : 1 <= j /\ j <= EndOf(units, n) => In(j, n)
    BY <1>1, <1>7 DEF T
  <1>9. EndOf(units, n) \in Nat
    <2>1. units \in Seq(Intervals)
      BY DEF SplitInv
    <2> QED
      BY <2>1, EndIsNat DEF n
  <1>10. ASSUME NEW j \in DOMAIN statements PROVE j \in Nat /\ 1 <= j /\ j <= EndOf(units, n)
    BY <1>3, <1>4, <1>9
  <1> QED
    BY <1>8, <1>10 DEF n

\* What is known of one unit.
LEMMA UnitPlanned ==
    ASSUME SplitInv, NEW i \in 1 .. Len(units)
    PROVE  LET u == PlannedUnits[i]
               f == units[i].first
               l == units[i].last
           IN  /\ f \in Nat /\ l \in Nat /\ f <= l /\ \A j \in f .. l : j \in DOMAIN statements
               /\ u = [transactional |-> u.transactional, max_risk |-> u.max_risk,
                       statements |-> u.statements]
               /\ u.statements = StatementsFrom(f, l)
               /\ Range(IdsOf(u.statements)) = {statements[j].delta : j \in f .. l}
               /\ u.max_risk = RiskOf(levels, IdsOf(u.statements))
               /\ ~u.transactional => Len(u.statements) = 1
  <1> DEFINE u == PlannedUnits[i]
             f == units[i].first
             l == units[i].last
             ss == StatementsFrom(f, l)
  <1>1. /\ units[i] \in Intervals /\ WellCut(units, i) /\ i \in DOMAIN units
    <2>1. units \in Seq(Intervals)
      BY DEF SplitInv
    <2> QED
      BY <2>1 DEF SplitInv
  <1>2. /\ f \in Nat /\ l \in Nat /\ f <= l
        /\ \A j \in f .. l : j \in DOMAIN statements /\ (Alone(statements[j]) => f = l)
    BY <1>1 DEF WellCut, Intervals
  <1>3. u = [transactional |-> statements[f].transactional, max_risk |-> max_risk_level(units[i]),
             statements |-> ss]
    BY <1>1, Zenon DEF PlannedUnits, StatementsFrom
  <1>4. max_risk_level(units[i]) = Highest({levels[statements[j].delta] : j \in f .. l})
    BY DEF max_risk_level
  <1> HIDE DEF u, f, l
  <1>5. /\ DOMAIN ss = 1 .. l - f + 1
        /\ \A j \in 1 .. l - f + 1 : ss[j].delta = statements[f + j - 1].delta
    BY DEF StatementsFrom
  <1>6. Len(ss) = l - f + 1
    BY <1>2 DEF StatementsFrom
  <1> HIDE DEF ss
  <1>7. Range(IdsOf(ss)) = {statements[j].delta : j \in f .. l}
    <2>1. ASSUME NEW d \in Range(IdsOf(ss)) PROVE \E j \in f .. l : d = statements[j].delta
      <3>1. PICK k \in 1 .. l - f + 1 : d = ss[k].delta
        BY <1>5 DEF Range, IdsOf
      <3>2. f + k - 1 \in f .. l
        BY <1>2
      <3> QED
        BY <1>5, <3>1, <3>2
    <2>2. ASSUME NEW j \in f .. l PROVE statements[j].delta \in Range(IdsOf(ss))
      <3> DEFINE k == j - f + 1
      <3>1. k \in 1 .. l - f + 1 /\ f + k - 1 = j
        BY <1>2
      <3> HIDE DEF k
      <3>2. IdsOf(ss)[k] = statements[j].delta /\ k \in DOMAIN IdsOf(ss)
        BY <1>5, <3>1 DEF IdsOf
      <3> QED
        BY <3>2 DEF Range
    <2> QED
      BY <2>1, <2>2
  <1>8. {levels[d] : d \in Range(IdsOf(ss))} = {levels[statements[j].delta] : j \in f .. l}
    BY <1>7
  <1>9. u.max_risk = RiskOf(levels, IdsOf(ss))
    BY <1>3, <1>4, <1>8 DEF RiskOf
  <1>10. ~u.transactional => Len(ss) = 1
    <2>1. f \in f .. l
      BY <1>2
    <2>2. ~u.transactional => Alone(statements[f])
      BY <1>3 DEF Alone
    <2> QED
      BY <1>2, <1>6, <2>1, <2>2
  <1>11. u.statements = ss /\ u = [transactional |-> u.transactional, max_risk |-> u.max_risk,
                                   statements |-> u.statements]
    BY <1>3
  <1>12. u.statements = StatementsFrom(f, l)
    BY <1>11 DEF ss
  <1> QED
    BY <1>2, <1>7, <1>9, <1>10, <1>11, <1>12 DEF u, f, l

LEMMA PlanIs ==
    ASSUME SplitInv, phase \in {"write", "load", "apply"}, Covers, DOMAIN levels = DOMAIN deltas,
           NEW R, levels \in Seq(R), IsSequence(statements)
    PROVE  IsPlan(Planned, SqlsOf(statements), R)
  <1> DEFINE us == PlannedUnits
             n == Len(units)
             D == DOMAIN levels
             Q == SqlsOf(statements)
  <1>1. Planned.levels = levels /\ Planned.units = us
    BY DEF Planned
  <1>2. /\ n \in Nat /\ DOMAIN units = 1 .. n /\ DOMAIN us = 1 .. n
        /\ \A i \in 1 .. n : IsUnit(us[i], Q, DeltasOf(statements))
    BY UnitsPlanned
  <1>3. DeltasOf(statements) = D
    BY DEF Covers, DeltasOf
  <1>4. us \in Seq(Range(us))
    <2>1. us = [i \in 1 .. n |-> us[i]]
      BY <1>2 DEF PlannedUnits
    <2>2. \A i \in 1 .. n : us[i] \in Range(us)
      BY <1>2 DEF Range
    <2> HIDE DEF us
    <2> QED
      BY <1>2, <2>1, <2>2
  <1>5. ASSUME NEW i \in DOMAIN us
        PROVE  /\ us[i] = [transactional |-> us[i].transactional, max_risk |-> us[i].max_risk,
                           statements |-> us[i].statements]
               /\ us[i].statements \in Seq(StatementsOver(Q, D)) /\ us[i].statements # <<>>
               /\ us[i].max_risk = RiskOf(levels, IdsOf(us[i].statements))
               /\ ~us[i].transactional => Len(us[i].statements) = 1
    <2>1. i \in 1 .. Len(units) /\ IsUnit(us[i], Q, D)
      BY <1>2, <1>3
    <2> QED
      BY <2>1, UnitPlanned DEF IsUnit, IsSeq
  <1>6. UNION {Range(IdsOf(us[i].statements)) : i \in DOMAIN us} = D
    <2>1. ASSUME NEW i \in DOMAIN us, NEW d \in Range(IdsOf(us[i].statements)) PROVE d \in D
      <3>1. /\ Range(IdsOf(us[i].statements))
                 = {statements[j].delta : j \in units[i].first .. units[i].last}
            /\ \A j \in units[i].first .. units[i].last : j \in DOMAIN statements
        BY <1>2, UnitPlanned
      <3> QED
        BY <1>3, <3>1 DEF DeltasOf
    <2>2. ASSUME NEW d \in D PROVE \E i \in DOMAIN us : d \in Range(IdsOf(us[i].statements))
      <3>1. PICK j \in DOMAIN statements : d = statements[j].delta
        BY <1>3 DEF DeltasOf
      <3>2. PICK i \in 1 .. n : units[i].first <= j /\ j <= units[i].last
        BY NoneLeftOut
      <3>3. j \in Nat
        <4>1. DOMAIN statements = 1 .. Len(statements)
          BY DEF IsSequence
        <4> QED
          BY <4>1
      <3>4. /\ units[i].first \in Nat /\ units[i].last \in Nat
            /\ Range(IdsOf(us[i].statements))
                 = {statements[k].delta : k \in units[i].first .. units[i].last}
        BY UnitPlanned
      <3>5. j \in units[i].first .. units[i].last
        BY <3>2, <3>3, <3>4
      <3> QED
        BY <1>2, <3>1, <3>4, <3>5
    <2> QED
      BY <2>1, <2>2
  <1> HIDE DEF us
  <1> QED
    BY <1>1, <1>4, <1>5, <1>6 DEF IsPlan

-----------------------------------------------------------------------------
(* Every delta has a level *)

Levels == SAFE .. BLOCKED

LEMMA LevelsAre ==
    /\ SAFE \in Levels /\ WARNING \in Levels /\ DANGEROUS \in Levels
    /\ DESTRUCTIVE \in Levels /\ BLOCKED \in Levels
  BY DEF Levels, SAFE, WARNING, DANGEROUS, DESTRUCTIVE, BLOCKED

Rows == {"CreateTable", "DropTable", "RenameTable", "AlterTableAttrs", "AddColumn", "DropColumn",
         "AlterColumnType", "SetColumnDefault", "SetColumnNullability", "RenameColumn"}
Keys == {"CreateIndex", "DropIndex", "ReplaceIndex", "AddConstraint", "DropConstraint"}

\* classify_risk has a rule for every delta, and none of them is no level.
THEOREM EveryDeltaHasLevel ==
    ASSUME NEW d, IsDelta(d), NEW created, NEW resolved
    PROVE  classify_risk(d, created, resolved) \in Levels
  <1> DEFINE r == classify_risk(d, created, resolved)
  <1> USE LevelsAre DEF If
  <1>1. CASE d.target.kind \in {"constraint", "index"}
    <2>1. d.kind \in Keys
      BY <1>1 DEF IsDelta, DELTAS, Keys
    <2>2. r = KeyRisk(d, created)
      BY <1>1, <2>1 DEF classify_risk, Keys, TABLE_WORK, VIEW_CREATES, VIEW_DROPS
    <2>3. KeyRisk(d, created) \in Levels
      BY <2>1 DEF KeyRisk, Keys
    <2> QED
      BY <2>2, <2>3
  <1>2. CASE d.target.kind \in {"table", "column"}
    <2>1. d.kind \in Rows
      BY <1>2 DEF IsDelta, DELTAS, Rows
    <2>2. r = TableRisk(d)
      BY <1>2, <2>1 DEF classify_risk, Rows, TABLE_WORK, VIEW_CREATES, VIEW_DROPS
    <2>3. d.target.kind = "column" => ColumnRisk(d) \in Levels
      BY DEF IsDelta, DELTAS, ColumnRisk, AddColumnRisk
    <2>4. TableRisk(d) \in Levels
      BY <1>2, <2>3 DEF IsDelta, DELTAS, TableRisk
    <2> QED
      BY <2>2, <2>4
  <1>3. CASE d.target.kind \in {"view", "materialized_view"}
    <2>1. d.kind \in {"CreateView", "DropView", "ReplaceView", "AlterViewOwner",
                      "CreateMaterializedView", "DropMaterializedView",
                      "ReplaceMaterializedView", "AlterMaterializedViewOwner"}
      BY <1>3 DEF IsDelta, DELTAS
    <2>2. r = ViewRisk(d, resolved)
      BY <1>3, <2>1 DEF classify_risk, TABLE_WORK, VIEW_CREATES, VIEW_DROPS
    <2>3. ViewRisk(d, resolved) \in Levels
      BY <2>1 DEF ViewRisk
    <2> QED
      BY <2>2, <2>3
  <1>4. CASE d.target.kind \in {"enum", "composite_type", "domain_type"}
    <2>1. r = TypeRisk(d)
      BY <1>4 DEF IsDelta, DELTAS, classify_risk, TABLE_WORK, VIEW_CREATES, VIEW_DROPS
    <2>2. TypeRisk(d) \in Levels
      BY <1>4 DEF IsDelta, DELTAS, TypeRisk
    <2> QED
      BY <2>1, <2>2
  <1>5. CASE d.target.kind \in {"function", "procedure"}
    <2>1. r = RoutineRisk(d)
      BY <1>5 DEF IsDelta, DELTAS, classify_risk, TABLE_WORK, VIEW_CREATES, VIEW_DROPS
    <2>2. RoutineRisk(d) \in Levels
      BY DEF RoutineRisk
    <2> QED
      BY <2>1, <2>2
  <1>6. CASE d.target.kind \in {"schema", "extension", "sequence", "trigger", "policy"}
    <2>1. r = OtherRisk(d)
      BY <1>6 DEF IsDelta, DELTAS, classify_risk, TABLE_WORK, VIEW_CREATES, VIEW_DROPS
    <2>2. OtherRisk(d) \in Levels
      BY <1>6 DEF IsDelta, DELTAS, OtherRisk
    <2> QED
      BY <2>1, <2>2
  <1> QED
    BY <1>1, <1>2, <1>3, <1>4, <1>5, <1>6 DEF IsDelta, DELTAS

-----------------------------------------------------------------------------
(* Every delta has statements *)

Writes(s) == IsSequence(s) /\ s # <<>>

LEMMA OneWrites == ASSUME NEW x PROVE Writes(<<x>>)
  BY DEF Writes, IsSequence, Range

LEMMA TwoWrite == ASSUME NEW x, NEW y PROVE Writes(<<x, y>>)
  BY DEF Writes, IsSequence, Range

LEMMA WhenIs ==
    ASSUME NEW c, NEW x
    PROVE  IsSequence(When(c, x)) /\ (c => Writes(When(c, x)))
  <1>1. IsSequence(<<>>)
    BY DEF IsSequence, Range
  <1> QED
    BY <1>1, OneWrites DEF When, Writes

LEMMA Together ==
    ASSUME NEW s, NEW t, IsSequence(s), IsSequence(t)
    PROVE  IsSequence(s \o t) /\ (Writes(s) \/ Writes(t) => Writes(s \o t))
  <1> DEFINE S == Range(s) \cup Range(t)
             u == s \o t
  <1>1. IsSeq(s, S) /\ IsSeq(t, S)
    BY SeqWider DEF IsSequence, IsSeq
  <1>2. IsSeq(u, S) /\ IsJoin(u, s, t)
    BY <1>1, Joins
  <1>3. IsSequence(u)
    BY <1>2, HasRange DEF IsSeq
  <1>4. (s # <<>> => Len(s) # 0) /\ (t # <<>> => Len(t) # 0)
    BY <1>1, EmptySeq DEF IsSeq
  <1> HIDE DEF u
  <1>5. s # <<>> \/ t # <<>> => u # <<>>
    <2>1. Len(<<>>) = 0
      OBVIOUS
    <2> QED
      BY <1>2, <1>4, <2>1 DEF IsJoin
  <1> QED
    BY <1>3, <1>5 DEF Writes, u

LEMMA StatedIs == ASSUME NEW r, NEW f, NEW v
                  PROVE  IsSequence(Stated(r, f, v)) /\ (v # <<>> => Writes(Stated(r, f, v)))
  BY WhenIs DEF Stated

LEMMA WithOwnerWrites == ASSUME NEW sql, NEW o PROVE Writes(WithOwner(sql, o))
  BY OneWrites, StatedIs, Together DEF WithOwner, Writes

LEMMA TableWrites == ASSUME NEW t PROVE Writes(emit_create_table(t))
  <1> DEFINE a == t.attrs
             bare == [t EXCEPT !.constraints = <<>>,
                               !.columns = IF t.attrs.partOf # <<>> THEN <<>> ELSE @,
                               !.attrs = [@ EXCEPT !.owner = <<>>, !.tablespace = <<>>,
                                                   !.comment = <<>>, !.rls = <<FALSE>>,
                                                   !.force = <<FALSE>>]]
             s1 == <<create(bare)>> \o Stated(t.ref, "owner", a.owner)
             s2 == s1 \o Stated(t.ref, "tablespace", a.tablespace)
             s3 == s2 \o Stated(t.ref, "comment", a.comment)
             s4 == s3 \o When(a.rls[1], set(t.ref, "rls", <<TRUE>>))
             s5 == s4 \o When(a.force[1], set(t.ref, "force", <<TRUE>>))
  <1>1. Writes(<<create(bare)>>)
    BY OneWrites
  <1>2. emit_create_table(t) = <<MigrationError>> \/ emit_create_table(t) = s5
    BY DEF emit_create_table
  <1> HIDE DEF bare, a
  <1>3. Writes(s1)
    BY <1>1, StatedIs, Together DEF Writes
  <1> HIDE DEF s1
  <1>4. Writes(s2)
    BY <1>3, StatedIs, Together DEF Writes
  <1> HIDE DEF s2
  <1>5. Writes(s3)
    BY <1>4, StatedIs, Together DEF Writes
  <1> HIDE DEF s3
  <1>6. Writes(s4)
    BY <1>5, WhenIs, Together DEF Writes
  <1> HIDE DEF s4
  <1>7. Writes(s5)
    BY <1>6, WhenIs, Together DEF Writes
  <1> HIDE DEF s5
  <1> QED
    BY <1>2, <1>7, OneWrites

LEMMA AttrsWrite ==
    ASSUME NEW r, NEW new, \E a \in TABLE_ATTRS : new[a] # <<>>
    PROVE  Writes(emit_alter_table_attrs(r, new))
  <1> DEFINE Change(a) == Stated(r, a, new[a])
             comment == IF new["comment"] = <<"">> THEN <<>> ELSE new["comment"]
             remark == When(new["comment"] # <<>>, set(r, "comment", comment))
             s1 == Change("owner") \o Change("tablespace")
             s2 == s1 \o Change("unlogged")
             s3 == s2 \o remark
             s4 == s3 \o Change("rls")
             s5 == s4 \o Change("force")
             Says(as) == \E a \in as : new[a] # <<>>
  <1>1. emit_alter_table_attrs(r, new) =
            IF new["partKey"] # <<>> \/ new["partOf"] # <<>> THEN <<MigrationError>> ELSE s5
    BY DEF emit_alter_table_attrs
  <1>2. \A a : IsSequence(Change(a)) /\ (new[a] # <<>> => Writes(Change(a)))
    BY StatedIs
  <1>3. IsSequence(remark) /\ (new["comment"] # <<>> => Writes(remark))
    BY WhenIs
  <1> HIDE DEF Change, remark
  <1>4. IsSequence(s1) /\ (Says({"owner", "tablespace"}) => Writes(s1))
    BY <1>2, Together
  <1> HIDE DEF s1
  <1>5. IsSequence(s2) /\ (Says({"owner", "tablespace", "unlogged"}) => Writes(s2))
    BY <1>2, <1>4, Together
  <1> HIDE DEF s2
  <1>6. IsSequence(s3) /\ (Says({"owner", "tablespace", "unlogged", "comment"}) => Writes(s3))
    BY <1>3, <1>5, Together
  <1> HIDE DEF s3
  <1>7. /\ IsSequence(s4)
        /\ Says({"owner", "tablespace", "unlogged", "comment", "rls"}) => Writes(s4)
    BY <1>2, <1>6, Together
  <1> HIDE DEF s4
  <1>8. /\ IsSequence(s5)
        /\ Says({"owner", "tablespace", "unlogged", "comment", "rls", "force"}) => Writes(s5)
    BY <1>2, <1>7, Together
  <1> HIDE DEF s5
  <1>9. \/ new["partKey"] # <<>> \/ new["partOf"] # <<>>
        \/ Says({"owner", "tablespace", "unlogged", "comment", "rls", "force"})
    BY DEF TABLE_ATTRS
  <1> QED
    BY <1>1, <1>8, <1>9, OneWrites

\* The statements of the checks of a domain, those at some places.
NotValid(d, sql, c) == IF c.validated THEN sql ELSE Append(sql, add(d.ref, "checks", c))

ChecksWritten(d, base) ==
    CHOOSE f : f = [s \in SUBSET DOMAIN d.checks |->
        IF s = {} THEN base ELSE NotValid(d, f[s \ {Max(s)}], d.checks[Max(s)])]

LEMMA DomainSql ==
    ASSUME NEW d, d.checks \in Seq(Range(d.checks))
    PROVE  \E sql : /\ Writes(sql) /\ \A p \in 1 .. Len(sql) : sql[p].do \in {"create", "add"}
                   /\ emit_create_domain(d) = sql \o Stated(d.ref, "owner", d.owner)
  <1> DEFINE cs == d.checks
             n == Len(cs)
             bare == [Without(WithoutOwner(d), {"used_in_container"})
                        EXCEPT !.checks = LET Valid(c) == c.validated IN SelectSeq(@, Valid)]
             base == <<create(bare)>>
             u == ChecksWritten(d, base)
             S == {create(bare)} \cup {add(d.ref, "checks", cs[i]) : i \in 1 .. n}
             St == {s \in Seq(S) : s # <<>>}
             F == [x \in St \X (1 .. n) |-> NotValid(d, x[1], cs[x[2]])]
             Value(f, s) == IF s = {} THEN base ELSE NotValid(d, f[s \ {Max(s)}], cs[Max(s)])
  <1>1. n \in Nat /\ DOMAIN cs = 1 .. n
    OBVIOUS
  <1>2. emit_create_domain(d) = u[DOMAIN cs] \o Stated(d.ref, "owner", d.owner)
    BY DEF emit_create_domain, FoldLeft, MapThenFoldSet, ChecksWritten, NotValid
  <1> HIDE DEF cs, n, bare
  <1>3. base \in St
    OBVIOUS
  <1> HIDE DEF base
  <1>4. F \in [St \X (1 .. n) -> St]
    <2>1. ASSUME NEW s \in St, NEW i \in 1 .. n PROVE NotValid(d, s, cs[i]) \in St
      <3>1. add(d.ref, "checks", cs[i]) \in S
        OBVIOUS
      <3> HIDE DEF S
      <3>2. Append(s, add(d.ref, "checks", cs[i])) \in St
        BY <3>1
      <3> QED
        BY <3>2 DEF NotValid
    <2> QED
      BY <2>1
  <1> HIDE DEF S, St
  <1>5. PICK f \in [SUBSET (1 .. n) -> St] : Folded(f, F, base, n)
    <2> HIDE DEF F
    <2> QED
      BY <1>1, <1>3, <1>4, FoldExists
  <1>6. f = [s \in SUBSET (1 .. n) |-> Value(f, s)]
    <2>1. ASSUME NEW s \in SUBSET (1 .. n), s # {}
          PROVE  F[f[s \ {Max(s)}], Max(s)] = NotValid(d, f[s \ {Max(s)}], cs[Max(s)])
      <3>1. Max(s) \in 1 .. n
        BY <1>1, <2>1, MaxIs
      <3>2. f[s \ {Max(s)}] \in St
        OBVIOUS
      <3> QED
        BY <3>1, <3>2
    <2> HIDE DEF F
    <2>2. f = [s \in SUBSET (1 .. n) |-> IF s = {} THEN base ELSE F[f[s \ {Max(s)}], Max(s)]]
      BY <1>5, Zenon DEF Folded
    <2>3. \A s \in SUBSET (1 .. n) :
            (IF s = {} THEN base ELSE F[f[s \ {Max(s)}], Max(s)]) = Value(f, s)
      BY <2>1
    <2> HIDE DEF Value
    <2> QED
      BY <2>2, <2>3
  <1>7. u = [s \in SUBSET (1 .. n) |-> Value(u, s)]
    <2>1. f = [s \in SUBSET DOMAIN d.checks |-> Value(f, s)]
      BY <1>1, <1>6, Zenon DEF cs
    <2>2. u = [s \in SUBSET DOMAIN d.checks |-> Value(u, s)]
      BY <2>1, Zenon DEF ChecksWritten, cs
    <2> QED
      BY <1>1, <2>2, Zenon DEF cs
  <1>8. \A s \in SUBSET (1 .. n) : u[s] = Value(u, s)
    <2> HIDE DEF Value
    <2> QED
      BY <1>7
  <1> DEFINE T == {k \in Nat : k <= n => u[1 .. k] \in St}
  <1>9. 0 \in T
    <2>1. 1 .. 0 = {} /\ {} \in SUBSET (1 .. n)
      OBVIOUS
    <2> HIDE DEF u
    <2> QED
      BY <1>3, <1>8, <2>1
  <1>10. ASSUME NEW k \in Nat, k \in T PROVE k + 1 \in T
    <2> SUFFICES ASSUME k + 1 <= n PROVE u[1 .. (k + 1)] \in St
      OBVIOUS
    <2>1. k + 1 \in 1 .. n /\ (k + 1) - 1 = k /\ 1 .. (k + 1) \in SUBSET (1 .. n)
      BY <1>1
    <2>2. /\ 1 .. (k + 1) # {} /\ Max(1 .. (k + 1)) = k + 1
          /\ (1 .. (k + 1)) \ {k + 1} = 1 .. k
      BY <2>1, LastOfPrefix
    <2>3. u[1 .. k] \in St
      BY <1>1, <1>10
    <2> HIDE DEF u
    <2>4. u[1 .. (k + 1)] = NotValid(d, u[1 .. k], cs[k + 1])
      BY <1>8, <2>1, <2>2
    <2>5. F[u[1 .. k], k + 1] \in St /\ F[u[1 .. k], k + 1] = NotValid(d, u[1 .. k], cs[k + 1])
      <3>1. <<u[1 .. k], k + 1>> \in St \X (1 .. n)
        BY <2>1, <2>3
      <3>2. F[u[1 .. k], k + 1] \in St
        <4> HIDE DEF F
        <4> QED
          BY <1>4, <3>1
      <3> QED
        BY <3>1, <3>2
    <2> QED
      BY <2>4, <2>5
  <1> HIDE DEF T, u
  <1>11. n \in T
    BY <1>1, <1>9, <1>10, ByInduction
  <1>12. u[DOMAIN cs] \in St
    BY <1>1, <1>11 DEF T
  <1>13. Writes(u[DOMAIN cs])
    BY <1>12, HasRange DEF St, Writes
  <1>14. \A x \in S : x.do \in {"create", "add"}
    BY DEF S, create, add
  <1>15. \A p \in 1 .. Len(u[DOMAIN cs]) : u[DOMAIN cs][p].do \in {"create", "add"}
    BY <1>12, <1>14, SeqIs DEF St, IsSeq
  <1> QED
    BY <1>2, <1>13, <1>15

LEMMA DomainWrites ==
    ASSUME NEW d, d.checks \in Seq(Range(d.checks))
    PROVE  Writes(emit_create_domain(d))
  <1>1. PICK sql : Writes(sql) /\ emit_create_domain(d) = sql \o Stated(d.ref, "owner", d.owner)
    BY DomainSql
  <1> QED
    BY <1>1, StatedIs, Together DEF Writes

\* The handlers with more than one statement.
LEMMA TwoPartsWrite ==
    /\ \A r, new : Writes(emit_rename_table(r, new))
    /\ \A r, c : Writes(emit_add_constraint(r, c)) /\ Writes(emit_drop_constraint(r, c))
  BY OneWrites, WhenIs, Together
  DEF emit_rename_table, emit_add_constraint, emit_drop_constraint, Writes

LEMMA ColumnWrites ==
    ASSUME NEW d, IsDelta(d), d.target.kind = "column" PROVE Writes(emit_column(d))
  BY OneWrites DEF IsDelta, DELTAS, emit_column

LEMMA IndexWrites ==
    ASSUME NEW d, IsDelta(d), d.target.kind = "index" PROVE Writes(emit_index(d))
  <1> DEFINE Created(i) == <<create([i EXCEPT !.comment = <<>>])>>
                           \o Stated(i.ref, "comment", i.comment)
  <1>1. \A i : Writes(Created(i))
    BY OneWrites, StatedIs, Together DEF Writes
  <1>2. \A r, i : Writes(<<drop(r)>> \o Created(i))
    <2> HIDE DEF Created
    <2> QED
      BY <1>1, OneWrites, Together DEF Writes
  <1>3. \/ emit_index(d) = Created(d.index) \/ emit_index(d) = <<drop(d.index.ref)>>
        \/ emit_index(d) = <<drop(d.old_index.ref)>> \o Created(d.new_index)
    BY DEF IsDelta, DELTAS, emit_index
  <1> HIDE DEF Created
  <1> QED
    BY <1>1, <1>2, <1>3, OneWrites

LEMMA TypeWrites ==
    ASSUME NEW d, IsDelta(d), d.kind \notin {"ReplaceEnumLabels", "ReplaceCompositeType"}
    PROVE  /\ d.target.kind = "enum" => Writes(emit_enum(d))
           /\ d.target.kind = "composite_type" => Writes(emit_composite(d))
  <1>1. d.target.kind = "enum" => Writes(emit_enum(d))
    BY OneWrites, WithOwnerWrites DEF IsDelta, DELTAS, emit_enum
  <1>2. d.target.kind = "composite_type" => Writes(emit_composite(d))
    BY OneWrites, WithOwnerWrites DEF IsDelta, DELTAS, emit_composite
  <1> QED
    BY <1>1, <1>2

LEMMA DomainDeltaWrites ==
    ASSUME NEW d, IsDelta(d), d.target.kind = "domain_type", d.kind # "ReplaceDomainType"
    PROVE  Writes(emit_domain(d))
  <1> DEFINE Validate(name) == <<drain, alter(d.target, "checks", name, "validated", TRUE)>>
             added == <<add(d.target, "checks", [d.check EXCEPT !.validated = FALSE])>>
             rest == IF d.check.validated THEN Validate(d.check.name) ELSE <<>>
  <1>1. \A name : Writes(Validate(name))
    BY TwoWrite
  <1>2. Writes(added \o rest)
    <2>1. IsSequence(rest)
      <3>1. IsSequence(<<>>)
        BY DEF IsSequence, Range
      <3>2. IsSequence(Validate(d.check.name))
        BY <1>1 DEF Writes
      <3> HIDE DEF Validate
      <3> QED
        BY <3>1, <3>2
    <2>2. Writes(added)
      BY OneWrites
    <2> HIDE DEF added, rest
    <2> QED
      BY <2>1, <2>2, Together DEF Writes
  <1>3. CASE d.kind = "CreateDomain"
    <2>1. emit_domain(d) = emit_create_domain(d.domain)
      BY <1>3 DEF emit_domain
    <2> QED
      BY <1>3, <2>1, DomainWrites DEF IsDelta
  <1>4. CASE d.kind = "AddDomainCheck"
    <2>1. emit_domain(d) = <<MigrationError>> \/ emit_domain(d) = added \o rest
      BY <1>4 DEF emit_domain
    <2> HIDE DEF added, rest
    <2> QED
      BY <1>2, <2>1, OneWrites
  <1>5. CASE d.kind = "ValidateDomainCheck"
    <2>1. emit_domain(d) = <<MigrationError>> \/ emit_domain(d) = Validate(d.check_name)
      BY <1>5 DEF emit_domain
    <2> HIDE DEF Validate
    <2> QED
      BY <1>1, <2>1, OneWrites
  <1>6. CASE d.kind \notin {"CreateDomain", "AddDomainCheck", "ValidateDomainCheck"}
    BY <1>6, OneWrites DEF IsDelta, DELTAS, emit_domain
  <1> QED
    BY <1>3, <1>4, <1>5, <1>6

LEMMA SequenceWrites ==
    ASSUME NEW d, IsDelta(d), d.target.kind = "sequence" PROVE Writes(emit_sequence(d))
  <1> DEFINE letGo == When(d.old_owned_by # <<>>, set(d.target, "ownedBy", <<>>))
             owned == <<set(d.target, "owner", <<d.new_owner>>)>>
  <1>1. Writes(letGo \o owned)
    <2>1. IsSequence(letGo) /\ Writes(owned)
      BY WhenIs, OneWrites
    <2> HIDE DEF letGo, owned
    <2> QED
      BY <2>1, Together DEF Writes
  <1>2. CASE d.kind = "AlterSequenceOwner"
    <2>1. emit_sequence(d) = letGo \o owned
      BY <1>2 DEF emit_sequence
    <2> HIDE DEF letGo, owned
    <2> QED
      BY <1>1, <2>1
  <1>3. CASE d.kind # "AlterSequenceOwner"
    BY <1>3, OneWrites, WithOwnerWrites DEF IsDelta, DELTAS, emit_sequence
  <1> QED
    BY <1>2, <1>3

LEMMA SchemaWrites ==
    ASSUME NEW d, IsDelta(d), d.target.kind \in {"schema", "extension"}
    PROVE  Writes(emit_schema(d))
  <1> DEFINE Created(o) == <<create([o EXCEPT !.comment = <<>>])>>
                           \o Stated(d.target, "comment", o.comment)
             version == When(d.new_version # <<>>, set(d.target, "version", Head(d.new_version)))
             moved == Stated(d.target, "schema", d.new_schema)
  <1>1. \A o : Writes(Created(o))
    BY OneWrites, StatedIs, Together DEF Writes
  <1>2. d.kind = "AlterExtension" => Writes(version \o moved)
    <2>1. /\ IsSequence(version) /\ (d.new_version # <<>> => Writes(version))
          /\ IsSequence(moved) /\ (d.new_schema # <<>> => Writes(moved))
      BY WhenIs, StatedIs
    <2> HIDE DEF version, moved
    <2> QED
      BY <2>1, Together DEF IsDelta
  <1>3. \/ emit_schema(d) = Created(d.schema)
        \/ emit_schema(d) = Created(d.extension)
        \/ emit_schema(d) = <<drop(d.target)>>
        \/ d.kind = "AlterExtension" /\ emit_schema(d) = version \o moved
    <2>1. d.kind \in {"CreateSchema", "DropSchema", "CreateExtension", "DropExtension",
                      "AlterExtension"}
      BY DEF IsDelta, DELTAS
    <2> QED
      BY <2>1 DEF emit_schema
  <1> HIDE DEF Created, version, moved
  <1> QED
    BY <1>1, <1>2, <1>3, OneWrites

LEMMA RoutineWrites == ASSUME NEW d PROVE Writes(emit_routine(d))
  BY OneWrites, WithOwnerWrites DEF emit_routine

LEMMA TriggerWrites ==
    ASSUME NEW d, IsDelta(d), d.target.kind = "trigger" PROVE Writes(emit_trigger(d))
  <1> DEFINE Enabled(g) == [g EXCEPT !.enabled = "O"]
             Set(g, value) == <<set(g.ref, "enabled", value)>>
             Created(g) == <<create(Enabled(g))>>
                           \o (IF g.enabled = "O" THEN <<>> ELSE Set(g, g.enabled))
             replaced == <<replace(Enabled(d.new_trigger))>>
                         \o (IF d.old_trigger.enabled # d.new_trigger.enabled
                                    \/ d.new_trigger.enabled # "O"
                             THEN Set(d.new_trigger, d.new_trigger.enabled) ELSE <<>>)
  <1>1. \A x, g, v, c : Writes(<<x>> \o (IF c THEN <<>> ELSE Set(g, v)))
    <2> TAKE x, g, v, c
    <2> DEFINE rest == IF c THEN <<>> ELSE Set(g, v)
    <2>1. IsSequence(<<>>) /\ Writes(Set(g, v)) /\ Writes(<<x>>)
      BY OneWrites DEF IsSequence, Range
    <2>2. IsSequence(rest)
      <3> HIDE DEF Set
      <3> QED
        BY <2>1 DEF Writes
    <2> HIDE DEF rest
    <2>3. Writes(<<x>> \o rest)
      BY <2>1, <2>2, Together DEF Writes
    <2> QED
      BY <2>3 DEF rest
  <1>2. \A g : Writes(Created(g))
    <2> TAKE g
    <2> HIDE DEF Enabled, Set
    <2> QED
      BY <1>1
  <1>3. Writes(replaced)
    <2> DEFINE Rest(c) == IF c THEN <<>> ELSE Set(d.new_trigger, d.new_trigger.enabled)
               c == ~(d.old_trigger.enabled # d.new_trigger.enabled \/ d.new_trigger.enabled # "O")
               x == replace(Enabled(d.new_trigger))
    <2>1. replaced = <<x>> \o Rest(c)
      OBVIOUS
    <2>2. Writes(<<x>> \o Rest(c))
      <3> HIDE DEF x, c, Set
      <3> QED
        BY <1>1
    <2> HIDE DEF Rest, c, x, replaced
    <2> QED
      BY <2>1, <2>2
  <1>4. \A x, g : Writes(<<x>> \o Created(g))
    <2> HIDE DEF Created
    <2> QED
      BY <1>2, OneWrites, Together DEF Writes
  <1>5. Writes(Set(d.trigger, d.new_enabled)) /\ Writes(<<drop(d.target)>>)
    BY OneWrites
  <1>6. \/ emit_trigger(d) = Created(d.trigger)
        \/ emit_trigger(d) = <<drop(d.target)>>
        \/ emit_trigger(d) = Set(d.trigger, d.new_enabled)
        \/ emit_trigger(d) = <<drop(d.target)>> \o Created(d.new_trigger)
        \/ emit_trigger(d) = replaced
    <2>1. d.kind \in {"CreateTrigger", "DropTrigger", "ReplaceTrigger", "AlterTriggerEnabled"}
      BY DEF IsDelta, DELTAS
    <2> QED
      BY <2>1 DEF emit_trigger
  <1> HIDE DEF Created, replaced, Set
  <1> QED
    BY <1>2, <1>3, <1>4, <1>5, <1>6

LEMMA ViewWrites ==
    ASSUME NEW d, IsDelta(d)
    PROVE  /\ d.target.kind = "policy" => Writes(emit_policy(d))
           /\ d.target.kind = "view" => Writes(emit_view(d))
           /\ d.target.kind = "materialized_view" => Writes(emit_materialized_view(d))
  <1>1. d.target.kind = "policy" => Writes(emit_policy(d))
    BY OneWrites, TwoWrite DEF IsDelta, DELTAS, emit_policy
  <1>2. d.target.kind = "view" => Writes(emit_view(d))
    BY OneWrites, WithOwnerWrites DEF IsDelta, DELTAS, emit_view
  <1>3. d.target.kind = "materialized_view" => Writes(emit_materialized_view(d))
    <2>1. \A x, sql, o : Writes(<<x>> \o WithOwner(sql, o))
      BY OneWrites, WithOwnerWrites, Together DEF Writes
    <2> QED
      BY <2>1, OneWrites, WithOwnerWrites DEF IsDelta, DELTAS, emit_materialized_view
  <1> QED
    BY <1>1, <1>2, <1>3

\* The handler of every delta writes statements: no delta is without SQL.
LEMMA HandlerWrites == ASSUME NEW d, IsDelta(d) PROVE Writes(Handler(d))
  <1>1. CASE d.kind \in {"ReplaceEnumLabels", "ReplaceCompositeType", "ReplaceDomainType"}
    <2>1. Handler(d) = <<MigrationError>>
      BY <1>1 DEF Handler
    <2> QED
      BY <2>1, OneWrites
  <1>2. CASE d.target.kind \in {"table", "constraint"}
    <2>1. d.kind \in {"CreateTable", "DropTable", "RenameTable", "AlterTableAttrs",
                      "AddConstraint", "DropConstraint"}
      BY <1>2 DEF IsDelta, DELTAS
    <2>2. \/ Handler(d) = emit_create_table(d.table)
          \/ Handler(d) = <<drop(d.target)>>
          \/ Handler(d) = emit_rename_table(d.target, d.new_table)
          \/ d.kind = "AlterTableAttrs" /\ Handler(d) = emit_alter_table_attrs(d.target, d.new)
          \/ Handler(d) = emit_add_constraint(d.target, d.constraint)
          \/ Handler(d) = emit_drop_constraint(d.target, d.constraint)
      BY <1>2, <2>1 DEF Handler
    <2>3. d.kind = "AlterTableAttrs" => Writes(emit_alter_table_attrs(d.target, d.new))
      BY AttrsWrite DEF IsDelta
    <2> QED
      BY <2>2, <2>3, TableWrites, TwoPartsWrite, OneWrites
  <1>3. ASSUME d.kind \notin {"ReplaceEnumLabels", "ReplaceCompositeType", "ReplaceDomainType"},
               d.target.kind \notin {"table", "constraint"}
        PROVE  Writes(Handler(d))
    <2>1. d.kind \notin {"CreateTable", "DropTable", "RenameTable", "AlterTableAttrs",
                         "AddConstraint", "DropConstraint"}
      BY <1>3 DEF IsDelta, DELTAS
    <2>2. CASE d.target.kind \in {"column", "index", "domain_type", "enum", "composite_type"}
      BY <1>3, <2>1, <2>2, ColumnWrites, IndexWrites, DomainDeltaWrites, TypeWrites DEF Handler
    <2>3. CASE d.target.kind \in {"sequence", "schema", "extension", "function", "procedure"}
      BY <1>3, <2>1, <2>3, SequenceWrites, SchemaWrites, RoutineWrites DEF Handler
    <2>4. CASE d.target.kind \in {"trigger", "policy", "view", "materialized_view"}
      BY <1>3, <2>1, <2>4, TriggerWrites, ViewWrites DEF Handler
    <2>5. d.target.kind \in {"column", "index", "domain_type", "enum", "composite_type",
                             "sequence", "schema", "extension", "function", "procedure",
                             "trigger", "policy", "view", "materialized_view"}
      BY <1>3 DEF IsDelta, DELTAS
    <2> QED
      BY <2>2, <2>3, <2>4, <2>5
  <1> QED
    BY <1>1, <1>2, <1>3

\* The statements of one delta are numbered with it.
LEMMA EmittedWrites ==
    ASSUME NEW ds, NEW i, IsDelta(ds[i])
    PROVE  /\ IsSequence(Emitted(ds, i)) /\ Emitted(ds, i) # <<>>
           /\ \A p \in 1 .. Len(Emitted(ds, i)) : Emitted(ds, i)[p].delta = i
  <1> DEFINE sql == Handler(ds[i])
             em == Emitted(ds, i)
  <1>1. sql \in Seq(Range(sql)) /\ sql # <<>>
    BY HandlerWrites DEF Writes, IsSequence
  <1>2. DOMAIN em = DOMAIN sql /\ \A p \in DOMAIN sql : em[p].delta = i
    BY DEF Emitted
  <1>3. em = [p \in DOMAIN sql |-> em[p]]
    BY DEF Emitted
  <1> HIDE DEF sql, em
  <1>4. Len(sql) \in Nat /\ Len(sql) # 0 /\ DOMAIN sql = 1 .. Len(sql)
    BY <1>1, EmptySeq
  <1>5. em \in Seq(Range(em)) /\ Len(em) = Len(sql)
    <2>1. \A p \in 1 .. Len(sql) : em[p] \in Range(em)
      BY <1>2, <1>4 DEF Range
    <2> QED
      BY <1>3, <1>4, <2>1
  <1>6. em # <<>>
    BY <1>4, <1>5
  <1> QED
    BY <1>2, <1>4, <1>5, <1>6 DEF em, IsSequence

\* The statements of the deltas at some places.
SqlOf(ds) ==
    LET places == [i \in DOMAIN ds |-> i]
    IN  CHOOSE f : f = [s \in SUBSET DOMAIN places |->
            IF s = {} THEN <<>> ELSE f[s \ {Max(s)}] \o Emitted(ds, places[Max(s)])]

LEMMA EmitIs == ASSUME NEW ds PROVE emit(ds) = SqlOf(ds)[DOMAIN ds]
  <1> DEFINE places == [i \in DOMAIN ds |-> i]
  <1>1. emit(ds) = SqlOf(ds)[DOMAIN places]
    BY DEF emit, FoldLeftDomain, FoldLeft, MapThenFoldSet, SqlOf
  <1> QED
    BY <1>1

LEMMA SqlStep ==
    ASSUME NEW ds, NEW n \in Nat, DOMAIN ds = 1 .. n, \A i \in 1 .. n : IsDelta(ds[i])
    PROVE  /\ SqlOf(ds)[1 .. 0] = <<>>
           /\ \A k \in 1 .. n : SqlOf(ds)[1 .. k] = SqlOf(ds)[1 .. (k - 1)] \o Emitted(ds, k)
  <1> DEFINE S == UNION {Range(Emitted(ds, i)) : i \in 1 .. n}
             F == [x \in Seq(S) \X (1 .. n) |-> x[1] \o Emitted(ds, x[2])]
             Value(f, s) == IF s = {} THEN <<>> ELSE f[s \ {Max(s)}] \o Emitted(ds, Max(s))
             u == SqlOf(ds)
  <1>1. ASSUME NEW i \in 1 .. n PROVE Emitted(ds, i) \in Seq(S)
    <2>1. IsSequence(Emitted(ds, i))
      BY EmittedWrites
    <2>2. Range(Emitted(ds, i)) \subseteq S
      OBVIOUS
    <2> HIDE DEF S
    <2> QED
      BY <2>1, <2>2, SeqWider DEF IsSequence, IsSeq
  <1> HIDE DEF S
  <1>2. F \in [Seq(S) \X (1 .. n) -> Seq(S)]
    <2>1. \A x \in Seq(S), i \in 1 .. n : x \o Emitted(ds, i) \in Seq(S)
      BY <1>1, Joins DEF IsSeq
    <2> QED
      BY <2>1
  <1>3. PICK f \in [SUBSET (1 .. n) -> Seq(S)] : Folded(f, F, <<>>, n)
    <2>1. <<>> \in Seq(S)
      OBVIOUS
    <2> HIDE DEF F
    <2> QED
      BY <1>2, <2>1, FoldExists
  <1>4. ASSUME NEW s \in SUBSET (1 .. n), s # {}
        PROVE  F[f[s \ {Max(s)}], Max(s)] = f[s \ {Max(s)}] \o Emitted(ds, Max(s))
    <2>1. Max(s) \in 1 .. n
      BY <1>4, MaxIs
    <2>2. f[s \ {Max(s)}] \in Seq(S)
      OBVIOUS
    <2> QED
      BY <2>1, <2>2
  <1>5. f = [s \in SUBSET (1 .. n) |-> Value(f, s)]
    <2> HIDE DEF F
    <2>1. f = [s \in SUBSET (1 .. n) |-> IF s = {} THEN <<>> ELSE F[f[s \ {Max(s)}], Max(s)]]
      BY <1>3, Zenon DEF Folded
    <2>2. \A s \in SUBSET (1 .. n) :
            (IF s = {} THEN <<>> ELSE F[f[s \ {Max(s)}], Max(s)]) = Value(f, s)
      BY <1>4
    <2> HIDE DEF Value
    <2> QED
      BY <2>1, <2>2
  <1>6. u = [s \in SUBSET (1 .. n) |-> Value(u, s)]
    <2> DEFINE places == [i \in DOMAIN ds |-> i]
               AtPlaces(g, s) == IF s = {} THEN <<>>
                               ELSE g[s \ {Max(s)}] \o Emitted(ds, places[Max(s)])
    <2>1. DOMAIN places = 1 .. n
      OBVIOUS
    <2>2. ASSUME NEW g, NEW s \in SUBSET (1 .. n) PROVE Value(g, s) = AtPlaces(g, s)
      <3>1. s # {} => places[Max(s)] = Max(s)
        BY MaxIs
      <3> QED
        BY <3>1
    <2>3. u = CHOOSE g : g = [s \in SUBSET DOMAIN places |-> AtPlaces(g, s)]
      BY DEF SqlOf
    <2>4. f = [s \in SUBSET DOMAIN places |-> AtPlaces(f, s)]
      <3> HIDE DEF Value, AtPlaces, places
      <3> QED
        BY <1>5, <2>1, <2>2
    <2> HIDE DEF AtPlaces, places, Value, u
    <2>5. u = [s \in SUBSET DOMAIN places |-> AtPlaces(u, s)]
      BY <2>3, <2>4, Zenon
    <2> QED
      BY <2>1, <2>2, <2>5
  <1> HIDE DEF Value
  <1>7. \A s \in SUBSET (1 .. n) : u[s] = Value(u, s)
    BY <1>6
  <1>8. u[1 .. 0] = <<>>
    <2>1. 1 .. 0 = {} /\ {} \in SUBSET (1 .. n)
      OBVIOUS
    <2> QED
      BY <1>7, <2>1 DEF Value
  <1>9. ASSUME NEW k \in 1 .. n PROVE u[1 .. k] = u[1 .. (k - 1)] \o Emitted(ds, k)
    <2>1. k \in Nat /\ k > 0 /\ 1 .. k \in SUBSET (1 .. n)
      OBVIOUS
    <2>2. u[1 .. k] = Value(u, 1 .. k)
      BY <1>7, <2>1
    <2> HIDE DEF u
    <2> QED
      BY <2>1, <2>2, LastOfPrefix DEF Value
  <1> QED
    BY <1>8, <1>9

\* Each of the first k deltas has a statement, in the order of the deltas.
InStep(sql, k) ==
    /\ IsSequence(sql)
    /\ \A p \in 1 .. Len(sql) : sql[p].delta \in 1 .. k
    /\ \A p, q \in 1 .. Len(sql) : p < q => sql[p].delta <= sql[q].delta
    /\ \A i \in 1 .. k : \E p \in 1 .. Len(sql) : sql[p].delta = i

LEMMA OneMoreEmitted ==
    ASSUME NEW k \in Nat, NEW s, NEW e, InStep(s, k), Writes(e),
           \A p \in 1 .. Len(e) : e[p].delta = k + 1
    PROVE  InStep(s \o e, k + 1)
  <1> DEFINE S == Range(s) \cup Range(e)
             u == s \o e
             m == Len(s)
             l == Len(e)
  <1>1. IsSeq(s, S) /\ IsSeq(e, S)
    BY SeqWider DEF Writes, InStep, IsSequence, IsSeq
  <1>2. /\ IsSequence(u) /\ m \in Nat /\ l \in Nat /\ Len(u) = m + l
        /\ \A p \in 1 .. m : u[p] = s[p]
        /\ \A p \in 1 .. l : u[m + p] = e[p]
    <2>1. IsSeq(u, S) /\ IsJoin(u, s, e)
      BY <1>1, Joins
    <2> HIDE DEF S, u
    <2> QED
      BY <2>1, HasRange DEF IsJoin, IsSeq
  <1>3. l # 0
    BY <1>1, EmptySeq DEF IsSeq, Writes
  <1> HIDE DEF u, m, l
  <1>4. ASSUME NEW p \in 1 .. Len(u)
        PROVE  \/ p \in 1 .. m /\ u[p].delta = s[p].delta /\ s[p].delta \in 1 .. k
               \/ p > m /\ u[p].delta = k + 1
    <2>1. CASE p <= m
      <3>1. p \in 1 .. m
        BY <1>2, <2>1
      <3> QED
        BY <1>2, <3>1 DEF InStep, m
    <2>2. CASE p > m
      <3>1. p - m \in 1 .. l /\ m + (p - m) = p
        BY <1>2, <2>2
      <3> QED
        BY <1>2, <2>2, <3>1 DEF l
    <2> QED
      BY <1>2, <2>1, <2>2
  <1>5. ASSUME NEW p \in 1 .. Len(u), NEW q \in 1 .. Len(u), p < q
        PROVE  u[p].delta <= u[q].delta
    <2>1. \A i, j \in 1 .. m : i < j => s[i].delta <= s[j].delta
      BY DEF InStep, m
    <2> QED
      BY <1>2, <1>4, <1>5, <2>1
  <1>6. ASSUME NEW i \in 1 .. k + 1 PROVE \E p \in 1 .. Len(u) : u[p].delta = i
    <2>1. CASE i = k + 1
      <3>1. 1 \in 1 .. l /\ m + 1 \in 1 .. Len(u)
        BY <1>2, <1>3
      <3>2. u[m + 1].delta = k + 1
        BY <1>2, <3>1 DEF l
      <3> QED
        BY <2>1, <3>1, <3>2
    <2>2. CASE i \in 1 .. k
      <3>1. PICK p \in 1 .. m : s[p].delta = i
        BY <2>2 DEF InStep, m
      <3>2. p \in 1 .. Len(u)
        BY <1>2
      <3> QED
        BY <1>2, <3>1, <3>2
    <2> QED
      BY <2>1, <2>2
  <1>7. \A p \in 1 .. Len(u) : u[p].delta \in 1 .. k + 1
    BY <1>4
  <1> QED
    BY <1>2, <1>5, <1>6, <1>7 DEF InStep, u

\* emit writes, for any deltas, a sequence of statements: some for each of them, and
\* those of one before those of the next.
THEOREM EmissionIsWhole ==
    ASSUME NEW n \in Nat, NEW ds, DOMAIN ds = 1 .. n, \A i \in 1 .. n : IsDelta(ds[i])
    PROVE  InStep(emit(ds), n)
  <1> DEFINE u(k) == SqlOf(ds)[1 .. k]
             T == {k \in Nat : k <= n => InStep(u(k), k)}
  <1>1. u(0) = <<>> /\ \A k \in 1 .. n : u(k) = u(k - 1) \o Emitted(ds, k)
    BY SqlStep
  <1>2. emit(ds) = u(n)
    BY EmitIs
  <1> HIDE DEF u
  <1>3. 0 \in T
    <2>1. InStep(<<>>, 0)
      BY DEF InStep, IsSequence, Range
    <2> QED
      BY <1>1, <2>1
  <1>4. ASSUME NEW k \in Nat, k \in T PROVE k + 1 \in T
    <2> SUFFICES ASSUME k + 1 <= n PROVE InStep(u(k + 1), k + 1)
      OBVIOUS
    <2>1. k + 1 \in 1 .. n /\ (k + 1) - 1 = k /\ InStep(u(k), k)
      BY <1>4
    <2>2. u(k + 1) = u(k) \o Emitted(ds, k + 1)
      BY <1>1, <2>1
    <2> DEFINE e == Emitted(ds, k + 1)
    <2>3. Writes(e) /\ \A p \in 1 .. Len(e) : e[p].delta = k + 1
      <3>1. IsDelta(ds[k + 1])
        BY <2>1
      <3> QED
        BY <3>1, EmittedWrites DEF Writes
    <2> HIDE DEF e
    <2>4. InStep(u(k) \o e, k + 1)
      BY <2>1, <2>3, OneMoreEmitted
    <2> QED
      BY <2>2, <2>4 DEF e
  <1> HIDE DEF T
  <1>5. n \in T
    BY <1>3, <1>4, ByInduction
  <1> QED
    BY <1>2, <1>5 DEF T

-----------------------------------------------------------------------------
(* Types *)

LEMMA DiffIsKeyed ==
    ASSUME NEW ds, IsDiff(ds)
    PROVE  /\ Len(ds) \in Nat /\ Keyed(ds, Len(ds))
           /\ DOMAIN ds = 1 .. Len(ds) /\ \A i \in 1 .. Len(ds) : IsDelta(ds[i])
  <1>1. /\ ds \in Seq(Range(ds))
        /\ \A i \in DOMAIN ds : IsDelta(ds[i]) /\ sort_key(ds[i]) \in Words
    BY DEF IsDiff, Words
  <1>2. Len(ds) \in Nat /\ DOMAIN ds = 1 .. Len(ds)
    BY <1>1
  <1> QED
    BY <1>1, <1>2 DEF Keyed

\* What order_deltas keeps are deltas it was given.
LEMMA OrderIsDiff ==
    ASSUME NEW ds, IsDiff(ds)
    PROVE  IsDiff(order_deltas(ds).deltas)
  <1> DEFINE nodes == Nodes(ds)
             n == Len(nodes)
             o == Places(ds)
             a == order_deltas(ds).deltas
  <1>1. Len(ds) \in Nat /\ Keyed(ds, Len(ds))
    BY DiffIsKeyed
  <1>2. /\ n \in Nat /\ Keyed(nodes, n)
        /\ \A d \in Range(nodes) : d \in Range(ds)
    BY <1>1, NodesAre
  <1>3. /\ IsSeq(o, 1 .. n) /\ DOMAIN o = 1 .. Len(o)
        /\ a = [i \in DOMAIN o |-> nodes[o[i]]]
    BY <1>1, OrderIs
  <1>4. \A d \in Range(ds) : IsDelta(d) /\ sort_key(d) \in Seq(Range(Alphabet))
    BY DEF IsDiff, Range
  <1> HIDE DEF nodes, n, o, a
  <1>5. Len(o) \in Nat /\ \A i \in 1 .. Len(o) : o[i] \in 1 .. n
    BY <1>3, SeqIs
  <1>6. \A i \in 1 .. n : nodes[i] \in Range(ds)
    BY <1>2 DEF Keyed, Range
  <1>7. DOMAIN a = 1 .. Len(o) /\ \A i \in 1 .. Len(o) : a[i] \in Range(ds) /\ a[i] \in Range(a)
    BY <1>3, <1>5, <1>6 DEF Range
  <1>8. a \in Seq(Range(a))
    <2>1. a = [i \in 1 .. Len(o) |-> a[i]]
      BY <1>3
    <2> QED
      BY <1>5, <1>7, <2>1
  <1> QED
    BY <1>4, <1>7, <1>8 DEF IsDiff, a

LEMMA LevelsOfDiff ==
    ASSUME NEW ds, IsDiff(ds)
    PROVE  assess_deltas(ds) \in Seq(Levels) /\ Len(assess_deltas(ds)) = Len(ds)
  <1> DEFINE created == {d.target : d \in {x \in Range(ds) : x.kind = "CreateTable"}}
             resolved == _resolved_view_dependencies(ds)
             level(i) == classify_risk(ds[i], created, resolved)
  <1>1. assess_deltas(ds) = [i \in DOMAIN ds |-> level(i)]
    BY DEF assess_deltas
  <1>2. /\ Len(ds) \in Nat /\ DOMAIN ds = 1 .. Len(ds)
        /\ \A i \in 1 .. Len(ds) : level(i) \in Levels
    BY DiffIsKeyed, EveryDeltaHasLevel
  <1> HIDE DEF level
  <1> QED
    BY <1>1, <1>2

\* What a bundle is read as has a length.
LEMMA LoadedIsSequence ==
    ASSUME NEW b, NEW ls, Readable(b.manifest, ls), Loaded(b)
    PROVE  Len(loaded') \in Nat
  <1> DEFINE us == b.manifest.units
             read == load_bundle(b.manifest, b.up)
  <1>1. Len(us) \in Nat /\ DOMAIN us = 1 .. Len(us)
    BY DEF Readable, IsSequence
  <1>2. CASE read = <<>>
    BY <1>2 DEF Loaded
  <1>3. CASE read # <<>>
    <2>1. loaded' = read[1]
      BY <1>3 DEF Loaded
    <2>2. \E u : read[1] = [i \in DOMAIN us |-> u[i]]
      <3> DEFINE r == [i \in DOMAIN us |-> UnitOf(us[i], b.up)]
      <3>1. read = <<r>>
        BY <1>3 DEF load_bundle, UnitOf, StatementOf
      <3> HIDE DEF r, read
      <3>2. read[1] = r
        BY <3>1
      <3>3. r = [i \in DOMAIN us |-> r[i]]
        BY DEF r
      <3> QED
        BY <3>2, <3>3
    <2>3. PICK u : loaded' = [i \in DOMAIN us |-> u[i]]
      BY <2>1, <2>2
    <2> HIDE DEF us
    <2> QED
      BY <1>1, <2>3
  <1> QED
    BY <1>2, <1>3

\* What is cut into units has statements for every delta, and those of a delta come
\* before those of the deltas after it.
SqlFollowsDeltas ==
    phase \in {"split", "write", "load"} =>
        /\ {statements[i].delta : i \in DOMAIN statements} = DOMAIN deltas
        /\ \A i, j \in DOMAIN statements : i < j => statements[i].delta <= statements[j].delta

\* TypeOK, that a request keeps its fields, and where the statements are from.
TypeInv == TypeOK /\ "maxRisk" \in DOMAIN request /\ SqlFollowsDeltas

\* What diff returns.
DiffTyped == phase = "order" => IsDiff(deltas)

\* TypeOK in parts: what the steps have made, where they are, what they count.
Made ==
    /\ levels \in Seq(SAFE .. BLOCKED) /\ IsSequence(statements)
    /\ request.maxRisk \in SAFE .. DESTRUCTIVE
    /\ phase \in {"emit", "split", "write", "load", "apply"} => Len(levels) = Len(deltas)
    /\ phase \in {"order", "assess", "emit"} => IsDiff(deltas)
    /\ "maxRisk" \in DOMAIN request

Phased ==
    /\ phase \in PHASES
    /\ outcome \in REFUSALS \cup {"", "rejected", "applied"}
    /\ (outcome # "") = (phase = "end")

Counted ==
    /\ at \in 1 .. Len(statements) + 1 /\ open \in 0 .. Len(statements)
    /\ done \in 0 .. Len(loaded)
    /\ faults \in 0 .. Faults

LEMMA TypeParts == TypeInv <=> Made /\ Phased /\ Counted /\ SqlFollowsDeltas
  BY Zenon DEF TypeInv, TypeOK, Made, Phased, Counted, IsSequence

\* A step goes on, or it ends the migration and says how.
LEMMA StepPhased ==
    ASSUME Phased, phase # "end",
           \/ phase' = "end" /\ outcome' \in REFUSALS \cup {"rejected", "applied"}
           \/ phase' \in PHASES \ {"end"} /\ outcome' = outcome
    PROVE  Phased'
  <1>1. outcome = ""
    BY DEF Phased
  <1>2. (outcome' # "") = (phase' = "end")
    BY <1>1 DEF REFUSALS
  <1>3. phase' \in PHASES /\ outcome' \in REFUSALS \cup {"", "rejected", "applied"}
    BY <1>1 DEF PHASES
  <1> QED
    BY <1>2, <1>3, Zenon DEF Phased

LEMMA InitTypes == Init => TypeInv
  <1> SUFFICES ASSUME Init PROVE TypeInv
    OBVIOUS
  <1>1. /\ request.maxRisk \in SAFE .. DESTRUCTIVE /\ "maxRisk" \in DOMAIN request
        /\ phase = "compare" /\ outcome = ""
        /\ levels = <<>> /\ statements = <<>> /\ loaded = <<>>
        /\ at = 1 /\ open = 0 /\ done = 0 /\ faults = 0
    BY RequestsAssumption DEF Init
  <1>2. Made
    <2>1. IsSequence(<<>>) /\ <<>> \in Seq(SAFE .. BLOCKED)
      BY EmptySeq DEF IsSequence
    <2>2. levels \in Seq(SAFE .. BLOCKED) /\ IsSequence(statements)
      BY <1>1, <2>1, Zenon
    <2>3. /\ phase \notin {"emit", "split", "write", "load", "apply"}
          /\ phase \notin {"order", "assess", "emit"}
      BY <1>1
    <2> QED
      BY <1>1, <2>2, <2>3, Zenon DEF Made
  <1>3. Phased
    BY <1>1 DEF Phased, PHASES
  <1>4. Counted
    <2>1. Len(statements) = 0 /\ Len(loaded) = 0
      BY <1>1
    <2>2. 0 \in 0 .. Faults
      BY FaultsAssumption
    <2>3. at = 1 /\ open = 0 /\ done = 0 /\ faults = 0
      BY <1>1
    <2> QED
      BY <2>1, <2>2, <2>3 DEF Counted
  <1>5. SqlFollowsDeltas
    BY <1>1 DEF SqlFollowsDeltas
  <1> QED
    BY <1>2, <1>3, <1>4, <1>5, TypeParts

LEMMA TypeMade == ASSUME Made', Phased', Counted', SqlFollowsDeltas' PROVE TypeInv'
  BY Zenon DEF TypeInv, TypeOK, Made, Phased, Counted, IsSequence

LEMMA CompareTypes == ASSUME TypeInv, Compare, DiffTyped' PROVE TypeInv'
  <1>1. /\ phase = "compare"
        /\ \/ phase' = "end" /\ outcome' \in REFUSALS
           \/ phase' = "order" /\ outcome' = outcome
    BY DEF Compare, End, Continue, REFUSALS
  <1>2. UNCHANGED <<request, levels, statements, at, open, loaded, done, faults>>
    BY DEF Compare, split, files
  <1>3. Made'
    BY <1>1, <1>2, TypeParts DEF Made, DiffTyped
  <1>4. Phased'
    BY <1>1, TypeParts, StepPhased DEF PHASES
  <1>5. Counted' /\ SqlFollowsDeltas'
    BY <1>1, <1>2, TypeParts DEF Counted, SqlFollowsDeltas
  <1> QED
    BY <1>3, <1>4, <1>5, TypeMade

LEMMA OrderTypes == ASSUME TypeInv, Order PROVE TypeInv'
  <1>1. /\ phase = "order"
        /\ \/ phase' = "end" /\ outcome' \in REFUSALS
           \/ phase' = "assess" /\ outcome' = outcome
    BY DEF Order, End, Continue, REFUSALS
  <1>2. UNCHANGED <<request, levels, statements, at, open, loaded, done, faults>>
    BY DEF Order, split, files
  <1>3. IsDiff(deltas')
    BY <1>1, OrderIsDiff, TypeParts DEF Order, Made
  <1>4. Made'
    BY <1>1, <1>2, <1>3, TypeParts DEF Made
  <1>5. Phased'
    BY <1>1, TypeParts, StepPhased DEF PHASES
  <1>6. Counted' /\ SqlFollowsDeltas'
    BY <1>1, <1>2, TypeParts DEF Counted, SqlFollowsDeltas
  <1> QED
    BY <1>4, <1>5, <1>6, TypeMade

LEMMA AssessTypes == ASSUME TypeInv, Assess PROVE TypeInv'
  <1>1. /\ phase = "assess"
        /\ \/ phase' = "end" /\ outcome' \in REFUSALS
           \/ phase' = "emit" /\ outcome' = outcome
    BY DEF Assess, End, Continue, REFUSALS
  <1>2. UNCHANGED <<request, statements, at, open, loaded, done, faults>>
    BY DEF Assess, split, files
  <1>3. IsDiff(deltas')
    BY <1>1, OrderIsDiff, TypeParts DEF Assess, Made
  <1>4. levels' \in Seq(SAFE .. BLOCKED) /\ Len(levels') = Len(deltas')
    <2>1. levels' = assess_deltas(deltas')
      BY DEF Assess
    <2> QED
      BY <1>3, <2>1, LevelsOfDiff DEF Levels
  <1>5. Made'
    BY <1>1, <1>2, <1>3, <1>4, TypeParts DEF Made
  <1>6. Phased'
    BY <1>1, TypeParts, StepPhased DEF PHASES
  <1>7. Counted' /\ SqlFollowsDeltas'
    BY <1>1, <1>2, TypeParts DEF Counted, SqlFollowsDeltas
  <1> QED
    BY <1>5, <1>6, <1>7, TypeMade

LEMMA EmitTypes == ASSUME TypeInv, SplitInv, Emit PROVE TypeInv'
  <1>1. /\ phase = "emit"
        /\ \/ phase' = "end" /\ outcome' \in REFUSALS /\ statements' = <<>>
           \/ phase' = "split" /\ outcome' = outcome /\ statements' = emit(deltas)
    BY DEF Emit, End, Continue, REFUSALS
  <1>2. /\ UNCHANGED <<request, deltas, levels, at, open, loaded, done, faults>>
        /\ at = 1 /\ open = 0
    BY <1>1 DEF Emit, split, files, SplitInv
  <1>3. /\ Len(deltas) \in Nat /\ DOMAIN deltas = 1 .. Len(deltas)
        /\ \A i \in 1 .. Len(deltas) : IsDelta(deltas[i])
    BY <1>1, DiffIsKeyed, TypeParts DEF Made
  <1>4. InStep(emit(deltas), Len(deltas))
    BY <1>3, EmissionIsWhole
  <1>5. IsSequence(<<>>)
    BY EmptySeq DEF IsSequence
  <1>6. IsSequence(statements')
    BY <1>1, <1>4, <1>5 DEF InStep
  <1>7. Len(statements') \in Nat /\ DOMAIN statements' = 1 .. Len(statements')
    BY <1>6 DEF IsSequence
  <1>8. SqlFollowsDeltas'
    <2> SUFFICES ASSUME phase' = "split" PROVE SqlFollowsDeltas'
      BY <1>1 DEF SqlFollowsDeltas
    <2>1. InStep(statements', Len(deltas'))
      BY <1>1, <1>2, <1>4
    <2>2. {statements'[i].delta : i \in DOMAIN statements'} = DOMAIN deltas'
      BY <1>2, <1>3, <1>7, <2>1 DEF InStep
    <2> QED
      BY <1>7, <2>1, <2>2 DEF SqlFollowsDeltas, InStep
  <1>9. Made'
    BY <1>1, <1>2, <1>6, TypeParts DEF Made
  <1>10. Phased'
    BY <1>1, TypeParts, StepPhased DEF PHASES
  <1>11. Counted'
    BY <1>2, <1>7, TypeParts DEF Counted
  <1> QED
    BY <1>8, <1>9, <1>10, <1>11, TypeMade

LEMMA SplitTypes ==
    ASSUME TypeInv, SplitAlone \/ SplitGrouped \/ SplitEnd
    PROVE  TypeInv'
  <1>1. /\ phase = "split" /\ phase' \in {"split", "write"}
        /\ UNCHANGED <<request, deltas, levels, statements, loaded, done, faults, outcome>>
    BY DEF SplitAlone, SplitGrouped, SplitEnd, Continue, plan, files
  <1>2. Made' /\ SqlFollowsDeltas'
    BY <1>1, TypeParts DEF Made, SqlFollowsDeltas
  <1>3. Phased'
    BY <1>1, TypeParts, StepPhased DEF PHASES
  <1>4. Len(statements) \in Nat /\ DOMAIN statements = 1 .. Len(statements)
    BY TypeParts DEF Made, IsSequence
  <1>5. at \in 1 .. Len(statements) + 1 /\ open \in 0 .. Len(statements)
    BY TypeParts DEF Counted
  <1>6. at' \in 1 .. Len(statements) + 1 /\ open' \in 0 .. Len(statements)
    <2>1. CASE SplitAlone \/ SplitGrouped
      <3>1. at \in DOMAIN statements /\ at' = at + 1 /\ open' \in {0, at, open}
        BY <2>1 DEF SplitAlone, SplitGrouped
      <3> QED
        BY <1>4, <1>5, <3>1
    <2>2. CASE SplitEnd
      BY <1>4, <1>5, <2>2 DEF SplitEnd
    <2> QED
      BY <2>1, <2>2
  <1>7. Counted'
    BY <1>1, <1>6, TypeParts DEF Counted
  <1> QED
    BY <1>2, <1>3, <1>7, TypeMade

LEMMA WriteTypes == ASSUME TypeInv, Write PROVE TypeInv'
  <1>1. /\ phase = "write"
        /\ \/ phase' = "end" /\ outcome' \in REFUSALS
           \/ phase' = "load" /\ outcome' = outcome
        /\ UNCHANGED <<request, deltas, levels, statements, at, open, loaded, done, faults>>
    BY DEF Write, End, Continue, REFUSALS, plan, split
  <1>2. Made' /\ SqlFollowsDeltas' /\ Counted'
    BY <1>1, TypeParts DEF Made, SqlFollowsDeltas, Counted
  <1>3. Phased'
    BY <1>1, TypeParts, StepPhased DEF PHASES
  <1> QED
    BY <1>2, <1>3, TypeMade

LEMMA LoadTypes ==
    ASSUME TypeInv, SplitInv, LoadInv, Load \/ LoadFaulty
    PROVE  TypeInv'
  <1>1. /\ phase = "load"
        /\ \/ phase' = "end" /\ outcome' \in REFUSALS
           \/ phase' = "apply" /\ outcome' = outcome
        /\ UNCHANGED <<request, deltas, levels, statements, at, open, done>>
        /\ faults' = faults \/ (faults < Faults /\ faults' = faults + 1)
        /\ \E b \in {bundle[1]} \cup Faulty(bundle[1]) : Loaded(b)
    BY DEF Load, LoadFaulty, Loaded, End, Continue, REFUSALS, plan, split
  <1>2. bundle = <<render_bundle(Planned)>> /\ loaded = <<>>
    BY <1>1 DEF LoadInv, Early
  <1>3. PICK b \in {render_bundle(Planned)} \cup Faulty(render_bundle(Planned)) : Loaded(b)
    BY <1>1, <1>2
  <1>4. Readable(b.manifest, levels)
    BY <1>3, WrittenReadable, FaultyReadable, HasRange DEF Readable
  <1>5. Len(loaded') \in Nat
    BY <1>3, <1>4, LoadedIsSequence
  <1>6. Len(loaded) = 0
    BY <1>2
  <1>7. Counted'
    <2>1. done = 0 /\ faults' \in 0 .. Faults
      BY <1>1, <1>6, TypeParts, FaultsAssumption DEF Counted
    <2> QED
      BY <1>1, <1>5, <2>1, TypeParts DEF Counted
  <1>8. Made' /\ SqlFollowsDeltas'
    BY <1>1, TypeParts DEF Made, SqlFollowsDeltas
  <1>9. Phased'
    BY <1>1, TypeParts, StepPhased DEF PHASES
  <1> QED
    BY <1>7, <1>8, <1>9, TypeMade

LEMMA ApplyTypes == ASSUME TypeInv, Apply_unit \/ Applied PROVE TypeInv'
  <1>1. /\ phase = "apply"
        /\ \/ phase' = "end" /\ outcome' \in {"rejected", "applied"}
           \/ phase' = "apply" /\ outcome' = outcome
        /\ UNCHANGED <<request, deltas, levels, statements, at, open, loaded, faults>>
        /\ done' = done \/ (done < Len(loaded) /\ done' = done + 1)
    BY DEF Apply_unit, Applied, End, Continue, plan, split, files
  <1>2. Made' /\ SqlFollowsDeltas'
    BY <1>1, TypeParts DEF Made, SqlFollowsDeltas
  <1>3. Phased'
    BY <1>1, TypeParts, StepPhased DEF PHASES
  <1>4. Len(loaded) \in Int /\ done' \in 0 .. Len(loaded)
    BY <1>1, TypeParts DEF Counted
  <1>5. Counted'
    BY <1>1, <1>4, TypeParts DEF Counted
  <1> QED
    BY <1>2, <1>3, <1>5, TypeMade

LEMMA InterruptTypes == ASSUME TypeInv, Interrupt PROVE TypeInv'
  <1>1. /\ phase = "apply" /\ phase' = "compare" /\ outcome' = outcome
        /\ levels' = <<>> /\ statements' = <<>> /\ loaded' = <<>>
        /\ at' = 1 /\ open' = 0 /\ done' = 0
        /\ faults' = faults + 1 /\ faults < Faults
    BY DEF Interrupt
  <1>2. request'.maxRisk = request.maxRisk /\ "maxRisk" \in DOMAIN request'
    BY DEF Interrupt, TypeInv
  <1>3. Made'
    BY <1>1, <1>2, EmptySeq, TypeParts DEF Made, IsSequence
  <1>4. Len(statements') = 0 /\ Len(loaded') = 0
    BY <1>1
  <1>5. faults' \in 0 .. Faults
    BY <1>1, FaultsAssumption, TypeParts DEF Counted
  <1>6. Counted'
    BY <1>1, <1>4, <1>5 DEF Counted
  <1>7. Phased' /\ SqlFollowsDeltas'
    BY <1>1, TypeParts, StepPhased DEF PHASES, SqlFollowsDeltas
  <1> QED
    BY <1>3, <1>6, <1>7, TypeMade

LEMMA TypeStep == SplitInv /\ LoadInv /\ TypeInv /\ DiffTyped' /\ [Next]_vars => TypeInv'
  <1> SUFFICES ASSUME SplitInv, LoadInv, TypeInv, DiffTyped', [Next]_vars PROVE TypeInv'
    OBVIOUS
  <1>1. CASE UNCHANGED vars \/ Terminated
    <2>1. UNCHANGED <<request, phase, deltas, levels, statements, at, open, loaded, done, faults, outcome>>
      BY <1>1 DEF Terminated, vars, plan, split, files
    <2> QED
      BY <2>1 DEF TypeInv, TypeOK, SqlFollowsDeltas
  <1> QED
    BY <1>1, CompareTypes, OrderTypes, AssessTypes, EmitTypes, SplitTypes, WriteTypes,
       LoadTypes, ApplyTypes, InterruptTypes DEF Next

LEMMA TypeInvariance == Spec /\ []DiffTyped => []TypeInv
  <1> QED
    BY InitTypes, TypeStep, SplitInvariance, LoadInvariance, PTL DEF Spec

\* As long as diff returns deltas whose names can be compared, every later step
\* finds the types it needs: the order keeps the deltas, every delta has a level and
\* statements, and what is read of a bundle is a sequence of units.
THEOREM TypesAreKept == Spec /\ []DiffTyped => []TypeOK
  <1>1. TypeInv => TypeOK
    BY DEF TypeInv
  <1> QED
    BY <1>1, TypeInvariance, PTL

\* No delta that was ordered and assessed goes without SQL, and the statements of
\* one come before those of the next until the bundle is read.
THEOREM SqlIsWhole == Spec /\ []DiffTyped => []SqlFollowsDeltas
  <1>1. TypeInv => SqlFollowsDeltas
    BY DEF TypeInv
  <1> QED
    BY <1>1, TypeInvariance, PTL

\* A bundle that nobody touched is read as the plan it was written for.
THEOREM WrittenIsReadBack == Spec /\ []DiffTyped => WrittenIsRead
  <1>1. SplitInv /\ LoadInv /\ TypeOK /\ [Next]_vars => [Load => loaded' = PlannedUnits]_vars
    <2> SUFFICES ASSUME SplitInv, LoadInv, TypeOK, Load PROVE loaded' = PlannedUnits
      OBVIOUS
    <2> DEFINE R == SAFE .. BLOCKED
               b == render_bundle(Planned)
    <2>1. phase = "load" /\ Loaded(bundle[1])
      BY DEF Load
    <2>2. Covers /\ DOMAIN levels = DOMAIN deltas /\ bundle = <<b>>
      BY <2>1 DEF LoadInv
    <2>3. levels \in Seq(R) /\ IsSequence(statements)
      BY DEF TypeOK, IsSequence
    <2> HIDE DEF R
    <2>4. IsPlan(Planned, SqlsOf(statements), R)
      BY <2>1, <2>2, <2>3, PlanIs
    <2>5. load_bundle(b.manifest, b.up) = <<Planned.units>>
      BY <2>4, ReadAsWritten
    <2> HIDE DEF b
    <2>6. load_bundle(b.manifest, b.up) # <<>> /\ load_bundle(b.manifest, b.up)[1] = PlannedUnits
      BY <2>5 DEF Planned
    <2>7. Loaded(b)
      BY <2>1, <2>2
    <2> QED
      BY <2>6, <2>7 DEF Loaded
  <1> QED
    BY <1>1, SplitInvariance, LoadInvariance, TypesAreKept, PTL DEF Spec, WrittenIsRead

-----------------------------------------------------------------------------
\* The order.

\* What is assessed is in its order.
OrderInv == phase = "assess" => order_deltas(deltas).deltas = deltas

LEMMA OrderStep == OrderInv /\ DiffTyped /\ [Next]_vars => OrderInv'
  <1> SUFFICES ASSUME OrderInv, DiffTyped, [Next]_vars PROVE OrderInv'
    OBVIOUS
  <1>1. CASE Order
    <2>1. /\ deltas' = order_deltas(deltas).deltas
          /\ phase' = "assess" => ~order_deltas(deltas).cyclic
      BY <1>1 DEF Order, End, Continue
    <2>2. Len(deltas) \in Nat /\ Keyed(deltas, Len(deltas))
      BY <1>1, DiffIsKeyed DEF Order, DiffTyped
    <2>3. ~order_deltas(deltas).cyclic => order_deltas(deltas').deltas = deltas'
      BY <2>1, <2>2, OrderIsIdempotent
    <2> QED
      BY <2>1, <2>3 DEF OrderInv
  <1>2. CASE Compare \/ Assess \/ Emit \/ Interrupt
    <2>1. phase' # "assess"
      BY <1>2 DEF Compare, Assess, Emit, Interrupt, End, Continue
    <2> QED
      BY <2>1 DEF OrderInv
  <1>3. CASE SplitAlone \/ SplitGrouped \/ SplitEnd \/ Write \/ Load \/ LoadFaulty \/ Apply_unit \/ Applied
    <2>1. \/ phase' = phase /\ phase # "assess"
          \/ phase' \in {"split", "write", "load", "apply", "end"}
      BY <1>3 DEF SplitAlone, SplitGrouped, SplitEnd, Write, Load, LoadFaulty, Loaded, Apply_unit,
                  Applied, End, Continue
    <2> QED
      BY <2>1 DEF OrderInv
  <1>4. CASE Terminated \/ UNCHANGED vars
    <2>1. phase' = phase /\ deltas' = deltas
      BY <1>4 DEF Terminated, vars, plan
    <2> QED
      BY <2>1 DEF OrderInv
  <1> QED
    BY <1>1, <1>2, <1>3, <1>4 DEF Next

\* What assess_deltas orders once more keeps the order that was shown.
THEOREM OrderIsStable == Spec /\ []DiffTyped => []StableOrder
  <1>1. Init => OrderInv
    BY DEF Init, OrderInv
  <1>2. OrderInv => StableOrder
    BY DEF OrderInv, StableOrder
  <1> QED
    BY <1>1, <1>2, OrderStep, PTL DEF Spec
-----------------------------------------------------------------------------
(* What is taken away *)

\* A sequence of SQL that takes nothing away.
Mild(s) == IsSequence(s) /\ \A p \in 1 .. Len(s) : s[p].do \notin {"drop", "remove"}

\* One that brings something, and that brings something after each drop.
Brings(s) == \E p \in 1 .. Len(s) : s[p].do = "create"
MakesGood(s) ==
    \A p \in 1 .. Len(s) :
        s[p].do \in {"drop", "remove"} =>
            s[p].do = "drop" /\ \E q \in 1 .. Len(s) : p < q /\ s[q].do = "create"

LEMMA MildMakesGood == ASSUME NEW s, Mild(s) PROVE MakesGood(s)
  BY DEF Mild, MakesGood

LEMMA OneMild ==
    ASSUME NEW x, x.do \notin {"drop", "remove"}
    PROVE  Mild(<<x>>) /\ (x.do = "create" => Brings(<<x>>))
  <1>1. IsSequence(<<x>>)
    BY OneWrites DEF Writes
  <1>2. Len(<<x>>) = 1 /\ <<x>>[1] = x
    OBVIOUS
  <1> QED
    BY <1>1, <1>2 DEF Mild, Brings

LEMMA NoneMild == Mild(<<>>)
  BY DEF Mild, IsSequence, Range

\* Parts of sequences.
LEMMA JoinedParts ==
    ASSUME NEW s, NEW t, IsSequence(s), IsSequence(t)
    PROVE  /\ IsSequence(s \o t) /\ IsJoin(s \o t, s, t)
           /\ \A p \in 1 .. Len(s \o t) :
                \/ p \in 1 .. Len(s) /\ (s \o t)[p] = s[p]
                \/ p - Len(s) \in 1 .. Len(t) /\ (s \o t)[p] = t[p - Len(s)]
  <1> DEFINE S == Range(s) \cup Range(t)
             u == s \o t
  <1>1. IsSeq(s, S) /\ IsSeq(t, S)
    BY SeqWider DEF IsSequence, IsSeq
  <1>2. IsSeq(u, S) /\ IsJoin(u, s, t)
    BY <1>1, Joins
  <1>3. IsSequence(u)
    BY <1>2, HasRange DEF IsSeq
  <1> HIDE DEF u, S
  <1>4. ASSUME NEW p \in 1 .. Len(u)
        PROVE  \/ p \in 1 .. Len(s) /\ u[p] = s[p]
               \/ p - Len(s) \in 1 .. Len(t) /\ u[p] = t[p - Len(s)]
    <2>1. CASE p <= Len(s)
      BY <1>2, <2>1 DEF IsJoin
    <2>2. CASE ~(p <= Len(s))
      <3>1. p - Len(s) \in 1 .. Len(t) /\ Len(s) + (p - Len(s)) = p
        BY <1>2, <2>2 DEF IsJoin
      <3> QED
        BY <1>2, <3>1 DEF IsJoin
    <2> QED
      BY <2>1, <2>2
  <1> QED
    BY <1>2, <1>3, <1>4 DEF u

LEMMA MildTogether ==
    ASSUME NEW s, NEW t, Mild(s), Mild(t)
    PROVE  Mild(s \o t) /\ (Brings(s) => Brings(s \o t))
  <1> DEFINE u == s \o t
  <1>1. IsSequence(u) /\ IsJoin(u, s, t)
    BY JoinedParts DEF Mild
  <1>2. \A p \in 1 .. Len(u) : u[p].do \notin {"drop", "remove"}
    <2>1. \A p \in 1 .. Len(u) : \/ p \in 1 .. Len(s) /\ u[p] = s[p]
                                 \/ p - Len(s) \in 1 .. Len(t) /\ u[p] = t[p - Len(s)]
      BY JoinedParts DEF Mild
    <2> HIDE DEF u
    <2> QED
      BY <2>1 DEF Mild
  <1> HIDE DEF u
  <1>3. Brings(s) => Brings(u)
    <2> SUFFICES ASSUME NEW p \in 1 .. Len(s), s[p].do = "create" PROVE Brings(u)
      BY DEF Brings
    <2>1. p \in 1 .. Len(u) /\ u[p] = s[p]
      BY <1>1 DEF IsJoin
    <2> QED
      BY <2>1 DEF Brings
  <1> QED
    BY <1>1, <1>2, <1>3 DEF Mild, u

\* What is dropped first and created then.
LEMMA DroppedAndMade ==
    ASSUME NEW r, NEW t, Mild(t), Brings(t)
    PROVE  MakesGood(<<drop(r)>> \o t)
  <1> DEFINE s == <<drop(r)>>
             u == s \o t
  <1>1. IsSequence(s) /\ IsSequence(t) /\ Len(s) = 1 /\ s[1] = drop(r)
    BY OneWrites DEF Writes, Mild
  <1>2. /\ IsJoin(u, s, t)
        /\ \A p \in 1 .. Len(u) : \/ p \in 1 .. Len(s) /\ u[p] = s[p]
                                  \/ p - Len(s) \in 1 .. Len(t) /\ u[p] = t[p - Len(s)]
    <2> HIDE DEF s
    <2> QED
      BY <1>1, JoinedParts
  <1> HIDE DEF u, s
  <1>3. PICK q \in 1 .. Len(t) : t[q].do = "create"
    BY DEF Brings
  <1>4. 1 + q \in 1 .. Len(u) /\ u[1 + q].do = "create" /\ 1 < 1 + q
    BY <1>1, <1>2, <1>3 DEF IsJoin
  <1>5. ASSUME NEW p \in 1 .. Len(u), u[p].do \in {"drop", "remove"}
        PROVE  p = 1 /\ u[p].do = "drop"
    <2>1. CASE p \in 1 .. Len(s) /\ u[p] = s[p]
      BY <1>1, <2>1 DEF drop
    <2>2. CASE p - Len(s) \in 1 .. Len(t) /\ u[p] = t[p - Len(s)]
      BY <1>5, <2>2 DEF Mild
    <2> QED
      BY <1>2, <2>1, <2>2
  <1>6. MakesGood(u)
    <2> SUFFICES ASSUME NEW p \in 1 .. Len(u), u[p].do \in {"drop", "remove"}
                 PROVE  /\ u[p].do = "drop"
                        /\ \E k \in 1 .. Len(u) : p < k /\ u[k].do = "create"
      BY DEF MakesGood
    <2>1. p = 1 /\ u[p].do = "drop"
      BY <1>5
    <2> QED
      BY <1>4, <2>1
  <1> QED
    BY <1>6 DEF u, s

\* The statements that take nothing away.
LEMMA Verbs ==
    /\ \A o : create(o).do = "create" /\ replace(o).do = "replace"
    /\ \A r, f, v : set(r, f, v).do = "set"
    /\ \A r, p, e : add(r, p, e).do = "add"
    /\ \A r, p, n, f, v : alter(r, p, n, f, v).do = "alter"
    /\ \A r, n, t, c : retype(r, n, t, c).do = "retype"
    /\ \A r, n, m : rename_column(r, n, m).do = "rename_column"
    /\ \A r, n : rename(r, n).do = "rename" /\ set_schema(r, n).do = "set_schema"
    /\ \A r, l, b, a : add_value(r, l, b, a).do = "add_value"
    /\ \A r, a, b, c : alter_policy(r, a, b, c).do = "alter_policy"
    /\ drain.do = "drain" /\ MigrationError.do = "error"
  BY DEF create, replace, set, add, alter, retype, rename_column, rename, set_schema, add_value,
         alter_policy, drain, MigrationError

LEMMA WhenMild == ASSUME NEW c, NEW x, x.do \notin {"drop", "remove"} PROVE Mild(When(c, x))
  BY OneMild, NoneMild DEF When

LEMMA StatedMild == ASSUME NEW r, NEW f, NEW v PROVE Mild(Stated(r, f, v))
  BY WhenMild, Verbs DEF Stated

LEMMA WithOwnerMild ==
    ASSUME NEW o, NEW p
    PROVE  Mild(WithOwner(create(o), p)) /\ Brings(WithOwner(create(o), p))
  <1>1. Mild(<<create(o)>>) /\ Brings(<<create(o)>>)
    BY OneMild, Verbs
  <1> QED
    BY <1>1, StatedMild, MildTogether DEF WithOwner

LEMMA RaisedMild == Mild(<<MigrationError>>)
  BY OneMild, Verbs

LEMMA TableMild == ASSUME NEW t PROVE Mild(emit_create_table(t))
  <1> DEFINE a == t.attrs
             bare == [t EXCEPT !.constraints = <<>>,
                               !.columns = IF t.attrs.partOf # <<>> THEN <<>> ELSE @,
                               !.attrs = [@ EXCEPT !.owner = <<>>, !.tablespace = <<>>,
                                                   !.comment = <<>>, !.rls = <<FALSE>>,
                                                   !.force = <<FALSE>>]]
             s1 == <<create(bare)>> \o Stated(t.ref, "owner", a.owner)
             s2 == s1 \o Stated(t.ref, "tablespace", a.tablespace)
             s3 == s2 \o Stated(t.ref, "comment", a.comment)
             s4 == s3 \o When(a.rls[1], set(t.ref, "rls", <<TRUE>>))
             s5 == s4 \o When(a.force[1], set(t.ref, "force", <<TRUE>>))
  <1>1. Mild(<<create(bare)>>)
    <2> HIDE DEF bare
    <2> QED
      BY OneMild, Verbs
  <1>2. emit_create_table(t) = <<MigrationError>> \/ emit_create_table(t) = s5
    BY DEF emit_create_table
  <1>3. \A c, f, v : Mild(When(c, set(t.ref, f, v)))
    BY WhenMild, Verbs
  <1> HIDE DEF bare, a
  <1>4. Mild(s1)
    BY <1>1, StatedMild, MildTogether
  <1> HIDE DEF s1
  <1>5. Mild(s2)
    BY <1>4, StatedMild, MildTogether
  <1> HIDE DEF s2
  <1>6. Mild(s3)
    BY <1>5, StatedMild, MildTogether
  <1> HIDE DEF s3
  <1>7. Mild(s4)
    BY <1>3, <1>6, MildTogether
  <1> HIDE DEF s4
  <1>8. Mild(s5)
    BY <1>3, <1>7, MildTogether
  <1> HIDE DEF s5
  <1> QED
    BY <1>2, <1>8, RaisedMild

LEMMA AttrsMild == ASSUME NEW r, NEW new PROVE Mild(emit_alter_table_attrs(r, new))
  <1> DEFINE Change(a) == Stated(r, a, new[a])
             comment == IF new["comment"] = <<"">> THEN <<>> ELSE new["comment"]
             remark == When(new["comment"] # <<>>, set(r, "comment", comment))
             s1 == Change("owner") \o Change("tablespace")
             s2 == s1 \o Change("unlogged")
             s3 == s2 \o remark
             s4 == s3 \o Change("rls")
             s5 == s4 \o Change("force")
  <1>1. emit_alter_table_attrs(r, new) = <<MigrationError>> \/ emit_alter_table_attrs(r, new) = s5
    BY DEF emit_alter_table_attrs
  <1>2. \A a : Mild(Change(a))
    BY StatedMild
  <1>3. Mild(remark)
    <2> HIDE DEF comment
    <2> QED
      BY WhenMild, Verbs
  <1> HIDE DEF Change, remark
  <1>4. Mild(s1)
    BY <1>2, MildTogether
  <1> HIDE DEF s1
  <1>5. Mild(s2)
    BY <1>2, <1>4, MildTogether
  <1> HIDE DEF s2
  <1>6. Mild(s3)
    BY <1>3, <1>5, MildTogether
  <1> HIDE DEF s3
  <1>7. Mild(s4)
    BY <1>2, <1>6, MildTogether
  <1> HIDE DEF s4
  <1>8. Mild(s5)
    BY <1>2, <1>7, MildTogether
  <1> HIDE DEF s5
  <1> QED
    BY <1>1, <1>8, RaisedMild

LEMMA RenameMild == ASSUME NEW r, NEW new PROVE Mild(emit_rename_table(r, new))
  <1>1. Mild(<<rename(r, new.name)>>)
    BY OneMild, Verbs
  <1>2. \A c, x, n : Mild(When(c, set_schema(x, n)))
    BY WhenMild, Verbs
  <1> QED
    BY <1>1, <1>2, MildTogether DEF emit_rename_table

LEMMA ConstraintMild == ASSUME NEW r, NEW c PROVE Mild(emit_add_constraint(r, c))
  <1>1. \A t, e : Mild(<<add(t, "constraints", e)>>)
    BY OneMild, Verbs
  <1>2. \A b, t : Mild(When(b, alter(t, "constraints", r.name, "validated", TRUE)))
    BY WhenMild, Verbs
  <1> QED
    BY <1>1, <1>2, MildTogether, RaisedMild DEF emit_add_constraint

LEMMA ColumnMild ==
    ASSUME NEW d, IsDelta(d), d.target.kind = "column", d.kind # "DropColumn"
    PROVE  Mild(emit_column(d))
  <1>1. /\ \A t, e : Mild(<<add(t, "columns", e)>>)
        /\ \A t, n, v, c : Mild(<<retype(t, n, v, c)>>)
        /\ \A t, n, f, v : Mild(<<alter(t, "columns", n, f, v)>>)
        /\ \A t, n, m : Mild(<<rename_column(t, n, m)>>)
    BY OneMild, Verbs
  <1>2. d.kind \in {"AddColumn", "AlterColumnType", "SetColumnDefault", "SetColumnNullability",
                    "RenameColumn"}
    BY DEF IsDelta, DELTAS
  <1> QED
    BY <1>1, <1>2 DEF emit_column

LEMMA IndexMakesGood ==
    ASSUME NEW d, IsDelta(d), d.target.kind = "index", d.kind # "DropIndex"
    PROVE  MakesGood(emit_index(d))
  <1> DEFINE Created(i) == <<create([i EXCEPT !.comment = <<>>])>>
                           \o Stated(i.ref, "comment", i.comment)
  <1>1. \A i : Mild(Created(i)) /\ Brings(Created(i))
    <2> TAKE i
    <2>1. \A o : Mild(<<create(o)>>) /\ Brings(<<create(o)>>)
      BY OneMild, Verbs
    <2>2. Mild(Stated(i.ref, "comment", i.comment))
      BY StatedMild
    <2> QED
      BY <2>1, <2>2, MildTogether
  <1>2. emit_index(d) = Created(d.index) \/ emit_index(d) = <<drop(d.old_index.ref)>> \o Created(d.new_index)
    BY DEF IsDelta, DELTAS, emit_index
  <1> HIDE DEF Created
  <1> QED
    BY <1>1, <1>2, DroppedAndMade, MildMakesGood

LEMMA OwnerMild ==
    /\ \A r, v : Mild(<<set(r, "owner", v)>>)
    /\ \A o, p : Mild(WithOwner(create(o), p))
  BY OneMild, Verbs, WithOwnerMild

LEMMA EnumMild ==
    ASSUME NEW d, IsDelta(d), d.target.kind = "enum",
           d.kind \notin {"DropEnum", "ReplaceEnumLabels"}
    PROVE  Mild(emit_enum(d))
  <1>1. \A r, l, b, a : Mild(<<add_value(r, l, b, a)>>)
    BY OneMild, Verbs
  <1> QED
    BY <1>1, OwnerMild DEF IsDelta, DELTAS, emit_enum

LEMMA CompositeMild ==
    ASSUME NEW d, IsDelta(d), d.target.kind = "composite_type",
           d.kind \notin {"DropCompositeType", "AlterCompositeDropAttribute", "ReplaceCompositeType"}
    PROVE  Mild(emit_composite(d))
  <1>1. \A r, e, n, f, v : /\ Mild(<<add(r, "attributes", e)>>)
                           /\ Mild(<<alter(r, "attributes", n, f, v)>>)
    BY OneMild, Verbs
  <1> QED
    BY <1>1, OwnerMild DEF IsDelta, DELTAS, emit_composite

LEMMA DomainMild ==
    ASSUME NEW d, IsDelta(d), d.target.kind = "domain_type",
           d.kind \notin {"DropDomain", "DropDomainCheck", "ReplaceDomainType"}
    PROVE  Mild(emit_domain(d))
  <1> DEFINE Validate(name) == <<drain, alter(d.target, "checks", name, "validated", TRUE)>>
             added == <<add(d.target, "checks", [d.check EXCEPT !.validated = FALSE])>>
             rest == IF d.check.validated THEN Validate(d.check.name) ELSE <<>>
  <1>1. \A name : Mild(Validate(name))
    <2> TAKE name
    <2> DEFINE x == alter(d.target, "checks", name, "validated", TRUE)
    <2>1. x.do = "alter" /\ drain.do = "drain"
      BY DEF alter, drain
    <2> HIDE DEF x
    <2>2. IsSequence(<<drain, x>>)
      BY TwoWrite DEF Writes
    <2>3. Len(<<drain, x>>) = 2 /\ <<drain, x>>[1] = drain /\ <<drain, x>>[2] = x
      OBVIOUS
    <2>4. Mild(<<drain, x>>)
      BY <2>1, <2>2, <2>3 DEF Mild
    <2> QED
      BY <2>4 DEF x
  <1>2. Mild(added \o rest)
    <2>1. Mild(added)
      BY OneMild, Verbs
    <2>2. Mild(rest)
      <3> HIDE DEF Validate
      <3> QED
        BY <1>1, NoneMild
    <2> HIDE DEF added, rest
    <2> QED
      BY <2>1, <2>2, MildTogether
  <1>3. CASE d.kind = "CreateDomain"
    <2>1. emit_domain(d) = emit_create_domain(d.domain)
      BY <1>3 DEF emit_domain
    <2>2. PICK sql : /\ Writes(sql) /\ \A p \in 1 .. Len(sql) : sql[p].do \in {"create", "add"}
                     /\ emit_create_domain(d.domain)
                            = sql \o Stated(d.domain.ref, "owner", d.domain.owner)
      BY <1>3, DomainSql DEF IsDelta
    <2>3. Mild(sql)
      BY <2>2 DEF Mild, Writes
    <2> QED
      BY <2>1, <2>2, <2>3, StatedMild, MildTogether
  <1>4. CASE d.kind = "AddDomainCheck"
    <2>1. emit_domain(d) = <<MigrationError>> \/ emit_domain(d) = added \o rest
      BY <1>4 DEF emit_domain
    <2> HIDE DEF added, rest
    <2> QED
      BY <1>2, <2>1, RaisedMild
  <1>5. CASE d.kind = "ValidateDomainCheck"
    <2>1. emit_domain(d) = <<MigrationError>> \/ emit_domain(d) = Validate(d.check_name)
      BY <1>5 DEF emit_domain
    <2> HIDE DEF Validate
    <2> QED
      BY <1>1, <2>1, RaisedMild
  <1>6. CASE d.kind \in {"AlterDomainDefault", "AlterDomainNullability", "AlterDomainAttrs"}
    <2>1. \A f, v : Mild(<<set(d.target, f, v)>>)
      BY OneMild, Verbs
    <2> QED
      BY <1>6, <2>1, RaisedMild DEF emit_domain
  <1>7. d.kind \in {"CreateDomain", "AddDomainCheck", "ValidateDomainCheck", "AlterDomainDefault",
                    "AlterDomainNullability", "AlterDomainAttrs"}
    BY DEF IsDelta, DELTAS
  <1> QED
    BY <1>3, <1>4, <1>5, <1>6, <1>7

LEMMA SequenceMild ==
    ASSUME NEW d, IsDelta(d), d.target.kind = "sequence", d.kind # "DropSequence"
    PROVE  Mild(emit_sequence(d))
  <1>1. \A f, v, c : Mild(<<set(d.target, f, v)>>) /\ Mild(When(c, set(d.target, f, v)))
    BY OneMild, WhenMild, Verbs
  <1>2. CASE d.kind = "AlterSequenceOwner"
    BY <1>1, <1>2, MildTogether DEF emit_sequence
  <1>3. CASE d.kind # "AlterSequenceOwner"
    BY <1>1, <1>3, OwnerMild DEF IsDelta, DELTAS, emit_sequence
  <1> QED
    BY <1>2, <1>3

LEMMA SchemaMild ==
    ASSUME NEW d, IsDelta(d), d.target.kind \in {"schema", "extension"},
           d.kind \notin {"DropSchema", "DropExtension"}
    PROVE  Mild(emit_schema(d))
  <1> DEFINE Created(o) == <<create([o EXCEPT !.comment = <<>>])>>
                           \o Stated(d.target, "comment", o.comment)
             version == When(d.new_version # <<>>, set(d.target, "version", Head(d.new_version)))
             moved == Stated(d.target, "schema", d.new_schema)
  <1>1. \A o : Mild(Created(o))
    <2> TAKE o
    <2>1. \A x : Mild(<<create(x)>>)
      BY OneMild, Verbs
    <2>2. Mild(Stated(d.target, "comment", o.comment))
      BY StatedMild
    <2> QED
      BY <2>1, <2>2, MildTogether
  <1>2. Mild(version \o moved)
    <2>1. Mild(version) /\ Mild(moved)
      BY WhenMild, StatedMild, Verbs
    <2> HIDE DEF version, moved
    <2> QED
      BY <2>1, MildTogether
  <1>3. \/ emit_schema(d) = Created(d.schema)
        \/ emit_schema(d) = Created(d.extension)
        \/ emit_schema(d) = version \o moved
    <2>1. d.kind \in {"CreateSchema", "CreateExtension", "AlterExtension"}
      BY DEF IsDelta, DELTAS
    <2> QED
      BY <2>1 DEF emit_schema
  <1> HIDE DEF Created, version, moved
  <1> QED
    BY <1>1, <1>2, <1>3

LEMMA RoutineMild ==
    ASSUME NEW d, d.kind \notin ROUTINE_DROPS PROVE Mild(emit_routine(d))
  <1>1. \A f : Mild(<<replace(f)>>)
    BY OneMild, Verbs
  <1> QED
    BY <1>1, OwnerMild, RaisedMild DEF emit_routine

LEMMA TriggerMakesGood ==
    ASSUME NEW d, IsDelta(d), d.target.kind = "trigger", d.kind # "DropTrigger"
    PROVE  MakesGood(emit_trigger(d))
  <1> DEFINE Enabled(g) == [g EXCEPT !.enabled = "O"]
             Set(g, value) == <<set(g.ref, "enabled", value)>>
             Created(g) == <<create(Enabled(g))>>
                           \o (IF g.enabled = "O" THEN <<>> ELSE Set(g, g.enabled))
             replaced == <<replace(Enabled(d.new_trigger))>>
                         \o (IF d.old_trigger.enabled # d.new_trigger.enabled
                                    \/ d.new_trigger.enabled # "O"
                             THEN Set(d.new_trigger, d.new_trigger.enabled) ELSE <<>>)
  <1>1. \A g, v : Mild(Set(g, v))
    BY OneMild, Verbs
  <1>2. \A o : Mild(<<create(o)>>) /\ Brings(<<create(o)>>) /\ Mild(<<replace(o)>>)
    BY OneMild, Verbs
  <1>3. \A g : Mild(Created(g)) /\ Brings(Created(g))
    <2> TAKE g
    <2> DEFINE rest == IF g.enabled = "O" THEN <<>> ELSE Set(g, g.enabled)
    <2>1. Mild(rest)
      <3> HIDE DEF Set
      <3> QED
        BY <1>1, NoneMild
    <2> HIDE DEF rest, Enabled
    <2>2. Mild(<<create(Enabled(g))>> \o rest) /\ Brings(<<create(Enabled(g))>> \o rest)
      BY <1>2, <2>1, MildTogether
    <2> QED
      BY <2>2 DEF rest
  <1>4. Mild(replaced)
    <2> DEFINE c == d.old_trigger.enabled # d.new_trigger.enabled \/ d.new_trigger.enabled # "O"
               rest == IF c THEN Set(d.new_trigger, d.new_trigger.enabled) ELSE <<>>
               x == Enabled(d.new_trigger)
    <2>1. Mild(rest)
      <3> HIDE DEF Set, c
      <3> QED
        BY <1>1, NoneMild
    <2>2. replaced = <<replace(x)>> \o rest
      OBVIOUS
    <2> HIDE DEF rest, c, x, replaced
    <2> QED
      BY <1>2, <2>1, <2>2, MildTogether
  <1>5. \/ emit_trigger(d) = Created(d.trigger)
        \/ emit_trigger(d) = Set(d.trigger, d.new_enabled)
        \/ emit_trigger(d) = <<drop(d.target)>> \o Created(d.new_trigger)
        \/ emit_trigger(d) = replaced
    <2>1. d.kind \in {"CreateTrigger", "ReplaceTrigger", "AlterTriggerEnabled"}
      BY DEF IsDelta, DELTAS
    <2> QED
      BY <2>1 DEF emit_trigger
  <1> HIDE DEF Created, replaced, Set
  <1> QED
    BY <1>1, <1>3, <1>4, <1>5, DroppedAndMade, MildMakesGood

LEMMA PolicyMakesGood ==
    ASSUME NEW d, IsDelta(d), d.target.kind = "policy", d.kind # "DropPolicy"
    PROVE  MakesGood(emit_policy(d))
  <1>1. \A o : Mild(<<create(o)>>) /\ Brings(<<create(o)>>)
    BY OneMild, Verbs
  <1>2. \A r, a, b, c : Mild(<<alter_policy(r, a, b, c)>>)
    BY OneMild, Verbs
  <1>3. \A r, o : MakesGood(<<drop(r), create(o)>>)
    <2> TAKE r, o
    <2> DEFINE x == drop(r)
               y == create(o)
    <2>1. x.do = "drop" /\ y.do = "create"
      BY DEF drop, create
    <2> HIDE DEF x, y
    <2>2. Len(<<x, y>>) = 2 /\ <<x, y>>[1] = x /\ <<x, y>>[2] = y
      OBVIOUS
    <2>3. MakesGood(<<x, y>>)
      BY <2>1, <2>2 DEF MakesGood
    <2> QED
      BY <2>3 DEF x, y
  <1> QED
    BY <1>1, <1>2, <1>3, MildMakesGood DEF IsDelta, DELTAS, emit_policy

LEMMA ViewMakesGood ==
    ASSUME NEW d, IsDelta(d), d.kind \notin {"DropView", "DropMaterializedView"}
    PROVE  /\ d.target.kind = "view" => MakesGood(emit_view(d))
           /\ d.target.kind = "materialized_view" => MakesGood(emit_materialized_view(d))
  <1>1. \A o : Mild(<<replace(o)>>)
    BY OneMild, Verbs
  <1>2. \A r, o, p : MakesGood(<<drop(r)>> \o WithOwner(create(o), p))
    BY DroppedAndMade, WithOwnerMild
  <1>3. d.target.kind = "view" => MakesGood(emit_view(d))
    BY <1>1, OwnerMild, RaisedMild, MildMakesGood DEF IsDelta, DELTAS, emit_view
  <1>4. d.target.kind = "materialized_view" => MakesGood(emit_materialized_view(d))
    BY <1>2, OwnerMild, MildMakesGood DEF IsDelta, DELTAS, emit_materialized_view
  <1> QED
    BY <1>3, <1>4

\* What the drops are.
Losses == {"DropTable", "DropColumn", "DropConstraint", "DropEnum", "DropCompositeType",
           "AlterCompositeDropAttribute", "DropDomain", "DropDomainCheck", "DropSequence",
           "DropSchema", "DropExtension", "DropFunction", "DropProcedure", "DropTrigger",
           "DropPolicy", "DropView", "DropMaterializedView"}

LEMMA LossHasLevel ==
    ASSUME NEW d, IsDelta(d), NEW created, NEW resolved,
           d.kind \in Losses \/ (d.kind = "DropIndex" /\ d.index.unique)
    PROVE  classify_risk(d, created, resolved) \in {DESTRUCTIVE, BLOCKED}
  <1> DEFINE r == classify_risk(d, created, resolved)
  <1> USE DEF If
  <1>1. CASE d.kind \in {"DropConstraint", "DropIndex"}
    <2>1. d.target.kind \in {"constraint", "index"}
      BY <1>1 DEF IsDelta, DELTAS
    <2>2. r = KeyRisk(d, created)
      BY <1>1, <2>1 DEF classify_risk, TABLE_WORK, VIEW_CREATES, VIEW_DROPS
    <2> QED
      BY <1>1, <2>2 DEF KeyRisk, Losses
  <1>2. CASE d.kind \in {"DropTable", "DropColumn"}
    <2>1. d.target.kind \in {"table", "column"}
      BY <1>2 DEF IsDelta, DELTAS
    <2>2. r = TableRisk(d)
      BY <1>2, <2>1 DEF classify_risk, TABLE_WORK, VIEW_CREATES, VIEW_DROPS
    <2> QED
      BY <1>2, <2>2 DEF TableRisk, ColumnRisk
  <1>3. CASE d.kind \in {"DropView", "DropMaterializedView"}
    <2>1. d.target.kind \in {"view", "materialized_view"}
      BY <1>3 DEF IsDelta, DELTAS
    <2>2. r = ViewRisk(d, resolved)
      BY <1>3, <2>1 DEF classify_risk, TABLE_WORK, VIEW_CREATES, VIEW_DROPS
    <2> QED
      BY <1>3, <2>2 DEF ViewRisk
  <1>4. CASE d.kind \in {"DropEnum", "DropCompositeType", "AlterCompositeDropAttribute",
                         "DropDomain", "DropDomainCheck"}
    <2>1. d.target.kind \in {"enum", "composite_type", "domain_type"}
      BY <1>4 DEF IsDelta, DELTAS
    <2>2. r = TypeRisk(d)
      BY <1>4, <2>1 DEF classify_risk, TABLE_WORK, VIEW_CREATES, VIEW_DROPS
    <2> QED
      BY <1>4, <2>2 DEF TypeRisk
  <1>5. CASE d.kind \in {"DropFunction", "DropProcedure"}
    <2>1. d.target.kind \in {"function", "procedure"}
      BY <1>5 DEF IsDelta, DELTAS
    <2>2. r = RoutineRisk(d)
      BY <1>5, <2>1 DEF classify_risk, TABLE_WORK, VIEW_CREATES, VIEW_DROPS
    <2> QED
      BY <1>5, <2>2 DEF RoutineRisk, ROUTINE_DROPS
  <1>6. CASE d.kind \in {"DropSequence", "DropSchema", "DropExtension", "DropTrigger", "DropPolicy"}
    <2>1. d.target.kind \in {"sequence", "schema", "extension", "trigger", "policy"}
      BY <1>6 DEF IsDelta, DELTAS
    <2>2. r = OtherRisk(d)
      BY <1>6, <2>1 DEF classify_risk, TABLE_WORK, VIEW_CREATES, VIEW_DROPS
    <2> QED
      BY <1>6, <2>2 DEF OtherRisk
  <1> QED
    BY <1>1, <1>2, <1>3, <1>4, <1>5, <1>6 DEF Losses

\* The levels and the emitters agree on what is lost: the statements of a delta
\* below DESTRUCTIVE take nothing away that they do not make again, an index that
\* keeps nothing unique apart.
THEOREM LossIsDestructive ==
    ASSUME NEW d, IsDelta(d), NEW created, NEW resolved,
           classify_risk(d, created, resolved) < DESTRUCTIVE
    PROVE  MakesGood(Handler(d)) \/ (d.kind = "DropIndex" /\ ~d.index.unique)
  <1>1. d.kind \notin Losses /\ (d.kind = "DropIndex" => ~d.index.unique)
    BY LossHasLevel DEF DESTRUCTIVE, BLOCKED
  <1> SUFFICES ASSUME d.kind # "DropIndex" PROVE MakesGood(Handler(d))
    BY <1>1
  <1>2. CASE d.kind \in {"ReplaceEnumLabels", "ReplaceCompositeType", "ReplaceDomainType"}
    <2>1. Handler(d) = <<MigrationError>>
      BY <1>2 DEF Handler
    <2> QED
      BY <2>1, RaisedMild, MildMakesGood
  <1>3. CASE d.target.kind \in {"table", "constraint"}
    <2>1. d.kind \in {"CreateTable", "RenameTable", "AlterTableAttrs", "AddConstraint"}
      BY <1>1, <1>3 DEF IsDelta, DELTAS, Losses
    <2>2. \/ Handler(d) = emit_create_table(d.table)
          \/ Handler(d) = emit_rename_table(d.target, d.new_table)
          \/ Handler(d) = emit_alter_table_attrs(d.target, d.new)
          \/ Handler(d) = emit_add_constraint(d.target, d.constraint)
      BY <1>3, <2>1 DEF Handler
    <2> QED
      BY <2>2, TableMild, RenameMild, AttrsMild, ConstraintMild, MildMakesGood
  <1>4. ASSUME d.kind \notin {"ReplaceEnumLabels", "ReplaceCompositeType", "ReplaceDomainType"},
               d.target.kind \notin {"table", "constraint"}
        PROVE  MakesGood(Handler(d))
    <2>1. d.kind \notin {"CreateTable", "DropTable", "RenameTable", "AlterTableAttrs",
                         "AddConstraint", "DropConstraint"}
      BY <1>4 DEF IsDelta, DELTAS
    <2> USE DEF Losses
    <2>2. CASE d.target.kind = "column"
      BY <1>1, <1>4, <2>1, <2>2, ColumnMild, MildMakesGood DEF Handler
    <2>3. CASE d.target.kind = "index"
      BY <1>4, <2>1, <2>3, IndexMakesGood DEF Handler
    <2>4. CASE d.target.kind = "domain_type"
      BY <1>1, <1>4, <2>1, <2>4, DomainMild, MildMakesGood DEF Handler
    <2>5. CASE d.target.kind \in {"enum", "composite_type"}
      BY <1>1, <1>4, <2>1, <2>5, EnumMild, CompositeMild, MildMakesGood DEF Handler
    <2>6. CASE d.target.kind \in {"sequence", "schema", "extension"}
      BY <1>1, <1>4, <2>1, <2>6, SequenceMild, SchemaMild, MildMakesGood DEF Handler
    <2>7. CASE d.target.kind \in {"function", "procedure"}
      <3>1. Handler(d) = emit_routine(d)
        BY <1>4, <2>1, <2>7 DEF Handler
      <3> QED
        BY <1>1, <3>1, RoutineMild, MildMakesGood DEF ROUTINE_DROPS
    <2>8. CASE d.target.kind \in {"trigger", "policy"}
      BY <1>1, <1>4, <2>1, <2>8, TriggerMakesGood, PolicyMakesGood DEF Handler
    <2>9. CASE d.target.kind \in {"view", "materialized_view"}
      BY <1>1, <1>4, <2>1, <2>9, ViewMakesGood DEF Handler
    <2>10. d.target.kind \in {"column", "index", "domain_type", "enum", "composite_type",
                             "sequence", "schema", "extension", "function", "procedure",
                             "trigger", "policy", "view", "materialized_view"}
      BY <1>4 DEF IsDelta, DELTAS
    <2> QED
      BY <2>2, <2>3, <2>4, <2>5, <2>6, <2>7, <2>8, <2>9, <2>10
  <1> QED
    BY <1>2, <1>3, <1>4

-----------------------------------------------------------------------------
\* What is emitted for all deltas.

\* The p-th of some statements, of these deltas, takes nothing away for good.
MadeGood(sql, p, ds) ==
    LET d == ds[sql[p].delta]
    IN  sql[p].sql.do \in {"drop", "remove"} =>
            \/ d.kind = "DropIndex" /\ ~d.index.unique
            \/ /\ sql[p].sql.do = "drop"
               /\ \E q \in 1 .. Len(sql) :
                    p < q /\ sql[q].delta = sql[p].delta /\ sql[q].sql.do = "create"

LEMMA EmittedMadeGood ==
    ASSUME NEW ds, NEW i, IsDelta(ds[i]), NEW created, NEW resolved,
           classify_risk(ds[i], created, resolved) < DESTRUCTIVE
    PROVE  \A p \in 1 .. Len(Emitted(ds, i)) : MadeGood(Emitted(ds, i), p, ds)
  <1> DEFINE sql == Handler(ds[i])
             em == Emitted(ds, i)
  <1>1. sql \in Seq(Range(sql))
    BY HandlerWrites DEF Writes, IsSequence
  <1>2. DOMAIN em = DOMAIN sql /\ \A p \in DOMAIN sql : em[p].delta = i /\ em[p].sql = sql[p]
    BY DEF Emitted
  <1>3. em = [p \in DOMAIN sql |-> em[p]]
    BY DEF Emitted
  <1>4. MakesGood(sql) \/ (ds[i].kind = "DropIndex" /\ ~ds[i].index.unique)
    BY LossIsDestructive
  <1> HIDE DEF sql, em
  <1>5. Len(sql) \in Nat /\ DOMAIN sql = 1 .. Len(sql)
    BY <1>1
  <1>6. Len(em) = Len(sql)
    BY <1>3, <1>5
  <1>7. ASSUME NEW p \in 1 .. Len(em) PROVE MadeGood(em, p, ds)
    <2>1. em[p].delta = i /\ em[p].sql = sql[p] /\ p \in 1 .. Len(sql)
      BY <1>2, <1>5, <1>6
    <2>2. \A q \in 1 .. Len(em) : em[q].delta = i /\ em[q].sql = sql[q]
      BY <1>2, <1>5, <1>6
    <2> QED
      BY <1>4, <1>6, <2>1, <2>2 DEF MadeGood, MakesGood
  <1> QED
    BY <1>7 DEF em

AllMadeGood(sql, ds) == IsSequence(sql) /\ \A p \in 1 .. Len(sql) : MadeGood(sql, p, ds)

LEMMA MadeGoodTogether ==
    ASSUME NEW ds, NEW s, NEW t, AllMadeGood(s, ds), AllMadeGood(t, ds)
    PROVE  AllMadeGood(s \o t, ds)
  <1> DEFINE u == s \o t
  <1>1. /\ IsSequence(u) /\ IsJoin(u, s, t)
        /\ \A p \in 1 .. Len(u) : \/ p \in 1 .. Len(s) /\ u[p] = s[p]
                                  \/ p - Len(s) \in 1 .. Len(t) /\ u[p] = t[p - Len(s)]
    BY JoinedParts DEF AllMadeGood
  <1> HIDE DEF u
  <1>2. /\ \A q \in 1 .. Len(s) : q \in 1 .. Len(u) /\ u[q] = s[q]
        /\ \A q \in 1 .. Len(t) : Len(s) + q \in 1 .. Len(u) /\ u[Len(s) + q] = t[q]
        /\ Len(s) \in Nat
    BY <1>1 DEF IsJoin
  <1>3. ASSUME NEW p \in 1 .. Len(u) PROVE MadeGood(u, p, ds)
    <2>1. CASE p \in 1 .. Len(s) /\ u[p] = s[p]
      <3>1. MadeGood(s, p, ds)
        BY <2>1 DEF AllMadeGood
      <3> QED
        BY <1>2, <2>1, <3>1 DEF MadeGood
    <2>2. CASE p - Len(s) \in 1 .. Len(t) /\ u[p] = t[p - Len(s)]
      <3> DEFINE r == p - Len(s)
      <3>1. MadeGood(t, r, ds) /\ r \in Nat
        BY <1>2, <2>2 DEF AllMadeGood
      <3>2. \A q \in 1 .. Len(t) : r < q => p < Len(s) + q
        BY <1>2
      <3>3. u[p] = t[r]
        BY <2>2
      <3> HIDE DEF r
      <3> QED
        BY <1>2, <3>1, <3>2, <3>3 DEF MadeGood
    <2> QED
      BY <1>1, <2>1, <2>2
  <1> QED
    BY <1>1, <1>3 DEF AllMadeGood, u

LEMMA EmissionMadeGood ==
    ASSUME NEW ds, IsDiff(ds), NEW limit \in SAFE .. DESTRUCTIVE, limit < DESTRUCTIVE,
           passes_risk_limit(assess_deltas(ds), limit)
    PROVE  AllMadeGood(emit(ds), ds)
  <1> DEFINE n == Len(ds)
             u(k) == SqlOf(ds)[1 .. k]
             T == {k \in Nat : k <= n => AllMadeGood(u(k), ds)}
             created == {d.target : d \in {x \in Range(ds) : x.kind = "CreateTable"}}
             resolved == _resolved_view_dependencies(ds)
  <1>1. n \in Nat /\ DOMAIN ds = 1 .. n /\ \A i \in 1 .. n : IsDelta(ds[i])
    BY DiffIsKeyed
  <1>2. ASSUME NEW i \in 1 .. n PROVE classify_risk(ds[i], created, resolved) < DESTRUCTIVE
    <2>1. assess_deltas(ds) = [j \in DOMAIN ds |-> classify_risk(ds[j], created, resolved)]
      BY DEF assess_deltas
    <2> DEFINE r == classify_risk(ds[i], created, resolved)
    <2>2. r \in Levels /\ assess_deltas(ds)[i] = r /\ i \in DOMAIN assess_deltas(ds)
      BY <1>1, <2>1, EveryDeltaHasLevel
    <2> HIDE DEF r
    <2>3. r # BLOCKED /\ r <= limit
      BY <2>2 DEF passes_risk_limit
    <2> QED
      BY <2>2, <2>3 DEF Levels, SAFE, BLOCKED, DESTRUCTIVE, r
  <1> HIDE DEF n, created, resolved
  <1>3. u(0) = <<>> /\ \A k \in 1 .. n : u(k) = u(k - 1) \o Emitted(ds, k)
    BY <1>1, SqlStep
  <1>4. emit(ds) = u(n)
    BY <1>1, EmitIs
  <1> HIDE DEF u
  <1>5. 0 \in T
    <2>1. AllMadeGood(<<>>, ds)
      BY DEF AllMadeGood, IsSequence, Range
    <2> QED
      BY <1>3, <2>1
  <1>6. ASSUME NEW k \in Nat, k \in T PROVE k + 1 \in T
    <2> SUFFICES ASSUME k + 1 <= n PROVE AllMadeGood(u(k + 1), ds)
      OBVIOUS
    <2>1. k + 1 \in 1 .. n /\ (k + 1) - 1 = k /\ AllMadeGood(u(k), ds)
      BY <1>1, <1>6
    <2>2. u(k + 1) = u(k) \o Emitted(ds, k + 1)
      BY <1>3, <2>1
    <2>3. AllMadeGood(Emitted(ds, k + 1), ds)
      <3>1. IsDelta(ds[k + 1]) /\ classify_risk(ds[k + 1], created, resolved) < DESTRUCTIVE
        BY <1>1, <1>2, <2>1
      <3> QED
        BY <3>1, EmittedWrites, EmittedMadeGood DEF AllMadeGood
    <2> QED
      BY <2>1, <2>2, <2>3, MadeGoodTogether
  <1> HIDE DEF T
  <1>7. n \in T
    BY <1>1, <1>5, <1>6, ByInduction
  <1> QED
    BY <1>1, <1>4, <1>7 DEF T

-----------------------------------------------------------------------------
\* What is emitted was assessed, and takes away what the limit allows.
LossInv ==
    /\ phase = "emit" => levels = assess_deltas(deltas)
    /\ DropsAreDestructive

LEMMA LossStep ==
    GateInv /\ TypeInv /\ TypeInv' /\ LossInv /\ [Next]_vars => LossInv'
  <1> SUFFICES ASSUME GateInv, TypeInv, TypeInv', LossInv, [Next]_vars PROVE LossInv'
    OBVIOUS
  <1>1. CASE Compare \/ Order \/ Interrupt \/ Applied
    <2>1. phase' \in {"compare", "order", "assess", "end"}
      BY <1>1 DEF Compare, Order, Interrupt, Applied, End, Continue
    <2> QED
      BY <2>1 DEF LossInv, DropsAreDestructive
  <1>2. CASE Assess
    <2>1. levels' = assess_deltas(deltas') /\ phase' \in {"emit", "end"}
      BY <1>2 DEF Assess, End, Continue
    <2> QED
      BY <2>1 DEF LossInv, DropsAreDestructive
  <1>3. CASE Emit
    <2>1. /\ phase = "emit" /\ request' = request /\ deltas' = deltas
          /\ phase' = "end" \/ (phase' = "split" /\ statements' = emit(deltas))
      BY <1>3 DEF Emit, End, Continue
    <2>2. /\ IsDiff(deltas) /\ levels = assess_deltas(deltas)
          /\ passes_risk_limit(levels, request.maxRisk)
          /\ request.maxRisk \in SAFE .. DESTRUCTIVE
      BY <2>1 DEF TypeInv, TypeOK, LossInv, GateInv
    <2>3. CASE phase' = "split" /\ request.maxRisk < DESTRUCTIVE
      <3>1. AllMadeGood(statements', deltas)
        BY <2>1, <2>2, <2>3, EmissionMadeGood
      <3>2. DOMAIN statements' = 1 .. Len(statements')
        BY <3>1 DEF AllMadeGood, IsSequence
      <3> QED
        BY <2>1, <2>3, <3>1, <3>2 DEF AllMadeGood, MadeGood, LossInv, DropsAreDestructive
    <2> QED
      BY <2>1, <2>3 DEF LossInv, DropsAreDestructive
  <1>4. CASE SplitAlone \/ SplitGrouped \/ SplitEnd \/ Write \/ Load \/ LoadFaulty
    <2>1. /\ UNCHANGED <<request, deltas, levels, statements>>
          /\ phase \in {"split", "write", "load"} /\ phase' # "emit"
      BY <1>4 DEF SplitAlone, SplitGrouped, SplitEnd, Write, Load, LoadFaulty, Loaded, End,
                  Continue, plan
    <2> QED
      BY <2>1 DEF LossInv, DropsAreDestructive
  <1>5. CASE Apply_unit
    <2>1. phase' \in {"apply", "end"}
      BY <1>5 DEF Apply_unit, End, Continue
    <2> QED
      BY <2>1 DEF LossInv, DropsAreDestructive
  <1>6. CASE Terminated \/ UNCHANGED vars
    <2>1. UNCHANGED <<phase, request, deltas, levels, statements>>
      BY <1>6 DEF Terminated, vars, plan
    <2> QED
      BY <2>1 DEF LossInv, DropsAreDestructive
  <1> QED
    BY <1>1, <1>2, <1>3, <1>4, <1>5, <1>6 DEF Next

\* Whoever asks for a plan below DESTRUCTIVE gets one whose statements take nothing
\* away for good but an index that keeps nothing unique.
THEOREM OnlyDestructiveDrops == Spec /\ []DiffTyped => []DropsAreDestructive
  <1>1. Init => GateInv /\ LossInv
    BY DEF Init, GateInv, LossInv, DropsAreDestructive
  <1>2. LossInv => DropsAreDestructive
    BY DEF LossInv
  <1> QED
    BY <1>1, <1>2, GateStep, LossStep, TypeInvariance, PTL DEF Spec
=============================================================================
