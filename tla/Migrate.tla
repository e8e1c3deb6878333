-------------------------------- MODULE Migrate --------------------------------
(***************************************************************************)
(* A migration from end to end: inspect two databases, compare, order the    *)
(* deltas, assess them, write their SQL, cut it into transaction units,      *)
(* render the bundle, read it again, apply it unit by unit.                 *)
(*                                                                         *)
(* The bundle is read as it was written or with one fault in it, and the      *)
(* application can stop for good between two units: a migration is then       *)
(* planned anew from what is there.                                          *)
(***************************************************************************)
EXTENDS Diff, Inspector, Bundle

CONSTANTS
    Requests,        \* what may be asked for: see TypeOK for the fields
    Faults    \* bound: how many faults there are

ASSUME FaultsAssumption == Faults \in Nat

\* --max-risk takes a level, and refuses BLOCKED.
ASSUME RequestsAssumption ==
    \A r \in Requests : "maxRisk" \in DOMAIN r /\ r.maxRisk \in SAFE .. DESTRUCTIVE

VARIABLES
    catalog,        \* the database that is migrated
    request,        \* [source, desired, renames, ignore, schemas, maxRisk]
    phase,          \* the step that comes next
    deltas,         \* the DeltaSet, in the order of the diff
    levels,         \* RiskLevel of each delta
    statements,     \* the SQL of the deltas
    at,             \* split_units: the statement that is looked at
    open,           \* split_units: the first statement of `current', 0: none
    units,          \* intervals of statements: the units so far
    bundle,         \* what was written: [up, manifest]
    loaded,         \* the units that were read
    done,           \* how many of them are applied
    faults,    \* how many faults there were
    outcome         \* how the migration ended

plan == <<deltas, levels, statements>>
split == <<at, open, units>>
files == <<bundle, loaded>>
vars == <<catalog, request, phase, plan, split, files, done, faults, outcome>>

PHASES == {"compare", "order", "assess", "emit", "split", "write", "load", "apply", "end"}
REFUSALS == {"in_sync", "diff_error", "cycle", "risk_gate", "migration_error", "unreadable"}

Init ==
    /\ request \in Requests
    /\ catalog = request.source
    /\ phase = "compare"
    /\ deltas = <<>> /\ levels = <<>> /\ statements = <<>>
    /\ at = 1 /\ open = 0 /\ units = <<>>
    /\ bundle = <<>> /\ loaded = <<>>
    /\ done = 0
    /\ faults = 0
    /\ outcome = ""

\* Faulty variant: the command ends and does not say how.
EndSilently(how) == phase' = "end" /\ outcome' = outcome

End(how) == phase' = "end" /\ outcome' = how
Continue(next) == phase' = next /\ outcome' = outcome

-----------------------------------------------------------------------------
\* compare_schemas.

Difference(renames) ==
    diff(inspect(catalog, request.schemas), inspect(request.desired, request.schemas),
         renames, request.ignore)

\* pgsd generate ends here when there is nothing to do.
Compare ==
    /\ phase = "compare"
    /\ deltas' = Difference(request.renames)
    /\ IF deltas' = <<>> THEN End("in_sync")
       ELSE IF deltas' = <<DiffError>> THEN End("diff_error") ELSE Continue("order")
    /\ UNCHANGED <<catalog, request, levels, statements, split, files, done, faults>>

Order ==
    /\ phase = "order"
    /\ LET order == order_deltas(deltas)
       IN  /\ deltas' = order.deltas
           /\ IF order.cyclic THEN End("cycle") ELSE Continue("assess")
    /\ UNCHANGED <<catalog, request, levels, statements, split, files, done, faults>>

-----------------------------------------------------------------------------
\* generate_migration.

\* assess_deltas orders once more; see StableOrder.
Assess ==
    /\ phase = "assess"
    /\ deltas' = order_deltas(deltas).deltas
    /\ levels' = assess_deltas(deltas')
    /\ IF passes_risk_limit(levels', request.maxRisk) THEN Continue("emit") ELSE End("risk_gate")
    /\ UNCHANGED <<catalog, request, statements, split, files, done, faults>>

Emit ==
    /\ phase = "emit"
    /\ LET sql == emit(deltas)
       IN  IF \E i \in DOMAIN sql : sql[i].sql.do = "error"
           THEN statements' = <<>> /\ End("migration_error")
           ELSE statements' = sql /\ Continue("split")
    /\ UNCHANGED <<catalog, request, deltas, levels, split, files, done, faults>>

\* An interval of statements.  All of them are transactional, or there is one.
Unit(first, last) == [first |-> first, last |-> last]

\* What `current' holds becomes a unit.
Flushed == IF open = 0 THEN units ELSE Append(units, Unit(open, at - 1))

\* Faulty variant: a statement that is alone leaves out what `current' holds.
SplitAloneLosing ==
    /\ phase = "split" /\ at \in DOMAIN statements
    /\ Alone(statements[at])
    /\ units' = Append(units, Unit(at, at))
    /\ open' = 0
    /\ at' = at + 1
    /\ UNCHANGED <<catalog, request, phase, plan, files, done, faults, outcome>>

\* split_units, one turn of its loop.
SplitAlone ==
    /\ phase = "split" /\ at \in DOMAIN statements
    /\ Alone(statements[at])
    /\ units' = Append(Flushed, Unit(at, at))
    /\ open' = 0
    /\ at' = at + 1
    /\ UNCHANGED <<catalog, request, phase, plan, files, done, faults, outcome>>

\* Faulty variant: a statement that needs a new unit does not get one.
SplitGroupedTogether ==
    /\ phase = "split" /\ at \in DOMAIN statements
    /\ ~Alone(statements[at])
    /\ units' = units /\ open' = IF open = 0 THEN at ELSE open
    /\ at' = at + 1
    /\ UNCHANGED <<catalog, request, phase, plan, files, done, faults, outcome>>

SplitGrouped ==
    /\ phase = "split" /\ at \in DOMAIN statements
    /\ ~Alone(statements[at])
    /\ IF open # 0 /\ statements[at].new_unit
       THEN units' = Flushed /\ open' = at
       ELSE units' = units /\ open' = IF open = 0 THEN at ELSE open
    /\ at' = at + 1
    /\ UNCHANGED <<catalog, request, phase, plan, files, done, faults, outcome>>

SplitEnd ==
    /\ phase = "split" /\ at \notin DOMAIN statements
    /\ units' = Flushed
    /\ open' = 0
    /\ Continue("write")
    /\ UNCHANGED <<catalog, request, plan, at, files, done, faults>>

max_risk_level(unit) == Highest({levels[statements[i].delta] : i \in unit.first .. unit.last})

PlannedUnits ==
    [u \in DOMAIN units |->
        [transactional |-> statements[units[u].first].transactional,
         max_risk |-> max_risk_level(units[u]),
         statements |-> [i \in 1 .. units[u].last - units[u].first + 1 |->
            LET s == statements[units[u].first + i - 1] IN [sql |-> s.sql, delta |-> s.delta]]]]

\* MigrationPlan refuses a plan in which some delta has no statement, or some
\* statement no delta.
Covers == {statements[i].delta : i \in DOMAIN statements} = DOMAIN deltas

Write ==
    /\ phase = "write"
    /\ IF Covers
       THEN /\ bundle' = <<render_bundle([levels |-> levels, units |-> PlannedUnits])>>
            /\ Continue("load")
       ELSE bundle' = bundle /\ End("migration_error")
    /\ UNCHANGED <<catalog, request, plan, split, loaded, done, faults>>

-----------------------------------------------------------------------------
\* pgsd apply: load_bundle, then one unit after the other.

\* A unit or a statement is missing from the manifest, a risk is understated,
\* a line of up.sql is missing.
Faulty(b) ==
    LET m == b.manifest
        With(us) == [b EXCEPT !.manifest = [m EXCEPT !.units = us]]
    IN  {With(SubSeq(m.units, 1, Len(m.units) - 1))}
        \cup {With([m.units EXCEPT ![i].statements = Tail(@)]) : i \in DOMAIN m.units}
        \cup {With([m.units EXCEPT ![i].max_risk = SAFE]) : i \in DOMAIN m.units}
        \cup {[b EXCEPT !.up = RemoveAt(@, Len(@))]}

Loaded(b) ==
    LET read == load_bundle(b.manifest, b.up)
    IN  IF read = <<>> THEN loaded' = <<>> /\ End("unreadable")
        ELSE loaded' = read[1] /\ Continue("apply")

Load ==
    /\ phase = "load"
    /\ Loaded(bundle[1])
    /\ UNCHANGED <<catalog, request, plan, split, bundle, done, faults>>

\* The bundle is not as it was written.
LoadFaulty ==
    /\ phase = "load" /\ faults < Faults
    /\ \E b \in Faulty(bundle[1]) : Loaded(b)
    /\ faults' = faults + 1
    /\ UNCHANGED <<catalog, request, plan, split, bundle, done>>

Apply_unit ==
    /\ phase = "apply" /\ done < Len(loaded)
    /\ LET unit == loaded[done + 1]
           sql == [i \in DOMAIN unit.statements |->
                    [sql |-> unit.statements[i].sql, transactional |-> unit.transactional]]
           after == Executed(catalog, sql)
       IN  IF after = {} THEN UNCHANGED <<catalog, done>> /\ End("rejected")
           ELSE catalog' \in after /\ done' = done + 1 /\ Continue("apply")
    /\ UNCHANGED <<request, plan, split, files, faults>>

Applied ==
    /\ phase = "apply" /\ done = Len(loaded)
    /\ End("applied")
    /\ UNCHANGED <<catalog, request, plan, split, files, done, faults>>

\* The rest of the bundle is given up: a new one is asked for, without the
\* renames that are done.
Pending(renames) ==
    LET tables == {QualifiedName(t.ref) : t \in Of(catalog, "table")}
        columns == UNION {{<<QualifiedName(t.ref), c>> : c \in Names(t.columns)} :
                            t \in Of(catalog, "table")}
    IN  [tables |-> {m \in renames.tables : m.source \in tables},
         columns |-> {m \in renames.columns : <<m.source_table, m.source_name>> \in columns}]

Interrupt ==
    /\ phase = "apply" /\ 0 < done /\ done < Len(loaded) /\ faults < Faults
    /\ faults' = faults + 1
    /\ request' = [request EXCEPT !.renames = Pending(@)]
    /\ phase' = "compare"
    /\ deltas' = <<>> /\ levels' = <<>> /\ statements' = <<>>
    /\ at' = 1 /\ open' = 0 /\ units' = <<>>
    /\ bundle' = <<>> /\ loaded' = <<>>
    /\ done' = 0
    /\ UNCHANGED <<catalog, outcome>>

Terminated == phase = "end" /\ UNCHANGED vars

Next ==
    \/ Compare \/ Order \/ Assess \/ Emit
    \/ SplitAlone \/ SplitGrouped \/ SplitEnd \/ Write
    \/ Load \/ LoadFaulty \/ Apply_unit \/ Applied \/ Interrupt
    \/ Terminated

Spec == Init /\ [][Next]_vars

-----------------------------------------------------------------------------
\* Properties.

\* Deltas in a sequence, whose names can be compared.
IsDiff(ds) ==
    /\ ds \in Seq(Range(ds))
    /\ \A i \in DOMAIN ds : IsDelta(ds[i]) /\ sort_key(ds[i]) \in Seq(Range(Alphabet))

\* Types; what a phase needs is there.
TypeOK ==
    /\ levels \in Seq(SAFE .. BLOCKED) /\ statements \in Seq(Range(statements))
    /\ request.maxRisk \in SAFE .. DESTRUCTIVE
    /\ phase \in PHASES
    /\ outcome \in REFUSALS \cup {"", "rejected", "applied"}
    /\ (outcome # "") = (phase = "end")
    /\ at \in 1 .. Len(statements) + 1 /\ open \in 0 .. Len(statements)
    /\ done \in 0 .. Len(loaded)
    /\ faults \in 0 .. Faults
    /\ phase \in {"emit", "split", "write", "load", "apply"} => Len(levels) = Len(deltas)
    /\ phase \in {"order", "assess", "emit"} => IsDiff(deltas)

\* PostgreSQL takes every statement that a migration has come to, in the order it
\* is in, and there is such an order.
NeverRejected == outcome \notin {"rejected", "cycle"}

\* What was compared, ordered, written, read and applied leaves nothing to do.
\* (A bundle that lost the second statement of a delta is read, and leaves that.)
Converged ==
    outcome = "applied" /\ loaded = PlannedUnits
        => Difference([tables |-> {}, columns |-> {}]) = <<>>

\* The order that pgsd diff shows is the order that pgsd generate, which orders
\* once more, assesses and writes.
StableOrder ==
    LET Shown(order) == [i \in DOMAIN order |-> <<order[i].kind, order[i].target>>]
    IN  phase = "assess" => Shown(order_deltas(deltas).deltas) = Shown(deltas)

\* Below DESTRUCTIVE no statement takes anything away, except an index that keeps
\* nothing unique and what a later statement of the same delta creates anew.
DropsAreDestructive ==
    phase \in {"split", "write", "load"} /\ request.maxRisk < DESTRUCTIVE =>
        \A i \in DOMAIN statements :
            LET s == statements[i]
                d == deltas[s.delta]
            IN  s.sql.do \in {"drop", "remove"} =>
                    \/ d.kind = "DropIndex" /\ ~d.index.unique
                    \/ /\ s.sql.do = "drop"
                       /\ \E j \in DOMAIN statements :
                            i < j /\ statements[j].delta = s.delta /\ statements[j].sql.do = "create"

\* Where the first i of some units end.
EndOf(us, i) == IF i = 0 THEN 0 ELSE us[i].last

\* A statement that must be alone is alone, one that needs a new unit begins it.
WellCut(us, i) ==
    /\ us[i].first = EndOf(us, i - 1) + 1
    /\ us[i].first <= us[i].last
    /\ \A j \in us[i].first .. us[i].last :
        /\ j \in DOMAIN statements
        /\ Alone(statements[j]) => us[i].first = us[i].last
        /\ statements[j].new_unit => j = us[i].first

\* split_units cuts the statements into intervals that follow one another, each of
\* them well cut, without a gap and up to the last statement.
UnitsWell ==
    LET last == EndOf(units, Len(units))
    IN  /\ \A i \in DOMAIN units : WellCut(units, i)
        /\ phase = "split" => IF open = 0 THEN at = last + 1 ELSE open = last + 1
        /\ phase \in {"write", "load", "apply"} => last + 1 \notin DOMAIN statements

\* A bundle that was read has statements for every delta that was assessed, and
\* its units are as risky as their deltas.
AcceptedWhole ==
    loaded # <<>> =>
        LET of(u) == {loaded[u].statements[i].delta : i \in DOMAIN loaded[u].statements}
        IN  /\ UNION {of(u) : u \in DOMAIN loaded} = DOMAIN deltas
            /\ \A u \in DOMAIN loaded : loaded[u].max_risk = Highest({levels[d] : d \in of(u)})

\* What load_bundle reads of a bundle nobody touched is the plan it was written for.
WrittenIsRead == [][Load => loaded' = PlannedUnits]_vars

\* Below DESTRUCTIVE no unit loses a column, a value or an object that is not
\* rebuilt in it.
DataOf(C) == UNION {{c.data : c \in Range(t.columns)} : t \in Of(C, "table")}
Standing(C) ==
    {<<o.ref.kind, o.ref.name, o.ref.args>> :
        o \in {x \in C : x.ref.kind \notin {"table", "index"}}}
LabelsOf(C) == UNION {RefsOf(e) : e \in Of(C, "enum")}

NothingLost ==
    [][request.maxRisk < DESTRUCTIVE =>
        /\ DataOf(catalog) \subseteq DataOf(catalog')
        /\ Standing(catalog) \subseteq Standing(catalog')
        /\ LabelsOf(catalog) \subseteq LabelsOf(catalog')]_vars

\* A CHECK or FOREIGN KEY is never added and validated in one unit: the lock that
\* adding takes is gone while the rows are scanned.
ChecksOf(C) ==
    UNION {{c \in Range(t.constraints) : CheckedLater(c) /\ ~c.inherited} : t \in Of(C, "table")}

ValidatedApart ==
    [][{<<c.name, c.expr.says>> : c \in {x \in ChecksOf(catalog') : x.validated}}
        \subseteq {<<c.name, c.expr.says>> : c \in ChecksOf(catalog)}]_vars

\* What is not in the schemas asked for stays as it is.
ScopeKept ==
    [][\A o \in catalog :
        o.ref.kind # "extension" /\ (\E schemas \in Range(request.schemas) : o.ref.ns \notin schemas)
            => o \in catalog']_vars

\* An object that is ignored goes at most with its table or column; an attribute
\* that is ignored stays as long as what has it.
AttributeOf(C, r, attribute) ==
    IF r.kind = "table" THEN {t.attrs[attribute] : t \in {x \in C : x.ref = r}}
    ELSE UNION {{c[attribute] : c \in {x \in Range(t.columns) : x.name = r.name}} :
                    t \in {x \in C : x.ref = Parent(r)}}

IgnoredKept ==
    [][/\ \A r \in request.ignore.objects :
            Exists(catalog', r) => Exists(catalog, r) /\ At(catalog', r) = At(catalog, r)
       /\ \A p \in request.ignore.attributes :
            LET old == AttributeOf(catalog, p[1], p[2])
                new == AttributeOf(catalog', p[1], p[2])
            IN  old = {} \/ new = {} \/ old = new]_vars
=============================================================================
