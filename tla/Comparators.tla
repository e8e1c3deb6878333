----------------------------- MODULE Comparators -----------------------------
(***************************************************************************)
(* The comparators: for each kind of object, the deltas that turn the       *)
(* object of the source into the object of the target.                      *)
(*                                                                         *)
(* A comparator is called with the objects that carry one identity in the    *)
(* two snapshots, each of them absent (<<>>) or present (<<object>>).  What  *)
(* it cannot express it refuses: the diff holds DiffError.                  *)
(***************************************************************************)
EXTENDS Objects, SequencesExt

\* What every comparator does first: an object on one side only is created or
\* dropped.
Compared(source, target, Create(_), Drop(_), Both(_, _)) ==
    IF source = <<>>
    THEN IF target = <<>> THEN <<>> ELSE Create(target[1])
    ELSE IF target = <<>> THEN Drop(source[1]) ELSE Both(source[1], target[1])

Same(a, b, fields) == \A f \in fields : a[f] = b[f]

\* An owner can change, not become unknown.
OwnerChange(source, target, Delta(_)) ==
    IF source.owner = target.owner THEN <<>>
    ELSE IF target.owner = <<>> THEN <<DiffError>>
    ELSE <<Delta(target.owner[1])>>

-----------------------------------------------------------------------------
\* Schemas and extensions.

CompareSchema(source, target) ==
    LET Create(s) == <<CreateSchema(s)>>
        Drop(s) == <<DropSchema(s)>>
        Both(s, t) == When(~Same(s, t, {"owner", "comment"}), DiffError)
    IN  Compared(source, target, Create, Drop, Both)

CompareExtension(source, target) ==
    LET Create(e) == <<CreateExtension(e)>>
        Drop(e) == <<DropExtension(e)>>
        Both(s, t) ==
            IF s.comment # t.comment \/ (s.schema # t.schema /\ t.schema = <<>>)
            THEN <<DiffError>>
            ELSE LET version == When(s.version # t.version, t.version)
                     schema == NewValue(s.schema, t.schema)
                 IN  When(version # <<>> \/ schema # <<>>,
                          AlterExtension(t.ref, version, schema))
    IN  Compared(source, target, Create, Drop, Both)

-----------------------------------------------------------------------------
\* Types.

\* The labels of source occur in target in their order.
IsOrderedSubsequence(source, target) ==
    source = SelectSeq(target, LAMBDA label : label \in Range(source))

\* Faulty variant: every new label goes behind the label it follows.
AdditionsBehind(source, target) ==
    LET AddedAt(i) ==
            When(target.labels[i] \notin Range(source.labels),
                 AddEnumValue(source.ref, target.labels[i], <<>>,
                              IF i = 1 THEN <<>> ELSE <<target.labels[i - 1]>>))
    IN  FlattenSeq([i \in DOMAIN target.labels |-> AddedAt(i)])

\* A new label goes before the next label that was there, or else behind the
\* label it follows.
Additions(source, target) ==
    LET existing == Range(source.labels)
        Addition(i) ==
            LET later == SelectSeq(SubSeq(target.labels, i + 1, Len(target.labels)),
                                   LAMBDA label : label \in existing)
                previous == IF i = 1 THEN <<>> ELSE <<target.labels[i - 1]>>
            IN  IF later # <<>>
                THEN AddEnumValue(source.ref, target.labels[i], <<later[1]>>, <<>>)
                ELSE AddEnumValue(source.ref, target.labels[i], <<>>, previous)
        AddedAt(i) == When(target.labels[i] \notin existing, Addition(i))
    IN  FlattenSeq([i \in DOMAIN target.labels |-> AddedAt(i)])

CompareEnum(source, target) ==
    LET Create(e) == <<CreateEnum(e)>>
        Drop(e) == <<DropEnum(e)>>
        Owner(s, owner) == AlterEnumAttrs(s.ref, owner)
        Both(s, t) ==
            (IF IsOrderedSubsequence(s.labels, t.labels)
             THEN Additions(s, t)
             ELSE <<ReplaceEnumLabels(s.ref)>>)
            \o OwnerChange(s, t, LAMBDA owner : Owner(s, owner))
    IN  Compared(source, target, Create, Drop, Both)

\* The types that the texts of an object name.
TypePrerequisites(texts) ==
    {r \in UNION {text.uses : text \in texts} :
        r.kind \in {"enum", "composite_type", "domain_type"}}

AttributeTypes(composite) == {composite.attributes[i].type : i \in DOMAIN composite.attributes}

\* Attributes that keep their name keep their order, and new ones come last.
RequiresReplacement(source, target) ==
    LET old == Names(source)
        name(a) == a.name
        sources == [i \in DOMAIN source |-> name(source[i])]
        targets == [i \in DOMAIN target |-> name(target[i])]
        survivors == SelectSeq(targets, LAMBDA n : n \in old)
    IN  ~IsPrefix(survivors, targets)
        \/ survivors # SelectSeq(sources, LAMBDA n : n \in Range(targets))

CompareCompositeType(source, target) ==
    LET Create(c) == <<CreateCompositeType(c)>>
        Drop(c) == <<DropCompositeType(c)>>
        Attributes(s, t) ==
            LET old == TypePrerequisites(AttributeTypes(s))
                new == TypePrerequisites(AttributeTypes(t))
                Dropped(a) ==
                    When(a.name \notin Names(t.attributes),
                         AlterCompositeDropAttribute(s.ref, a.name, old))
                Retyped(a) ==
                    When(a.name \in Names(s.attributes)
                            /\ Named(s.attributes, a.name).type # a.type,
                         AlterCompositeAttributeType(s.ref, a.name, a.type, old, new))
                Added(a) ==
                    When(a.name \notin Names(s.attributes),
                         AlterCompositeAddAttribute(s.ref, a, new))
            IN  FlattenSeq([i \in DOMAIN s.attributes |-> Dropped(s.attributes[i])])
                \o FlattenSeq([i \in DOMAIN t.attributes |-> Retyped(t.attributes[i])])
                \o FlattenSeq([i \in DOMAIN t.attributes |-> Added(t.attributes[i])])
        Both(s, t) ==
            (IF RequiresReplacement(s.attributes, t.attributes)
             THEN <<ReplaceCompositeType(s.ref)>>
             ELSE Attributes(s, t))
            \o OwnerChange(s, t, LAMBDA owner : AlterCompositeTypeAttrs(s.ref, owner))
    IN  Compared(source, target, Create, Drop, Both)

\* The checks of a domain, by name: changed ones are dropped and added again.
CompareChecks(s, t, contained) ==
    LET Old(c) ==
            IF c.name \notin Names(t.checks) THEN <<DropDomainCheck(s.ref, c.name)>>
            ELSE LET new == Named(t.checks, c.name) IN
                 IF new.expr # c.expr
                 THEN <<DropDomainCheck(s.ref, c.name), AddDomainCheck(s.ref, new, contained)>>
                 ELSE IF new.validated = c.validated THEN <<>>
                 ELSE IF ~new.validated THEN <<DiffError>>
                 ELSE <<ValidateDomainCheck(s.ref, c.name, contained)>>
        New(c) == When(c.name \notin Names(s.checks), AddDomainCheck(s.ref, c, contained))
    IN  FlattenSeq([i \in DOMAIN s.checks |-> Old(s.checks[i])])
        \o FlattenSeq([i \in DOMAIN t.checks |-> New(t.checks[i])])

CompareDomainType(source, target) ==
    LET Create(d) == <<CreateDomain(d)>>
        Drop(d) == <<DropDomain(d)>>
        Both(s, t) ==
            LET contained == s.used_in_container \/ t.used_in_container
            IN  IF s.base # t.base THEN <<ReplaceDomainType(s.ref)>>
                ELSE When(s.default # t.default, AlterDomainDefault(s.ref, t.default))
                     \o When(s.notNull # t.notNull,
                             AlterDomainNullability(s.ref, t.notNull, contained))
                     \o CompareChecks(s, t, contained)
                     \o OwnerChange(s, t, LAMBDA owner : AlterDomainAttrs(s.ref, owner))
    IN  Compared(source, target, Create, Drop, Both)

-----------------------------------------------------------------------------
\* Sequences.  The owner of an owned sequence follows the owner of its table:
\* such a change is left to the change of the table, and checked against it.

CompareSequence(source, target, sourceOwners, targetOwners) ==
    LET Create(q) ==
            IF q.owner = <<>> THEN <<DiffError>>
            ELSE <<CreateSequence(q)>>
                 \o When(q.ownedBy # <<>>, AlterSequenceOwnedBy(q.ref, <<>>, q.ownedBy))
        Drop(q) == <<DropSequence(q)>>
        OwnerOf(owners, t) == IF t \in DOMAIN owners THEN owners[t] ELSE <<>>
        Follows(s, t) ==
            LET table == Parent(s.ownedBy[1])
                old == OwnerOf(sourceOwners, table)
                new == OwnerOf(targetOwners, table)
            IN  old # <<>> /\ new # <<>> /\ old # new /\ s.owner = old /\ t.owner = new
        Owner(s, t) ==
            IF s.owner = t.owner THEN <<>>
            ELSE IF t.owner = <<>> THEN <<DiffError>>
            ELSE IF s.ownedBy # <<>> /\ s.ownedBy = t.ownedBy
            THEN When(~Follows(s, t), DiffError)
            ELSE <<AlterSequenceOwner(s.ref, t.owner[1], s.ownedBy)>>
        Both(s, t) ==
            When(s.options # t.options, AlterSequenceOptions(s.ref, t.options))
            \o Owner(s, t)
            \o When(s.ownedBy # t.ownedBy, AlterSequenceOwnedBy(s.ref, s.ownedBy, t.ownedBy))
    IN  Compared(source, target, Create, Drop, Both)

-----------------------------------------------------------------------------
\* Routines.

InputArguments(f) == SelectSeq(f.arguments, LAMBDA a : a.mode # "OUT")

\* Some number of positional arguments fits both.
PositionalCallsOverlap(f, g) ==
    LET fs == InputArguments(f)
        gs == InputArguments(g)
        Fits(n) == n >= Len(fs) - Len(f.defaults) /\ n >= Len(gs) - Len(g.defaults)
    IN  \E n \in 0 .. Len(fs) :
            /\ n <= Len(gs)
            /\ Fits(n)
            /\ \A i \in 1 .. n : fs[i].type = gs[i].type

\* The names that either needs are names of both, of one type.
NamedCallsOverlap(f, g) ==
    LET Required(h) == SubSeq(InputArguments(h), 1, Len(InputArguments(h)) - Len(h.defaults))
        required == Range(Required(f)) \cup Range(Required(g))
        Has(h, name, type) ==
            \E a \in Range(InputArguments(h)) : a.name = name /\ a.type = type
    IN  \A a \in required :
            a.name # <<>> /\ Has(f, a.name, a.type) /\ Has(g, a.name, a.type)

HasDefaultConflict(f, candidates) ==
    \E g \in candidates :
        /\ g.ref # f.ref
        /\ QualifiedName(g.ref) = QualifiedName(f.ref)
        /\ PositionalCallsOverlap(f, g) \/ NamedCallsOverlap(f, g)

CompareFunction(source, target, candidates) ==
    LET Conflict(f) == f.defaults # <<>> /\ HasDefaultConflict(f, candidates)
        Create(f) == <<CreateFunction(f, Conflict(f))>>
        Drop(f) == <<DropFunction(f)>>
        Both(s, t) ==
            When(Without(s, {"owner"}) # Without(t, {"owner"}),
                 ReplaceFunction(s, t, ~Same(s, t, {"arguments", "returns"}),
                                 ~Same(s, t, {"defaults"}) /\ Conflict(t)))
            \o OwnerChange(s, t, LAMBDA owner : AlterFunctionOwner(s, owner))
    IN  Compared(source, target, Create, Drop, Both)

CompareProcedure(source, target) ==
    LET Create(p) == <<CreateProcedure(p)>>
        Drop(p) == <<DropProcedure(p)>>
        Both(s, t) ==
            When(Without(s, {"owner"}) # Without(t, {"owner"}),
                 ReplaceProcedure(s, t, ~Same(s, t, {"arguments"})))
            \o OwnerChange(s, t, LAMBDA owner : AlterProcedureOwner(s, owner))
    IN  Compared(source, target, Create, Drop, Both)

-----------------------------------------------------------------------------
\* Triggers and policies.

CompareTrigger(source, target) ==
    LET Create(g) == <<CreateTrigger(g)>>
        Drop(g) == <<DropTrigger(g)>>
        Both(s, t) ==
            IF Without(s, {"enabled"}) # Without(t, {"enabled"})
            THEN <<ReplaceTrigger(s, t)>>
            ELSE When(s.enabled # t.enabled, AlterTriggerEnabled(s, t.enabled))
    IN  Compared(source, target, Create, Drop, Both)

\* ALTER POLICY changes neither the command nor the mode and drops no clause.
ComparePolicy(source, target) ==
    LET Create(p) == <<CreatePolicy(p)>>
        Drop(p) == <<DropPolicy(p)>>
        Removed(s, t, clause) == s[clause] # <<>> /\ t[clause] = <<>>
        Both(s, t) ==
            IF ~Same(s, t, {"command", "permissive"})
                \/ Removed(s, t, "using") \/ Removed(s, t, "withCheck")
            THEN <<ReplacePolicy(s, t)>>
            ELSE When(~Same(s, t, {"roles", "using", "withCheck"}),
                      AlterPolicy(s, When(s.roles # t.roles, t.roles),
                                  NewValue(s.using, t.using),
                                  NewValue(s.withCheck, t.withCheck)))
    IN  Compared(source, target, Create, Drop, Both)

-----------------------------------------------------------------------------
\* Views.

\* CREATE OR REPLACE VIEW appends columns, no more.
CanBeReplacedBy(old, new) == IsPrefix(old.output, new.output)

CompareView(source, target) ==
    LET Create(v) == <<CreateView(v)>>
        Drop(v) == <<DropView(v)>>
        Both(s, t) ==
            When(Without(s, {"owner"}) # Without(t, {"owner"}),
                 ReplaceView(s, t, ~CanBeReplacedBy(s, t)))
            \o OwnerChange(s, t, LAMBDA owner : AlterViewOwner(s, owner))
    IN  Compared(source, target, Create, Drop, Both)

CompareMaterializedView(source, target) ==
    LET Create(v) == <<CreateMaterializedView(v)>>
        Drop(v) == <<DropMaterializedView(v)>>
        derived == {"owner", "dependents", "has_indexes"}
        Both(s, t) ==
            When(Without(s, derived) # Without(t, derived), ReplaceMaterializedView(s, t))
            \o OwnerChange(s, t, LAMBDA owner : AlterMaterializedViewOwner(s, owner))
    IN  Compared(source, target, Create, Drop, Both)
=============================================================================
