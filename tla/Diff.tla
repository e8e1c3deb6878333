--------------------------------- MODULE Diff ---------------------------------
(***************************************************************************)
(* The diff engine: rename annotations, the comparators of tables, their    *)
(* columns and constraints, and indexes, which are aware of renames, the    *)
(* walk over the kinds of objects, and ignore rules.                        *)
(*                                                                         *)
(* A snapshot is a set of objects.  Renames are a record of two sets:        *)
(*   tables   [source, target]: qualified names                             *)
(*   columns  [source_table, source_name, target_table, target_name]        *)
(* Without annotations both are empty, and every comparison below is then    *)
(* the comparison without renames.                                          *)
(***************************************************************************)
EXTENDS Comparators

OfKind(S, kind) == {o \in S : o.ref.kind = kind}
ObjectAt(S, r) == IF \E o \in S : o.ref = r
                  THEN <<CHOOSE o \in S : o.ref = r>> ELSE <<>>

-----------------------------------------------------------------------------
\* Rename annotations.

\* Endpoints occur once on each side, nothing maps to itself or in a circle.
IsMapping(pairs) ==
    /\ \A p, q \in pairs : p[1] = q[1] \/ p[2] = q[2] => p = q
    /\ \A C \in SUBSET pairs \ {{}} : {p[1] : p \in C} # {p[2] : p \in C}

map_table(renames, name) ==
    IF \E m \in renames.tables : m.source = name
    THEN (CHOOSE m \in renames.tables : m.source = name).target
    ELSE name

map_column(renames, source, target, name) ==
    LET found == {m \in renames.columns : /\ m.source_table = source
                                          /\ m.target_table = target
                                          /\ m.source_name = name}
    IN  IF found = {} THEN name ELSE (CHOOSE m \in found : TRUE).target_name

ValidAnnotations(renames) ==
    /\ IsMapping({<<m.source, m.target>> : m \in renames.tables})
    /\ IsMapping({<<<<m.source_table, m.source_name>>, <<m.target_table, m.target_name>>>> :
                    m \in renames.columns})
    /\ \A m \in renames.columns : map_table(renames, m.source_table) = m.target_table

\* Both ends of a rename exist, and neither stays behind under its old name.
validate_for(renames, source, target) ==
    LET tables(S) == {QualifiedName(t.ref) : t \in OfKind(S, "table")}
        columns(S) == UNION {{<<QualifiedName(t.ref), name>> : name \in Names(t.columns)} :
                                t \in OfKind(S, "table")}
        sources == {<<m.source_table, m.source_name>> : m \in renames.columns}
        targets == {<<m.target_table, m.target_name>> : m \in renames.columns}
    IN  /\ \A m \in renames.tables :
            /\ m.source \in tables(source)
            /\ m.target \in tables(target)
            /\ m.source \in tables(target) => \E n \in renames.tables : n.target = m.source
            /\ m.target \in tables(source) => \E n \in renames.tables : n.source = m.target
        /\ \A m \in renames.columns :
            /\ <<m.source_table, m.source_name>> \in columns(source)
            /\ <<m.target_table, m.target_name>> \in columns(target)
            /\ <<m.target_table, m.source_name>> \notin columns(target) \ targets
            /\ <<m.source_table, m.target_name>> \notin columns(source) \ sources

-----------------------------------------------------------------------------
\* Tables: attributes, columns, constraints.

ColumnChanges(r, source, target) ==
    LET recollated == source.collation # target.collation
    IN  IF ~Same(source, target, {"pos", "fixed"}) \/ (recollated /\ target.collation = <<>>)
        THEN <<DiffError>>
        ELSE When(source.type # target.type \/ recollated,
                  AlterColumnType(r, target.type, IF recollated THEN target.collation ELSE <<>>))
             \o When(source.default # target.default,
                     SetColumnDefault(r, target.default, SequencePrerequisites(source),
                                      SequencePrerequisites(target)))
             \o When(source.nullable # target.nullable,
                     SetColumnNullability(r, target.nullable))

\* Columns pair by name, a renamed one with the column it becomes; the pairs
\* go by the position, then the name, of their target or else of their source.
CompareColumns(source, target, renames) ==
    LET Mapped(c) == map_column(renames, QualifiedName(source.ref), QualifiedName(target.ref), c.name)
        kept == {<<<<c>>, <<Named(target.columns, Mapped(c))>>>> :
                    c \in {x \in Range(source.columns) : Mapped(x) \in Names(target.columns)}}
        dropped == {<<<<c>>, <<>>>> :
                    c \in {x \in Range(source.columns) : Mapped(x) \notin Names(target.columns)}}
        added == {<<<<>>, <<c>>>> :
                    c \in {x \in Range(target.columns) :
                            \A y \in Range(source.columns) : Mapped(y) # x.name}}
        Leads(p) == IF p[2] # <<>> THEN p[2][1] ELSE p[1][1]
        Before(p, q) == \/ Leads(p).pos < Leads(q).pos
                        \/ /\ Leads(p).pos = Leads(q).pos
                           /\ Below(<<Leads(p).name>>, <<Leads(q).name>>)
        pairs == InOrder(kept \cup dropped \cup added, Before)
        Changes(p) ==
            IF p[1] = <<>> THEN <<AddColumn(ColumnRef(target.ref, p[2][1].name), p[2][1])>>
            ELSE IF p[2] = <<>> THEN <<DropColumn(ColumnRef(source.ref, p[1][1].name), p[1][1])>>
            ELSE LET s == p[1][1]
                     t == p[2][1]
                 IN  When(s.name # t.name, RenameColumn(ColumnRef(source.ref, s.name), t.name))
                     \o ColumnChanges(ColumnRef(target.ref, t.name), s, t)
    IN  FlattenSeq([i \in DOMAIN pairs |-> Changes(pairs[i])])

\* What tells two constraints apart; the definition of a foreign key, a primary
\* key or a unique constraint and where a constraint comes from do not.
Normalized(constraint) == Without(constraint, {"inherited", "validated"})

\* A constraint of the source under the names of the target.
Renamed(constraint, source, target, renames) ==
    LET columns(seq, s, t) ==
            [i \in DOMAIN seq |-> map_column(renames, s, t, seq[i])]
        local == [constraint EXCEPT !.columns =
                    columns(@, QualifiedName(source.ref), QualifiedName(target.ref))]
        Referenced(r) == LET name == map_table(renames, QualifiedName(r))
                         IN  ObjectRef("table", name[1], name[2])
    IN  IF constraint.kind # "foreign_key" THEN local
        ELSE LET old == constraint.refTable[1] IN
             [local EXCEPT !.refTable = <<Referenced(old)>>,
                           !.refColumns = columns(@, QualifiedName(old),
                                                  QualifiedName(Referenced(old)))]

CompareConstraints(source, target, renames) ==
    LET Before(x, y) == Below(<<x>>, <<y>>)
        names == InOrder(Names(source.constraints) \cup Names(target.constraints), Before)
        Ref(name) == SubObjectRef("constraint", target.ref, name)
        Changes(name) ==
            IF name \notin Names(source.constraints)
            THEN LET t == Named(target.constraints, name)
                 IN  When(~t.inherited, AddConstraint(Ref(name), t))
            ELSE LET s == Named(source.constraints, name) IN
                 IF name \notin Names(target.constraints)
                 THEN When(~s.inherited, DropConstraint(Ref(name), s))
                 ELSE LET t == Named(target.constraints, name) IN
                      IF \/ s.inherited /\ t.inherited
                         \/ Normalized(Renamed(s, source, target, renames)) = Normalized(t)
                      THEN <<>>
                      ELSE <<DropConstraint(Ref(name), s), AddConstraint(Ref(name), t)>>
    IN  FlattenSeq([i \in DOMAIN names |-> Changes(names[i])])

\* The attributes that changed; one that is gone is no change.
AttributeChanges(source, target, renames) ==
    LET partitioned == \E t \in {source, target} :
                            t.attrs.partKey # <<>> \/ t.attrs.partOf # <<>>
        Old(attribute) ==
            IF attribute = "partOf" /\ source.attrs.partOf # <<>>
            THEN <<[source.attrs.partOf[1] EXCEPT !.parent = map_table(renames, @)]>>
            ELSE source.attrs[attribute]
        new == [attribute \in DOMAIN target.attrs |->
                    NewValue(Old(attribute), target.attrs[attribute])]
    IN  IF new["unlogged"] # <<>> /\ partitioned THEN <<DiffError>>
        ELSE When(\E attribute \in DOMAIN new : new[attribute] # <<>>,
                  AlterTableAttrs(target.ref, new))

CompareTable(source, target, renames) ==
    LET Create(t) ==
            LET Before(x, y) == Below(<<x>>, <<y>>)
                empty == [t EXCEPT !.constraints = <<>>]
            IN  <<CreateTable(t)>> \o CompareConstraints(empty, t, renames)
        Drop(t) == <<DropTable(t)>>
        Both(s, t) ==
            LET annotated == \E m \in renames.tables : /\ m.source = QualifiedName(s.ref)
                                                       /\ m.target = QualifiedName(t.ref)
            IN  (IF s.ref # t.ref
                 THEN <<IF annotated THEN RenameTable(s.ref, t.ref) ELSE DiffError>>
                 ELSE <<>>)
                \o AttributeChanges(s, t, renames)
                \o CompareColumns(s, t, renames)
                \o CompareConstraints(s, t, renames)
    IN  Compared(source, target, Create, Drop, Both)

-----------------------------------------------------------------------------
\* Indexes.  The index of a constraint follows its constraint, one that is
\* attached to the index of a partitioned table follows that index.

STRUCTURAL_FIELDS == {"method", "keys", "include", "unique", "predicate", "partitioned"}

CompareIndex(source, target, renames) ==
    LET Detached(x) == SelectSeq(x, LAMBDA i : ~i.attached)
        Backs(x) == x # <<>> /\ x[1].constraintName # <<>>
        old == Detached(source)
        new == Detached(target)
        Create(i) == <<CreateIndex(i)>>
        Drop(i) == <<DropIndex(i)>>
        Mapped(s, t) ==
            LET Map(name) == map_column(renames, QualifiedName(s.table), QualifiedName(t.table), name)
            IN  [s EXCEPT !.keys = [k \in DOMAIN @ |->
                              [@[k] EXCEPT !.column = [c \in DOMAIN @ |-> Map(@[c])]]],
                          !.include = [k \in DOMAIN @ |-> Map(@[k])]]
        Both(s, t) ==
            LET moved == (renames.tables # {} \/ renames.columns # {})
                         /\ map_table(renames, QualifiedName(s.table)) # QualifiedName(t.table)
            IN  When(moved \/ ~Same(Mapped(s, t), t, STRUCTURAL_FIELDS), ReplaceIndex(s, t))
    IN  IF Backs(old) THEN IF new # <<>> /\ ~Backs(new) THEN Create(new[1]) ELSE <<>>
        ELSE IF Backs(new) THEN IF old # <<>> THEN Drop(old[1]) ELSE <<>>
        ELSE Compared(old, new, Create, Drop, Both)

-----------------------------------------------------------------------------
\* The walk: kind by kind, identity by identity, the tables that were renamed
\* before the others.

KINDS == <<"schema", "extension", "enum", "composite_type", "domain_type", "sequence",
           "function", "procedure", "trigger", "policy", "view", "materialized_view",
           "table", "index">>

TableOwners(S) == [r \in {t.ref : t \in OfKind(S, "table")} |-> ObjectAt(S, r)[1].attrs.owner]

Comparator(kind, source, target, S, T, renames) ==
    CASE kind = "schema" -> CompareSchema(source, target)
      [] kind = "extension" -> CompareExtension(source, target)
      [] kind = "enum" -> CompareEnum(source, target)
      [] kind = "composite_type" -> CompareCompositeType(source, target)
      [] kind = "domain_type" -> CompareDomainType(source, target)
      [] kind = "sequence" -> CompareSequence(source, target, TableOwners(S), TableOwners(T))
      [] kind = "function" -> CompareFunction(source, target, OfKind(T, "function"))
      [] kind = "procedure" -> CompareProcedure(source, target)
      [] kind = "trigger" -> CompareTrigger(source, target)
      [] kind = "policy" -> ComparePolicy(source, target)
      [] kind = "view" -> CompareView(source, target)
      [] kind = "materialized_view" -> CompareMaterializedView(source, target)
      [] kind = "table" -> CompareTable(source, target, renames)
      [] kind = "index" -> CompareIndex(source, target, renames)

\* The identities of one kind, each a pair of what the snapshots hold, in order.
\* Once a table is renamed, an index belongs to the table its table becomes.
Pairs(kind, S, T, renames) ==
    LET Target(o) ==
            IF kind = "table" THEN ObjectRef("table", map_table(renames, QualifiedName(o.ref))[1],
                                             map_table(renames, QualifiedName(o.ref))[2])
            ELSE o.ref
        ByTable == kind = "index" /\ renames.tables # {}
        Key(o, mapped) ==
            IF ByTable
            THEN (IF mapped THEN map_table(renames, QualifiedName(o.table))
                  ELSE QualifiedName(o.table)) \o <<o.ref.name>>
            ELSE LET r == IF mapped THEN Target(o) ELSE o.ref
                 IN  QualifiedName(r) \o r.args \o <<r.table>>
        sources == OfKind(S, kind)
        targets == OfKind(T, kind)
        At(objects, key, mapped) ==
            LET found == {o \in objects : Key(o, mapped) = key}
            IN  IF found = {} THEN <<>> ELSE <<CHOOSE o \in found : TRUE>>
        \* a renamed table goes first, by its old name
        Turn(key) ==
            LET old == {m \in renames.tables : m.target \o <<"">> = key}
            IN  IF kind = "table" /\ old # {} THEN <<0, (CHOOSE m \in old : TRUE).source>>
                ELSE <<1, key>>
        Before(x, y) == \/ Turn(x)[1] < Turn(y)[1]
                        \/ Turn(x)[1] = Turn(y)[1] /\ Below(Turn(x)[2], Turn(y)[2])
        keys == InOrder({Key(o, TRUE) : o \in sources} \cup {Key(o, FALSE) : o \in targets}, Before)
    IN  [i \in DOMAIN keys |-> <<At(sources, keys[i], TRUE), At(targets, keys[i], FALSE)>>]

-----------------------------------------------------------------------------
\* Ignore rules: [objects, attributes], sets of refs and of pairs of a ref and
\* an attribute.

\* Faulty variant: an ignored attribute is looked for on tables and extensions.
FilterAttributesOfObjects(d, ignored) ==
    CASE d.kind = "AlterTableAttrs" ->
            LET new == [a \in DOMAIN d.new |-> IF a \in ignored THEN <<>> ELSE d.new[a]]
            IN  When(\E a \in DOMAIN new : new[a] # <<>>, [d EXCEPT !.new = new])
      [] OTHER -> <<d>>

\* What is left of a delta: nothing when all it changes is ignored.
FilterAttributes(d, ignored) ==
    CASE d.kind = "AlterTableAttrs" ->
            LET new == [a \in DOMAIN d.new |-> IF a \in ignored THEN <<>> ELSE d.new[a]]
            IN  When(\E a \in DOMAIN new : new[a] # <<>>, [d EXCEPT !.new = new])
      [] d.kind = "AlterExtension" ->
            LET version == IF "version" \in ignored THEN <<>> ELSE d.new_version
                schema == IF "schema" \in ignored THEN <<>> ELSE d.new_schema
            IN  When(version # <<>> \/ schema # <<>>,
                     [d EXCEPT !.new_version = version, !.new_schema = schema])
      [] OTHER ->
            When(~ \/ d.kind = "AlterColumnType" /\ "type" \in ignored
                   \/ d.kind = "SetColumnDefault" /\ "default" \in ignored
                   \/ d.kind = "SetColumnNullability" /\ "nullability" \in ignored
                   \/ d.kind = "RenameColumn" /\ "name" \in ignored, d)

Apply(ignore, deltas) ==
    LET Kept(d) ==
            IF d.target \in ignore.objects THEN <<>>
            ELSE FilterAttributes(d, {p[2] : p \in {q \in ignore.attributes : q[1] = d.target}})
    IN  FlattenSeq([i \in DOMAIN deltas |-> Kept(deltas[i])])

\* A diff is refused as a whole.
diff(S, T, renames, ignore) ==
    LET OfPairs(kind) ==
            LET pairs == Pairs(kind, S, T, renames)
            IN  FlattenSeq([i \in DOMAIN pairs |->
                    Comparator(kind, pairs[i][1], pairs[i][2], S, T, renames)])
        all == FlattenSeq([i \in DOMAIN KINDS |-> OfPairs(KINDS[i])])
    IN  IF ~ValidAnnotations(renames) \/ ~validate_for(renames, S, T) \/ DiffError \in Range(all)
        THEN <<DiffError>>
        ELSE Apply(ignore, all)
=============================================================================
