-------------------------------- MODULE Catalog --------------------------------
(***************************************************************************)
(* PostgreSQL, as far as a migration meets it: a catalog, and what each       *)
(* statement that the emitters write does to it or why it is refused.         *)
(* EXTERNAL: none of this is code of the repository.                          *)
(*                                                                         *)
(* A catalog is a set of objects.  They have the fields of the objects of a   *)
(* snapshot except those an inspection derives, and two that it does not      *)
(* show: the width of a table, which counts dropped columns too, and the      *)
(* data of a column, which tells it from a new column of the same name.  The  *)
(* index of a key constraint is part of its constraint; of the indexes of a   *)
(* materialized view there is only whether it has any.                        *)
(***************************************************************************)
EXTENDS Emission

CONSTANT
    Migrator    \* the role that runs the migration

RELATIONS == {"table", "view", "materialized_view", "sequence", "index", "composite_type"}
TYPES == {"enum", "composite_type", "domain_type", "table", "view", "materialized_view"}
ROUTINES == {"function", "procedure"}

LabelRef(e, label) ==
    [kind |-> "label", ns |-> e.ns, name |-> label, table |-> e.name, args |-> <<>>]

At(C, r) == CHOOSE o \in C : o.ref = r
Exists(C, r) == \E o \in C : o.ref = r
Of(C, kind) == {o \in C : o.ref.kind = kind}
Put(C, o) == {p \in C : p.ref # o.ref} \cup {o}

-----------------------------------------------------------------------------
\* What an object names.

KeyRefs(t) == {ObjectRef("index", t.ref.ns, c.name) :
                  c \in {x \in Range(t.constraints) : x.kind \in BACKED}}

RefsOf(o) ==
    {o.ref}
    \cup (CASE o.ref.kind = "table" -> AllColumnRefs(o)
            [] o.ref.kind = "enum" -> {LabelRef(o.ref, label) : label \in Range(o.labels)}
            [] OTHER -> {})

TextsOf(o) ==
    CASE o.ref.kind = "table" ->
            UNION {{c.type} \cup Range(c.default) : c \in Range(o.columns)}
                \cup {c.expr : c \in Range(o.constraints)}
      [] o.ref.kind = "composite_type" -> {a.type : a \in Range(o.attributes)}
      [] o.ref.kind = "domain_type" ->
            {o.base} \cup Range(o.default) \cup {c.expr : c \in Range(o.checks)}
      [] o.ref.kind \in ROUTINES ->
            {a.type : a \in Range(o.arguments)} \cup Range(o.returns) \cup Range(o.defaults)
      [] o.ref.kind = "trigger" -> Range(o.when)
      [] o.ref.kind = "policy" -> Range(o.using) \cup Range(o.withCheck)
      [] o.ref.kind \in {"view", "materialized_view"} -> {o.query}
      [] o.ref.kind = "index" ->
            Range(o.predicate) \cup UNION {Range(k.expr) : k \in Range(o.keys)}
      [] OTHER -> {}

ConstraintUses(t, c) ==
    ColumnRefs(t, Range(c.columns)) \cup _fk_remote_refs(c)

\* What must exist as long as the object does.
UsesOfObject(o) ==
    UNION {text.uses : text \in TextsOf(o)}
    \cup (CASE o.ref.kind = "table" ->
                UNION {ConstraintUses(o.ref, c) : c \in Range(o.constraints)}
                \cup {ObjectRef("table", p.parent[1], p.parent[2]) : p \in Range(o.attrs.partOf)}
            [] o.ref.kind = "index" -> _index_refs(o)
            [] o.ref.kind = "trigger" -> _trigger_refs(o)
            [] o.ref.kind = "policy" -> {Parent(o.ref)}
            [] o.ref.kind = "sequence" -> Range(o.ownedBy)
            [] OTHER -> {})
    \cup (IF o.ref.kind \in {"schema", "extension"} THEN {}
          ELSE {ObjectRef("schema", o.ref.ns, o.ref.ns)})

-----------------------------------------------------------------------------
\* What a catalog always satisfies.

Children(C, t) ==
    {o \in Of(C, "table") : \E p \in Range(o.attrs.partOf) : p.parent = QualifiedName(t)}

NamesAreUnique(C) ==
    LET relations == {o.ref : o \in {x \in C : x.ref.kind \in RELATIONS}}
        keys == UNION {{<<t.ref, r>> : r \in KeyRefs(t)} : t \in Of(C, "table")}
        types == {o.ref : o \in {x \in C : x.ref.kind \in TYPES}}
        routines == {o.ref : o \in {x \in C : x.ref.kind \in ROUTINES}}
    IN  /\ \A r, s \in relations : QualifiedName(r) = QualifiedName(s) => r = s
        /\ \A r, s \in types : QualifiedName(r) = QualifiedName(s) => r = s
        /\ \A k \in keys : \A r \in relations : QualifiedName(r) # QualifiedName(k[2])
        /\ \A k, l \in keys : k[2] = l[2] => k = l
        /\ \A r, s \in routines :
            QualifiedName(r) = QualifiedName(s) /\ r.args = s.args => r = s

\* A foreign key refers to the columns of a key.
HasKey(C, r, columns) ==
    \E c \in Range(At(C, r).constraints) :
        c.kind \in {"primary_key", "unique"} /\ Range(c.columns) = Range(columns)

Sound(C) ==
    LET refs == UNION {RefsOf(o) : o \in C}
    IN  /\ \A o \in C : UsesOfObject(o) \subseteq refs
        /\ NamesAreUnique(C)
        /\ \A t \in Of(C, "table") : \A c \in Range(t.constraints) :
            c.kind = "foreign_key" => HasKey(C, c.refTable[1], c.refColumns)
        /\ \A q \in Of(C, "sequence") : \A r \in Range(q.ownedBy) :
            r.ns = q.ref.ns /\ At(C, Parent(r)).attrs.owner = q.owner

-----------------------------------------------------------------------------
\* Creation and removal.

\* What was not said about a new object.
NewColumn(c, pos) == [f \in {"pos", "data"} |-> IF f = "pos" THEN pos ELSE <<"new">>] @@ c

CompletedTable(C, t) ==
    LET parents == {p \in Of(C, "table") : \E x \in Range(t.attrs.partOf) :
                        x.parent = QualifiedName(p.ref)}
        given == IF parents = {} THEN t ELSE CHOOSE p \in parents : TRUE
        Check(c) == c.kind = "check"
        checks == IF parents = {} THEN <<>> ELSE SelectSeq(given.constraints, Check)
    IN  [width |-> Len(given.columns)] @@
        [t EXCEPT !.attrs = [@ EXCEPT !.owner = <<Migrator>>],
                  !.columns = [i \in DOMAIN given.columns |-> NewColumn(given.columns[i], i)],
                  !.constraints = [i \in DOMAIN checks |->
                                      [checks[i] EXCEPT !.inherited = TRUE]]]

Completed(C, o) ==
    CASE o.ref.kind = "table" -> CompletedTable(C, o)
      [] o.ref.kind = "materialized_view" ->
            [has_indexes |-> FALSE] @@ [o EXCEPT !.owner = <<Migrator>>]
      [] o.ref.kind \in {"schema", "extension", "index", "trigger", "policy"} -> o
      [] OTHER -> [o EXCEPT !.owner = <<Migrator>>]

\* What goes with a table or a column without being asked for.
Owned(C, refs) ==
    {o \in C : \/ o.ref.kind = "index" /\ _index_refs(o) \cap refs # {}
               \/ o.ref.kind = "sequence" /\ Range(o.ownedBy) \cap refs # {}
               \/ o.ref.kind \in {"trigger", "policy"} /\ Parent(o.ref) \in refs}

DropObject(C, r) ==
    LET gone == IF r.kind = "table" THEN {At(C, r)} \cup Children(C, r) ELSE {At(C, r)}
        refs == UNION {RefsOf(o) : o \in gone}
    IN  (C \ gone) \ Owned(C, refs)

\* Constraints and indexes of a column go with it.
DropColumnOf(t, name) ==
    LET keep(c) == /\ name \notin Range(c.columns)
                   /\ ColumnRef(t.ref, name) \notin c.expr.uses
        Other(c) == c.name # name
    IN  [t EXCEPT !.columns = SelectSeq(@, Other), !.constraints = SelectSeq(@, keep)]

-----------------------------------------------------------------------------
\* Names.

MapText(text, F(_)) == [text EXCEPT !.uses = {F(r) : r \in @}]
MapEach(seq, F(_)) == [i \in DOMAIN seq |-> F(seq[i])]

\* Every ref of an object, under F; a name of a column under N.
MapRefs(o, F(_), N(_, _)) ==
    LET Text1(text) == MapText(text, F)
        Texts(seq) == MapEach(seq, Text1)
        Column(c) == [c EXCEPT !.type = Text1(@), !.default = Texts(@)]
        Constraint(c) ==
            [c EXCEPT !.expr = Text1(@),
                      !.columns = [i \in DOMAIN @ |-> N(o.ref, @[i])],
                      !.refColumns = [i \in DOMAIN @ |-> N(c.refTable[1], @[i])],
                      !.refTable = MapEach(@, F)]
        Key(k) == [k EXCEPT !.column = [i \in DOMAIN @ |-> N(o.table, @[i])], !.expr = Texts(@)]
        Typed(a) == [a EXCEPT !.type = Text1(@)]
        Check(c) == [c EXCEPT !.expr = Text1(@)]
        Partition(p) == LET r == F(ObjectRef("table", p.parent[1], p.parent[2]))
                        IN  [p EXCEPT !.parent = QualifiedName(r)]
        moved == [o EXCEPT !.ref = F(@)]
    IN  CASE o.ref.kind = "table" ->
                [moved EXCEPT !.columns = MapEach(@, Column),
                              !.constraints = MapEach(@, Constraint),
                              !.attrs = [@ EXCEPT !.partOf = MapEach(@, Partition)]]
          [] o.ref.kind = "index" ->
                [moved EXCEPT !.table = F(@), !.keys = MapEach(@, Key), !.predicate = Texts(@),
                              !.include = [i \in DOMAIN @ |-> N(o.table, @[i])]]
          [] o.ref.kind = "sequence" -> [moved EXCEPT !.ownedBy = MapEach(@, F)]
          [] o.ref.kind \in {"view", "materialized_view"} -> [moved EXCEPT !.query = Text1(@)]
          [] o.ref.kind = "trigger" ->
                [moved EXCEPT !.when = Texts(@), !.referenced = MapEach(@, F),
                              !.updates = [i \in DOMAIN @ |-> N(Parent(o.ref), @[i])]]
          [] o.ref.kind = "policy" -> [moved EXCEPT !.using = Texts(@), !.withCheck = Texts(@)]
          [] o.ref.kind = "composite_type" -> [moved EXCEPT !.attributes = MapEach(@, Typed)]
          [] o.ref.kind = "domain_type" ->
                [moved EXCEPT !.base = Text1(@), !.default = Texts(@), !.checks = MapEach(@, Check)]
          [] o.ref.kind \in ROUTINES ->
                [moved EXCEPT !.arguments = MapEach(@, Typed), !.returns = Texts(@),
                              !.defaults = Texts(@)]
          [] OTHER -> moved

\* A table takes its sub-objects along; to another schema, also its indexes and
\* the sequences its columns own.
MoveTable(C, r, new) ==
    LET along == {o.ref : o \in {x \in C : \/ x.ref.kind = "index" /\ x.table = r
                                           \/ x.ref.kind = "sequence" /\
                                                \E c \in Range(x.ownedBy) : Parent(c) = r}}
        F(s) == IF s = r THEN new
                ELSE IF HasParent(s) /\ Parent(s) = r THEN SubObjectRef(s.kind, new, s.name)
                ELSE IF s \in along THEN [s EXCEPT !.ns = new.ns] ELSE s
        N(t, name) == name
    IN  {MapRefs(o, F, N) : o \in C}

RenameColumnOf(C, t, old, new) ==
    LET F(s) == IF s = ColumnRef(t, old) THEN ColumnRef(t, new) ELSE s
        N(r, name) == IF r = t /\ name = old THEN new ELSE name
        Column(c) == IF c.name = old THEN [c EXCEPT !.name = new] ELSE c
        Relabel(o) == IF o.ref = t THEN [o EXCEPT !.columns = MapEach(@, Column)] ELSE o
    IN  {Relabel(MapRefs(o, F, N)) : o \in C}

-----------------------------------------------------------------------------
\* The statements: what each one asks for, and what it does.

IsPartition(C, r) == At(C, r).attrs.partOf # <<>>
WithChildren(C, r) == {r} \cup {o.ref : o \in Children(C, r)}

\* The rules of a view, a policy or a trigger hold a column to its type.
HeldBy(C, column) ==
    \E o \in C : o.ref.kind \in {"view", "materialized_view", "policy", "trigger"}
                /\ column \in UsesOfObject(o)

\* The body of a routine in SQL is checked when the routine is created.
BodyResolves(C, o) ==
    o.ref.kind \in ROUTINES /\ o.language = "sql"
        => o.body.uses \subseteq UNION {RefsOf(p) : p \in C}

Elements(C, r, part) == At(C, r)[part]

Allowed(C, sql) ==
    CASE sql.do = "create" -> ~Exists(C, sql.object.ref) /\ BodyResolves(C, sql.object)
      [] sql.do = "replace" ->
            /\ BodyResolves(C, sql.object)
            /\ Exists(C, sql.object.ref) /\ sql.object.ref.kind = "view"
                => IsPrefix(At(C, sql.object.ref).output, sql.object.output)
      [] sql.do = "drain" -> TRUE
      [] OTHER ->
            /\ Exists(C, sql.ref)
            /\ CASE sql.do = "set" ->
                        \* an owned sequence has the owner of its table
                        ~(/\ sql.field = "owner" /\ sql.ref.kind = "sequence"
                          /\ At(C, sql.ref).ownedBy # <<>>)
                 [] sql.do = "add" ->
                        /\ sql.element.name \notin Names(Elements(C, sql.ref, sql.part))
                        /\ sql.part = "columns" => ~IsPartition(C, sql.ref)
                 [] sql.do = "remove" ->
                        /\ sql.name \in Names(Elements(C, sql.ref, sql.part))
                        /\ sql.part = "columns" => ~IsPartition(C, sql.ref)
                 [] sql.do = "alter" ->
                        /\ sql.name \in Names(Elements(C, sql.ref, sql.part))
                        /\ sql.part = "attributes" =>
                            ~\E t \in Of(C, "table") : \E c \in Range(t.columns) :
                                sql.ref \in c.type.uses
                 [] sql.do = "retype" ->
                        /\ sql.name \in Names(At(C, sql.ref).columns)
                        /\ ~IsPartition(C, sql.ref)
                        /\ ~HeldBy(C, ColumnRef(sql.ref, sql.name))
                 [] sql.do = "rename_column" ->
                        LET names == Names(At(C, sql.ref).columns)
                        IN  /\ sql.name \in names /\ sql.new \notin names
                            /\ ~IsPartition(C, sql.ref)
                 [] sql.do = "rename" -> ~Exists(C, [sql.ref EXCEPT !.name = sql.name])
                 [] sql.do = "set_schema" -> ~Exists(C, [sql.ref EXCEPT !.ns = sql.ns])
                 [] sql.do = "add_value" ->
                        LET labels == Range(At(C, sql.ref).labels)
                        IN  sql.label \notin labels /\ Range(sql.before \o sql.after) \subseteq labels
                 [] OTHER -> TRUE

\* A column that is added goes behind all the table ever had.
Grown(t, part, element) ==
    IF part = "columns"
    THEN [t EXCEPT !.width = @ + 1, !.columns = Append(@, NewColumn(element, t.width + 1))]
    ELSE [t EXCEPT ![part] = Append(@, element)]

Adding(C, r, part, element) ==
    LET Inheriting(o) ==
            IF o.ref = r THEN Grown(o, part, element)
            ELSE IF r.kind = "table" /\ o \in Children(C, r)
            THEN Grown(o, part, IF part = "constraints" THEN [element EXCEPT !.inherited = TRUE]
                                ELSE element)
            ELSE o
    IN  {Inheriting(o) : o \in C}

Removing(C, r, part, name) ==
    LET refs == WithChildren(C, r)
        Other(e) == e.name # name
        Without1(o) ==
            IF o.ref \notin (IF r.kind = "table" THEN refs ELSE {r}) THEN o
            ELSE IF part = "columns" THEN DropColumnOf(o, name)
            ELSE [o EXCEPT ![part] = SelectSeq(@, Other)]
        gone == IF part = "columns" THEN Owned(C, {ColumnRef(t, name) : t \in refs}) ELSE {}
    IN  {Without1(o) : o \in C \ gone}

\* A change of an element of a table reaches its partitions.
Changing(C, r, part, name, Change(_)) ==
    LET refs == IF r.kind = "table" THEN WithChildren(C, r) ELSE {r}
        Element(e) == IF e.name = name THEN Change(e) ELSE e
    IN  {IF o.ref \in refs THEN [o EXCEPT ![part] = MapEach(@, Element)] ELSE o : o \in C}

Setting(C, r, field, value) ==
    LET Owners(o) ==
            IF o.ref.kind = "sequence" /\ \E c \in Range(o.ownedBy) : Parent(c) = r
            THEN [o EXCEPT !.owner = value] ELSE o
        ofTable == r.kind = "table"
        changed == IF ofTable THEN [At(C, r) EXCEPT !.attrs = [@ EXCEPT ![field] = value]]
                   ELSE [At(C, r) EXCEPT ![field] = value]
    IN  Put(IF ofTable /\ field = "owner" THEN {Owners(o) : o \in C} ELSE C, changed)

\* ADD VALUE: BEFORE or AFTER a label, or else behind all of them.
Labelled(e, label, before, after) ==
    LET at(l) == CHOOSE i \in DOMAIN e.labels : e.labels[i] = l
        place == IF before # <<>> THEN at(before[1])
                 ELSE IF after # <<>> THEN at(after[1]) + 1 ELSE Len(e.labels) + 1
    IN  [e EXCEPT !.labels = InsertAt(@, place, label)]

Replaced(C, o) ==
    IF ~Exists(C, o.ref) THEN Completed(C, o)
    ELSE IF "owner" \in DOMAIN o THEN [o EXCEPT !.owner = At(C, o.ref).owner] ELSE o

Effect(C, sql) ==
    CASE sql.do = "create" -> C \cup {Completed(C, sql.object)}
      [] sql.do = "replace" -> Put(C, Replaced(C, sql.object))
      [] sql.do = "drain" -> C
      [] sql.do = "drop" -> DropObject(C, sql.ref)
      [] sql.do = "set" -> Setting(C, sql.ref, sql.field, sql.value)
      [] sql.do = "add" -> Adding(C, sql.ref, sql.part, sql.element)
      [] sql.do = "remove" -> Removing(C, sql.ref, sql.part, sql.name)
      [] sql.do = "alter" ->
            Changing(C, sql.ref, sql.part, sql.name, LAMBDA e : [e EXCEPT ![sql.field] = sql.value])
      [] sql.do = "retype" ->
            Changing(C, sql.ref, "columns", sql.name,
                     LAMBDA c : [c EXCEPT !.type = sql.type, !.collation = sql.collation])
      [] sql.do = "rename_column" -> RenameColumnOf(C, sql.ref, sql.name, sql.new)
      [] sql.do = "rename" -> MoveTable(C, sql.ref, [sql.ref EXCEPT !.name = sql.name])
      [] sql.do = "set_schema" -> MoveTable(C, sql.ref, [sql.ref EXCEPT !.ns = sql.ns])
      [] sql.do = "add_value" ->
            Put(C, Labelled(At(C, sql.ref), sql.label, sql.before, sql.after))
      [] sql.do = "alter_policy" ->
            LET p == At(C, sql.ref)
                Or(new, old) == IF new = <<>> THEN old ELSE new
            IN  Put(C, [p EXCEPT !.roles = IF sql.roles = <<>> THEN @ ELSE sql.roles[1],
                                 !.using = Or(sql.using, @),
                                 !.withCheck = Or(sql.check, @)])

-----------------------------------------------------------------------------
\* A transaction: all of its statements, or none.  CONCURRENTLY is refused on a
\* partitioned table, and a label is not used before it is committed.

Concurrently(C, s) ==
    LET r == IF s.sql.do = "create" THEN s.sql.object.ref ELSE s.sql.ref
        i == IF s.sql.do = "create" THEN s.sql.object ELSE At(C, r)
    IN  At(C, i.table).attrs.partKey = <<>>

UsesOfCatalog(C) == UNION {UsesOfObject(o) : o \in C}

\* The catalog after a unit: none when the unit is refused.
Executed(C, statements) ==
    LET Step(state, s) ==
            IF state.catalogs = {} THEN state
            ELSE LET before == CHOOSE D \in state.catalogs : TRUE
                     label == IF s.sql.do = "add_value"
                              THEN {LabelRef(s.sql.ref, s.sql.label)} ELSE {}
                     runs == Allowed(before, s.sql) /\ (s.transactional \/ Concurrently(before, s))
                     after == Effect(before, s.sql)
                     used == UsesOfCatalog(after) \ UsesOfCatalog(before)
                 IN  IF runs /\ Sound(after) /\ used \cap state.fresh = {}
                     THEN [catalogs |-> {after}, fresh |-> state.fresh \cup label]
                     ELSE [catalogs |-> {}, fresh |-> {}]
    IN  FoldLeft(Step, [catalogs |-> {C}, fresh |-> {}], statements).catalogs
=============================================================================
