------------------------------ MODULE MCMigrate ------------------------------
(***************************************************************************)
(* Finite instances of Migrate.  A family is a set of catalogs that differ   *)
(* in one part of a schema; each of them is migrated to each other one.      *)
(***************************************************************************)
EXTENDS Migrate

CONSTANT Families    \* the families of a run

MCAlphabet ==
    <<"", "(", ")", "a", "alter", "app", "aux", "b", "c", "c_a", "c_fk", "cc", "code", "create",
      "d", "drop", "e", "f", "g", "hello", "i_a", "i_b", "id", "int", "k", "l", "m", "n", "p",
      "p_key", "p_pkey", "pid", "pol", "q", "r", "rename", "replace", "s", "t", "t_g", "text",
      "u", "v", "w", "x">>

NoRenames == [tables |-> {}, columns |-> {}]
NothingIgnored == [objects |-> {}, attributes |-> {}]

-----------------------------------------------------------------------------
\* Parts of a catalog.

Ref(kind, name) == ObjectRef(kind, "app", name)
Plain(says) == Text(says, {})
Typed(kind, name) == Text(name, {Ref(kind, name)})
IntType == Plain("int")

Schema(ns) == [ref |-> ObjectRef("schema", ns, ns), owner |-> <<"r">>, comment |-> <<>>]
App == {Schema("app")}

Column(name, type) ==
    [name |-> name, type |-> type, collation |-> <<>>, nullable |-> TRUE, default |-> <<>>,
     fixed |-> ""]
Attributes ==
    [owner |-> <<"r">>, tablespace |-> <<>>, comment |-> <<>>, unlogged |-> <<FALSE>>,
     partKey |-> <<>>, partOf |-> <<>>, rls |-> <<FALSE>>, force |-> <<FALSE>>]
TableIn(ns, name, columns, constraints) ==
    [ref |-> ObjectRef("table", ns, name), constraints |-> constraints, attrs |-> Attributes,
     width |-> Len(columns),
     columns |-> [i \in DOMAIN columns |->
                    [pos |-> i, data |-> <<name, columns[i].name>>] @@ columns[i]]]
Table(name, columns, constraints) == TableIn("app", name, columns, constraints)

Constraint(name, kind, columns) ==
    [name |-> name, kind |-> kind, columns |-> columns, refTable |-> <<>>, refColumns |-> <<>>,
     expr |-> Plain(""), inherited |-> FALSE, validated |-> TRUE]
Check(name, t, column, says) ==
    [Constraint(name, "check", <<>>) EXCEPT !.expr = Text(says, {ColumnRef(Ref("table", t), column)})]
ForeignKey(name, columns, t, referred) ==
    [Constraint(name, "foreign_key", columns) EXCEPT !.refTable = <<Ref("table", t)>>,
                                                     !.refColumns = referred]
Index(name, t, columns, unique) ==
    [ref |-> Ref("index", name), table |-> Ref("table", t), method |-> "btree",
     keys |-> [i \in DOMAIN columns |-> [column |-> <<columns[i]>>, expr |-> <<>>]],
     include |-> <<>>, unique |-> unique, predicate |-> <<>>, partitioned |-> FALSE,
     attached |-> FALSE, constraintName |-> <<>>, comment |-> <<>>]

Columns(t, names) == {ColumnRef(Ref("table", t), n) : n \in names}
View(name, output, says, uses) ==
    [ref |-> Ref("view", name), output |-> output, query |-> Text(says, uses), owner |-> <<"r">>]

\* One or none of the elements of S.
Maybe(S) == {<<>>} \cup {<<x>> : x \in S}
MaybeIn(S) == {{}} \cup {{x} : x \in S}

-----------------------------------------------------------------------------
\* Requests: catalogs that PostgreSQL would not hold are left out.

AskedOf(sources, desired, renames, ignores, schemas) ==
    [source : {C \in sources : Sound(C)}, desired : {C \in desired : Sound(C)},
     renames : renames, ignore : ignores, schemas : schemas, maxRisk : {DANGEROUS, DESTRUCTIVE}]

Asked(catalogs, ignores, schemas) ==
    AskedOf(catalogs, catalogs, {NoRenames}, ignores, schemas)

Simply(catalogs) == Asked(catalogs, {NothingIgnored}, {<<>>})

-----------------------------------------------------------------------------
\* Columns come and go at the end of a table, by ascending name.

ColumnsFamily ==
    LET t == Ref("table", "t")
        a == Column("a", IntType)
        as == {a, [a EXCEPT !.type = Plain("text"), !.nullable = FALSE, !.default = <<Plain("x")>>]}
        b == Column("b", IntType)
        pos == <<Column("id", IntType)>>
        tables == {Table("t", pos, <<>>)}
            \cup {Table("t", pos \o <<x>> \o y, c) :
                    x \in as, y \in Maybe({b}), c \in Maybe({Check("c_a", "t", "id", "x")})}
            \cup {[Table("t", pos \o <<a>>, <<>>) EXCEPT !.attrs =
                        [@ EXCEPT !.rls = <<TRUE>>, !.comment = <<"x">>, !.owner = <<"s">>]]}
        indexes(x) == IF "a" \in Names(x.columns)
                      THEN MaybeIn({Index("i_a", "t", <<"a">>, FALSE)}) ELSE {{}}
        v == View("v", <<"id">>, "x", Columns("t", {"id"}) \cup {t})
    IN  UNION {{App \cup {x} \cup i \cup w : i \in indexes(x), w \in MaybeIn({v})} : x \in tables}

-----------------------------------------------------------------------------
\* Keys: a table of two keys, one of which may be a plain index of the same
\* name, and a foreign key to either.

KeysFamily ==
    LET primary == Constraint("p_pkey", "primary_key", <<"id">>)
        unique == Constraint("p_key", "unique", <<"code">>)
        P(keys) == Table("p", <<Column("id", IntType), Column("code", IntType)>>, keys)
        C(keys) == Table("c", <<Column("pid", IntType)>>, keys)
        ps == {{P(x \o y)} : x \in Maybe({primary}), y \in Maybe({unique})}
              \cup {{P(x), Index("p_key", "p", <<"code">>, u)} :
                        x \in Maybe({primary}), u \in BOOLEAN}
        keys == {ForeignKey("c_fk", <<"pid">>, "p", <<"id">>),
                 ForeignKey("c_fk", <<"pid">>, "p", <<"code">>)}
    IN  {App \cup p \cup c : p \in ps, c \in {{}} \cup {{C(k)} : k \in Maybe(keys)}}

-----------------------------------------------------------------------------
\* Types, and a table whose column has the type.

Label(e, label) == LabelRef(Ref("enum", e), label)

EnumsFamily ==
    LET Enum(labels) == [ref |-> Ref("enum", "e"), labels |-> labels, owner |-> <<"r">>]
        T(default) == Table("t", <<[Column("a", Typed("enum", "e")) EXCEPT !.default = default]>>,
                            <<>>)
        labels == {<<"b">>, <<"a", "b">>, <<"b", "c">>, <<"a", "b", "c", "d">>, <<"b", "a">>}
        defaults == Maybe({Text(l, {Label("e", l)}) : l \in {"b", "c"}})
    IN  {App} \cup {App \cup {Enum(l)} \cup t : l \in labels,
                        t \in {{}} \cup {{T(d)} : d \in defaults}}

DomainsFamily ==
    LET k == [name |-> "k", expr |-> Plain("x"), validated |-> TRUE]
        checks == {<<>>, <<k>>, <<[k EXCEPT !.validated = FALSE]>>, <<[k EXCEPT !.expr = Plain("")]>>}
        Domain(cs, default, notNull, base) ==
            [ref |-> Ref("domain_type", "d"), base |-> base, default |-> default,
             notNull |-> notNull, checks |-> cs, owner |-> <<"r">>]
        domains == {Domain(cs, <<>>, n, IntType) : cs \in checks, n \in BOOLEAN}
                   \cup {Domain(<<>>, <<Plain("x")>>, FALSE, b) : b \in {IntType, Plain("text")}}
        T == Table("t", <<Column("id", IntType), Column("x", Typed("domain_type", "d"))>>, <<>>)
        T1 == Table("t", <<Column("id", IntType)>>, <<>>)
        C == [ref |-> Ref("composite_type", "c"), owner |-> <<"r">>,
              attributes |-> <<[name |-> "a", type |-> Typed("domain_type", "d")]>>]
        T2 == Table("t", <<Column("id", IntType), Column("x", Typed("composite_type", "c"))>>, <<>>)
    IN  <<{App \cup {T1}} \cup {App \cup {d} \cup use : d \in domains, use \in {{T}, {T1}}},
          {App} \cup {App \cup {d, C, T2} : d \in domains}>>

CompositesFamily ==
    LET A(name, type) == [name |-> name, type |-> type]
        E == [ref |-> Ref("enum", "e"), labels |-> <<"a">>, owner |-> <<"r">>]
        C(as, owner) == [ref |-> Ref("composite_type", "c"), attributes |-> as, owner |-> owner]
        attributes == {<<A("a", IntType)>>, <<A("a", IntType), A("b", Typed("enum", "e"))>>,
                       <<A("b", Typed("enum", "e"))>>, <<A("a", Plain("text"))>>,
                       <<A("b", IntType), A("a", IntType)>>}
        T == Table("t", <<Column("id", Typed("composite_type", "c"))>>, <<>>)
    IN  <<{App, App \cup {T, C(<<A("a", IntType)>>, <<"r">>)}},
          {App} \cup {App \cup {C(as, o), E} : as \in attributes, o \in {<<"r">>, <<"s">>}}
                \cup {App \cup {C(as, <<"r">>)} : as \in attributes}>>

-----------------------------------------------------------------------------
\* A sequence: on its own, behind a default, owned by a column.

SequencesFamily ==
    LET s == [ref |-> Ref("sequence", "s"), options |-> "x", ownedBy |-> <<>>, owner |-> <<"r">>]
        T(default, owner) ==
            [Table("t", <<Column("a", IntType), [Column("id", IntType) EXCEPT !.default = default]>>, <<>>)
                EXCEPT !.attrs = [@ EXCEPT !.owner = owner]]
        next == <<Text("s", {Ref("sequence", "s")})>>
        own == <<ColumnRef(Ref("table", "t"), "id")>>
        sequences == {s, [s EXCEPT !.options = "a"], [s EXCEPT !.owner = <<"s">>],
                      [s EXCEPT !.ownedBy = own], [s EXCEPT !.ownedBy = own, !.owner = <<"s">>]}
    IN  {App, App \cup {T(<<>>, <<"r">>)}}
        \cup {App \cup {q} \cup t : q \in sequences,
                 t \in {{}} \cup {{T(d, o)} : d \in {<<>>, next}, o \in {<<"r">>, <<"s">>}}}

-----------------------------------------------------------------------------
\* Routines, and what calls them: a default, a trigger, a policy.

Function(name, args, body) ==
    [ref |-> RoutineRef("function", "app", name, args), returns |-> <<IntType>>,
     arguments |-> [i \in DOMAIN args |-> [name |-> <<>>, mode |-> "IN", type |-> Plain(args[i])]],
     defaults |-> <<>>, body |-> Plain(body), language |-> "plpgsql", definer |-> FALSE,
     owner |-> <<"r">>]

RoutinesFamily ==
    LET t == Ref("table", "t")
        f == Function("f", <<>>, "x")
        fs == {f, [f EXCEPT !.body = Plain("a")], [f EXCEPT !.owner = <<"s">>],
               [f EXCEPT !.returns = <<Plain("text")>>], [f EXCEPT !.definer = TRUE]}
        g == Function("g", <<"int">>, "x")
        g2 == [Function("g", <<"int", "text">>, "x") EXCEPT !.defaults = <<Plain("x")>>]
        Calls == <<Text("f", {f.ref})>>
        T(default) == Table("t", <<Column("id", IntType),
                                   [Column("x", IntType) EXCEPT !.default = default]>>, <<>>)
        k == [ref |-> RoutineRef("procedure", "app", "k", <<"int">>), returns |-> <<>>] @@ g
        ks == {k, [k EXCEPT !.body = Plain("a")], [k EXCEPT !.owner = <<"s">>]}
    IN  <<{App} \cup {App \cup {T(<<>>)} \cup x : x \in MaybeIn(fs)}
                \cup {App \cup {T(Calls), x} : x \in fs},
          {App \cup x \cup y \cup z : x \in MaybeIn({g}), y \in MaybeIn({g2}), z \in MaybeIn(ks)}>>

GuardsFamily ==
    LET t == Ref("table", "t")
        f == Function("f", <<>>, "x")
        T(xs) == Table("t", <<Column("id", IntType)>> \o xs, <<>>)
        x == Column("x", IntType)
        Trigger(updates, when, constraint, enabled) ==
            [ref |-> SubObjectRef("trigger", t, "t_g"), function |-> f.ref, referenced |-> <<>>,
             updates |-> updates, when |-> when, constraint |-> constraint, enabled |-> enabled]
        triggers == {Trigger(<<>>, <<>>, FALSE, "O"), Trigger(<<>>, <<>>, FALSE, "D"),
                     Trigger(<<"x">>, <<>>, FALSE, "D"), Trigger(<<>>, <<>>, TRUE, "O"),
                     Trigger(<<>>, <<Text("x", {ColumnRef(t, "id")})>>, FALSE, "O")}
        Policy(command, using, check) ==
            [ref |-> SubObjectRef("policy", t, "pol"), command |-> command, permissive |-> TRUE,
             roles |-> <<"r">>, using |-> using, withCheck |-> check]
        OnX == <<Text("x", {ColumnRef(t, "x")})>>
        ByF == <<Text("f", {f.ref})>>
        policies == {Policy("all", <<>>, <<>>), Policy("all", OnX, ByF), Policy("all", ByF, <<>>),
                     [Policy("all", ByF, <<>>) EXCEPT !.roles = <<"s">>]}
    IN  <<{App} \cup {App \cup {T(<<x>>), f} \cup g : g \in MaybeIn(triggers)}
                \cup {App \cup {T(<<>>)}},
          {App, App \cup {T(<<>>)}}
                \cup {App \cup {T(<<x>>), f} \cup p : p \in MaybeIn(policies)}>>

-----------------------------------------------------------------------------
\* Views over a table, over one another, and a materialized view.

ViewsFamily ==
    LET t == Ref("table", "t")
        v == View("v", <<"id">>, "x", {t} \cup Columns("t", {"id"}))
        vs == {v, View("v", <<"id", "x">>, "x", {t} \cup Columns("t", {"id", "x"})),
               View("v", <<"x">>, "x", {t} \cup Columns("t", {"x"})), [v EXCEPT !.owner = <<"s">>]}
        w == View("w", <<"id">>, "x", {v.ref})
        m(uses) == [has_indexes |-> FALSE, ref |-> Ref("materialized_view", "m")]
                   @@ View("m", <<"id">>, "x", uses)
        ms == {m({t}), m({v.ref}), [m({t}) EXCEPT !.has_indexes = TRUE]}
        n(uses) == View("n", <<"id">>, "x", uses)
        ns == {n({t}), n({Ref("materialized_view", "m")})}
        T(xs) == Table("t", <<Column("id", IntType)>> \o xs, <<>>)
        x == Column("x", IntType)
    IN  <<{App, App \cup {T(<<>>)}} \cup {App \cup {T(<<x>>), y} \cup z :
                                                y \in vs, z \in MaybeIn({w})},
          {App \cup {T(<<>>), v} \cup y \cup z : y \in MaybeIn(ms), z \in MaybeIn(ns)}>>

\* What reads the materialized view is outside of the schemas that are compared.
HiddenFamily ==
    LET t == Ref("table", "t")
        M(says) == [has_indexes |-> FALSE, ref |-> Ref("materialized_view", "m")]
                   @@ View("m", <<"id">>, says, {t})
        Hidden == [View("v", <<"id">>, "x", {M("x").ref})
                    EXCEPT !.ref = ObjectRef("view", "aux", "v")]
        T == Table("t", <<Column("id", IntType)>>, <<>>)
    IN  {App \cup {T, Schema("aux")} \cup m : m \in MaybeIn({M("x"), M("a")})}
        \cup {App \cup {T, Schema("aux"), Hidden, M("x")}}

-----------------------------------------------------------------------------
\* A table and a column get new names, and what hangs on them follows.

RenamesFamily(ns, name, columns) ==
    LET t == ObjectRef("table", ns, name)
        last == columns[Len(columns)]
        f == [Function("f", <<>>, "x") EXCEPT !.returns = <<IntType>>]
        T(keys) == TableIn(ns, name, [i \in DOMAIN columns |-> Column(columns[i], IntType)], keys)
        key == Constraint("p_key", "unique", <<last>>)
        I == [Index("i_a", name, <<last>>, FALSE) EXCEPT !.ref = ObjectRef("index", ns, "i_a"),
                                                         !.table = t]
        G == [ref |-> SubObjectRef("trigger", t, "t_g"), function |-> f.ref, referenced |-> <<>>,
              updates |-> <<last>>, when |-> <<>>, constraint |-> FALSE, enabled |-> "O"]
        Pol == [ref |-> SubObjectRef("policy", t, "pol"), command |-> "all", permissive |-> TRUE,
                roles |-> <<"r">>, using |-> <<>>, withCheck |-> <<>>]
        C == Table("c", <<Column("pid", IntType)>>,
                   <<[ForeignKey("c_fk", <<"pid">>, name, <<last>>) EXCEPT !.refTable = <<t>>]>>)
    IN  {App \cup {Schema("aux"), f, T(<<>>)} \cup x :
            x \in {{}, {I}, {G}, {Pol}, {I, G}}}
        \cup {App \cup {Schema("aux"), f, T(<<key>>)} \cup x : x \in {{}, {C}, {I}}}

RenamedTo(ns, name, column) ==
    {[tables |-> {[source |-> <<"app", "t">>, target |-> <<ns, name>>]} ,
      columns |-> cs] :
        cs \in IF column = "a" THEN {{}}
               ELSE {{[source_table |-> <<"app", "t">>, source_name |-> "a",
                       target_table |-> <<ns, name>>, target_name |-> column]}}}

\* To the schema and the name of each place, the column to each name.
RenameRequests(places) ==
    UNION {LET all == RenamedTo(place[1], place[2], column)
           IN  AskedOf(RenamesFamily("app", "t", <<"id", "a">>),
                       RenamesFamily(place[1], place[2], <<"id", column>>),
                       IF place = <<"app", "t">> THEN {[r EXCEPT !.tables = {}] : r \in all} ELSE all,
                       {NothingIgnored}, {<<>>}) :
                place \in places, column \in {"a", "b"}}

-----------------------------------------------------------------------------
\* Schemas, extensions, partitions; ignore rules.

SchemasFamily ==
    LET Extension(version, schema) ==
            [ref |-> ObjectRef("extension", "", "e"), version |-> version, schema |-> <<schema>>,
             comment |-> <<>>]
        In == TableIn("aux", "t", <<Column("id", IntType)>>, <<>>)
    IN  {App \cup e : e \in MaybeIn({Extension("a", "app"), Extension("b", "app")})}
        \cup {App \cup {Schema("aux")} \cup e \cup x :
                e \in MaybeIn({Extension("a", "app"), Extension("b", "aux")}), x \in MaybeIn({In})}

PartitionsFamily ==
    LET p == [Table("p", <<Column("id", IntType)>>, <<>>) EXCEPT !.attrs =
                [@ EXCEPT !.partKey = <<"id">>]]
        k == Check("k", "p", "id", "x")
        Child(checks) ==
            [Table("q", <<Column("id", IntType)>>, [i \in DOMAIN checks |->
                    [checks[i] EXCEPT !.inherited = TRUE, !.expr = Plain("x")]])
                EXCEPT !.attrs = [@ EXCEPT !.partOf = <<[parent |-> <<"app", "p">>, bounds |-> "x"]>>]]
        I == [Index("i_a", "p", <<"id">>, FALSE) EXCEPT !.partitioned = TRUE]
        J == [Index("i_b", "q", <<"id">>, FALSE) EXCEPT !.attached = TRUE]
    IN  {App \cup {[p EXCEPT !.constraints = cs]} \cup q \cup i :
            cs \in {<<>>, <<[k EXCEPT !.expr = Plain("x")]>>}, q \in {{}},
            i \in MaybeIn({I})}
        \cup {App \cup {[p EXCEPT !.constraints = cs], Child(cs)} \cup i :
                cs \in {<<>>, <<[k EXCEPT !.expr = Plain("x")]>>}, i \in {{}, {I, J}}}

IgnoreFamily ==
    LET t == Ref("table", "t")
        a == Column("a", IntType)
        T(x, comment) == [Table("t", <<Column("id", IntType)>> \o x, <<>>) EXCEPT !.attrs =
                            [@ EXCEPT !.comment = comment]]
        as == {a, [a EXCEPT !.type = Plain("text"), !.default = <<Plain("x")>>]}
    IN  {App \cup {T(x, c)} : x \in Maybe(as), c \in Maybe({"x"})}
        \cup {App \cup {T(<<x>>, <<>>), Index("i_a", "t", <<"a">>, u)} : x \in as, u \in BOOLEAN}

Ignores ==
    LET t == Ref("table", "t")
    IN  {[objects |-> {Ref("index", "i_a")}, attributes |-> {}],
         [objects |-> {}, attributes |-> {<<t, "comment">>, <<ColumnRef(t, "a"), "type">>}]}

-----------------------------------------------------------------------------
Family(name) ==
    CASE name = "columns" -> Simply(ColumnsFamily)
      [] name = "keys" -> Simply(KeysFamily)
      [] name = "enums" -> Simply(EnumsFamily)
      [] name = "domains" -> Simply(DomainsFamily[1]) \cup Simply(DomainsFamily[2])
      [] name = "composites" -> Simply(CompositesFamily[1]) \cup Simply(CompositesFamily[2])
      [] name = "sequences" -> Simply(SequencesFamily)
      [] name = "routines" -> Simply(RoutinesFamily[1]) \cup Simply(RoutinesFamily[2])
      [] name = "guards" -> Simply(GuardsFamily[1]) \cup Simply(GuardsFamily[2])
      [] name = "views" -> Simply(ViewsFamily[1]) \cup Simply(ViewsFamily[2])
      [] name = "hidden" -> Asked(HiddenFamily, {NothingIgnored}, {<<{"app"}>>})
      [] name = "renames" ->
            RenameRequests({<<"app", "t">>, <<"app", "u">>, <<"aux", "u">>})
      [] name = "moves" -> RenameRequests({<<"aux", "t">>})
      [] name = "schemas" -> Simply(SchemasFamily)
      [] name = "partitions" ->
            AskedOf({App} \cup PartitionsFamily, PartitionsFamily, {NoRenames}, {NothingIgnored},
                    {<<>>})
      [] name = "ignore" -> Asked(IgnoreFamily, Ignores, {<<>>})

MCRequests == UNION {Family(name) : name \in Families}
=============================================================================
