------------------------------- MODULE Inspector -------------------------------
(***************************************************************************)
(* The inspector: the snapshot of a database that a diff compares.           *)
(*                                                                         *)
(* All catalog queries of one inspection run in one REPEATABLE READ           *)
(* transaction, so that a snapshot is a function of one catalog.  The rows    *)
(* are then grouped, kind by kind, and those outside the schemas asked for    *)
(* are left out.                                                            *)
(***************************************************************************)
EXTENDS Catalog

\* Faulty variant: the schemas asked for are not looked at.
VisibleAlways(r, allowed) == TRUE

\* `allowed' is empty (all schemas) or holds the set of schemas asked for.
Visible(r, allowed) == \A schemas \in Range(allowed) : r.ns \in schemas

_map_column(c) == Without(c, {"data"})

\* A CHECK that is not valid is known by its whole definition, NOT VALID
\* included; of a foreign key the parser leaves it out.
_map_constraint(c) ==
    LET seen == [c EXCEPT !.validated = TRUE]
    IN  IF c.kind = "check" /\ ~c.validated
        THEN [seen EXCEPT !.expr = [@ EXCEPT !.says = "NOT VALID"]] ELSE seen

\* Constraints on columns that the table does not have are skipped.
_safe_map_constraints(t) ==
    LET Known(c) == Range(c.columns) \subseteq Names(t.columns)
    IN  SelectSeq(MapEach(t.constraints, _map_constraint), Known)

_build_table(t) ==
    [Without(t, {"width"}) EXCEPT !.columns = MapEach(@, _map_column),
                                  !.constraints = _safe_map_constraints(t)]

\* The index that PostgreSQL keeps for a key carries the name of its constraint.
KeyIndex(t, c) ==
    [ref |-> ObjectRef("index", t.ref.ns, c.name), table |-> t.ref,
     method |-> "btree",
     keys |-> [i \in DOMAIN c.columns |-> [column |-> <<c.columns[i]>>, expr |-> <<>>]],
     include |-> <<>>, unique |-> c.kind # "exclusion", predicate |-> <<>>,
     partitioned |-> t.attrs.partKey # <<>>, attached |-> c.inherited,
     constraintName |-> <<c.name>>, comment |-> <<>>]

\* Comments of indexes are not read.
_group_indexes(C) ==
    {[i EXCEPT !.comment = <<>>] : i \in Of(C, "index")}
    \cup UNION {{KeyIndex(t, c) : c \in {x \in Range(t.constraints) : x.kind \in BACKED}} :
                    t \in Of(C, "table")}

\* Faulty variant: only what was asked for is searched for dependents.
_group_materialized_views_within(C) ==
    LET Dependents(m) ==
            {v.ref : v \in {x \in Of(C, "view") \cup Of(C, "materialized_view") :
                                x.ref.ns = m.ref.ns /\ m.ref \in ViewPrerequisites(x)}}
    IN  {[dependents |-> Dependents(m)] @@ m : m \in Of(C, "materialized_view")}

\* What reads a materialized view, in whatever schema it is.
_group_materialized_views(C) ==
    LET Dependents(m) ==
            {v.ref : v \in {x \in Of(C, "view") \cup Of(C, "materialized_view") :
                                m.ref \in ViewPrerequisites(x)}}
    IN  {[dependents |-> Dependents(m)] @@ m : m \in Of(C, "materialized_view")}

\* The types that a type is made of, and those inside of those.
TypesWithin(C, refs) ==
    LET Parts(found, step) ==
            found \cup {r \in UNION {UsesOfObject(o) : o \in {x \in C : x.ref \in found}} :
                            r.kind \in {"composite_type", "domain_type", "enum"}}
    IN  FoldLeft(Parts, refs, [step \in 1 .. Cardinality(Of(C, "composite_type")) + 1 |-> step])

\* A domain is in a container when a column reaches it through a composite type.
_group_domain_types(C) ==
    LET columnTypes == UNION {TableTypes(t) : t \in Of(C, "table")}
        containers == {r \in TypesWithin(C, columnTypes) : r.kind = "composite_type"}
        Inside(d) == d.ref \in TypesWithin(C, containers)
    IN  {[used_in_container |-> Inside(d)] @@ d : d \in Of(C, "domain_type")}

\* The other kinds are shown as they are.
_group_rows(C) ==
    {o \in C : o.ref.kind \in {"schema", "extension", "enum", "composite_type", "sequence",
                               "function", "procedure", "trigger", "policy", "view"}}

\* Extensions belong to no schema.
inspect(C, allowed) ==
    LET objects == {_build_table(t) : t \in Of(C, "table")}
                    \cup _group_indexes(C)
                    \cup _group_materialized_views(C)
                    \cup _group_domain_types(C)
                    \cup _group_rows(C)
    IN  {o \in objects : o.ref.kind = "extension" \/ Visible(o.ref, allowed)}
=============================================================================
