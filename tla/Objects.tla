------------------------------- MODULE Objects -------------------------------
(***************************************************************************)
(* The vocabulary of a migration: what names an object of a schema, how     *)
(* names are ordered, and one constructor for every class of delta.         *)
(*                                                                         *)
(* An object is a record that carries its `ref'.  SQL text (a type name, a  *)
(* default, a CHECK expression, the query of a view) is a record            *)
(* [says, uses]: a word that tells one text from another, and the refs of   *)
(* the objects PostgreSQL resolves in it.  An optional value is a sequence  *)
(* of length zero or one.                                                   *)
(***************************************************************************)
EXTENDS Integers, Sequences, FiniteSets, Functions

CONSTANT
    Alphabet    \* the strings of an instance, by ascending code points

ASSUME AlphabetAssumption == Alphabet \in Seq(STRING)

Rank == [s \in Range(Alphabet) |-> CHOOSE i \in DOMAIN Alphabet : Alphabet[i] = s]

\* Tuples of strings are compared the way Python compares them.
Below(a, b) ==
    \E i \in 1 .. Len(b) :
        /\ \A j \in 1 .. i - 1 : j <= Len(a) /\ a[j] = b[j]
        /\ i > Len(a) \/ Rank[a[i]] < Rank[b[i]]

\* The elements of a finite set by ascending Before.
InOrder(S, Before(_, _)) ==
    [i \in 1 .. Cardinality(S) |->
        CHOOSE x \in S : Cardinality({y \in S : Before(y, x)}) = i - 1]

-----------------------------------------------------------------------------
\* Identity.

SUB_OBJECT_KINDS == {"column", "constraint", "trigger", "policy"}

\* `table' is the name of the parent of a sub-object; `args' the input types
\* of a function or procedure.  A parent is in the schema of its child.
ObjectRef(kind, ns, name) ==
    [kind |-> kind, ns |-> ns, name |-> name, table |-> "", args |-> <<>>]

SubObjectRef(kind, t, name) ==
    [kind |-> kind, ns |-> t.ns, name |-> name, table |-> t.name, args |-> <<>>]

RoutineRef(kind, ns, name, args) ==
    [kind |-> kind, ns |-> ns, name |-> name, table |-> "", args |-> args]

HasParent(r) == r.kind \in SUB_OBJECT_KINDS
Parent(r) == ObjectRef("table", r.ns, r.table)
ColumnRef(t, name) == SubObjectRef("column", t, name)
QualifiedName(r) == <<r.ns, r.name>>

Text(says, uses) == [says |-> says, uses |-> uses]

\* An optional element.
When(condition, x) == IF condition THEN <<x>> ELSE <<>>

\* A record without some of its fields.
Without(object, fields) == [f \in DOMAIN object \ fields |-> object[f]]

\* A change of an optional value: a value that is gone is no change.
NewValue(old, new) == IF old = new THEN <<>> ELSE new

\* uses of an optional text
UsesOf(opt) == UNION {opt[i].uses : i \in DOMAIN opt}

\* A column and its generator: what its default draws from.
SequencePrerequisites(column) ==
    {r \in UsesOf(column.default) : r.kind = "sequence"}

Names(columns) == {columns[i].name : i \in DOMAIN columns}
Named(seq, name) == seq[CHOOSE i \in DOMAIN seq : seq[i].name = name]

-----------------------------------------------------------------------------
\* Deltas: one change each.  DeltaBase is [kind, op, target] and the fields of
\* its class; `kind' is the name of the class.

sort_key(d) ==
    IF HasParent(d.target)
    THEN <<d.target.ns, d.target.table, d.target.name, d.op>>
    ELSE IF d.target.kind \in {"function", "procedure"}
    THEN <<d.target.ns, d.target.name, "(">> \o d.target.args \o <<")", d.op>>
    ELSE <<d.target.ns, d.target.name, d.op>>

\* A comparison that raises stands in the diff as a delta of its own kind.
DiffError == [kind |-> "DiffError"]

CreateSchema(s) == [kind |-> "CreateSchema", op |-> "create", target |-> s.ref, schema |-> s]
DropSchema(s) == [kind |-> "DropSchema", op |-> "drop", target |-> s.ref, schema |-> s]
CreateExtension(e) ==
    [kind |-> "CreateExtension", op |-> "create", target |-> e.ref, extension |-> e]
DropExtension(e) ==
    [kind |-> "DropExtension", op |-> "drop", target |-> e.ref, extension |-> e]
AlterExtension(r, version, schema) ==
    [kind |-> "AlterExtension", op |-> "alter", target |-> r,
     new_version |-> version, new_schema |-> schema]

CreateTable(t) == [kind |-> "CreateTable", op |-> "create", target |-> t.ref, table |-> t]
DropTable(t) == [kind |-> "DropTable", op |-> "drop", target |-> t.ref, table |-> t]
RenameTable(r, new) ==
    [kind |-> "RenameTable", op |-> "rename", target |-> r, new_table |-> new]
AlterTableAttrs(r, new) ==
    [kind |-> "AlterTableAttrs", op |-> "alter", target |-> r, new |-> new]

AddColumn(r, c) == [kind |-> "AddColumn", op |-> "create", target |-> r, column |-> c]
DropColumn(r, c) == [kind |-> "DropColumn", op |-> "drop", target |-> r, column |-> c]
AlterColumnType(r, type, collation) ==
    [kind |-> "AlterColumnType", op |-> "alter", target |-> r, new_data_type |-> type,
     new_collation |-> collation]
SetColumnDefault(r, default, old, new) ==
    [kind |-> "SetColumnDefault", op |-> "alter", target |-> r, new_default |-> default,
     old_sequences |-> old, new_sequences |-> new]
SetColumnNullability(r, nullable) ==
    [kind |-> "SetColumnNullability", op |-> "alter", target |-> r, nullable |-> nullable]
RenameColumn(r, new) ==
    [kind |-> "RenameColumn", op |-> "rename", target |-> r, new_name |-> new]

AddConstraint(r, c) ==
    [kind |-> "AddConstraint", op |-> "create", target |-> r, constraint |-> c]
DropConstraint(r, c) ==
    [kind |-> "DropConstraint", op |-> "drop", target |-> r, constraint |-> c]

CreateIndex(i) == [kind |-> "CreateIndex", op |-> "create", target |-> i.ref, index |-> i]
DropIndex(i) == [kind |-> "DropIndex", op |-> "drop", target |-> i.ref, index |-> i]
ReplaceIndex(old, new) ==
    [kind |-> "ReplaceIndex", op |-> "replace", target |-> new.ref,
     old_index |-> old, new_index |-> new]

CreateEnum(e) == [kind |-> "CreateEnum", op |-> "create", target |-> e.ref, enum |-> e]
DropEnum(e) == [kind |-> "DropEnum", op |-> "drop", target |-> e.ref, enum |-> e]
AddEnumValue(r, label, before, after) ==
    [kind |-> "AddEnumValue", op |-> "alter", target |-> r, label |-> label,
     before |-> before, after |-> after]
AlterEnumAttrs(r, owner) ==
    [kind |-> "AlterEnumAttrs", op |-> "alter", target |-> r, new_owner |-> owner]
ReplaceEnumLabels(r) == [kind |-> "ReplaceEnumLabels", op |-> "replace", target |-> r]

CreateCompositeType(c) ==
    [kind |-> "CreateCompositeType", op |-> "create", target |-> c.ref, composite |-> c]
DropCompositeType(c) ==
    [kind |-> "DropCompositeType", op |-> "drop", target |-> c.ref, composite |-> c]
AlterCompositeAddAttribute(r, attribute, types) ==
    [kind |-> "AlterCompositeAddAttribute", op |-> "alter", target |-> r,
     attribute |-> attribute, types |-> types]
AlterCompositeDropAttribute(r, name, types) ==
    [kind |-> "AlterCompositeDropAttribute", op |-> "alter", target |-> r,
     attribute_name |-> name, types |-> types]
AlterCompositeAttributeType(r, name, type, old, new) ==
    [kind |-> "AlterCompositeAttributeType", op |-> "alter", target |-> r,
     attribute_name |-> name, new_data_type |-> type, old_types |-> old, new_types |-> new]
AlterCompositeTypeAttrs(r, owner) ==
    [kind |-> "AlterCompositeTypeAttrs", op |-> "alter", target |-> r, new_owner |-> owner]
ReplaceCompositeType(r) ==
    [kind |-> "ReplaceCompositeType", op |-> "replace", target |-> r]

CreateDomain(d) == [kind |-> "CreateDomain", op |-> "create", target |-> d.ref, domain |-> d]
DropDomain(d) == [kind |-> "DropDomain", op |-> "drop", target |-> d.ref, domain |-> d]
AlterDomainDefault(r, default) ==
    [kind |-> "AlterDomainDefault", op |-> "alter", target |-> r, new_default |-> default]
AlterDomainNullability(r, notNull, contained) ==
    [kind |-> "AlterDomainNullability", op |-> "alter", target |-> r,
     new_not_null |-> notNull, used_in_container |-> contained]
AddDomainCheck(r, check, contained) ==
    [kind |-> "AddDomainCheck", op |-> "alter", target |-> r, check |-> check,
     used_in_container |-> contained]
ValidateDomainCheck(r, name, contained) ==
    [kind |-> "ValidateDomainCheck", op |-> "alter", target |-> r, check_name |-> name,
     used_in_container |-> contained]
DropDomainCheck(r, name) ==
    [kind |-> "DropDomainCheck", op |-> "alter", target |-> r, check_name |-> name]
AlterDomainAttrs(r, owner) ==
    [kind |-> "AlterDomainAttrs", op |-> "alter", target |-> r, new_owner |-> owner]
ReplaceDomainType(r) == [kind |-> "ReplaceDomainType", op |-> "replace", target |-> r]

CreateSequence(s) ==
    [kind |-> "CreateSequence", op |-> "create", target |-> s.ref, sequence |-> s]
DropSequence(s) == [kind |-> "DropSequence", op |-> "drop", target |-> s.ref, sequence |-> s]
AlterSequenceOptions(r, options) ==
    [kind |-> "AlterSequenceOptions", op |-> "alter", target |-> r, options |-> options]
AlterSequenceOwner(r, owner, oldOwnedBy) ==
    [kind |-> "AlterSequenceOwner", op |-> "alter", target |-> r, new_owner |-> owner,
     old_owned_by |-> oldOwnedBy]
AlterSequenceOwnedBy(r, old, new) ==
    [kind |-> "AlterSequenceOwnedBy", op |-> "alter", target |-> r,
     old_owned_by |-> old, new_owned_by |-> new]

CreateFunction(f, conflict) ==
    [kind |-> "CreateFunction", op |-> "create", target |-> f.ref, routine |-> f,
     default_conflict |-> conflict]
DropFunction(f) == [kind |-> "DropFunction", op |-> "drop", target |-> f.ref, routine |-> f]
ReplaceFunction(old, new, incompatible, conflict) ==
    [kind |-> "ReplaceFunction", op |-> "replace", target |-> old.ref, old_routine |-> old,
     new_routine |-> new, incompatible |-> incompatible, default_conflict |-> conflict]
AlterFunctionOwner(f, owner) ==
    [kind |-> "AlterFunctionOwner", op |-> "alter", target |-> f.ref, routine |-> f,
     new_owner |-> owner]

CreateProcedure(p) ==
    [kind |-> "CreateProcedure", op |-> "create", target |-> p.ref, routine |-> p]
DropProcedure(p) == [kind |-> "DropProcedure", op |-> "drop", target |-> p.ref, routine |-> p]
ReplaceProcedure(old, new, incompatible) ==
    [kind |-> "ReplaceProcedure", op |-> "replace", target |-> old.ref, old_routine |-> old,
     new_routine |-> new, incompatible |-> incompatible]
AlterProcedureOwner(p, owner) ==
    [kind |-> "AlterProcedureOwner", op |-> "alter", target |-> p.ref, routine |-> p,
     new_owner |-> owner]

CreateView(v) == [kind |-> "CreateView", op |-> "create", target |-> v.ref, view |-> v]
DropView(v) == [kind |-> "DropView", op |-> "drop", target |-> v.ref, view |-> v]
ReplaceView(old, new, incompatible) ==
    [kind |-> "ReplaceView", op |-> "replace", target |-> old.ref, old_view |-> old,
     new_view |-> new, incompatible |-> incompatible]
AlterViewOwner(v, owner) ==
    [kind |-> "AlterViewOwner", op |-> "alter", target |-> v.ref, view |-> v,
     new_owner |-> owner]

CreateMaterializedView(v) ==
    [kind |-> "CreateMaterializedView", op |-> "create", target |-> v.ref, view |-> v]
DropMaterializedView(v) ==
    [kind |-> "DropMaterializedView", op |-> "drop", target |-> v.ref, view |-> v]
ReplaceMaterializedView(old, new) ==
    [kind |-> "ReplaceMaterializedView", op |-> "replace", target |-> old.ref,
     old_view |-> old, new_view |-> new]
AlterMaterializedViewOwner(v, owner) ==
    [kind |-> "AlterMaterializedViewOwner", op |-> "alter", target |-> v.ref, view |-> v,
     new_owner |-> owner]

CreateTrigger(t) == [kind |-> "CreateTrigger", op |-> "create", target |-> t.ref, trigger |-> t]
DropTrigger(t) == [kind |-> "DropTrigger", op |-> "drop", target |-> t.ref, trigger |-> t]
ReplaceTrigger(old, new) ==
    [kind |-> "ReplaceTrigger", op |-> "replace", target |-> old.ref,
     old_trigger |-> old, new_trigger |-> new]
AlterTriggerEnabled(t, enabled) ==
    [kind |-> "AlterTriggerEnabled", op |-> "alter", target |-> t.ref, trigger |-> t,
     new_enabled |-> enabled]

CreatePolicy(p) == [kind |-> "CreatePolicy", op |-> "create", target |-> p.ref, policy |-> p]
DropPolicy(p) == [kind |-> "DropPolicy", op |-> "drop", target |-> p.ref, policy |-> p]
AlterPolicy(p, roles, using, check) ==
    [kind |-> "AlterPolicy", op |-> "alter", target |-> p.ref, policy |-> p,
     new_roles |-> roles, new_using |-> using, new_check |-> check]
ReplacePolicy(old, new) ==
    [kind |-> "ReplacePolicy", op |-> "replace", target |-> old.ref,
     old_policy |-> old, new_policy |-> new]

-----------------------------------------------------------------------------
\* The kinds of delta, by the kind of what they change.
DELTAS ==
    [schema |-> {"CreateSchema", "DropSchema"},
     extension |-> {"CreateExtension", "DropExtension", "AlterExtension"},
     table |-> {"CreateTable", "DropTable", "RenameTable", "AlterTableAttrs"},
     column |-> {"AddColumn", "DropColumn", "AlterColumnType", "SetColumnDefault",
                 "SetColumnNullability", "RenameColumn"},
     constraint |-> {"AddConstraint", "DropConstraint"},
     index |-> {"CreateIndex", "DropIndex", "ReplaceIndex"},
     enum |-> {"CreateEnum", "DropEnum", "AddEnumValue", "AlterEnumAttrs", "ReplaceEnumLabels"},
     composite_type |-> {"CreateCompositeType", "DropCompositeType",
                         "AlterCompositeAddAttribute", "AlterCompositeDropAttribute",
                         "AlterCompositeAttributeType", "AlterCompositeTypeAttrs",
                         "ReplaceCompositeType"},
     domain_type |-> {"CreateDomain", "DropDomain", "AlterDomainDefault",
                      "AlterDomainNullability", "AddDomainCheck", "ValidateDomainCheck",
                      "DropDomainCheck", "AlterDomainAttrs", "ReplaceDomainType"},
     sequence |-> {"CreateSequence", "DropSequence", "AlterSequenceOptions",
                   "AlterSequenceOwner", "AlterSequenceOwnedBy"},
     function |-> {"CreateFunction", "DropFunction", "ReplaceFunction", "AlterFunctionOwner"},
     procedure |-> {"CreateProcedure", "DropProcedure", "ReplaceProcedure",
                    "AlterProcedureOwner"},
     view |-> {"CreateView", "DropView", "ReplaceView", "AlterViewOwner"},
     materialized_view |-> {"CreateMaterializedView", "DropMaterializedView",
                            "ReplaceMaterializedView", "AlterMaterializedViewOwner"},
     trigger |-> {"CreateTrigger", "DropTrigger", "ReplaceTrigger", "AlterTriggerEnabled"},
     policy |-> {"CreatePolicy", "DropPolicy", "AlterPolicy", "ReplacePolicy"}]

TABLE_ATTRS ==
    {"owner", "tablespace", "unlogged", "comment", "rls", "force", "partKey", "partOf"}

\* A delta of one of these kinds; the two whose changes are all optional have one.
IsDelta(d) ==
    /\ d.target.kind \in DOMAIN DELTAS
    /\ d.kind \in DELTAS[d.target.kind]
    /\ d.kind = "AlterTableAttrs" => \E a \in TABLE_ATTRS : d.new[a] # <<>>
    /\ d.kind = "AlterExtension" => d.new_version # <<>> \/ d.new_schema # <<>>
    /\ d.kind = "CreateDomain" => d.domain.checks \in Seq(Range(d.domain.checks))
=============================================================================
