------------------------------- MODULE Emission -------------------------------
(***************************************************************************)
(* The SQL of a migration: the statements of each delta, and the            *)
(* transaction units they are applied in.                                   *)
(*                                                                         *)
(* A statement is [sql, transactional, new_unit, isolated, delta].  Of its   *)
(* SQL only the effect is kept: a record whose `do' is one of the verbs      *)
(* below and that carries what the statement itself says, no more.          *)
(***************************************************************************)
EXTENDS Risk

create(o) == [do |-> "create", object |-> o]
replace(o) == [do |-> "replace", object |-> o]
drop(r) == [do |-> "drop", ref |-> r]
set(r, field, value) == [do |-> "set", ref |-> r, field |-> field, value |-> value]
add(r, part, element) == [do |-> "add", ref |-> r, part |-> part, element |-> element]
remove(r, part, name) == [do |-> "remove", ref |-> r, part |-> part, name |-> name]
alter(r, part, name, field, value) ==
    [do |-> "alter", ref |-> r, part |-> part, name |-> name, field |-> field, value |-> value]
retype(r, name, type, collation) ==
    [do |-> "retype", ref |-> r, name |-> name, type |-> type, collation |-> collation]
rename_column(r, name, new) == [do |-> "rename_column", ref |-> r, name |-> name, new |-> new]
rename(r, name) == [do |-> "rename", ref |-> r, name |-> name]
set_schema(r, ns) == [do |-> "set_schema", ref |-> r, ns |-> ns]
add_value(r, label, before, after) ==
    [do |-> "add_value", ref |-> r, label |-> label, before |-> before, after |-> after]
alter_policy(r, roles, using, check) ==
    [do |-> "alter_policy", ref |-> r, roles |-> roles, using |-> using, check |-> check]
drain == [do |-> "drain"]

\* A handler that raises emits no statement.
MigrationError == [do |-> "error"]

\* An attribute that is set only when there is something to say.
Stated(r, field, value) == When(value # <<>>, set(r, field, value))
WithoutOwner(o) == [o EXCEPT !.owner = <<>>]
WithOwner(sql, o) == <<sql>> \o Stated(o.ref, "owner", o.owner)

-----------------------------------------------------------------------------
\* Tables, columns, constraints, indexes.

\* A partition takes its columns from its parent.
emit_create_table(t) ==
    LET partition == t.attrs.partOf # <<>>
        bare == [t EXCEPT !.constraints = <<>>,
                          !.columns = IF partition THEN <<>> ELSE @,
                          !.attrs = [@ EXCEPT !.owner = <<>>, !.tablespace = <<>>,
                                              !.comment = <<>>, !.rls = <<FALSE>>,
                                              !.force = <<FALSE>>]]
    IN  IF t.attrs.unlogged[1] /\ (partition \/ t.attrs.partKey # <<>>)
        THEN <<MigrationError>>
        ELSE <<create(bare)>>
             \o Stated(t.ref, "owner", t.attrs.owner)
             \o Stated(t.ref, "tablespace", t.attrs.tablespace)
             \o Stated(t.ref, "comment", t.attrs.comment)
             \o When(t.attrs.rls[1], set(t.ref, "rls", <<TRUE>>))
             \o When(t.attrs.force[1], set(t.ref, "force", <<TRUE>>))

emit_rename_table(r, new) ==
    <<rename(r, new.name)>>
    \o When(r.ns # new.ns, set_schema(ObjectRef("table", r.ns, new.name), new.ns))

emit_alter_table_attrs(r, new) ==
    IF new["partKey"] # <<>> \/ new["partOf"] # <<>> THEN <<MigrationError>>
    ELSE LET Change(a) == Stated(r, a, new[a])
             comment == IF new["comment"] = <<"">> THEN <<>> ELSE new["comment"]
         IN  Change("owner") \o Change("tablespace") \o Change("unlogged")
             \o When(new["comment"] # <<>>, set(r, "comment", comment))
             \o Change("rls") \o Change("force")

emit_column(d) ==
    LET t == Parent(d.target)
        name == d.target.name
    IN  CASE d.kind = "AddColumn" -> <<add(t, "columns", d.column)>>
          [] d.kind = "DropColumn" -> <<remove(t, "columns", name)>>
          [] d.kind = "AlterColumnType" ->
                <<retype(t, name, d.new_data_type, d.new_collation)>>
          [] d.kind = "SetColumnDefault" ->
                <<alter(t, "columns", name, "default", d.new_default)>>
          [] d.kind = "SetColumnNullability" ->
                <<alter(t, "columns", name, "nullable", d.nullable)>>
          [] d.kind = "RenameColumn" -> <<rename_column(t, name, d.new_name)>>

\* CHECK and FOREIGN KEY: added without a look at the rows, then validated.
CheckedLater(c) == c.kind \in {"check", "foreign_key"}

emit_add_constraint(r, c) ==
    IF c.inherited THEN <<MigrationError>>
    ELSE <<add(Parent(r), "constraints", [c EXCEPT !.validated = ~CheckedLater(c)])>>
         \o When(CheckedLater(c), alter(Parent(r), "constraints", r.name, "validated", TRUE))

emit_drop_constraint(r, c) ==
    IF c.inherited THEN <<MigrationError>> ELSE <<remove(Parent(r), "constraints", r.name)>>

emit_index(d) ==
    LET Create(i) == <<create([i EXCEPT !.comment = <<>>])>> \o Stated(i.ref, "comment", i.comment)
    IN  CASE d.kind = "CreateIndex" -> Create(d.index)
          [] d.kind = "DropIndex" -> <<drop(d.index.ref)>>
          [] d.kind = "ReplaceIndex" -> <<drop(d.old_index.ref)>> \o Create(d.new_index)

-----------------------------------------------------------------------------
\* Types and sequences.

emit_enum(d) ==
    CASE d.kind = "CreateEnum" -> WithOwner(create(WithoutOwner(d.enum)), d.enum)
      [] d.kind = "DropEnum" -> <<drop(d.target)>>
      [] d.kind = "AddEnumValue" -> <<add_value(d.target, d.label, d.before, d.after)>>
      [] d.kind = "AlterEnumAttrs" -> <<set(d.target, "owner", <<d.new_owner>>)>>

emit_composite(d) ==
    CASE d.kind = "CreateCompositeType" ->
            WithOwner(create(WithoutOwner(d.composite)), d.composite)
      [] d.kind = "DropCompositeType" -> <<drop(d.target)>>
      [] d.kind = "AlterCompositeAddAttribute" -> <<add(d.target, "attributes", d.attribute)>>
      [] d.kind = "AlterCompositeDropAttribute" ->
            <<remove(d.target, "attributes", d.attribute_name)>>
      [] d.kind = "AlterCompositeAttributeType" ->
            <<alter(d.target, "attributes", d.attribute_name, "type", d.new_data_type)>>
      [] d.kind = "AlterCompositeTypeAttrs" -> <<set(d.target, "owner", <<d.new_owner>>)>>

\* The checks of a new domain that are not valid follow its creation.
emit_create_domain(d) ==
    LET Valid(c) == c.validated
        bare == [Without(WithoutOwner(d), {"used_in_container"})
                    EXCEPT !.checks = SelectSeq(@, Valid)]
    IN  FoldLeft(LAMBDA sql, c : IF c.validated THEN sql ELSE Append(sql, add(d.ref, "checks", c)),
                 <<create(bare)>>, d.checks)
        \o Stated(d.ref, "owner", d.owner)

\* Before a check is validated, every transaction that may not see it ends.
emit_domain(d) ==
    LET Validate(name) == <<drain, alter(d.target, "checks", name, "validated", TRUE)>>
    IN  CASE d.kind = "CreateDomain" -> emit_create_domain(d.domain)
          [] d.kind = "DropDomain" -> <<drop(d.target)>>
          [] d.kind = "AlterDomainDefault" -> <<set(d.target, "default", d.new_default)>>
          [] d.kind = "AlterDomainNullability" ->
                IF d.new_not_null /\ d.used_in_container THEN <<MigrationError>>
                ELSE <<set(d.target, "notNull", d.new_not_null)>>
          [] d.kind = "AddDomainCheck" ->
                IF d.used_in_container THEN <<MigrationError>>
                ELSE <<add(d.target, "checks", [d.check EXCEPT !.validated = FALSE])>>
                     \o (IF d.check.validated THEN Validate(d.check.name) ELSE <<>>)
          [] d.kind = "ValidateDomainCheck" ->
                IF d.used_in_container THEN <<MigrationError>> ELSE Validate(d.check_name)
          [] d.kind = "DropDomainCheck" -> <<remove(d.target, "checks", d.check_name)>>
          [] d.kind = "AlterDomainAttrs" -> <<set(d.target, "owner", <<d.new_owner>>)>>

\* A sequence that is owned by a column has the owner of its table: it is let go
\* before it gets another one.
emit_sequence(d) ==
    CASE d.kind = "CreateSequence" ->
            WithOwner(create([WithoutOwner(d.sequence) EXCEPT !.ownedBy = <<>>]), d.sequence)
      [] d.kind = "DropSequence" -> <<drop(d.target)>>
      [] d.kind = "AlterSequenceOptions" -> <<set(d.target, "options", d.options)>>
      [] d.kind = "AlterSequenceOwner" ->
            When(d.old_owned_by # <<>>, set(d.target, "ownedBy", <<>>))
            \o <<set(d.target, "owner", <<d.new_owner>>)>>
      [] d.kind = "AlterSequenceOwnedBy" -> <<set(d.target, "ownedBy", d.new_owned_by)>>

-----------------------------------------------------------------------------
\* Schemas, extensions, routines, triggers, policies, views.

emit_schema(d) ==
    CASE d.kind = "CreateSchema" ->
            <<create([d.schema EXCEPT !.comment = <<>>])>>
            \o Stated(d.target, "comment", d.schema.comment)
      [] d.kind = "CreateExtension" ->
            <<create([d.extension EXCEPT !.comment = <<>>])>>
            \o Stated(d.target, "comment", d.extension.comment)
      [] d.kind \in {"DropSchema", "DropExtension"} -> <<drop(d.target)>>
      [] d.kind = "AlterExtension" ->
            When(d.new_version # <<>>, set(d.target, "version", Head(d.new_version)))
            \o Stated(d.target, "schema", d.new_schema)

emit_routine(d) ==
    LET unsupported == \E f \in {OldRoutine(d), NewRoutine(d)} : f.language \notin {"sql", "plpgsql"}
        conflict == d.kind \in {"CreateFunction", "ReplaceFunction"} /\ d.default_conflict
        reshaped == d.kind \in {"ReplaceFunction", "ReplaceProcedure"} /\ d.incompatible
    IN  CASE unsupported \/ conflict \/ reshaped -> <<MigrationError>>
          [] d.kind \in {"CreateFunction", "CreateProcedure"} ->
                WithOwner(create(WithoutOwner(d.routine)), d.routine)
          [] d.kind \in {"ReplaceFunction", "ReplaceProcedure"} -> <<replace(d.new_routine)>>
          [] d.kind \in ROUTINE_DROPS -> <<drop(d.target)>>
          [] OTHER -> <<set(d.target, "owner", <<d.new_owner>>)>>

\* CREATE [OR REPLACE] TRIGGER enables the trigger; there is no OR REPLACE for
\* constraint triggers.
emit_trigger(d) ==
    LET Enabled(g) == [g EXCEPT !.enabled = "O"]
        Set(g, value) == <<set(g.ref, "enabled", value)>>
        Create(g) == <<create(Enabled(g))>> \o (IF g.enabled = "O" THEN <<>> ELSE Set(g, g.enabled))
    IN  CASE d.kind = "CreateTrigger" -> Create(d.trigger)
          [] d.kind = "DropTrigger" -> <<drop(d.target)>>
          [] d.kind = "AlterTriggerEnabled" -> Set(d.trigger, d.new_enabled)
          [] d.kind = "ReplaceTrigger" ->
                IF d.old_trigger.constraint \/ d.new_trigger.constraint
                THEN <<drop(d.target)>> \o Create(d.new_trigger)
                ELSE <<replace(Enabled(d.new_trigger))>>
                     \o (IF d.old_trigger.enabled # d.new_trigger.enabled
                                \/ d.new_trigger.enabled # "O"
                         THEN Set(d.new_trigger, d.new_trigger.enabled) ELSE <<>>)

emit_policy(d) ==
    CASE d.kind = "CreatePolicy" -> <<create(d.policy)>>
      [] d.kind = "DropPolicy" -> <<drop(d.target)>>
      [] d.kind = "AlterPolicy" ->
            <<alter_policy(d.target, d.new_roles, d.new_using, d.new_check)>>
      [] d.kind = "ReplacePolicy" -> <<drop(d.target), create(d.new_policy)>>

emit_view(d) ==
    CASE d.kind = "CreateView" -> WithOwner(create(WithoutOwner(d.view)), d.view)
      [] d.kind = "DropView" -> <<drop(d.target)>>
      [] d.kind = "ReplaceView" ->
            IF d.incompatible THEN <<MigrationError>> ELSE <<replace(d.new_view)>>
      [] d.kind = "AlterViewOwner" -> <<set(d.target, "owner", <<d.new_owner>>)>>

emit_materialized_view(d) ==
    LET Create(v) == WithOwner(create(Without(WithoutOwner(v), {"dependents", "has_indexes"})), v)
    IN  CASE d.kind = "CreateMaterializedView" -> Create(d.view)
          [] d.kind = "DropMaterializedView" -> <<drop(d.target)>>
          [] d.kind = "ReplaceMaterializedView" -> <<drop(d.target)>> \o Create(d.new_view)
          [] d.kind = "AlterMaterializedViewOwner" ->
                <<set(d.target, "owner", <<d.new_owner>>)>>

-----------------------------------------------------------------------------
\* The handler of a delta.  There is none for the three that are always BLOCKED.

Handler(d) ==
    IF d.kind \in {"ReplaceEnumLabels", "ReplaceCompositeType", "ReplaceDomainType"}
    THEN <<MigrationError>>
    ELSE CASE d.kind = "CreateTable" -> emit_create_table(d.table)
           [] d.kind = "DropTable" -> <<drop(d.target)>>
           [] d.kind = "RenameTable" -> emit_rename_table(d.target, d.new_table)
           [] d.kind = "AlterTableAttrs" -> emit_alter_table_attrs(d.target, d.new)
           [] d.kind = "AddConstraint" -> emit_add_constraint(d.target, d.constraint)
           [] d.kind = "DropConstraint" -> emit_drop_constraint(d.target, d.constraint)
           [] d.target.kind = "column" -> emit_column(d)
           [] d.target.kind = "index" -> emit_index(d)
           [] d.target.kind = "domain_type" -> emit_domain(d)
           [] d.target.kind = "enum" -> emit_enum(d)
           [] d.target.kind = "composite_type" -> emit_composite(d)
           [] d.target.kind = "sequence" -> emit_sequence(d)
           [] d.target.kind \in {"schema", "extension"} -> emit_schema(d)
           [] d.target.kind \in {"function", "procedure"} -> emit_routine(d)
           [] d.target.kind = "trigger" -> emit_trigger(d)
           [] d.target.kind = "policy" -> emit_policy(d)
           [] d.target.kind = "view" -> emit_view(d)
           [] d.target.kind = "materialized_view" -> emit_materialized_view(d)

\* Indexes of ordinary tables are built and dropped CONCURRENTLY, outside a
\* transaction.
Transactional(d, sql) ==
    \/ d.target.kind # "index"
    \/ sql.do \notin {"create", "drop"}
    \/ IF d.kind = "ReplaceIndex" THEN d.old_index.partitioned \/ d.new_index.partitioned
       ELSE d.index.partitioned

Isolated(d) ==
    d.kind \in {"AddEnumValue", "AddDomainCheck", "ValidateDomainCheck"}

\* The statements of the i-th delta.
Emitted(deltas, i) ==
    LET d == deltas[i]
        sql == Handler(d)
    IN  [k \in DOMAIN sql |->
            [sql |-> sql[k],
             transactional |-> Transactional(d, sql[k]),
             new_unit |-> d.kind = "AddConstraint" /\ sql[k].do = "alter",
             isolated |-> Isolated(d),
             delta |-> i]]

emit(deltas) ==
    FoldLeftDomain(LAMBDA sql, i : sql \o Emitted(deltas, i), <<>>, deltas)

-----------------------------------------------------------------------------
\* A statement that is isolated or not transactional is a unit of its own.
Alone(s) == ~s.transactional \/ s.isolated
=============================================================================
