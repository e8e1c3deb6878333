----------------------------- MODULE Dependencies -----------------------------
(***************************************************************************)
(* order_deltas: the deltas of a diff in the order they are applied.         *)
(*                                                                         *)
(* Every rule below says of two deltas d and e of one diff that d must be    *)
(* applied before e.  The rules look at the kinds of the deltas and at the   *)
(* refs they carry, never at the catalog.                                   *)
(***************************************************************************)
EXTENDS Objects, SequencesExt

ROUTINE_CREATES == {"CreateFunction", "ReplaceFunction", "CreateProcedure", "ReplaceProcedure"}
ROUTINE_DROPS == {"DropFunction", "DropProcedure"}
POLICIES == {"CreatePolicy", "DropPolicy", "AlterPolicy", "ReplacePolicy"}
VIEW_CREATES == {"CreateView", "ReplaceView", "CreateMaterializedView", "ReplaceMaterializedView"}
VIEW_DROPS == {"DropView", "ReplaceView", "DropMaterializedView", "ReplaceMaterializedView"}
TABLE_WORK ==
    {"CreateTable", "DropTable", "RenameTable", "AlterTableAttrs", "AddColumn", "DropColumn",
     "AlterColumnType", "SetColumnDefault", "SetColumnNullability", "RenameColumn",
     "AddConstraint", "DropConstraint", "CreateIndex", "DropIndex", "ReplaceIndex"}

ParentOf(d) == IF HasParent(d.target) THEN {Parent(d.target)} ELSE {}

-----------------------------------------------------------------------------
\* What the objects refer to.

TypesNamedIn(texts) ==
    {r \in UNION {text.uses : text \in texts} :
        r.kind \in {"enum", "composite_type", "domain_type"}}

ColumnRefs(t, names) == {ColumnRef(t, n) : n \in names}
AllColumnRefs(t) == ColumnRefs(t.ref, Names(t.columns))

TableTypes(t) == TypesNamedIn({t.columns[i].type : i \in DOMAIN t.columns})
TableSequences(t) == UNION {SequencePrerequisites(t.columns[i]) : i \in DOMAIN t.columns}
CompositeTypes(c) == TypesNamedIn({c.attributes[i].type : i \in DOMAIN c.attributes})
RoutineTypes(f) ==
    TypesNamedIn({f.arguments[i].type : i \in DOMAIN f.arguments}
                 \cup {f.returns[i] : i \in DOMAIN f.returns})
ViewPrerequisites(v) == {r \in v.query.uses : r.kind # "column"}
ViewTables(v) == {r \in v.query.uses : r.kind = "table"}

_fk_remote_refs(c) ==
    IF c.kind # "foreign_key" THEN {}
    ELSE {c.refTable[1]} \cup ColumnRefs(c.refTable[1], Range(c.refColumns))

\* CHECK constraints carry no columns.
ConstraintRefs(d) ==
    LET owner == Parent(d.target)
    IN  {owner} \cup ColumnRefs(owner, Range(d.constraint.columns))
        \cup _fk_remote_refs(d.constraint)

\* Key columns and included columns; an expression or a predicate names none.
IndexColumns(i) == UNION {Range(i.keys[k].column) : k \in DOMAIN i.keys} \cup Range(i.include)
_index_refs(i) == {i.table} \cup ColumnRefs(i.table, IndexColumns(i))

_trigger_refs(g) ==
    {Parent(g.ref), g.function} \cup Range(g.referenced)
        \cup ColumnRefs(Parent(g.ref), Range(g.updates))

BACKED == {"primary_key", "unique", "exclusion"}
_constraint_backing_index_ref(d) ==
    IF d.constraint.kind \in BACKED
    THEN {ObjectRef("index", d.target.ns, d.constraint.name)} ELSE {}

OldView(d) == IF d.kind \in {"ReplaceView", "ReplaceMaterializedView"} THEN d.old_view ELSE d.view
NewView(d) == IF d.kind \in {"ReplaceView", "ReplaceMaterializedView"} THEN d.new_view ELSE d.view
OldRoutine(d) ==
    IF d.kind \in {"ReplaceFunction", "ReplaceProcedure"} THEN d.old_routine ELSE d.routine
NewRoutine(d) ==
    IF d.kind \in {"ReplaceFunction", "ReplaceProcedure"} THEN d.new_routine ELSE d.routine

-----------------------------------------------------------------------------
\* What a delta brings, what it takes away, and what must be there around it.

Replaces(d) ==
    d.kind \in {"ReplaceFunction", "ReplaceProcedure", "ReplaceView", "ReplaceMaterializedView"}

Creates(d) ==
    IF d.kind = "CreateTable" THEN {d.target} \cup AllColumnRefs(d.table)
    ELSE IF Replaces(d) \/ d.kind \in {"CreateEnum", "CreateCompositeType", "CreateDomain",
                "CreateSequence", "CreateFunction", "CreateProcedure", "CreateView",
                "CreateMaterializedView", "AddColumn", "AddConstraint"}
    THEN {d.target} ELSE {}

Drops(d) ==
    IF d.kind = "DropTable" THEN {d.target} \cup AllColumnRefs(d.table)
    ELSE IF Replaces(d) \/ d.kind \in {"DropColumn", "DropConstraint", "DropEnum",
                "DropCompositeType", "DropDomain", "DropSequence", "DropFunction",
                "DropProcedure", "DropView", "DropMaterializedView"}
    THEN {d.target} ELSE {}

\* The refs whose creation comes first.
Requires(d) ==
    CASE d.kind = "AddColumn" ->
            {Parent(d.target), d.target} \cup SequencePrerequisites(d.column)
      [] d.kind = "AddConstraint" -> ConstraintRefs(d)
      [] d.kind = "CreateTable" ->
            TableTypes(d.table) \cup TableSequences(d.table)
                \cup {ObjectRef("table", p.parent[1], p.parent[2]) :
                        p \in Range(d.table.attrs.partOf)}
      [] d.kind = "SetColumnDefault" -> d.new_sequences
      [] d.kind \in VIEW_CREATES -> ViewPrerequisites(NewView(d))
      [] d.kind = "AlterSequenceOwnedBy" -> {d.target} \cup Range(d.new_owned_by)
      [] d.kind = "CreateCompositeType" -> CompositeTypes(d.composite)
      [] d.kind = "AlterCompositeAddAttribute" -> d.types
      [] d.kind = "AlterCompositeAttributeType" -> d.new_types
      [] d.kind = "CreateDomain" -> TypesNamedIn({d.domain.base})
      [] d.kind \in ROUTINE_CREATES -> RoutineTypes(NewRoutine(d))
      [] d.kind = "CreateIndex" -> _index_refs(d.index)
      [] d.kind = "ReplaceIndex" -> _index_refs(d.new_index)
      [] d.kind = "CreateTrigger" -> _trigger_refs(d.trigger)
      [] d.kind = "ReplaceTrigger" -> _trigger_refs(d.new_trigger)
      [] d.kind \in POLICIES \ {"DropPolicy"} -> ParentOf(d)
      [] OTHER -> {}

\* The refs whose removal comes later.
Releases(d) ==
    CASE d.kind = "DropColumn" -> {Parent(d.target)} \cup SequencePrerequisites(d.column)
      [] d.kind = "AlterCompositeDropAttribute" -> d.types
      [] d.kind = "AlterCompositeAttributeType" -> d.old_types
      [] d.kind = "DropCompositeType" -> CompositeTypes(d.composite)
      [] d.kind = "DropDomain" -> TypesNamedIn({d.domain.base})
      [] d.kind \in ROUTINE_DROPS \cup {"ReplaceFunction", "ReplaceProcedure"} ->
            RoutineTypes(OldRoutine(d))
      [] d.kind = "DropConstraint" -> ConstraintRefs(d)
      [] d.kind = "DropIndex" -> _index_refs(d.index)
      [] d.kind = "ReplaceIndex" -> _index_refs(d.old_index)
      [] d.kind = "DropTable" ->
            TableTypes(d.table) \cup TableSequences(d.table)
                \cup UNION {_fk_remote_refs(c) : c \in Range(d.table.constraints)}
      [] d.kind \in VIEW_DROPS -> ViewPrerequisites(OldView(d))
      [] d.kind = "SetColumnDefault" -> d.old_sequences
      [] d.kind \in {"AlterSequenceOwnedBy", "AlterSequenceOwner"} -> Range(d.old_owned_by)
      [] d.kind = "DropTrigger" -> _trigger_refs(d.trigger)
      [] d.kind = "ReplaceTrigger" -> _trigger_refs(d.old_trigger)
      [] OTHER -> {}

\* A replaced function keeps its triggers: it need not wait for the trigger
\* that leaves it.
Awaits(d, e) ==
    Releases(d) \ (IF d.kind = "ReplaceTrigger" /\ e.kind = "ReplaceFunction"
                   THEN {d.old_trigger.function} ELSE {})

-----------------------------------------------------------------------------
\* The rules.

ResourceRule(d, e) == Creates(d) \cap Requires(e) # {} \/ Awaits(d, e) \cap Drops(e) # {}

SchemaRule(d, e) ==
    \/ /\ d.kind = "CreateSchema"
       /\ \/ e.op = "create" /\ e.target.kind \notin {"schema", "extension"}
                /\ e.target.ns = d.target.name
          \/ e.kind = "CreateExtension" /\ d.target.name \in Range(e.extension.schema)
          \/ e.kind = "AlterExtension" /\ d.target.name \in Range(e.new_schema)
    \/ /\ e.kind = "DropSchema"
       /\ \/ d.kind = "DropExtension" /\ e.target.name \in Range(d.extension.schema)
          \/ /\ d.op = "drop" /\ d.kind \notin {"DropSchema", "DropExtension"}
             /\ d.target.ns = e.target.name

\* All enum work goes before all work that could use an enum, whichever it is.
EnumRule(d, e) ==
    \/ /\ d.kind \in {"CreateEnum", "AddEnumValue"}
       /\ e.kind \in ROUTINE_CREATES \cup VIEW_CREATES \cup
            {"CreateTable", "AddColumn", "AlterColumnType", "SetColumnDefault", "AddConstraint",
             "CreateIndex", "ReplaceIndex", "CreateCompositeType", "AlterCompositeAddAttribute",
             "AlterCompositeAttributeType", "CreateDomain", "AlterDomainDefault",
             "AlterDomainNullability", "AddDomainCheck", "ValidateDomainCheck"}
    \/ d.kind = "CreateEnum" /\ e.kind = "AddEnumValue" /\ d.target = e.target
    \/ /\ e.kind = "DropEnum"
       /\ d.kind \in VIEW_DROPS \cup ROUTINE_DROPS \cup
            {"DropTable", "DropColumn", "AlterColumnType", "SetColumnDefault", "DropConstraint",
             "DropIndex", "DropDomain", "DropDomainCheck", "ReplaceFunction", "ReplaceProcedure"}

DomainRule(d, e) ==
    \/ d.kind = "CreateDomain" /\ e.kind \in {"AddColumn", "AlterColumnType", "SetColumnDefault"}
    \/ /\ e.kind = "DropDomain"
       /\ d.kind \in {"DropTable", "DropColumn", "AlterColumnType", "SetColumnDefault"}

RoutineRule(d, e) ==
    \/ d.kind \in ROUTINE_CREATES /\ e.kind \in TABLE_WORK
    \/ d.kind \in TABLE_WORK /\ e.kind \in ROUTINE_DROPS

\* A sequence gets the owner of a table before it becomes owned by a column.
SequenceRule(d, e, nodes) ==
    \/ /\ e.kind = "AlterSequenceOwnedBy" /\ e.new_owned_by # <<>>
       /\ \/ d.kind = "AlterSequenceOwner" /\ d.target = e.target
          \/ /\ d.kind = "AlterTableAttrs" /\ d.new["owner"] # <<>>
             /\ d.target = Parent(e.new_owned_by[1])
    \/ /\ e.kind = "AlterSequenceOwner"
       /\ \E o \in nodes : /\ o.kind = "AlterSequenceOwnedBy"
                           /\ o.target = e.target
                           /\ Range(o.new_owned_by) \cap Creates(d) # {}

ViewRule(d, e) ==
    \/ d.kind = "AddColumn" /\ e.kind \in VIEW_CREATES
        /\ Parent(d.target) \in ViewTables(NewView(e))
    \/ d.kind \in VIEW_DROPS /\ e.kind = "DropColumn"
        /\ Parent(e.target) \in ViewTables(OldView(d))

\* A foreign key after the key it refers to; a constraint after what held its
\* name, the name of its index included.
ConstraintRule(d, e) ==
    \/ /\ d.kind = "AddConstraint" /\ d.constraint.kind \in {"primary_key", "unique"}
       /\ e.kind = "AddConstraint" /\ e.constraint.kind = "foreign_key"
       /\ Parent(d.target) = e.constraint.refTable[1]
       /\ Range(d.constraint.columns) = Range(e.constraint.refColumns)
    \/ d.kind = "DropConstraint" /\ e.kind = "AddConstraint" /\ d.target = e.target
    \/ d.kind = "DropIndex" /\ e.kind = "AddConstraint"
        /\ d.target \in _constraint_backing_index_ref(e)
    \/ d.kind = "DropConstraint" /\ e.kind = "CreateIndex"
        /\ e.target \in _constraint_backing_index_ref(d)

\* Expressions of policies are not read: every change of a type, of a routine
\* or of a column of the table is ordered around the policy.
PolicyRule(d, e) ==
    \/ /\ e.kind \in POLICIES \ {"DropPolicy"}
       /\ \/ d.kind \in ROUTINE_CREATES
          \/ d.kind \in {"AddEnumValue", "AlterCompositeAddAttribute", "CreateCompositeType",
                         "CreateDomain", "CreateEnum"}
          \/ /\ d.kind \in {"AddColumn", "AlterColumnType", "SetColumnDefault",
                            "SetColumnNullability", "RenameColumn"}
             /\ Parent(d.target) = Parent(e.target)
    \/ /\ d.kind \in POLICIES
       /\ \/ e.kind \in ROUTINE_DROPS
          \/ e.kind = "DropColumn" /\ Parent(e.target) = Parent(d.target)
          \/ e.kind = "DropTable" /\ e.target = Parent(d.target)
          \/ /\ e.kind = "AlterTableAttrs" /\ e.target = Parent(d.target)
             /\ e.new["rls"] # <<>> \/ e.new["force"] # <<>>
    \/ /\ d.kind \in POLICIES \ {"CreatePolicy"}
       /\ e.kind \in {"AlterCompositeDropAttribute", "DropCompositeType", "DropDomain", "DropEnum"}

-----------------------------------------------------------------------------
\* Renames.

_referenced_tables(d) ==
    LET constraints ==
            CASE d.kind \in {"CreateTable", "DropTable"} -> Range(d.table.constraints)
              [] d.kind \in {"AddConstraint", "DropConstraint"} -> {d.constraint}
              [] OTHER -> {}
        refs ==
            {r \in {d.target} : r.kind = "table"}
            \cup ParentOf(d)
            \cup (CASE d.kind \in {"CreateIndex", "DropIndex"} -> {d.index.table}
                    [] d.kind = "ReplaceIndex" -> {d.old_index.table, d.new_index.table}
                    [] d.kind \in VIEW_CREATES \cup VIEW_DROPS ->
                        ViewTables(OldView(d)) \cup ViewTables(NewView(d))
                    [] OTHER -> {})
            \cup UNION {Range(c.refTable) : c \in constraints}
    IN  {QualifiedName(r) : r \in refs}

_uses_new_column(d, parents, name) ==
    LET constraints ==
            CASE d.kind = "CreateTable" -> Range(d.table.constraints)
              [] d.kind = "AddConstraint" -> {d.constraint}
              [] OTHER -> {}
        owner == IF d.kind = "CreateTable" THEN d.target ELSE Parent(d.target)
        Trigger(g) == QualifiedName(Parent(g.ref)) \in parents /\ name \in Range(g.updates)
        Index(i) == QualifiedName(i.table) \in parents /\ name \in IndexColumns(i)
    IN  \/ /\ d.target.kind = "column" /\ d.target.name = name
           /\ QualifiedName(Parent(d.target)) \in parents
        \/ d.kind = "CreateTrigger" /\ Trigger(d.trigger)
        \/ d.kind = "ReplaceTrigger" /\ Trigger(d.new_trigger)
        \/ d.kind = "CreateIndex" /\ Index(d.index)
        \/ d.kind = "ReplaceIndex" /\ Index(d.new_index)
        \/ \E c \in constraints :
            \/ QualifiedName(owner) \in parents /\ name \in Range(c.columns)
            \/ \E r \in Range(c.refTable) :
                QualifiedName(r) \in parents /\ name \in Range(c.refColumns)

\* A table is renamed before its new name is used, but after the triggers and
\* policies that go under its old name; a column likewise.
RenameRule(d, e, nodes) ==
    \/ d.kind = "RenameTable" /\ QualifiedName(d.new_table) \in _referenced_tables(e)
    \/ /\ e.kind = "RenameTable" /\ d.kind \in {"DropTrigger", "ReplaceTrigger", "DropPolicy"}
       /\ QualifiedName(e.target) \in _referenced_tables(d)
    \/ /\ d.kind = "RenameColumn"
       /\ LET parent == QualifiedName(Parent(d.target))
              ends == {{QualifiedName(t.target), QualifiedName(t.new_table)} :
                        t \in {n \in nodes : n.kind = "RenameTable"}}
              parents == {parent} \cup UNION {p \in ends : parent \in p}
          IN  _uses_new_column(e, parents, d.new_name)

Precedes(d, e, nodes) ==
    \/ ResourceRule(d, e)
    \/ SchemaRule(d, e)
    \/ EnumRule(d, e)
    \/ DomainRule(d, e)
    \/ RoutineRule(d, e)
    \/ SequenceRule(d, e, nodes)
    \/ ViewRule(d, e)
    \/ ConstraintRule(d, e)
    \/ PolicyRule(d, e)
    \/ RenameRule(d, e, nodes)

-----------------------------------------------------------------------------
\* A sequence that its table or column takes along is not dropped by itself.
Implicit(deltas, d) ==
    /\ d.kind = "DropSequence"
    /\ \E o \in Range(d.sequence.ownedBy), x \in Range(deltas) :
        \/ x.kind = "DropTable" /\ x.target = Parent(o)
        \/ x.kind = "DropColumn" /\ x.target = o

_omit_implicitly_dropped_sequences(deltas) ==
    FoldLeft(LAMBDA kept, d : IF Implicit(deltas, d) THEN kept ELSE Append(kept, d), <<>>, deltas)

\* Before[i]: the places of the deltas that go before the i-th.  The additions
\* to one enum keep their order.
Prerequisites(deltas) ==
    LET nodes == Range(deltas)
        Addition(i) == deltas[i].kind = "AddEnumValue"
        Follows(i, j) ==
            /\ i < j /\ Addition(i) /\ Addition(j) /\ deltas[i].target = deltas[j].target
            /\ \A k \in i + 1 .. j - 1 : ~(Addition(k) /\ deltas[k].target = deltas[i].target)
    IN  [j \in DOMAIN deltas |->
            {i \in DOMAIN deltas \ {j} :
                Follows(i, j) \/ Precedes(deltas[i], deltas[j], nodes)}]

\* Faulty variant: of two deltas of one sort key the later one goes first.
LowerUnstable(deltas, i, j) ==
    \/ Below(sort_key(deltas[i]), sort_key(deltas[j]))
    \/ sort_key(deltas[i]) = sort_key(deltas[j]) /\ i > j

\* The sort of Python is stable: equal keys keep their order.
Lower(deltas, i, j) ==
    \/ Below(sort_key(deltas[i]), sort_key(deltas[j]))
    \/ sort_key(deltas[i]) = sort_key(deltas[j]) /\ i < j

\* topological_sort: what is ready goes out first come, first served; what gets
\* ready together queues by its sort key.
InLine(deltas, ready) == InOrder(ready, LAMBDA i, j : Lower(deltas, i, j))

EmitFirst(deltas, before, state) ==
    IF state.queue = <<>> THEN state
    ELSE LET out == Append(state.out, Head(state.queue))
             ready == {j \in DOMAIN deltas :
                        Head(state.queue) \in before[j] /\ before[j] \subseteq Range(out)}
         IN  [out |-> out, queue |-> Tail(state.queue) \o InLine(deltas, ready)]

Sorted(deltas, before) ==
    LET start == [out |-> <<>>,
                  queue |-> InLine(deltas, {j \in DOMAIN deltas : before[j] = {}})]
    IN  FoldLeft(LAMBDA state, d : EmitFirst(deltas, before, state), start, deltas).out

\* The ordered deltas: fewer than the nodes when the rules form a cycle.
order_deltas(deltas) ==
    LET nodes == _omit_implicitly_dropped_sequences(deltas)
        order == Sorted(nodes, Prerequisites(nodes))
    IN  [cyclic |-> Len(order) < Len(nodes), deltas |-> [i \in DOMAIN order |-> nodes[order[i]]]]
=============================================================================
