--------------------------------- MODULE Risk ---------------------------------
(***************************************************************************)
(* What a delta may cost: the level of every delta, and the gate that a      *)
(* migration must pass before any SQL is written for it.                    *)
(***************************************************************************)
EXTENDS Dependencies

SAFE == 0
WARNING == 1
DANGEROUS == 2
DESTRUCTIVE == 3
BLOCKED == 4

If(condition, level, otherwise) == IF condition THEN level ELSE otherwise

\* Adding a column touches existing rows when it comes with a value.
AddColumnRisk(c) ==
    If(~c.nullable \/ c.default # <<>> \/ c.fixed \in {"identity", "stored"}, WARNING, SAFE)

ColumnRisk(d) ==
    CASE d.kind = "AddColumn" -> AddColumnRisk(d.column)
      [] d.kind = "DropColumn" -> DESTRUCTIVE
      [] d.kind = "AlterColumnType" -> DANGEROUS
      [] d.kind = "SetColumnDefault" -> SAFE
      [] d.kind = "SetColumnNullability" -> If(d.nullable, SAFE, DANGEROUS)
      [] d.kind = "RenameColumn" -> WARNING

TableRisk(d) ==
    CASE d.kind = "CreateTable" ->
            If(d.table.attrs.rls[1] \/ d.table.attrs.force[1], DANGEROUS,
               If(d.table.attrs.partOf # <<>>, WARNING, SAFE))
      [] d.kind = "DropTable" -> DESTRUCTIVE
      [] d.kind = "RenameTable" -> WARNING
      [] d.kind = "AlterTableAttrs" ->
            If(\E a \in {"rls", "force", "unlogged", "partKey", "partOf", "owner"} :
                    d.new[a] # <<>>, DANGEROUS,
               If(d.new["tablespace"] # <<>>, WARNING, SAFE))
      [] OTHER -> ColumnRisk(d)

\* Faulty variant: an index that is dropped is taken to keep nothing unique.
KeyRiskUniform(d, created) ==
    CASE d.kind = "CreateIndex" ->
            If(d.index.table \in created, SAFE, If(d.index.partitioned, DANGEROUS, WARNING))
      [] d.kind = "DropIndex" -> DANGEROUS
      [] d.kind = "ReplaceIndex" ->
            If((d.old_index.partitioned \/ d.new_index.partitioned)
                    /\ d.new_index.table \in created, SAFE,
               If(d.old_index.unique /\ ~d.new_index.unique, DESTRUCTIVE, DANGEROUS))
      [] d.kind = "AddConstraint" ->
            If(Parent(d.target) \notin created, DANGEROUS,
               If(Range(d.constraint.refTable) \subseteq created, SAFE, WARNING))
      [] d.kind = "DropConstraint" -> DESTRUCTIVE

\* On a table that this migration creates there are no rows to scan or to lock.
KeyRisk(d, created) ==
    CASE d.kind = "CreateIndex" ->
            If(d.index.table \in created, SAFE, If(d.index.partitioned, DANGEROUS, WARNING))
      [] d.kind = "DropIndex" -> If(d.index.unique, DESTRUCTIVE, DANGEROUS)
      [] d.kind = "ReplaceIndex" ->
            If((d.old_index.partitioned \/ d.new_index.partitioned)
                    /\ d.new_index.table \in created, SAFE,
               If(d.old_index.unique /\ ~d.new_index.unique, DESTRUCTIVE, DANGEROUS))
      [] d.kind = "AddConstraint" ->
            If(Parent(d.target) \notin created, DANGEROUS,
               If(Range(d.constraint.refTable) \subseteq created, SAFE, WARNING))
      [] d.kind = "DropConstraint" -> DESTRUCTIVE

\* A materialized view goes only when nothing is left that reads it.
ViewRisk(d, resolved) ==
    LET Indexed == OldView(d).has_indexes \/ NewView(d).has_indexes
        Held == \E r \in OldView(d).dependents : <<r, d.target>> \notin resolved
    IN  CASE d.kind = "CreateView" -> SAFE
          [] d.kind = "DropView" -> DESTRUCTIVE
          [] d.kind = "ReplaceView" -> If(d.incompatible, BLOCKED, DANGEROUS)
          [] d.kind \in {"AlterViewOwner", "AlterMaterializedViewOwner"} -> DANGEROUS
          [] d.kind = "CreateMaterializedView" -> If(Indexed, BLOCKED, DANGEROUS)
          [] d.kind = "DropMaterializedView" -> If(Indexed \/ Held, BLOCKED, DESTRUCTIVE)
          [] d.kind = "ReplaceMaterializedView" -> If(Indexed \/ Held, BLOCKED, DANGEROUS)

TypeRisk(d) ==
    CASE d.kind \in {"CreateEnum", "CreateCompositeType", "AlterCompositeAddAttribute",
                     "CreateDomain", "AlterDomainDefault"} -> SAFE
      [] d.kind \in {"AddEnumValue", "AlterEnumAttrs", "AlterCompositeAttributeType",
                     "AlterCompositeTypeAttrs", "AlterDomainAttrs"} -> DANGEROUS
      [] d.kind \in {"DropEnum", "DropCompositeType", "AlterCompositeDropAttribute",
                     "DropDomain", "DropDomainCheck"} -> DESTRUCTIVE
      [] d.kind \in {"ReplaceEnumLabels", "ReplaceCompositeType", "ReplaceDomainType"} -> BLOCKED
      [] d.kind = "AlterDomainNullability" ->
            If(~d.new_not_null, DESTRUCTIVE, If(d.used_in_container, BLOCKED, DANGEROUS))
      [] d.kind \in {"AddDomainCheck", "ValidateDomainCheck"} ->
            If(d.used_in_container, BLOCKED, DANGEROUS)

RoutineRisk(d) ==
    LET Foreign == \E f \in {OldRoutine(d), NewRoutine(d)} : f.language \notin {"sql", "plpgsql"}
        Created == d.kind \in {"CreateFunction", "CreateProcedure"}
        Replaced == d.kind \in {"ReplaceFunction", "ReplaceProcedure"}
        Conflict == d.kind \in {"CreateFunction", "ReplaceFunction"} /\ d.default_conflict
    IN  CASE \/ Foreign
             \/ Created /\ NewRoutine(d).definer
             \/ Conflict
             \/ Replaced /\ d.incompatible -> BLOCKED
          [] OTHER -> If(Created, WARNING, If(d.kind \in ROUTINE_DROPS, DESTRUCTIVE, DANGEROUS))

OtherRisk(d) ==
    CASE d.kind = "CreateSchema" -> SAFE
      [] d.kind \in {"CreateExtension", "CreateTrigger", "ReplaceTrigger",
                     "AlterSequenceOptions", "AlterSequenceOwnedBy"} -> WARNING
      [] d.kind = "AlterExtension" -> If(d.new_version # <<>>, DANGEROUS, WARNING)
      [] d.kind = "CreateSequence" -> If(d.sequence.ownedBy = <<>>, SAFE, DANGEROUS)
      [] d.kind \in {"AlterTriggerEnabled", "CreatePolicy", "AlterPolicy", "ReplacePolicy",
                     "AlterSequenceOwner"} -> DANGEROUS
      [] d.kind \in {"DropSchema", "DropExtension", "DropTrigger", "DropPolicy",
                     "DropSequence"} -> DESTRUCTIVE

classify_risk(d, created, resolved) ==
    CASE d.kind \in {"CreateIndex", "DropIndex", "ReplaceIndex", "AddConstraint",
                     "DropConstraint"} -> KeyRisk(d, created)
      [] d.kind \in TABLE_WORK \ {"CreateIndex", "DropIndex", "ReplaceIndex", "AddConstraint",
                                  "DropConstraint"} -> TableRisk(d)
      [] d.kind \in VIEW_CREATES \cup VIEW_DROPS
                    \cup {"AlterViewOwner", "AlterMaterializedViewOwner"} -> ViewRisk(d, resolved)
      [] d.target.kind \in {"enum", "composite_type", "domain_type"} -> TypeRisk(d)
      [] d.target.kind \in {"function", "procedure"} -> RoutineRisk(d)
      [] OTHER -> OtherRisk(d)

\* Faulty variant: the limit itself is taken to be one level higher.
passes_next_risk_limit(levels, maxRisk) ==
    \A i \in DOMAIN levels : levels[i] # BLOCKED /\ levels[i] <= maxRisk + 1

\* No limit lets a BLOCKED delta through.
passes_risk_limit(levels, maxRisk) ==
    \A i \in DOMAIN levels : levels[i] # BLOCKED /\ levels[i] <= maxRisk

-----------------------------------------------------------------------------
\* What a migration detaches from what it reads, and the levels of its deltas.

_resolved_view_dependencies(deltas) ==
    UNION {LET new == IF Replaces(d) THEN ViewPrerequisites(NewView(d)) ELSE {}
           IN  {<<d.target, r>> : r \in ViewPrerequisites(OldView(d)) \ new} :
                d \in {x \in Range(deltas) : x.kind \in VIEW_DROPS}}

assess_deltas(deltas) ==
    LET created == {d.target : d \in {x \in Range(deltas) : x.kind = "CreateTable"}}
        resolved == _resolved_view_dependencies(deltas)
    IN  [i \in DOMAIN deltas |-> classify_risk(deltas[i], created, resolved)]
=============================================================================
