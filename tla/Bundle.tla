--------------------------------- MODULE Bundle ---------------------------------
(***************************************************************************)
(* A migration bundle between the command that writes it and the one that    *)
(* applies it: up.sql, and the manifest that says which of its lines are     *)
(* which statement.                                                         *)
(*                                                                         *)
(* A line is [is, sql]: a line of SQL, the terminator of a statement, or one *)
(* of the lines that the reader never looks at.  A statement takes as many    *)
(* lines as its SQL has, the first of them carries it.  A checksum is the     *)
(* text it is computed from.                                                *)
(***************************************************************************)
EXTENDS Risk

Line(is) == [is |-> is, sql |-> <<>>]

\* The definition of a new object takes more than one line.
SqlLines(sql) ==
    <<[is |-> "sql", sql |-> <<sql>>]>> \o (IF sql.do \in {"create", "replace"}
                                            THEN <<Line("sql")>> ELSE <<>>)

Highest(levels) == CHOOSE l \in levels : \A k \in levels : k <= l

\* Each id once, where it is first used.
WithUse(used, id) == IF id \in Range(used) THEN used ELSE Append(used, id)

FirstUses(ids) == FoldLeft(WithUse, <<>>, ids)

-----------------------------------------------------------------------------
\* Rendering.  A plan is [levels, units]; a unit of it [transactional, max_risk,
\* statements], a statement [sql, delta].

\* Faulty variant: a statement ends with its terminator.
WithTerminatorInside(state, statement) ==
    LET lines == state.lines \o <<Line("comment")>> \o SqlLines(statement.sql)
    IN  [lines |-> Append(lines, Line(";")),
         ranges |-> Append(state.ranges, [delta_id |-> statement.delta,
                                          start_line |-> Len(state.lines) + 2,
                                          end_line |-> Len(lines) + 1])]

\* One statement: its label, its lines, its terminator.
WithStatement(state, statement) ==
    LET lines == state.lines \o <<Line("comment")>> \o SqlLines(statement.sql)
    IN  [lines |-> Append(lines, Line(";")),
         ranges |-> Append(state.ranges, [delta_id |-> statement.delta,
                                          start_line |-> Len(state.lines) + 2,
                                          end_line |-> Len(lines)])]

WithUnit(state, unit) ==
    LET head == (IF state.units = <<>> THEN <<>> ELSE <<Line("")>>)
                \o <<Line("comment")>>
                \o (IF unit.transactional THEN <<Line("BEGIN;")>> ELSE <<>>)
        body == FoldLeft(WithStatement, [lines |-> state.lines \o head, ranges |-> <<>>],
                         unit.statements)
    IN  [lines |-> body.lines \o (IF unit.transactional THEN <<Line("COMMIT;")>> ELSE <<>>),
         units |-> Append(state.units,
            [index |-> Len(state.units),
             transactional |-> unit.transactional,
             start_line |-> body.ranges[1].start_line,
             end_line |-> body.ranges[Len(body.ranges)].end_line,
             max_risk |-> unit.max_risk,
             delta_ids |-> FirstUses([i \in DOMAIN unit.statements |-> unit.statements[i].delta]),
             statements |-> body.ranges,
             checksum |-> [i \in DOMAIN unit.statements |-> SqlLines(unit.statements[i].sql)]])]

ManifestUnits(plan) ==
    LET header == <<Line("comment"), Line("comment"), Line("comment"), Line("SET")>>
    IN  FoldLeft(WithUnit, [lines |-> header, units |-> <<>>], plan.units)

render_bundle(plan) ==
    LET rendered == ManifestUnits(plan)
    IN  [up |-> rendered.lines,
         manifest |->
            [delta_count |-> Len(plan.levels),
             overall_max_risk |->
                IF plan.levels = <<>> THEN <<>> ELSE <<Highest(Range(plan.levels))>>,
             assessments |-> [i \in DOMAIN plan.levels |->
                                [delta_id |-> i, level |-> plan.levels[i]]],
             units |-> rendered.units,
             checksum |-> rendered.lines]]

-----------------------------------------------------------------------------
\* Reading.  What is not exactly as the writer would have written it is refused.

IsLineRange(x, lines) ==
    1 <= x.start_line /\ x.start_line <= x.end_line /\ x.end_line <= Len(lines)

\* Ranges in order, apart, and each of them inside the range of its unit.
_load_statements(unit, lines, ids) ==
    /\ unit.statements # <<>>
    /\ \A i \in DOMAIN unit.statements :
        LET s == unit.statements[i]
        IN  /\ s.delta_id \in ids
            /\ IsLineRange(s, lines)
            /\ i > 1 => unit.statements[i - 1].end_line < s.start_line
            /\ unit.start_line <= s.start_line /\ s.end_line <= unit.end_line
            /\ s.end_line < Len(lines) /\ lines[s.end_line + 1] = Line(";")

Represented(units) == UNION {Range(units[i].delta_ids) : i \in DOMAIN units}

\* Faulty variant: a delta may have lost its statements.
NoneUnknown(units, ids) == Represented(units) \subseteq ids

\* Every delta has statements, and every statement a delta.
AllRepresented(units, ids) == Represented(units) = ids

_load_units(units, lines, assessments) ==
    LET level == [i \in {a.delta_id : a \in Range(assessments)} |->
                    (CHOOSE a \in Range(assessments) : a.delta_id = i).level]
    IN  /\ \A i \in DOMAIN units :
            LET u == units[i]
                last == u.statements[Len(u.statements)]
                used == [k \in DOMAIN u.statements |-> u.statements[k].delta_id]
            IN  /\ u.index = i - 1
                /\ IsLineRange(u, lines)
                /\ i > 1 => units[i - 1].end_line < u.start_line
                /\ _load_statements(u, lines, DOMAIN level)
                /\ u.start_line = u.statements[1].start_line /\ u.end_line = last.end_line
                /\ ~u.transactional => Len(u.statements) = 1
                /\ u.delta_ids = FirstUses(used)
                /\ u.max_risk = Highest({level[d] : d \in Range(used)})
                /\ u.checksum = [k \in DOMAIN u.statements |->
                        SubSeq(lines, u.statements[k].start_line, u.statements[k].end_line)]
        /\ AllRepresented(units, DOMAIN level)

load_bundle(manifest, lines) ==
    LET levels == {a.level : a \in Range(manifest.assessments)}
        accepted ==
            /\ manifest.delta_count = Len(manifest.assessments)
            /\ \A i \in DOMAIN manifest.assessments : manifest.assessments[i].delta_id = i
            /\ manifest.overall_max_risk = IF levels = {} THEN <<>> ELSE <<Highest(levels)>>
            /\ manifest.checksum = lines
            /\ _load_units(manifest.units, lines, manifest.assessments)
        Statement(s) == [sql |-> lines[s.start_line].sql[1], delta |-> s.delta_id]
        Unit(u) == [transactional |-> u.transactional, max_risk |-> u.max_risk,
                    statements |-> [i \in DOMAIN u.statements |-> Statement(u.statements[i])]]
    IN  IF accepted THEN <<[i \in DOMAIN manifest.units |-> Unit(manifest.units[i])]>> ELSE <<>>
=============================================================================
