# A verification project for pgschemadiff

pgschemadiff compares two PostgreSQL schemas, turns the differences into a
migration, writes it as a bundle directory and applies bundles to a target
database, from the command line (`pgsd`) or from a terminal UI (`pgsd-tui`).
This directory holds TLA+ models of the parts where order, failure and
interleaving matter, the TLC runs that check them on small instances, and
theorems about them with proofs that TLAPS checks for every value of the
constants. `PROJECT.json` maps each definition to the lines of the source it
models.

Paths below are relative to the package, `src/pgschemadiff/` of the repository.

## The system

| part | state it keeps | operations | interacts with |
|---|---|---|---|
| Apply use case (`application/migration/apply.py`) | one attempt: applied unit count, failed unit | risk gate, resume decision, loop over units, record a failure, a cancellation | executor (calls), caller (events) |
| Migration executor (`infrastructure/postgres/applier.py`) | advisory lock, `migration_runs` and `migration_units` tables, the target schema | open and close, load history, start run, apply a unit in a transaction or outside one, finish run | PostgreSQL |
| Source guard (`application/migration/guard.py`) | none; reads history and fingerprint | match, mismatch, skip | history reader, inspector |
| `pgsd apply` (`presentation/cli/commands/apply.py`) | one process | check, confirm risk, apply | all of the above |
| TUI session (`presentation/tui/app.py`, `session.py`) | selected profile, comparison, plan, written path, validated bundle, operation, pending confirmation, message queue, workers, history lock | one handler per message, one worker per long task | workers post messages; applier |
| Topological sort (`application/diff/topo_sort.py`) | in-degrees, queue, result | validate, build, emit, report a cycle | delta ordering |
| Diff engine, comparators, renames, ignore rules (`application/diff/`) | none (pure) | pair, compare, map annotated names, filter | inspector, delta dependencies |
| Delta dependencies (`application/diff/dependencies.py`) | none (pure) | derive prerequisites, leave out implied drops, order | topological sort |
| Emitters, risk, transaction units (`application/sql_emit/`) | none (pure); `current` and `units` of `split_units` | delta to SQL, risk level, gate, split into units | generator |
| Generator, renderer, bundle reader (`application/migration/`) | none (pure) | plan, up.sql and manifest, validation | bundle writer, apply |
| Bundle writer (`infrastructure/fs/migration_writer.py`) | temporary and final directory | write, sync, publish by rename, clean up | file system |
| Inspector, pool, type normaliser (`infrastructure/postgres/`) | a connection | catalog queries in one snapshot | PostgreSQL |
| Report, views, i18n, configuration | none | formatting and parsing | |

What is hard in it, and what would make each part correct:

- **Applying.** Several clients may apply bundles to one database; each step
  can fail, be cancelled (at every `await`) or be the last one before a crash.
  A non-transactional unit (`CREATE INDEX CONCURRENTLY`) and its marker commit
  separately. Correct means: history and schema agree, nothing takes effect
  twice or out of order, what is in doubt is never guessed, an attempt can be
  repeated, and the lock is always given back.
- **The session.** A handler runs on the session of *now* for a request of
  *then*. Workers end in any order, cancelled or not, and some answers outlive
  what they answer. Correct means: what is applied is what was shown and
  confirmed, for the selected profile; artifacts of one profile never mix with
  those of another; the operator is never locked out by an operation that ended.
- **Ordering.** Prerequisites come first whatever the dependencies; cycles are
  reported truthfully; the order is deterministic.
- **Publishing a bundle.** All or nothing, through crashes and other processes.
- **Planning.** About sixty kinds of delta are compared, ordered, assessed and
  emitted by code that treats each kind by itself; whether they fit together shows
  only when PostgreSQL runs the result. Correct means: every statement is accepted
  when its turn comes, the result has no difference to what was desired, also after
  a migration that stopped half-way; nothing is lost below the limit that allows it;
  what was ignored or not asked for stays.
- **Splitting and validating.** Units cut where transactions must be; what is
  read back is what was generated, or refused.

The hazards behind these sentences are listed with their lines in
`PROJECT.json`, each with the properties that cover it, or why none does.

## Modules

| module | models | state and actions |
|---|---|---|
| `Applier` | apply use case, executor, history tables, guard, the order of steps of `pgsd apply` | below |
| `BundleProgress` | nothing in the code: the promise of applying, as a reader of the database sees it | owner, done, known, complete of each id |
| `ApplierProofs`, `ApplierStepProofs` | theorems about `Applier` | |
| `TopoSort` | `topological_sort` | below |
| `TopoSortProofs` | theorems about `TopoSort` | |
| `Session` | the session of the TUI, its handlers and workers | below |
| `SessionProofs` | theorems about `Session` | |
| `BundleWriter` | `FilesystemMigrationWriter.write` and the file system under it | below |
| `BundleStore` | nothing in the code: the promise of the place for one bundle | the bundle shown, whether it is whole, who was told |
| `BundleWriterProofs` | theorems about `BundleWriter` | |
| `Objects` | references, sort keys, one constructor for each class of delta | pure |
| `Comparators` | the comparators of all kinds but tables and indexes | pure |
| `Diff` | the engine: annotations, pairing, tables, columns, constraints, indexes, ignore rules | pure |
| `DiffProofs` | theorems about `Diff`, `Comparators` and `Dependencies` | |
| `Dependencies` | `order_deltas`: the rules, the omitted drops, the order | pure |
| `Risk` | `classify_risk`, the gate, `assess_deltas` | pure |
| `Emission` | the emitters: the statements of each delta, with their modes | pure |
| `Catalog` | nothing in the code: PostgreSQL, as those statements use it | pure |
| `Inspector` | the snapshot a diff compares | pure |
| `Bundle` | up.sql and the manifest, written and read | pure |
| `BundleProofs` | theorems about `Bundle`: what is written is read back | |
| `Migrate` | a migration from end to end, composing the modules above | below |
| `MigrateProofs` | theorems about `Migrate`, `Risk` and `Emission` | |
| `MCApplier`, `MCTopoSort`, `MCSession`, `MCBundleWriter`, `MCMigrate` | finite instances for TLC | constants only |

### Applier

`run`, `unit` and `newer` are the history tables (`newer` is what ordering by
`started_at` sees), `historySchema` says whether the reserved schema is absent,
ours or somebody else's, `effect` counts how often the SQL of a unit took
effect, `leftover` are invalid indexes of failed concurrent builds, `drifted`
says that somebody else changed the schema. Each client has a control state
`pc` whose labels follow the calls: `guard`, `inspect`, `confirm`, `lock`,
`load`, `bootstrap`, `start`, then for each unit either `tx` (statements in one
transaction with the marker) or `exec` and `mark` (marker, autocommitted
statement, marker), `record` and `finishFailed` after a failure, `finished`,
`cancelling` and `unlock`. An action is what becomes visible with one commit or
one answer. `Cancel`, `Abort` (an error of a history statement) and `Crash` can
interrupt a client at every label where the code can be interrupted; `Drift`,
`ReserveName` and `DropIndex` (together `Elsewhere`) are other sessions.

A concurrent build that fails or is interrupted may leave an INVALID index. The
emitted statement has no `IF NOT EXISTS` and nothing drops the index first
(`index_emitter.py:170-180`), so PostgreSQL refuses every retry (`ExecuteRefused`)
until somebody drops it. That is `DropIndex`, which the program asks for (`render.py:232`,
`apply.py:193` of the CLI, `docs/guide/bundles.md:65`) and never does itself. Units whose
statement leaves nothing behind, such as `DROP INDEX CONCURRENTLY`, are the behaviours in
which `leftover` stays empty.

A transaction that is open is invisible and so is only control state. The
fingerprint is abstracted to the set of bundles that took effect, plus drift:
two different histories are taken to have different fingerprints. SQL texts,
digests and ids are values.

### BundleProgress and the refinement

`BundleProgress` has no clients, locks, attempts or failures. An id is claimed by
one bundle; a unit takes effect only after all before it were acknowledged; a
transactional unit takes effect and is acknowledged in one step; a run is complete
only when all of it is known. `Applier` implements it under the mapping at the end
of the module (`Owner`, `Done`, `Known`, `Complete`). Every other step of a client
is a stutter: however an attempt goes, nothing else can be seen.

### TopoSort

One action for the validation of prerequisites, one for the in-degrees and the
first queue, one for each node taken from the queue, and one for the result. The
initial state is *any* list of nodes and *any* dependency relation, with unknown
and repeated nodes.

### Session

All of the application is one record, `app`: the fields of `TuiSession` that
decide something, the private fields of `PgsdApp`, the message queue, the workers
and the history lock. Methods that handlers call (`_cancel_bundle_load`,
`clear_apply`, `_ensure_apply_bundle_loaded`, ...) are operators from `app` to
`app`; a handler is an action that takes the first message and applies them; a
worker is one action (its end), or two where it holds the lock in between. An
artifact carries what it was made from, so that "of the selected profile" can be
asked; comparisons by identity in the code (`is`) are equality of these records.

Textual itself is external and modelled as it is used: messages are handled in
order; `run_worker(exclusive=True)` cancels the others of the group; a cancelled
coroutine stops at its next `await`, so a worker in `asyncio.to_thread` posts
nothing and a check or an apply posts its "cancelled" message; a worker takes its
first step before a later message can cancel it; the callback of a dismissed
screen runs after the message being handled, or after the next one. Buttons and
commands need the main screen; view chords work under a confirmation, too. A worker
that answers may fail instead, and a handler may refuse (timeouts that do not parse,
a blocked unit, profiles that cannot be tested together, an empty output directory).

Left out: what views show, status lines and events, the load of the profiles at the
start, selections in the history and diff views, `dry-run` as an operation of its
own (`_start_apply_worker` is only ever called for real runs).

### BundleWriter

Several calls of `write` for one final name. `pc` is the file operation that comes next,
`at` the file of the loop. `place` says where the directory of a call is, `content` what its
files hold. `mayBe`, `synced` and `named` are what the disk knows: where the directory may
be after a loss of power, which files were synced, and which of their names were. `other` is
something of another program under the final name. `Fails` is any operation that raises
and leads to the `finally` block or, after the rename, past it; `Die` is a killed process.
`PowerLoss` ends every call under way and leaves of the file system any state that the syncs
allow. `Files` counts the files of a bundle, `SyncWorks` says whether directories can be
synced: the code ignores the error where they cannot, and promises less.

Simplified: what was removed by a cleanup is gone at once from `content`; no property
looks at files that are not under the final name. A sync of the output directory makes every
entry in it durable, which is what file systems do for one directory. Whoever removes a
published bundle by hand is left out. A write that stops in between leaves a
"partial" file, as opening it does.

Under the refinement mapping the store shows the bundle whose directory is at the final name,
and has reported those whose call returned the path.

### Objects and Catalog

An object of a schema is a record with its `ref`; a database is a set of objects. SQL text
(a type, a default, an expression, a query) is `[says, uses]`: a word that tells one text
from another and the refs PostgreSQL resolves in it. That is what makes planning checkable:
the program decides by names and equality of texts, PostgreSQL by what the texts refer to.

`Catalog` is the other side of the comparison, and external. `Executed` runs the statements
of one unit: it gives the catalogs that can result, or none when a statement is refused. A
statement is refused when an object is missing or already there (`NamesAreUnique`), when what
remains would refer to what is gone (`HeldBy`, `Sound`), when a view would lose a column, when
an enum value is used before the transaction that added it has ended, when a key a foreign key
needs is missing. Drops of tables and columns take along what PostgreSQL takes along. Rows are
abstracted to the identity of a column's data (`data`): a column that is dropped and added
again is not the same column, a renamed one is.

### Inspector, Comparators, Diff

`inspect` maps a catalog to what `PgCatalogInspector` shows: it drops what the queries do not
read (comments of indexes, rows), shows the index behind each key, computes the dependents of
materialized views over all schemas, finds domains inside of composite types, and then applies
the schemas asked for. Each comparator is one operator from two optional objects to a sequence
of deltas. `diff` validates the annotations, pairs the objects of each kind in the order of the
registry, compares them and applies the ignore rules.

### Dependencies, Risk, Emission

`Dependencies` states each `_add_..._dependencies` function as a predicate of two deltas
(`EnumRule`, `RenameRule`, ...), where the code loops over pairs and adds edges. `Sorted` is
the result of `topological_sort` on them; module `TopoSort` has the algorithm step by step.
`Risk` is `classify_risk` in the groups the code has. `Emission` gives for each delta the
statements its emitter writes as operations on a catalog, with `transactional`, `isolated` and
`new_unit` as the emitter sets them; `MigrationError` is a statement of its own. Names and
quoting are left out.

### Bundle

Line by line where the reader looks: up.sql is a sequence of lines, a statement takes one or
two of them, the manifest has the ranges, ids, levels and digests. A digest is the text it is
computed from. `load_bundle` is every check of `bundle.py` that relates two parts of a bundle;
the JSON types and the form of names are left out.

### Migrate

`request` is what an operator asks for: source, desired database, annotations, ignore rules,
schemas and limit. `phase` goes from `compare` through `order`, `assess`, `emit`, `split`,
`write`, `load` and `apply` to `end`; `split_units` takes one step per statement (`at`, `open`
and `units` are its loop variable, `current` and `units`), applying one per unit. Two things
can go wrong, `Faults` times in all: the bundle that is read lost a unit, a statement, a line
or has an understated level (`LoadFaulty`), or the application is given up between two units,
and a new migration is planned from there without the annotations that are done (`Interrupt`).
A unit takes effect as a whole or is refused here; how an attempt at one fails, is repeated or
is left in doubt is the subject of `Applier`. No fairness is stated: a migration ends because
it cannot deadlock before `end` (TLC checks that) and every step but an interruption, of which
there are at most `Faults`, advances the phase or one of its counters.

## Runs

| run | checks | shows |
|---|---|---|
| `safety` | `TypeOK`, `MarkerTruth`, `AppliedPrefix`, `RunStatusTruth`, `LocalCountExact`, `ReportTruth`, `DoubtIsKept`, `ContentPinned`, `ForeignSchemaUntouched`, `ImplementsProgress` | two clients, three bundles, two ids: one bundle with a unit of each kind, one with other content and the older format under the same id, one destructive bundle written for the schema the first leaves behind; what they do to the schema implements the promise |
| `liveness` | `LockReleased`, `RetriesSettle` | two clients and one bundle: the lock is always released; once faults cease and INVALID indexes are dropped, retrying completes the run or meets a unit that a lost client left in doubt |
| `guard_limit` (violation) | `GuardSkipsPreviousRuns` | finding 1 |
| `late_cancel` (violation) | `StoppedRunResumable` | finding 2 |
| `topo_order` | `TypeOK`, `PrerequisitesFirst`, `AnswerRight`, `CyclesNamed`, `ReleaseOrder`, `Terminates` | all relations over four nodes |
| `profiles` | `TypeOK`, `ArtifactsMatch`, `CancelReaches`, `ApplyRight` | two profiles; comparisons, saves and loads done twice, two checks and two applies alive |
| `saves` | `ArtifactsMatch`, `ApplyEnds` | plans and saves replaced while under way, dry runs waited for |
| `reads` (violation) | `ReadsAndApplyApart` | finding 3 |
| `forgotten` (violation) | `ProfileStaysDuringApply` | finding 5 |
| `publish` | `TypeOK`, `PublishedWhole`, `ImplementsStore`, `EndsTidy` | two calls race for one name while anything fails or dies and the power is lost |
| `migrate` | `TypeOK`, `NeverRejected`, `Converged`, `StableOrder`, `UnitsWell`, `AcceptedWhole`, `WrittenIsRead`, `NothingLost`, `ValidatedApart`, `ScopeKept`, `IgnoredKept`, `DropsAreDestructive` | 9,830 pairs of databases, from `compare` to `end`, with one damaged bundle or one interruption: about 149,000 states |
| `moves` (violation) | `NeverRejected` | finding 4 |

### Bounds

- `Applier`: two clients are enough for every pair of steps of two attempts, and
  a third would only wait for the same lock. Two units (`MaxUnits`) are enough for
  "the unit before" and "the unit after" of either kind, and two statements for a
  failure between statements. `HistoryLimit` stands for the default limit, 50;
  `safety` sets it to 2, `guard_limit` to 1 so that one
  other run is enough to push a run out of the list. `liveness` has one bundle, destructive so
  that it must be approved: every exit path of an attempt is there, refusals under the lock
  included (a foreign schema, a complete run, a unit in doubt). With two bundles of one id, strong
  fairness of the lock would let the attempts of one of them starve those of the other. Attempts, failures, crashes and
  cancellations are not bounded. `effect` is bounded by the invariant, not by a
  guard.
- `TopoSort`: all 2^16 relations over four nodes, for all nodes or all but one
  (which is then an unknown prerequisite), each list with at most one node repeated
  (`Repeats`). Four nodes hold two ready nodes that release others in a different
  order, and a cycle with a node hanging from it.
- `Session`: `MaxQueue` holds the operator back while a message waits; workers still
  post, so several messages do wait. `MaxMade` bounds what is made of each kind
  (two of what the run is about), `MaxWorkers` the checks and applies alive (two: a
  cancelled one and its successor). `Input` is what the operator does: all of it in
  one run or another. Failures, cancellations and switches of view are not bounded.

- `BundleWriter`: two calls, for a race and for a retry after a failure or a restart; two
  files, for a call that stops between files. Nothing else is bounded.
- `MCMigrate`: a *family* is a set of small databases that differ in one part: columns (with
  an index, a CHECK and a view on them), keys and a foreign key to either, enums, domains (in
  columns and in composite types), composite types, sequences (in defaults, owned), routines
  (called by defaults), triggers and policies, views (over tables, views, materialized views),
  hidden dependents of a materialized view, renames of a table and a column with all that hangs
  on them, schemas and extensions, partitions, ignore rules. Every database of a family is
  migrated to every other, so that what is created in one pair is dropped in another, and two
  or three changes that have to be ordered meet in most pairs. `maxRisk` is DANGEROUS or
  DESTRUCTIVE; at lower limits fewer migrations start and none ends differently. `Faults` is 1:
  a second interruption is one of a migration that started from such a state as the first left.

### Fairness

- `LockReleased`: weak fairness of `Proceed(c)`, the steps a client takes by itself.
  The code awaits each of these with a timeout or until the server answers; nothing
  is assumed of operators, faults or other sessions.
- `RetriesSettle`: in addition the operator tries each bundle again and again and
  sooner or later approves, and a contended advisory lock is granted sooner or later
  (PostgreSQL queues waiters). Strong fairness, because other attempts come between.
  The property speaks of behaviours in which faults cease. Weak fairness of `DropIndex` is an
  assumption about the operator and not about the code: an INVALID index is dropped in the
  end, as the guide tells the operator to do. Without it TLC shows an attempt refused, recorded as failed
  and retried for ever: the program alone does get stuck there. A unit counts as in
  doubt only when no attempt is at work on its run, so that the passing `running` marker of a
  retry is not an answer.
- `Terminates`: weak fairness of the sort.
- `ApplyEnds`: weak fairness of the event loop and of each kind of worker. Nothing is
  assumed of the operator, who may go on pressing.

The fairness of operators is not part of the specification `liveness` checks: it is the premise of
`RetriesSettle` (`Retried`), so that `LockReleased` has no use of it.

The cfgs of the sort and of the bundle writer say `CHECK_DEADLOCK FALSE`: calls end.

### Symmetry

`safety` uses symmetry of clients, `profiles` of profiles and `publish` of calls; they check safety only, and
no definition tells the values apart.

## What is proved

Eight modules hold proofs; all leaves are checked.

`TypeOK` and the invariants below are theorems for any set of clients, bundles and
ids, any number of units and statements, any history limit; those of the sort
for any finite set of nodes and any relation.

**Applier.** None of the safety properties is inductive. `MarkerTruth` depends on what
the holder of the lock knows, which depends on what it read from the rows, which
depends on nobody else having changed them. `IInv` says all of it:

- `LockInv`: exactly the holder of the lock is inside `open_executor`;
- `RowInv`: unit rows exist exactly for the units of the bundle that started the run;
- `ReadInv`: between `load_history` and `start_run`, what was read is still so;
- `LoopInv`: within the loop, marker and effect of the current unit are where the
  control state says, and `idx` is the first unit that is not applied;
- `OutcomeInv`: what is about to be reported is so;
- with `TypeOK`, `MarkerTruth`, `AppliedPrefix` and `RunStatusTruth`.

`ApplierProofs` has one lemma per action (`BeginUnitStep`, `CommitUnitStep`, ...), resting
on lemmas about who may change what: a client without the lock relies on nothing
(`WithoutLock`), and a step that leaves the rows alone leaves what others read alone
(`OthersSameRows`). `Invariance` is `Spec => []IInv`, and `TypeCorrect`,
`MarkersAreTrue`, `AppliedIsPrefix`, `StatusIsTrue`, `CountIsExact` and `ReportsAreTrue`
follow. `ApplierStepProofs` proves the action properties: `ForeignIsUntouched` with
`SchemaInv` (rows exist only in a schema that was verified), `DoubtStays`, and
`ContentIsPinned` with `ApprovalInv` (whoever asks for the lock has passed the risk gate).
Its last part proves `PromiseIsKept`: every step of `Applier` maps to a step of
`BundleProgress` or to a stutter.

**TopoSort.** `SortInv`: the in-degree of a node counts its prerequisites that are not
emitted; a node waits exactly when all were; and no *blocked* set (each member waits for
another member) has lost a member. The last part is what makes `AnswerIsRight` and
`CyclesAreNamed` go through: a set that is left over when the queue is empty is blocked,
and a blocked finite set cannot be part of an order. "Cyclic" is defined by blocked sets,
which is the same for finite graphs and needs no induction over paths.
`OrderIsDetermined` is `ReleaseOrder`: among what was emitted, a node comes before another when
its last prerequisite came earlier, or the same one did and its key is smaller. `OrderInv` says
it of `result \o queue`, the nodes emitted and the nodes that wait behind one another, which
emitting the head of the queue leaves as it is, and appending the released nodes extends by nodes
whose last prerequisite is the newest one emitted.

**Session.** `SessionInvariance` is the invariant behind `ArtifactsFit`, `CancelIsReached` and
`AppliesAreRight`, for any number of profiles, requests, workers and waiting messages. A
handler runs on the session of now for a request of then, so the invariant speaks about what is
on its way: every bundle that is shown, checked, asked about or applied is of the profile it is
requested for, and while it is about the path of the session's last save it is the session's
bundle; nobody is asked any more about an older path once the bundle of a newer one is there;
the path in a message that waits is one that the session has not seen. Each operator that a
handler calls (`clear_apply`, `_cancel_bundle_load`, ...) has a lemma that says what it keeps and what
it ends; handlers that end nothing and start nothing are dealt with together ("calm" and
"quiet" ones), the others one by one.

**BundleWriter.** `PublishedWhole` is about memory and must survive `PowerLoss`, so the
invariant has to say more: `OnDisk`, what is under the final name is synced, content and name;
`Filled`, how much of that the loop has done when each operation comes; `Located`, where the
directory is for each operation, and that only a published directory may be found at the
final name after a loss of power; `Kept`, a reported bundle can be nowhere else; and at most
one directory is published (`OnePublished`). `StepOfOne` carries the calls that do not move.
`WriterInvariance`, `WriterTypeCorrect`, `PublishedIsWhole`, `CallsEndTidy` and, where
directories can be synced, `WriterImplementsStore` hold for any number of calls and files.

**Bundle.** `ReadAsWritten`: for every plan, with any number of units and statements and SQL of one
line or of more, `load_bundle` accepts what `render_bundle` writes, and what it reads are the
units of the plan. A plan is anything `MigrationPlan` takes (`IsPlan`): no unit is empty, one that is
not transactional has one statement, risks are those of the deltas, and all deltas have statements.
The writer is three nested folds. `Folded` and `FoldExists` show that the fold of the community
modules is a function on the sets it recurses over, so that a value for the first `k`
statements (`Body`) or units (`File`) is there to speak about; what holds of all of them follows
by `ByInduction` over `k`. `Placed` is what holds of one statement: its range is inside the text,
the lines there are those of its SQL, and the next line is the terminator. It survives
whatever is appended (`PlacedStays`), so that `Written`, all statements of a unit, and `Rendered`,
all units of a file, do. `FirstUsesRange` says that the ids of a unit are those of its
statements. `AcceptedIsWhole` is about the reader alone: of any manifest, whoever wrote it,
that assesses the same levels.

**Migrate.** `UnitsAreWell`: for any statements, `split_units` cuts them into units that follow
one another without gap, none of them empty, each well cut. The invariant `SplitInv` adds to
`UnitsWell` that `current` (from `open` to `at - 1`) is itself well cut and holds no statement
that must be alone; `AppendWell` and `FlushedWell` carry the units that are already there.
`OnlyGatedPlans` follows from `GateInv`: from the emission on the levels are those that passed
the gate, and an interruption goes back before it. `RaisesOnlyWhenBlocked` looks at the emitters
and the levels of all deltas that some emitter may refuse to write: each refusal is BLOCKED, so
that no such migration gets as far as SQL. It is stated for replacements of views, routines and
types; a changed partition strategy is the exception named below. `ReadIsWhole` is
`AcceptedWhole`: its invariant `LoadInv` keeps what the bundle was written from until it is read,
`FaultyReadable` that a fault changes no assessment, and the rest is `AcceptedIsWhole`.
`WrittenIsReadBack` is `WrittenIsRead`: `NoneLeftOut` and `UnitPlanned` make the plan of `SplitInv`
one that `ReadAsWritten` takes.

`TypesAreKept` is `TypeOK`, and `SqlIsWhole` that there are statements for exactly the deltas, in
their order. The invariant is the two together (`TypeInv`, in the parts `Made`, `Phased` and `Counted`),
and what it needs is that nothing on the way from a delta to its statements is undefined for some
kind: `EveryDeltaHasLevel`, for every kind, any fields and any migration around it, goes through the
groups of `classify_risk`; `HandlerWrites` goes through every emitter and shows a sequence of
at least one statement, whatever optional clauses there are, so that the emitter's refusal "emitted no
statements" and `MigrationPlan`'s refusal of a delta without a statement never fire;
`EmissionIsWhole` puts the handlers together; `OrderIsDiff` says that ordering and omitting leaves a
sequence of known deltas. `OrderIsStable` is `StableOrder`, by `OrderIsIdempotent` below: what `diff`
shows has been ordered, `generate` orders it once more, and the order that is assessed
is the one that was shown.

`OnlyDestructiveDrops` is `DropsAreDestructive`: a plan for a limit below DESTRUCTIVE holds no statement
that takes anything away, except indexes that keep nothing unique, and what a later statement of the
same delta creates anew (a policy, a constraint trigger, a materialized view, an index that is
replaced). That is two modules that must agree about sixty kinds of delta, the levels and the emitters:
`LossHasLevel` has the kinds that lose something, `Mild` and `MakesGood` what the statements of all
others do (`DomainMild`, `TriggerMakesGood`, ...), `LossIsDestructive` is the two together, and
`EmissionMadeGood` carries it over to all deltas of a plan that passed the gate. It says of the SQL, for
any database, what `NothingLost` says of the catalog for those of the instance.

`TypesAreKept`, `SqlIsWhole`, `OrderIsStable`, `WrittenIsReadBack` and `OnlyDestructiveDrops` have
one hypothesis about a state, `DiffTyped`: what `diff` returns is a sequence of deltas of known
kinds, whose names can be compared. It is what the type `DeltaSet` says, and not what the rest of
the plan does with it. It is a hypothesis because a database is a set of records of no fixed type
here, and comparators build deltas from whatever these hold; TLC checks it in every state of the
run, as a part of `TypeOK`.

**Diff.** `LowerIsTotalOrder`: sort keys may collide, and the order of released deltas is still
a strict total order, so that the order of a diff is a function of the diff. It rests on
`Below`, the comparison of tuples, being transitive and total on tuples of strings.
`TablesStayApart` and `ColumnsStayApart`: under annotations that passed `ValidAnnotations` and
`validate_for`, the mapping of names is injective on a database, which is what pairing by mapped
name needs. `SameHasNoDelta`: comparing an object with itself yields nothing.

**Dependencies.** Three theorems about `order_deltas` for every sequence of deltas whose names are
words over `Alphabet`, the characters in the order in which sort keys are compared. `RulesAreKept`:
what it returns without a cycle is a permutation of the deltas it does not omit, and each comes
after all that a rule puts before it. `CycleIsReal`: it reports a cycle exactly when some non-empty
set of the deltas has each member wait for a member. `OrderIsIdempotent`: to order what has been
ordered changes nothing. `Sorted` is a fold of one round (`EmitFirst`) after another, and the
argument is about *the line*: what was emitted and what waits, one behind the other. `LineInv` says
that the line repeats nothing, that it holds exactly the deltas all of whose prerequisites were
emitted, and that a round appends to it, by key, those that the emitted one released (`LineStep`,
`NextRound`; `RollsOn` is the induction over rounds). For idempotence, `Resumed` follows a second
sort of what the first one returned: it emits in each round what stands there, because
`AlikeKeepOrder` and `PrerequisitesCarried` show that rules and keys do not depend on places,
except that equal keys keep the order they have, which the first sort gave them.

Other assumptions are the ASSUMEs of `Applier`, `TopoSort`, `Session`, `BundleWriter`, `Objects`
and `Migrate`: types of the constants, values that are not members (`NoClient`, `NoBundle`,
`None`), `--max-risk` never being BLOCKED in `Migrate` (`pgsd generate` refuses it,
`presentation/cli/commands/generate.py:27`), ranks without collisions in `TopoSort`. The last one
stands for Python's stable sort: `Key` is the rank of a node by its sort key and, where two sort
keys are equal, by its place in the list. (Sort keys do collide, whatever the docstring at
`domain/delta/base.py:175` says: a change of the type and one of the default of a column share
namespace, parent, name and operation.)

**Model-checked only.** The liveness properties (`LockReleased`, `RetriesSettle`,
`Terminates`, `ApplyEnds`): the prover does no liveness under fairness. Of `Migrate`: `NeverRejected`,
`Converged`, `NothingLost`, `ValidatedApart`, `ScopeKept` and `IgnoredKept`,
which say that PostgreSQL, as `Catalog` has it, takes what every comparator and emitter gives, and
are true of the databases of the instance and not of all (see below). The library's induction theorems
take an operator as a parameter and cannot be used; the inductions above, over natural numbers, are
proved from `NatLessThanWellFounded` and `WFMin`, which do not.

## Findings

1. *`guard_limit`* — the guard looks for a previous run of its bundle among the newest
   runs only (`list_history()`, 50). With more runs since, a resume is compared by fingerprint
   with a half-applied schema. The design says a previous run that is not applied skips.
2. *`late_cancel`* — a cancellation that arrives after the last unit committed records
   `cancelled` over a run that has nothing left to apply, and `_first_non_applied` refuses it
   for ever. The guide says a cancelled run whose units form a prefix can be resumed. An
   attempt with other content under the same id, cancelled before it has looked at the history,
   does the same to a complete run; `StoppedRunResumable` is the property for both.
3. *`reads`* — "Test both" keeps the previous comparison until the new one replaces it, so a
   migration can be generated, saved, confirmed and applied while the new comparison reads the
   target. The design says that apply and read workers are never concurrent.
4. *`moves`* — a rename annotation may change only the schema of a table (a test says so), but
   `emit_rename_table` always starts with `ALTER TABLE app.t RENAME TO t`, which PostgreSQL
   refuses because the name is taken, by the table itself.
5. *`forgotten`* — a save that ends, or a source check that ends late, sets `apply_operation` to
   `None` also when an apply is running. The session then lets the profile be changed, cannot
   cancel that apply and may start another beside it. The design says that profile changes are
   disabled while an apply is active. (`CancelReaches` is about the other direction only: an
   apply the session knows of can be reached.)

Smaller things seen on the way, which no run is about:

- The docstring of `topological_sort` (`topo_sort.py:110`) promises the smallest key among all
  ready nodes; the queue is first-in first-out, so a node that became ready earlier comes first.
  The comment at `:197` says that every node left over is in a cycle; some only depend on one.
- A manifest that lost the second statement of a delta (the VALIDATE of a constraint) is still
  accepted: every delta is represented, and `manifest.json` has no checksum of its own.
  `Converged` says so by asking for what was planned.
- A changed partition strategy is only DANGEROUS; it passes the gate and the emitter then raises
  `MigrationError`, so that the command ends without a bundle.

## Where the instances stop

`Converged` asks the program's own diff whether anything is left, so what the comparators do not
look at (the differences they ignore are in `Comparators`) is not seen by it either.

`NeverRejected` and `Converged` hold for the families of the instance. They would not for all
databases; what follows is known to be outside of what the program handles, and left out of the
families on purpose, so that the runs keep guarding what it does handle:

- documented in `docs/guide/limitations.md`: types of composite attributes are not ordered, views
  over altered or dropped columns are not rebuilt, expressions of policies are not read;
- what the deltas do not carry: the columns of a CHECK that is dropped with them, the columns in
  expressions and predicates of indexes, composite types used by an added column, tables used by
  a SQL function of the same migration, the collation in a change of type;
- differences no delta removes: positions of columns, removed comments, tablespaces and partition
  parents, comments and tables of indexes, another kind under one name, a CHECK or FOREIGN KEY
  that stayed NOT VALID after an interruption;
- orders that the rules do not know: chains of renames, columns of a renamed table that are dropped
  or renamed as well, owned sequences of a table renamed into another schema, views that replace
  one another mutually, drops of tables with foreign keys to each other, partitioned tables
  dropped with their partitions, columns of partitions, parent defaults that recurse;
- `ReplaceIndex` of a unique index leaves none if it is interrupted; `CREATE ... CONCURRENTLY`
  that leaves an INVALID index is in `Applier`.

## Not modelled, and the plan

Left for later, in this order:

1. **Dependencies, proofs.** That the rules have no cycle among the kinds of delta a pair of
   databases can give, by a measure of kinds. (What a cycle is and that it is reported is proved.)
2. **Diff, proofs.** A type for databases, and that comparing two of that type gives what
   `DiffTyped` says.
3. **Fingerprint** (`application/diff/fingerprint.py`): which differences of a snapshot it sees,
   against which of them a diff sees.

Left to tests: the text of the catalog queries and the type normaliser, pool and composition,
quoting and wording of the emitters, `pgsd inspect` and `report`, views, message catalogs,
configuration files and `_mock.py`. They keep no state between calls and have no order of steps
that a model could explore.
