------------------------------- MODULE Session -------------------------------
(***************************************************************************)
(* The terminal UI: its session, its message queue and its workers.         *)
(*                                                                         *)
(* One event loop handles messages in order: what the operator does, and    *)
(* what workers post when they end.  Between two messages workers make       *)
(* progress: a comparison of the databases of a profile, the generation of   *)
(* a migration, its save, the load of a saved bundle, a source check, an     *)
(* apply, and a read of the history.  A handler decides by the session as it *)
(* is when the message is handled, not as it was when it was posted.         *)
(*                                                                         *)
(* Handlers call each other, so a method of the code is an operator from the *)
(* application to the application, and a handler is an action that applies    *)
(* them to the state after its message is taken from the queue.  An object    *)
(* that a worker makes carries what it was made from and a number that       *)
(* stands for its identity.  What views show, status lines and logs are left  *)
(* out, except for what they let the operator do.                            *)
(***************************************************************************)
EXTENDS Integers, SequencesExt

CONSTANTS
    Profile,    \* the loaded profiles
    None,       \* Python's None
    Input,      \* BOUND: what the operator may do, a part of Operator
    MaxQueue,   \* BOUND: the operator waits while that many messages do
    MaxMade,    \* BOUND: comparisons, plans, paths and bundles that are made
    MaxWorkers  \* BOUND: checks or applies alive, cancelled ones included

VARIABLES app, made

vars == <<app, made>>

Kinds == {"comparison", "plan", "path", "bundle"}
Comparison == [from : Profile, n : 1 .. MaxMade["comparison"]]
Plan == [from : Comparison, n : 1 .. MaxMade["plan"]]
Path == [from : Plan, n : 1 .. MaxMade["path"]]
Bundle == [from : Path, n : 1 .. MaxMade["bundle"]]
Opt(S) == S \cup {None}

\* The profile that a bundle was made for.
ProfileOf(b) == b.from.from.from.from

Request == [profile : Profile, bundle : Bundle]
Check == [profile : Profile, bundle : Bundle, dry : BOOLEAN, cancelled : BOOLEAN]
Applier == [profile : Profile, bundle : Bundle, inside : BOOLEAN,
            cancelled : BOOLEAN]

\* What the operator does, what workers post, and the answer to the
\* confirmation screen; "shown" is what that screen was about, which the
\* code does not pass on.
Operator ==
    [type : {"testBoth", "generate", "save", "cancel", "dryRunCommand"}]
      \cup [type : {"select"}, profile : Profile]
      \cup [type : {"goto"}, view : {"apply", "history", "other"}]
      \cup [type : {"apply"}, dry : BOOLEAN]
Posted ==
    [type : {"generated"}, of : Comparison, plan : Opt(Plan)]
      \cup [type : {"written"}, of : Plan, path : Opt(Path)]
      \cup [type : {"loaded"}, of : Path, bundle : Opt(Bundle)]
      \cup [type : {"checked"}, check : Check, ok : BOOLEAN]
      \cup [type : {"applied"}]
      \cup [type : {"history"}, profile : Profile, runs : BOOLEAN]
Answered == [type : {"answer"}, yes : BOOLEAN, shown : Request]
Messages == Operator \cup Posted \cup Answered

ASSUME NoneAssumption ==
    None \notin Profile \cup Comparison \cup Plan \cup Path \cup Bundle \cup Request
ASSUME InputAssumption == Input \subseteq Operator
ASSUME BoundsAssumption == MaxMade \in [Kinds -> Nat]

App == [
    selected : Profile,             \* session.selected_profile
    comparison : Opt(Comparison),   \* session.last_comparison
    plan : Opt(Plan),               \* session.migration_plan
    path : Opt(Path),               \* session.written_bundle_path
    bundle : Opt(Bundle),           \* session.validated_bundle and its path
    operation : {"none", "loading", "apply"},   \* session.apply_operation
    history : Opt(Profile),         \* whose session.history_runs these are
    busy : BOOLEAN,                 \* MigrationView.busy
    onApply : BOOLEAN,              \* _active_view = "apply"
    loadPath : Opt(Path),           \* _bundle_load_path
    dryPending : BOOLEAN,           \* _palette_dry_run_pending
    pending : Opt(Request),         \* _pending_apply_request
    modals : Seq(Request),          \* confirmation screens, the top one last
    queue : Seq(Messages),
    comparing : Opt(Profile),       \* the workers that are not cancelled:
    generating : Opt(Comparison),   \*   what each one works on
    saving : Opt(Plan),
    loading : Opt(Path),
    reader : Opt(Profile),
    readerKnown : BOOLEAN,          \* _history_worker is not None
    checks : Seq(Check),            \* cancelled ones too: they post a message
    appliers : Seq(Applier),        \*   when they end; the newest is last
    applyKnown : BOOLEAN,           \* _apply_worker is not None
    lock : {"free", "reader", "leaving", "apply"}]  \* _history_io_lock

TypeOK == app \in App /\ made \in [Kinds -> Nat]

\* The profiles have been loaded; the first one, whichever it is, is selected.
Init ==
    /\ made = [k \in Kinds |-> 0]
    /\ \E p \in Profile :
         app = [selected |-> p, comparison |-> None, plan |-> None,
                path |-> None, bundle |-> None, operation |-> "none",
                history |-> None, busy |-> FALSE, onApply |-> FALSE,
                loadPath |-> None, dryPending |-> FALSE, pending |-> None,
                modals |-> <<>>, queue |-> <<>>, comparing |-> None,
                generating |-> None, saving |-> None, loading |-> None,
                reader |-> None, readerKnown |-> FALSE, checks |-> <<>>,
                appliers |-> <<>>, applyKnown |-> FALSE, lock |-> "free"]

-----------------------------------------------------------------------------
(* Methods that handlers call. *)

Post(a, m) == [a EXCEPT !.queue = Append(@, m)]

\* A cancelled reader leaves the lock when the event loop gets to it.
LetGo(lock) == IF lock = "reader" THEN "leaving" ELSE lock

CancelHistoryWorker(a) ==
    IF a.readerKnown
    THEN [a EXCEPT !.reader = None, !.readerKnown = FALSE, !.lock = LetGo(@)]
    ELSE a

\* The new worker is exclusive: it cancels one that was forgotten, too.
StartHistoryLoad(a) ==
    IF a.operation = "apply" THEN a
    ELSE [a EXCEPT !.reader = a.selected, !.readerKnown = TRUE, !.lock = LetGo(@)]

CancelBundleLoad(a) ==
    [a EXCEPT !.loading = None, !.loadPath = None, !.dryPending = FALSE]

CancelMigrationGeneration(a) == [a EXCEPT !.generating = None]

ClearApply(a) == [a EXCEPT !.bundle = None, !.operation = "none"]

ClearMigration(a) == ClearApply([a EXCEPT !.plan = None, !.path = None])

InvalidateMigration(a) ==
    LET cancelled == CancelMigrationGeneration(CancelBundleLoad(a)) IN
    [ClearMigration(cancelled) EXCEPT !.busy = FALSE]

SelectProfile(a, p) ==
    ClearMigration([a EXCEPT !.selected = p, !.comparison = None,
                             !.history = None])

\* The validated bundle is the one at the written path.
BundleIsAtPath(a) == a.bundle # None /\ a.path # None /\ a.bundle.from = a.path

EnsureApplyBundleLoaded(a) ==
    IF a.path = None THEN ClearApply(CancelBundleLoad(a))
    ELSE IF BundleIsAtPath(a) \/ a.loadPath = a.path THEN a
    ELSE [CancelBundleLoad(a) EXCEPT !.bundle = None, !.operation = "loading",
                                     !.loadPath = a.path, !.loading = a.path]

SwitchView(a, view) ==
    LET switched == [a EXCEPT !.onApply = (view = "apply")] IN
    CASE view = "apply" -> EnsureApplyBundleLoaded(switched)
      [] view = "history" -> StartHistoryLoad(switched)
      [] OTHER -> switched

RequestPaletteDryRun(a) ==
    CASE a.operation = "loading" -> [a EXCEPT !.dryPending = TRUE]
      [] a.operation = "apply" -> a
      [] OTHER -> Post(a, [type |-> "apply", dry |-> TRUE])

\* MUTANT: the bundle that was asked about is not compared with the session's.
StillCurrentProfile(a, request) ==
    /\ request.profile = a.selected
    /\ BundleIsAtPath(a)

\* What was checked or confirmed is still what the session is about.
StillCurrent(a, request) ==
    /\ request.profile = a.selected
    /\ request.bundle = a.bundle
    /\ BundleIsAtPath(a)

CancelAll(workers) ==
    [i \in DOMAIN workers |-> [workers[i] EXCEPT !.cancelled = TRUE]]

StartSourceCheck(a, dry) ==
    [a EXCEPT !.operation = "loading",
              !.checks = Append(CancelAll(@),
                  [profile |-> a.selected, bundle |-> a.bundle, dry |-> dry,
                   cancelled |-> FALSE])]

StartApplyWorker(a, request) ==
    [CancelHistoryWorker(a) EXCEPT
        !.operation = "apply", !.applyKnown = TRUE,
        !.appliers = Append(CancelAll(@),
            [profile |-> request.profile, bundle |-> request.bundle,
             inside |-> FALSE, cancelled |-> FALSE])]

-----------------------------------------------------------------------------
(* The operator.  Buttons and commands need the main screen; the chords that *)
(* switch the view also work while a confirmation is on top of it.           *)

Enabled(m) ==
    \/ m.type = "goto"
    \/ /\ app.modals = <<>>
       /\ CASE m.type = "generate" -> ~app.busy /\ app.comparison # None
            [] m.type = "save" -> ~app.busy /\ app.plan # None
            [] m.type = "apply" -> /\ app.operation = "none"
                                   /\ app.bundle # None /\ app.path # None
            [] m.type = "cancel" -> app.operation = "apply"
            [] OTHER -> TRUE

Press(m) ==
    /\ Len(app.queue) < MaxQueue
    /\ Enabled(m)
    /\ app' = Post(app, m)
    /\ UNCHANGED made

\* The confirmation screen closes, and its callback is called when the message
\* that the application is handling, or the next one, has been handled.
Answer(yes) ==
    /\ app.modals # <<>>
    /\ \E i \in {1, 2} :
         /\ i <= Len(app.queue) + 1
         /\ app' = [app EXCEPT
                !.modals = Front(@),
                !.queue = InsertAt(@, i, [type |-> "answer", yes |-> yes,
                                          shown |-> Last(app.modals)])]
    /\ UNCHANGED made

-----------------------------------------------------------------------------
(* The event loop takes the first message and runs its handler.             *)

Message == Head(app.queue)
Taken == [app EXCEPT !.queue = Tail(@)]
Applying == app.operation = "apply"

Handling(type) ==
    /\ app.queue # <<>>
    /\ Message.type = type
    /\ UNCHANGED made

OnProfileSelected ==
    /\ Handling("select")
    /\ app' = IF Applying \/ Message.profile = app.selected THEN Taken
              ELSE LET cancelled == CancelMigrationGeneration(CancelBundleLoad(
                           CancelHistoryWorker([Taken EXCEPT !.comparing = None])))
                   IN [SelectProfile(cancelled, Message.profile)
                          EXCEPT !.busy = FALSE]

\* A profile with ignore patterns, or of another mode than schema-only, is
\* refused.  The comparison of before is kept until the new one replaces it.
StartTestBoth ==
    /\ Handling("testBoth")
    /\ \/ app' = Taken
       \/ /\ ~Applying
          /\ app' = [CancelHistoryWorker(InvalidateMigration(Taken))
                        EXCEPT !.comparing = app.selected]

OnGenerateMigrationRequested ==
    /\ Handling("generate")
    /\ app' = CASE Applying -> Taken
                [] ~Applying /\ app.comparison = None -> [Taken EXCEPT !.busy = FALSE]
                [] OTHER -> [InvalidateMigration(Taken)
                                EXCEPT !.busy = TRUE, !.generating = app.comparison]

\* Without a plan, or with an empty output directory, it is refused.
OnSaveBundleRequested ==
    /\ Handling("save")
    /\ \/ Applying /\ app' = Taken
       \/ ~Applying /\ app' = [Taken EXCEPT !.busy = FALSE]
       \/ /\ ~Applying /\ app.plan # None
          /\ app' = [Taken EXCEPT !.busy = TRUE, !.saving = app.plan]

\* MUTANT: a generated plan is taken whatever it was generated from.
OnAnyMigrationGenerated ==
    /\ Handling("generated")
    /\ app' = IF Message.plan = None THEN [Taken EXCEPT !.busy = FALSE]
              ELSE [Taken EXCEPT !.busy = FALSE, !.plan = Message.plan,
                                 !.path = None]

\* An answer for another comparison than the session's is dropped.
OnMigrationGenerated ==
    /\ Handling("generated")
    /\ app' = CASE app.comparison # Message.of -> Taken
                [] app.comparison = Message.of /\ Message.plan = None ->
                     [Taken EXCEPT !.busy = FALSE]
                [] OTHER -> [Taken EXCEPT !.busy = FALSE, !.plan = Message.plan,
                                          !.path = None]

\* MUTANT: a written path is taken whatever plan the session has now.
OnAnyMigrationBundleWritten ==
    /\ Handling("written")
    /\ LET written == [ClearApply(CancelBundleLoad(Taken))
                          EXCEPT !.path = Message.path, !.busy = FALSE] IN
       app' = CASE Message.path = None -> [Taken EXCEPT !.busy = FALSE]
                [] OTHER -> IF app.onApply THEN EnsureApplyBundleLoaded(written)
                            ELSE written

OnMigrationBundleWritten ==
    /\ Handling("written")
    /\ LET written == [ClearApply(CancelBundleLoad(Taken))
                          EXCEPT !.path = Message.path, !.busy = FALSE] IN
       app' = CASE app.plan # Message.of -> Taken
                [] app.plan = Message.of /\ Message.path = None ->
                     [Taken EXCEPT !.busy = FALSE]
                [] OTHER -> IF app.onApply THEN EnsureApplyBundleLoaded(written)
                            ELSE written

\* A load that failed ends the operation, too, and a dry run that waited for
\* it; a load of a path that is no longer the written one ends nothing.
OnApplyBundleLoaded ==
    /\ Handling("loaded")
    /\ LET known == [Taken EXCEPT !.loadPath = None]
           loaded == [known EXCEPT !.bundle = Message.bundle,
                                   !.operation = "none", !.dryPending = FALSE]
       IN app' = CASE app.loadPath # Message.of -> Taken
                   [] app.loadPath = Message.of /\ app.path # Message.of -> known
                   [] OTHER -> IF app.dryPending /\ Message.bundle # None
                               THEN RequestPaletteDryRun(loaded) ELSE loaded

OnSwitchView ==
    /\ Handling("goto")
    /\ app' = SwitchView(Taken, Message.view)

DispatchApplyDryRun ==
    /\ Handling("dryRunCommand")
    /\ app' = RequestPaletteDryRun(SwitchView(Taken, "apply"))

\* A timeout that cannot be parsed, or a blocked unit in a dry run, refuses it.
OnApplyOperationRequested ==
    /\ Handling("apply")
    /\ \/ app' = Taken
       \/ /\ app.operation = "none"
          /\ BundleIsAtPath(app)
          /\ Len(app.checks) < MaxWorkers
          /\ app' = StartSourceCheck(Taken, Message.dry)

OnApplySourceCheckFinished ==
    /\ Handling("checked")
    /\ LET check == Message.check
           request == [profile |-> check.profile, bundle |-> check.bundle]
           ended == [Taken EXCEPT !.operation = "none"]
       IN app' = IF /\ ~check.cancelled /\ StillCurrent(app, check)
                    /\ Message.ok /\ ~check.dry
                 THEN [ended EXCEPT !.pending = request,
                                    !.modals = Append(@, request)]
                 ELSE ended

\* A request with a blocked unit is refused here, whatever was answered.
OnApplyConfirmation ==
    /\ Handling("answer")
    /\ LET answered == [Taken EXCEPT !.pending = None] IN
       \/ app' = answered
       \/ /\ Message.yes
          /\ app.pending # None
          /\ StillCurrent(app, app.pending)
          /\ Len(app.appliers) < MaxWorkers
          /\ app' = StartApplyWorker(answered, app.pending)

\* MUTANT: only an apply that was not followed by another one ends it.
OnOlderApplyOperationFinished ==
    /\ Handling("applied")
    /\ LET ended == [Taken EXCEPT !.applyKnown = FALSE, !.operation = "none"] IN
       app' = CASE app.appliers # <<>> -> [Taken EXCEPT !.applyKnown = FALSE]
                [] OTHER -> IF Applying THEN StartHistoryLoad(ended) ELSE ended

OnApplyOperationFinished ==
    /\ Handling("applied")
    /\ LET ended == [Taken EXCEPT !.applyKnown = FALSE, !.operation = "none"] IN
       app' = IF Applying THEN StartHistoryLoad(ended) ELSE ended

OnCancelApplyRequested ==
    /\ Handling("cancel")
    /\ app' = IF Applying /\ app.applyKnown /\ app.appliers # <<>>
              THEN [Taken EXCEPT !.appliers[Len(app.appliers)].cancelled = TRUE]
              ELSE Taken

OnHistoryLoadFinished ==
    /\ Handling("history")
    /\ app' = IF Message.profile # app.selected THEN Taken
              ELSE [Taken EXCEPT !.readerKnown = FALSE,
                        !.history = IF Message.runs THEN app.selected ELSE None]

HandleMessage ==
    \/ OnProfileSelected \/ StartTestBoth \/ OnGenerateMigrationRequested
    \/ OnSaveBundleRequested \/ OnMigrationGenerated \/ OnMigrationBundleWritten
    \/ OnApplyBundleLoaded \/ OnSwitchView \/ DispatchApplyDryRun
    \/ OnApplyOperationRequested \/ OnApplySourceCheckFinished
    \/ OnApplyConfirmation \/ OnApplyOperationFinished
    \/ OnCancelApplyRequested \/ OnHistoryLoadFinished

-----------------------------------------------------------------------------
(* The workers.  A cancelled worker stops at its next await; only checks and *)
(* applies post a message then.                                             *)

\* The next object of a kind, while the bound allows another one.
Make(kind, from) ==
    IF made[kind] < MaxMade[kind]
    THEN {[from |-> from, n |-> made[kind] + 1]} ELSE {}

Making(kind, object) ==
    made' = IF object = None THEN made ELSE [made EXCEPT ![kind] = @ + 1]

\* The worker itself writes the comparison to the session.
CompareProfile ==
    /\ app.comparing # None
    /\ \E c \in {None} \cup Make("comparison", app.comparing) :
         /\ Making("comparison", c)
         /\ app' = [app EXCEPT
                !.comparing = None,
                !.comparison = IF c # None /\ app.selected = app.comparing
                               THEN c ELSE @]

GenerateMigration ==
    /\ app.generating # None
    /\ \E p \in {None} \cup Make("plan", app.generating) :
         /\ Making("plan", p)
         /\ app' = [Post(app, [type |-> "generated", of |-> app.generating,
                               plan |-> p]) EXCEPT !.generating = None]

WriteMigrationBundle ==
    /\ app.saving # None
    /\ \E p \in {None} \cup Make("path", app.saving) :
         /\ Making("path", p)
         /\ app' = [Post(app, [type |-> "written", of |-> app.saving,
                               path |-> p]) EXCEPT !.saving = None]

LoadApplyBundle ==
    /\ app.loading # None
    /\ \E b \in {None} \cup Make("bundle", app.loading) :
         /\ Making("bundle", b)
         /\ app' = [Post(app, [type |-> "loaded", of |-> app.loading,
                               bundle |-> b]) EXCEPT !.loading = None]

RunApplySourceCheck(i) ==
    /\ \E ok \in IF app.checks[i].cancelled THEN {FALSE} ELSE BOOLEAN :
         app' = [Post(app, [type |-> "checked", check |-> app.checks[i], ok |-> ok])
                    EXCEPT !.checks = RemoveAt(@, i)]
    /\ UNCHANGED made

\* The reader enters the lock, and leaves at once if an apply has started.
ReaderEnters ==
    /\ app.reader # None
    /\ app.lock = "free"
    /\ app' = IF Applying
              THEN [Post(app, [type |-> "history", profile |-> app.reader,
                               runs |-> FALSE]) EXCEPT !.reader = None]
              ELSE [app EXCEPT !.lock = "reader"]
    /\ UNCHANGED made

\* MUTANT: the lock is not given back.
ReaderEndsInside ==
    /\ app.lock = "reader"
    /\ \E runs \in BOOLEAN :
         app' = [Post(app, [type |-> "history", profile |-> app.reader,
                            runs |-> runs]) EXCEPT !.reader = None]
    /\ UNCHANGED made

\* ... or lists the runs, which may fail or find none.
ReaderEnds ==
    /\ app.lock = "reader"
    /\ \E runs \in BOOLEAN :
         app' = [Post(app, [type |-> "history", profile |-> app.reader,
                            runs |-> runs])
                    EXCEPT !.reader = None, !.lock = "free"]
    /\ UNCHANGED made

ReaderLeaves ==
    /\ app.lock = "leaving"
    /\ app' = [app EXCEPT !.lock = "free"]
    /\ UNCHANGED made

ApplierEnters(i) ==
    /\ app.lock = "free"
    /\ ~app.appliers[i].inside
    /\ ~app.appliers[i].cancelled
    /\ app' = [app EXCEPT !.lock = "apply", !.appliers[i].inside = TRUE]
    /\ UNCHANGED made

\* MUTANT: a cancelled apply ends without a message.
ApplierEndsQuietly(i) ==
    /\ app.appliers[i].inside \/ app.appliers[i].cancelled
    /\ LET told == IF app.appliers[i].cancelled THEN app
                   ELSE Post(app, [type |-> "applied"]) IN
       app' = [told EXCEPT
                  !.lock = IF app.appliers[i].inside THEN "free" ELSE @,
                  !.appliers = RemoveAt(@, i)]
    /\ UNCHANGED made

\* The apply succeeds or fails, or its cancellation reaches it, inside the
\* lock or still waiting for it.
ApplierEnds(i) ==
    /\ app.appliers[i].inside \/ app.appliers[i].cancelled
    /\ app' = [Post(app, [type |-> "applied"]) EXCEPT
                  !.lock = IF app.appliers[i].inside THEN "free" ELSE @,
                  !.appliers = RemoveAt(@, i)]
    /\ UNCHANGED made

SomeCheckEnds == \E i \in DOMAIN app.checks : RunApplySourceCheck(i)
SomeApplierEnters == \E i \in DOMAIN app.appliers : ApplierEnters(i)
SomeApplierEnds == \E i \in DOMAIN app.appliers : ApplierEnds(i)

Next ==
    \/ \E m \in Input : Press(m)
    \/ \E yes \in BOOLEAN : Answer(yes)
    \/ HandleMessage
    \/ CompareProfile \/ GenerateMigration \/ WriteMigrationBundle
    \/ LoadApplyBundle \/ SomeCheckEnds
    \/ ReaderEnters \/ ReaderEnds \/ ReaderLeaves
    \/ SomeApplierEnters \/ SomeApplierEnds

Spec == Init /\ [][Next]_vars

\* The event loop and the workers go on; the operator need not do anything.
FairSpec ==
    /\ Spec
    /\ WF_vars(HandleMessage)
    /\ WF_vars(CompareProfile)
    /\ WF_vars(GenerateMigration)
    /\ WF_vars(WriteMigrationBundle)
    /\ WF_vars(LoadApplyBundle)
    /\ WF_vars(SomeCheckEnds)
    /\ WF_vars(ReaderEnters)
    /\ WF_vars(ReaderEnds)
    /\ WF_vars(ReaderLeaves)
    /\ WF_vars(SomeApplierEnters)
    /\ WF_vars(SomeApplierEnds)

-----------------------------------------------------------------------------
(* Properties.                                                              *)

\* Whatever is generated, saved, loaded or dropped in which order, what the
\* session holds fits together: the comparison, the plan and the history are
\* of the selected profile, the written path is of the plan, and a validated
\* bundle beside a written path was read from there.
ArtifactsMatch ==
    /\ app.comparison # None => app.comparison.from = app.selected
    /\ app.plan # None => app.plan.from.from = app.selected
    /\ app.path # None => app.path.from = app.plan
    /\ app.bundle # None /\ app.path # None => app.bundle.from = app.path
    /\ app.history # None => app.history = app.selected

\* The step starts no apply, or the right one.
StartsRight ==
    \A i \in DOMAIN app'.appliers :
        Len(app'.appliers) > Len(app.appliers) /\ i = Len(app'.appliers) =>
          LET started == app'.appliers[i] IN
          /\ started.profile = app.selected
          /\ ProfileOf(started.bundle) = app.selected
          /\ started.bundle.from = app.path
          /\ Message.type = "answer" /\ Message.yes
          /\ Message.shown = [profile |-> started.profile,
                              bundle |-> started.bundle]

\* An apply that starts is of a bundle made from a comparison of the selected
\* profile, saved by the session's last save, and shown, with that profile, in
\* a confirmation that was answered yes (_on_apply_confirmation).
ApplyRight == [][StartsRight]_vars

\* While the session says that an apply is running, one is, and the session
\* knows it, so that the operator can cancel it; or its last message is
\* waiting to be handled (on_cancel_apply_requested).
CancelReaches ==
    Applying => \/ app.applyKnown /\ app.appliers # <<>>
                \/ \E i \in DOMAIN app.queue : app.queue[i].type = "applied"

\* An apply comes to an end for the session, whoever holds the history lock
\* when it starts and whatever is cancelled, so that it locks the operator out
\* of the other operations for a while only.
ApplyEnds == Applying ~> ~Applying

\* What docs/specs/2026-10-26-p4-tui-wiring-design.md:130-133 says: no apply
\* runs beside a comparison, which reads the selected target.
ReadsAndApplyApart ==
    ~(app.comparing # None /\ \E i \in DOMAIN app.appliers : app.appliers[i].inside)

\* What the same document says at 131-132: profiles are not changed while an
\* apply is active, whatever ends late and resets what on_profile_selected asks.
ProfileStaysDuringApply ==
    [][(\E i \in DOMAIN app.appliers :
           app.appliers[i].inside /\ ~app.appliers[i].cancelled)
         => app'.selected = app.selected]_vars

=============================================================================
