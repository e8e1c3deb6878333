---------------------------- MODULE SessionProofs ----------------------------
(***************************************************************************)
(* Proofs about Session, for any profiles, any length of the queue, any    *)
(* number of workers and any number of objects that they make: what the    *)
(* session holds fits together, an apply starts only for what was checked, *)
(* shown and confirmed, and a running apply can be cancelled.              *)
(*                                                                         *)
(* The inductive invariant is about what waits: a request that was shown,  *)
(* or that a check was started for, is true of its bundle's profile, and   *)
(* is about the session's bundle as long as it is about the session's      *)
(* path; nobody is asked about an older path once a bundle of the newer    *)
(* one is there; and a path whose message waits in the queue is new to the *)
(* session. Most handlers are calm or quiet: they only forget, and one     *)
(* lemma serves them all; the others have a lemma of their own.            *)
(***************************************************************************)
EXTENDS Session, SequenceTheorems, TLAPS

-----------------------------------------------------------------------------
(* The inductive invariant                                                 *)

\* What a worker posts was made from what it was given.
MadeFrom(m) ==
    /\ m.type = "generated" /\ m.plan # None => m.plan.from = m.of
    /\ m.type = "written" /\ m.path # None => m.path.from = m.of
    /\ m.type = "loaded" /\ m.bundle # None => m.bundle.from = m.of

QueueInv == \A i \in DOMAIN app.queue : MadeFrom(app.queue[i])

\* While a load is under way there is no validated bundle.
LoadInv == app.loadPath # None => app.bundle = None

\* A reader inside the lock is one that was not cancelled.
ReaderInv == app.lock = "reader" => app.reader # None

Ask(c) == [profile |-> c.profile, bundle |-> c.bundle]

\* The requests that were shown to the operator, and whose answer is to come.
Shown(a) ==
    {a.modals[i] : i \in DOMAIN a.modals}
      \cup {a.queue[i].shown : i \in {j \in DOMAIN a.queue : a.queue[j].type = "answer"}}

\* The requests that a check may ask the operator about, or asked last.
RealChecks(a) == {i \in DOMAIN a.checks : ~a.checks[i].dry}
RealEnds(a) ==
    {i \in DOMAIN a.queue : a.queue[i].type = "checked" /\ ~a.queue[i].check.dry}

Checked(a) ==
    {Ask(a.checks[i]) : i \in RealChecks(a)}
      \cup {Ask(a.queue[i].check) : i \in RealEnds(a)}
      \cup ({a.pending} \ {None})

\* A request has the profile of its bundle.
ProfileInv == \A r \in Shown(app) \cup Checked(app) : r.profile = ProfileOf(r.bundle)

\* While the bundle of a request is one of the written path, it is the
\* session's.
CurrentInv ==
    \A r \in Shown(app) \cup Checked(app) :
        r.bundle.from = app.path => app.bundle = r.bundle

\* While a check is of the written path, so is all that is shown.
AskedInv ==
    \A c \in Checked(app), r \in Shown(app) :
        c.bundle.from = app.path => r.bundle.from = app.path

RealApply(m) == m.type = "apply" /\ ~m.dry

\* The bundle of the written path is there, or will be before message i.
Loaded(i) ==
    \/ BundleIsAtPath(app)
    \/ \E j \in DOMAIN app.queue : /\ j < i
                                   /\ app.queue[j].type = "loaded"
                                   /\ app.queue[j].of = app.path

\* An apply that waits in the queue, and that its handler may accept, finds
\* nothing shown but the written path, once the answers before it are handled.
ApplyInv ==
    \A i \in DOMAIN app.queue : RealApply(app.queue[i]) /\ Loaded(i) =>
        /\ \A k \in DOMAIN app.modals : app.modals[k].bundle.from = app.path
        /\ \A k \in DOMAIN app.queue :
              k > i /\ app.queue[k].type = "answer" =>
                  app.queue[k].shown.bundle.from = app.path

\* The session, or what works for it, has met path p.
Seen(p) ==
    \/ app.path = p \/ app.loadPath = p \/ app.loading = p
    \/ \E r \in Shown(app) \cup Checked(app) : r.bundle.from = p
    \/ \E i \in DOMAIN app.queue : app.queue[i].type = "loaded" /\ app.queue[i].of = p

WrittenPath(m) == m.type = "written" /\ m.path # None

\* A path is written once: the session has not met it before the message that
\* says so is handled, and there is no other message of it.
FreshInv ==
    /\ \A p \in Path : Seen(p) => p.n <= made["path"]
    /\ \A i \in DOMAIN app.queue : WrittenPath(app.queue[i]) =>
         /\ app.queue[i].path.n <= made["path"]
         /\ ~Seen(app.queue[i].path)
    /\ \A i, j \in DOMAIN app.queue :
         /\ WrittenPath(app.queue[i]) /\ WrittenPath(app.queue[j])
         /\ app.queue[i].path = app.queue[j].path
         => i = j

RequestInv == ProfileInv /\ CurrentInv /\ AskedInv

IInv ==
    /\ TypeOK /\ ArtifactsMatch /\ LoadInv /\ ReaderInv
    /\ QueueInv /\ RequestInv /\ ApplyInv /\ FreshInv
-----------------------------------------------------------------------------
(* Sequences *)

LEMMA TailFacts ==
    ASSUME NEW S, NEW s \in Seq(S), s # <<>>
    PROVE  /\ Head(s) = s[1] /\ s[1] \in S /\ 1 \in DOMAIN s
           /\ Tail(s) \in Seq(S)
           /\ Len(Tail(s)) = Len(s) - 1
           /\ \A i \in DOMAIN Tail(s) : i + 1 \in DOMAIN s /\ Tail(s)[i] = s[i + 1]
  BY HeadTailProperties, EmptySeq, LenProperties

LEMMA AppendFacts ==
    ASSUME NEW S, NEW s \in Seq(S), NEW x \in S
    PROVE  /\ Append(s, x) \in Seq(S)
           /\ DOMAIN Append(s, x) = 1 .. Len(s) + 1
           /\ DOMAIN s = 1 .. Len(s) /\ Len(s) \in Nat
           /\ Len(Append(s, x)) = Len(s) + 1
           /\ Append(s, x)[Len(s) + 1] = x
           /\ \A i \in DOMAIN s : Append(s, x)[i] = s[i]
  BY AppendProperties, LenProperties

LEMMA FrontFacts ==
    ASSUME NEW S, NEW s \in Seq(S), s # <<>>
    PROVE  /\ Front(s) \in Seq(S)
           /\ \A i \in DOMAIN Front(s) : i \in DOMAIN s /\ Front(s)[i] = s[i]
           /\ Len(s) \in DOMAIN s
           /\ Last(s) = s[Len(s)] /\ Last(s) \in S /\ s[Len(s)] \in S
  <1> DEFINE f == SubSeq(s, 1, Len(s) - 1)
  <1>1. Len(s) \in Nat /\ Len(s) # 0 /\ DOMAIN s = 1 .. Len(s)
    BY EmptySeq, LenProperties
  <1>2. \A i \in DOMAIN s : s[i] \in S
    BY ElementOfSeq, <1>1
  <1>3. /\ f \in Seq(S)
        /\ Len(f) = Len(s) - 1
        /\ \A i \in 1 .. Len(s) - 1 : f[i] = s[i]
    <2>1. /\ f \in Seq(S)
          /\ Len(f) = IF 1 <= Len(s) - 1 THEN (Len(s) - 1) - 1 + 1 ELSE 0
          /\ \A i \in 1 .. (Len(s) - 1) - 1 + 1 : f[i] = s[1 + i - 1]
      BY <1>1, <1>2, SubSeqProperties
    <2> QED
      BY <1>1, <2>1
  <1> HIDE DEF f
  <1>4. DOMAIN f = 1 .. Len(s) - 1
    <2>1. DOMAIN f = 1 .. Len(f)
      BY <1>3, LenProperties
    <2> QED
      BY <1>1, <1>3, <2>1
  <1>5. \A i \in DOMAIN f : i \in DOMAIN s /\ f[i] = s[i]
    BY <1>1, <1>3, <1>4
  <1>6. Front(s) = f
    BY DEF Front, f
  <1> QED
    BY <1>1, <1>2, <1>3, <1>5, <1>6 DEF Last

LEMMA InsertFacts ==
    ASSUME NEW S, NEW s \in Seq(S), NEW i \in 1 .. Len(s) + 1, NEW x \in S
    PROVE  /\ InsertAt(s, i, x) \in Seq(S)
           /\ DOMAIN InsertAt(s, i, x) = 1 .. Len(s) + 1
           /\ DOMAIN s = 1 .. Len(s) /\ Len(s) \in Nat
           /\ InsertAt(s, i, x)[i] = x
           /\ \A j \in DOMAIN s : j < i => InsertAt(s, i, x)[j] = s[j]
           /\ \A j \in DOMAIN s : j >= i => InsertAt(s, i, x)[j + 1] = s[j]
  <1> DEFINE l == SubSeq(s, 1, i - 1)
             r == SubSeq(s, i, Len(s))
             m == l \o <<x>>
  <1>1. Len(s) \in Nat /\ DOMAIN s = 1 .. Len(s)
    BY LenProperties
  <1>2. /\ l \in Seq(S)
        /\ Len(l) = i - 1
        /\ \A j \in 1 .. i - 1 : l[j] = s[j]
    <2>1. /\ l \in Seq(S)
          /\ Len(l) = IF 1 <= i - 1 THEN (i - 1) - 1 + 1 ELSE 0
          /\ \A j \in 1 .. (i - 1) - 1 + 1 : l[j] = s[1 + j - 1]
      BY <1>1, SubSeqProperties
    <2> QED
      BY <1>1, <2>1
  <1>3. /\ r \in Seq(S)
        /\ Len(r) = Len(s) - i + 1
        /\ \A j \in 1 .. Len(s) - i + 1 : r[j] = s[i + j - 1]
    <2>1. /\ r \in Seq(S)
          /\ Len(r) = IF i <= Len(s) THEN Len(s) - i + 1 ELSE 0
          /\ \A j \in 1 .. Len(s) - i + 1 : r[j] = s[i + j - 1]
      BY <1>1, SubSeqProperties
    <2> QED
      BY <1>1, <2>1
  <1> HIDE DEF l, r
  <1>4. /\ m \in Seq(S)
        /\ Len(m) = i
        /\ \A j \in 1 .. i - 1 : m[j] = l[j]
        /\ m[i] = x
    <2>1. <<x>> \in Seq(S) /\ Len(<<x>>) = 1 /\ <<x>>[1] = x
      OBVIOUS
    <2>2. /\ m \in Seq(S)
          /\ Len(m) = Len(l) + Len(<<x>>)
          /\ \A j \in 1 .. Len(l) + Len(<<x>>) :
                m[j] = IF j <= Len(l) THEN l[j] ELSE <<x>>[j - Len(l)]
      BY <1>2, <2>1, ConcatProperties
    <2> QED
      BY <1>1, <1>2, <2>1, <2>2
  <1> HIDE DEF m
  <1>5. /\ m \o r \in Seq(S)
        /\ Len(m \o r) = Len(m) + Len(r)
        /\ \A j \in 1 .. Len(m) + Len(r) :
              (m \o r)[j] = IF j <= Len(m) THEN m[j] ELSE r[j - Len(m)]
    BY <1>3, <1>4, ConcatProperties
  <1>6. InsertAt(s, i, x) = m \o r
    BY DEF InsertAt, m, l, r
  <1> DEFINE t == m \o r
  <1>7. t \in Seq(S) /\ Len(t) = Len(s) + 1
    BY <1>1, <1>3, <1>4, <1>5
  <1>8. DOMAIN t = 1 .. Len(s) + 1
    BY <1>7, LenProperties
  <1>9. \A j \in 1 .. Len(s) + 1 : t[j] = IF j <= i THEN m[j] ELSE r[j - i]
    BY <1>1, <1>3, <1>4, <1>5
  <1> HIDE DEF t
  <1>10. \A j \in DOMAIN s : j < i => t[j] = s[j]
    BY <1>1, <1>2, <1>4, <1>9
  <1>11. \A j \in DOMAIN s : j >= i => t[j + 1] = s[j]
    <2> SUFFICES ASSUME NEW j \in 1 .. Len(s), j >= i PROVE t[j + 1] = s[j]
      BY <1>1
    <2>1. t[j + 1] = r[j + 1 - i]
      BY <1>1, <1>9
    <2>2. r[j + 1 - i] = s[i + (j + 1 - i) - 1]
      BY <1>1, <1>3
    <2> QED
      BY <1>1, <2>1, <2>2
  <1>12. t[i] = x
    BY <1>1, <1>4, <1>9
  <1> QED
    BY <1>1, <1>6, <1>7, <1>8, <1>10, <1>11, <1>12 DEF t

LEMMA RemoveFacts ==
    ASSUME NEW S, NEW s \in Seq(S), NEW i \in DOMAIN s
    PROVE  /\ RemoveAt(s, i) \in Seq(S)
           /\ Len(RemoveAt(s, i)) = Len(s) - 1
           /\ \A j \in DOMAIN RemoveAt(s, i) : \E k \in DOMAIN s : RemoveAt(s, i)[j] = s[k]
  <1> DEFINE l == SubSeq(s, 1, i - 1)
             r == SubSeq(s, i + 1, Len(s))
  <1>1. Len(s) \in Nat /\ DOMAIN s = 1 .. Len(s) /\ i \in 1 .. Len(s)
    BY LenProperties
  <1>2. /\ l \in Seq(S)
        /\ Len(l) = i - 1
        /\ \A j \in 1 .. i - 1 : l[j] = s[j]
    <2>1. /\ l \in Seq(S)
          /\ Len(l) = IF 1 <= i - 1 THEN (i - 1) - 1 + 1 ELSE 0
          /\ \A j \in 1 .. (i - 1) - 1 + 1 : l[j] = s[1 + j - 1]
      BY <1>1, SubSeqProperties
    <2> QED
      BY <1>1, <2>1
  <1>3. /\ r \in Seq(S)
        /\ Len(r) = Len(s) - i
        /\ \A j \in 1 .. Len(s) - i : r[j] = s[i + j]
    <2>1. /\ r \in Seq(S)
          /\ Len(r) = IF i + 1 <= Len(s) THEN Len(s) - (i + 1) + 1 ELSE 0
          /\ \A j \in 1 .. Len(s) - (i + 1) + 1 : r[j] = s[(i + 1) + j - 1]
      BY <1>1, SubSeqProperties
    <2> QED
      BY <1>1, <2>1
  <1> HIDE DEF l, r
  <1>4. /\ l \o r \in Seq(S)
        /\ Len(l \o r) = Len(l) + Len(r)
        /\ \A j \in 1 .. Len(l) + Len(r) :
              (l \o r)[j] = IF j <= Len(l) THEN l[j] ELSE r[j - Len(l)]
    BY <1>2, <1>3, ConcatProperties
  <1>5. RemoveAt(s, i) = l \o r
    BY DEF RemoveAt, l, r
  <1> DEFINE t == l \o r
  <1>6. t \in Seq(S) /\ Len(t) = Len(s) - 1
    BY <1>1, <1>2, <1>3, <1>4
  <1>7. DOMAIN t = 1 .. Len(s) - 1
    BY <1>6, LenProperties
  <1>8. \A j \in 1 .. Len(s) - 1 : t[j] = IF j <= i - 1 THEN l[j] ELSE r[j - (i - 1)]
    BY <1>1, <1>2, <1>3, <1>4
  <1> HIDE DEF t
  <1>9. ASSUME NEW j \in DOMAIN t PROVE \E k \in DOMAIN s : t[j] = s[k]
    <2>1. CASE j <= i - 1
      BY <1>1, <1>2, <1>7, <1>8, <2>1
    <2>2. CASE ~(j <= i - 1)
      <3>1. t[j] = r[j - (i - 1)] /\ j - (i - 1) \in 1 .. Len(s) - i
        BY <1>1, <1>7, <1>8, <2>2
      <3>2. r[j - (i - 1)] = s[i + (j - (i - 1))] /\ i + (j - (i - 1)) \in DOMAIN s
        BY <1>1, <1>3, <3>1
      <3> QED
        BY <3>1, <3>2
    <2> QED
      BY <2>1, <2>2
  <1> QED
    BY <1>5, <1>6, <1>9 DEF t
-----------------------------------------------------------------------------
(* Types *)

LEMMA OptFacts ==
    \A S : /\ None \in Opt(S)
           /\ \A x \in S : x \in Opt(S)
           /\ \A x \in Opt(S) : x # None => x \in S
  BY DEF Opt

LEMMA NotNone ==
    /\ None \notin Profile /\ None \notin Comparison /\ None \notin Plan
    /\ None \notin Path /\ None \notin Bundle /\ None \notin Request
  BY NoneAssumption

LEMMA MessageTypes ==
    ASSUME NEW m \in Messages
    PROVE  /\ m.type = "generated" => m.of \in Comparison /\ m.plan \in Opt(Plan)
           /\ m.type = "written" => m.of \in Plan /\ m.path \in Opt(Path)
           /\ m.type = "loaded" => m.of \in Path /\ m.bundle \in Opt(Bundle)
           /\ m.type = "checked" => m.check \in Check /\ m.ok \in BOOLEAN
           /\ m.type = "history" => m.profile \in Profile
           /\ m.type = "answer" => m.yes \in BOOLEAN /\ m.shown \in Request
           /\ m.type = "select" => m.profile \in Profile
           /\ m.type = "goto" => m.view \in {"apply", "history", "other"}
           /\ m.type = "apply" => m.dry \in BOOLEAN
  BY DEF Messages, Operator, Posted, Answered

LEMMA CancelAllType ==
    ASSUME NEW S, \A x \in S : [x EXCEPT !.cancelled = TRUE] \in S, NEW w \in Seq(S)
    PROVE  CancelAll(w) \in Seq(S) /\ DOMAIN CancelAll(w) = DOMAIN w /\ Len(CancelAll(w)) = Len(w)
  BY DEF CancelAll

LEMMA PostType ==
    ASSUME NEW a \in App, NEW m \in Messages PROVE Post(a, m) \in App
  <1>1. a.queue \in Seq(Messages)
    BY DEF App
  <1>2. Append(a.queue, m) \in Seq(Messages)
    BY <1>1, AppendProperties
  <1> QED
    BY <1>2 DEF App, Post

LEMMA MethodTypes ==
    ASSUME NEW a \in App
    PROVE  /\ CancelHistoryWorker(a) \in App
           /\ StartHistoryLoad(a) \in App
           /\ CancelBundleLoad(a) \in App
           /\ CancelMigrationGeneration(a) \in App
           /\ ClearApply(a) \in App
           /\ ClearMigration(a) \in App
           /\ InvalidateMigration(a) \in App
           /\ \A p \in Profile : SelectProfile(a, p) \in App
           /\ EnsureApplyBundleLoaded(a) \in App
           /\ \A v \in {"apply", "history", "other"} : SwitchView(a, v) \in App
           /\ RequestPaletteDryRun(a) \in App
  <1> USE OptFacts
  <1>0. \A b \in App : /\ LetGo(b.lock) \in {"free", "reader", "leaving", "apply"}
                       /\ b.selected \in Profile
                       /\ b.path \in Opt(Path)
    BY DEF LetGo, App
  <1>1. \A b \in App : CancelHistoryWorker(b) \in App
    <2> TAKE b \in App
    <2> DEFINE l == LetGo(b.lock)
    <2>1. l \in {"free", "reader", "leaving", "apply"}
      BY <1>0
    <2> HIDE DEF l
    <2>2. [b EXCEPT !.reader = None, !.readerKnown = FALSE, !.lock = l] \in App
      BY <2>1 DEF App
    <2> QED
      BY <2>2 DEF CancelHistoryWorker, l
  <1>2. \A b \in App : StartHistoryLoad(b) \in App
    <2> TAKE b \in App
    <2> DEFINE l == LetGo(b.lock)
               p == b.selected
    <2>1. l \in {"free", "reader", "leaving", "apply"} /\ p \in Opt(Profile)
      BY <1>0
    <2> HIDE DEF l, p
    <2>2. [b EXCEPT !.reader = p, !.readerKnown = TRUE, !.lock = l] \in App
      BY <2>1 DEF App
    <2> QED
      BY <2>2 DEF StartHistoryLoad, l, p
  <1>3. \A b \in App : CancelBundleLoad(b) \in App
    BY DEF App, CancelBundleLoad
  <1>4. \A b \in App : CancelMigrationGeneration(b) \in App
    BY DEF App, CancelMigrationGeneration
  <1>5. \A b \in App : ClearApply(b) \in App
    BY DEF App, ClearApply
  <1>6. \A b \in App : ClearMigration(b) \in App
    <2> TAKE b \in App
    <2>1. [b EXCEPT !.plan = None, !.path = None] \in App
      BY DEF App
    <2> QED
      BY <2>1, <1>5 DEF ClearMigration
  <1>7. \A b \in App : InvalidateMigration(b) \in App
    <2> TAKE b \in App
    <2> DEFINE c == ClearMigration(CancelMigrationGeneration(CancelBundleLoad(b)))
    <2>1. c \in App
      BY <1>3, <1>4, <1>6
    <2> HIDE DEF c
    <2>2. [c EXCEPT !.busy = FALSE] \in App
      BY <2>1 DEF App
    <2> QED
      BY <2>2 DEF InvalidateMigration, c
  <1>8. \A b \in App, p \in Profile : SelectProfile(b, p) \in App
    <2> TAKE b \in App, p \in Profile
    <2>1. [b EXCEPT !.selected = p, !.comparison = None, !.history = None] \in App
      BY DEF App
    <2> QED
      BY <2>1, <1>6 DEF SelectProfile
  <1>9. \A b \in App : EnsureApplyBundleLoaded(b) \in App
    <2> TAKE b \in App
    <2> DEFINE c == CancelBundleLoad(b)
    <2>1. c \in App /\ ClearApply(c) \in App
      BY <1>3, <1>5
    <2> HIDE DEF c
    <2>2. [c EXCEPT !.bundle = None, !.operation = "loading",
                    !.loadPath = b.path, !.loading = b.path] \in App
      BY <2>1, <1>0 DEF App
    <2> QED
      BY <2>1, <2>2 DEF EnsureApplyBundleLoaded, c
  <1>10. \A b \in App, v \in {"apply", "history", "other"} : SwitchView(b, v) \in App
    <2> TAKE b \in App, v \in {"apply", "history", "other"}
    <2>1. [b EXCEPT !.onApply = (v = "apply")] \in App
      BY DEF App
    <2> QED
      BY <2>1, <1>2, <1>9 DEF SwitchView
  <1>11. \A b \in App : RequestPaletteDryRun(b) \in App
    <2> TAKE b \in App
    <2>1. [type |-> "apply", dry |-> TRUE] \in Messages
      BY DEF Messages, Operator
    <2>2. Post(b, [type |-> "apply", dry |-> TRUE]) \in App
      BY <2>1, PostType
    <2>3. [b EXCEPT !.dryPending = TRUE] \in App
      BY DEF App
    <2> QED
      BY <2>2, <2>3 DEF RequestPaletteDryRun
  <1> QED
    BY <1>1, <1>2, <1>3, <1>4, <1>5, <1>6, <1>7, <1>8, <1>9, <1>10, <1>11
-----------------------------------------------------------------------------
(* What a step has to keep                                                 *)

\* The application goes from a to b, and no request becomes current.
Settled(a, b) ==
    /\ b.path = a.path => b.bundle = a.bundle \/ ~BundleIsAtPath(a)
    /\ b.path # a.path =>
         \A r \in Shown(a) \cup Checked(a) : r.bundle.from # b.path

\* Request r is of what the session holds in a.
Now(a, r) ==
    /\ r.profile = ProfileOf(r.bundle)
    /\ r.bundle.from = a.path
    /\ a.bundle = r.bundle

LEMMA RequestTypes ==
    ASSUME TypeOK
    PROVE  /\ Shown(app) \subseteq Request
           /\ Checked(app) \subseteq Request
           /\ \A r \in Request : r.bundle \in Bundle /\ r.bundle.from \in Path
  <1>1. /\ app.modals \in Seq(Request) /\ app.queue \in Seq(Messages)
        /\ app.checks \in Seq(Check) /\ app.pending \in Opt(Request)
    BY DEF TypeOK, App
  <1>2. \A i \in DOMAIN app.queue : app.queue[i] \in Messages
    BY <1>1
  <1>3. Shown(app) \subseteq Request
    BY <1>1, <1>2, MessageTypes DEF Shown
  <1>4. \A c \in Check : Ask(c) \in Request
    BY DEF Ask, Check, Request
  <1>5. Checked(app) \subseteq Request
    BY <1>1, <1>2, <1>4, MessageTypes, OptFacts DEF Checked, RealChecks, RealEnds
  <1>6. \A r \in Request : r.bundle \in Bundle /\ r.bundle.from \in Path
    BY DEF Request, Bundle
  <1> QED
    BY <1>3, <1>5, <1>6

LEMMA RequestsKept ==
    ASSUME TypeOK, RequestInv, Settled(app, app'),
           \A r \in Shown(app') : r \in Shown(app) \/ Now(app', r),
           \A c \in Checked(app') :
              \/ c \in Checked(app)
              \/ /\ Now(app', c)
                 /\ \A r \in Shown(app') : r.bundle.from = app'.path
    PROVE  RequestInv'
  <1>1. ProfileInv'
    BY DEF RequestInv, ProfileInv, Now
  <1>2. CurrentInv'
    <2> SUFFICES ASSUME NEW r \in Shown(app') \cup Checked(app'),
                        r.bundle.from = app'.path
                 PROVE  app'.bundle = r.bundle
      BY DEF CurrentInv
    <2>1. CASE r \in Shown(app) \cup Checked(app)
      <3>1. app'.path = app.path
        BY <2>1 DEF Settled
      <3>2. app.bundle = r.bundle
        BY <2>1, <3>1 DEF RequestInv, CurrentInv
      <3>3. r.bundle # None /\ app.path # None
        BY <2>1, <3>1, RequestTypes, NotNone
      <3>4. BundleIsAtPath(app)
        BY <3>1, <3>2, <3>3 DEF BundleIsAtPath
      <3> QED
        BY <3>1, <3>2, <3>4 DEF Settled
    <2>2. CASE Now(app', r)
      BY <2>2 DEF Now
    <2> QED
      BY <2>1, <2>2
  <1>3. AskedInv'
    <2> SUFFICES ASSUME NEW c \in Checked(app'), NEW r \in Shown(app'),
                        c.bundle.from = app'.path
                 PROVE  r.bundle.from = app'.path
      BY DEF AskedInv
    <2>1. CASE c \in Checked(app) /\ r \in Shown(app)
      <3>1. app'.path = app.path
        BY <2>1 DEF Settled
      <3> QED
        BY <2>1, <3>1 DEF RequestInv, AskedInv
    <2>2. CASE Now(app', r)
      BY <2>2 DEF Now
    <2> QED
      BY <2>1, <2>2
  <1> QED
    BY <1>1, <1>2, <1>3 DEF RequestInv

\* Message i after the step is message i + d of before, or a new last one.
OldAt(d, i) == i + d \in DOMAIN app.queue /\ app'.queue[i] = app.queue[i + d]
NewAt(d, i) == i + d = Len(app.queue) + 1 /\ i = Len(app'.queue)

LEMMA ApplyKept ==
    ASSUME TypeOK, TypeOK', ApplyInv, NEW d \in {0, 1},
           \A i \in DOMAIN app'.queue :
              \/ OldAt(d, i)
              \/ /\ NewAt(d, i)
                 /\ app'.queue[i].type # "answer"
                 /\ RealApply(app'.queue[i]) => app'.modals = <<>>,
           \A k \in DOMAIN app'.modals :
              \/ app'.modals[k].bundle.from = app'.path
              \/ \E l \in DOMAIN app.modals : app'.modals[k] = app.modals[l],
           \/ app'.path = None
           \/ /\ app'.path = app.path
              /\ \/ BundleIsAtPath(app') => BundleIsAtPath(app)
                 \/ /\ d = 1
                    /\ app.queue[1].type = "loaded"
                    /\ app.queue[1].of = app.path
    PROVE  ApplyInv'
  <1> SUFFICES ASSUME NEW i \in DOMAIN app'.queue, RealApply(app'.queue[i]),
                      Loaded(i)'
               PROVE  /\ \A k \in DOMAIN app'.modals :
                            app'.modals[k].bundle.from = app'.path
                      /\ \A k \in DOMAIN app'.queue :
                            k > i /\ app'.queue[k].type = "answer" =>
                                app'.queue[k].shown.bundle.from = app'.path
    BY DEF ApplyInv
  <1>1. /\ DOMAIN app.queue = 1 .. Len(app.queue) /\ Len(app.queue) \in Nat
        /\ DOMAIN app'.queue = 1 .. Len(app'.queue) /\ Len(app'.queue) \in Nat
        /\ \A j \in DOMAIN app'.queue : app'.queue[j] \in Messages
    BY LenProperties, ElementOfSeq DEF TypeOK, App
  <1>2. app'.path # None
    BY <1>1, MessageTypes, NotNone DEF Loaded, BundleIsAtPath
  <1>3. CASE NewAt(d, i) /\ app'.modals = <<>>
    BY <1>1, <1>3 DEF NewAt
  <1>4. CASE OldAt(d, i)
    <2>1. \A j \in DOMAIN app'.queue : j < i => OldAt(d, j)
      BY <1>1, <1>4 DEF OldAt, NewAt
    <2>2. Loaded(i + d)
      <3>1. CASE BundleIsAtPath(app')
        BY <1>1, <1>2, <1>4, <3>1 DEF Loaded, OldAt
      <3>2. CASE \E j \in DOMAIN app'.queue : /\ j < i
                                              /\ app'.queue[j].type = "loaded"
                                              /\ app'.queue[j].of = app'.path
        BY <1>1, <1>2, <2>1, <3>2 DEF Loaded, OldAt
      <3> QED
        BY <3>1, <3>2 DEF Loaded
    <2>3. RealApply(app.queue[i + d])
      BY <1>4 DEF OldAt
    <2>4. /\ \A k \in DOMAIN app.modals : app.modals[k].bundle.from = app.path
          /\ \A k \in DOMAIN app.queue :
                k > i + d /\ app.queue[k].type = "answer" =>
                    app.queue[k].shown.bundle.from = app.path
      BY <1>4, <2>2, <2>3 DEF ApplyInv, OldAt
    <2>5. app'.path = app.path
      BY <1>2
    <2>6. ASSUME NEW k \in DOMAIN app'.queue, k > i, app'.queue[k].type = "answer"
          PROVE  app'.queue[k].shown.bundle.from = app'.path
      <3>1. OldAt(d, k)
        BY <2>6
      <3>2. k + d > i + d
        BY <1>1, <2>6
      <3> QED
        BY <2>4, <2>5, <2>6, <3>1, <3>2 DEF OldAt
    <2>7. \A k \in DOMAIN app'.modals : app'.modals[k].bundle.from = app'.path
      BY <2>4, <2>5
    <2> QED
      BY <2>6, <2>7
  <1> QED
    BY <1>3, <1>4

LEMMA FreshKept ==
    ASSUME TypeOK, TypeOK', FreshInv, NEW d \in {0, 1},
           \A i \in DOMAIN app'.queue : OldAt(d, i) \/ ~WrittenPath(app'.queue[i]),
           \A p \in Path : Seen(p)' =>
              \/ Seen(p)
              \/ /\ d = 1 /\ app.queue # <<>>
                 /\ WrittenPath(app.queue[1]) /\ app.queue[1].path = p,
           made["path"] <= made'["path"]
    PROVE  FreshInv'
  <1>1. made["path"] \in Nat /\ made'["path"] \in Nat
    BY DEF TypeOK, Kinds
  <1>2. /\ DOMAIN app.queue = 1 .. Len(app.queue) /\ Len(app.queue) \in Nat
        /\ DOMAIN app'.queue = 1 .. Len(app'.queue) /\ Len(app'.queue) \in Nat
        /\ \A j \in DOMAIN app'.queue : app'.queue[j] \in Messages
    BY LenProperties, ElementOfSeq DEF TypeOK, App
  <1>3. \A p \in Path : p.n \in Nat
    BY BoundsAssumption DEF Path, Kinds
  <1>4. \A i \in DOMAIN app'.queue : WrittenPath(app'.queue[i]) => app'.queue[i].path \in Path
    BY <1>2, MessageTypes, OptFacts DEF WrittenPath
  <1>5. ASSUME NEW p \in Path, Seen(p)' PROVE p.n <= made'["path"]
    <2>1. CASE Seen(p)
      BY <1>1, <1>3, <2>1 DEF FreshInv
    <2>2. CASE /\ d = 1 /\ app.queue # <<>>
               /\ WrittenPath(app.queue[1]) /\ app.queue[1].path = p
      <3>1. 1 \in DOMAIN app.queue
        BY <2>2, TailFacts DEF TypeOK, App
      <3>2. p.n <= made["path"]
        BY <2>2, <3>1 DEF FreshInv
      <3> QED
        BY <1>1, <1>3, <3>2
    <2> QED
      BY <1>5, <2>1, <2>2
  <1>6. ASSUME NEW i \in DOMAIN app'.queue, WrittenPath(app'.queue[i])
        PROVE  app'.queue[i].path.n <= made'["path"] /\ ~Seen(app.queue[i].path)'
    <2>1. OldAt(d, i)
      BY <1>6
    <2> DEFINE p == app.queue[i + d].path
    <2>2. p.n <= made["path"] /\ ~Seen(p)
      BY <1>6, <2>1 DEF FreshInv, OldAt
    <2>3. p \in Path /\ app'.queue[i].path = p
      BY <1>4, <1>6, <2>1 DEF OldAt
    <2>4. p.n \in Nat
      BY <1>3, <2>3
    <2> HIDE DEF p
    <2>5. p.n <= made'["path"]
      BY <1>1, <2>2, <2>4
    <2>6. ~(/\ d = 1 /\ app.queue # <<>>
            /\ WrittenPath(app.queue[1]) /\ app.queue[1].path = p)
      <3> SUFFICES ASSUME d = 1, app.queue # <<>>,
                          WrittenPath(app.queue[1]), app.queue[1].path = p
                   PROVE  FALSE
        OBVIOUS
      <3>1. 1 \in DOMAIN app.queue /\ i + 1 \in DOMAIN app.queue
        BY <2>1, TailFacts DEF TypeOK, App, OldAt
      <3>2. WrittenPath(app.queue[i + 1]) /\ app.queue[i + 1].path = p
        BY <1>6, <2>1, <2>3 DEF OldAt
      <3>3. i + 1 = 1
        BY <3>1, <3>2 DEF FreshInv
      <3> QED
        BY <1>2, <3>3
    <2>7. \A q \in Path : q = p => ~Seen(q)'
      BY <2>2, <2>6
    <2>8. ~Seen(app.queue[i].path)'
      BY <2>3, <2>7
    <2> QED
      BY <2>3, <2>5, <2>8
  <1>7. ASSUME NEW i \in DOMAIN app'.queue, NEW j \in DOMAIN app'.queue,
               WrittenPath(app'.queue[i]), WrittenPath(app'.queue[j]),
               app'.queue[i].path = app'.queue[j].path
        PROVE  i = j
    <2>1. OldAt(d, i) /\ OldAt(d, j)
      BY <1>7
    <2>2. i + d = j + d
      BY <1>7, <2>1 DEF FreshInv, OldAt
    <2> QED
      BY <1>2, <2>2
  <1> QED
    BY <1>5, <1>6, <1>7 DEF FreshInv
-----------------------------------------------------------------------------
(* Calm steps: nothing is asked, and no path or bundle is taken            *)

\* From a to b, requests go but do not come, and the path and its bundle stay,
\* unless the path goes.
Calm(a, b) ==
    /\ b.modals = a.modals
    /\ b.checks = a.checks
    /\ b.pending \in {a.pending, None}
    /\ b.path \in {a.path, None}
    /\ \/ b.path = None
       \/ b.bundle = a.bundle
       \/ ~BundleIsAtPath(a) /\ b.bundle = None
    /\ b.loadPath \in {a.loadPath, None, a.path}
    /\ b.loading \in {a.loading, None, a.path}

\* A message that asks nothing and brings no path.
CalmMessage(m) ==
    /\ m \in Messages
    /\ MadeFrom(m)
    /\ m.type \notin {"answer", "checked"}
    /\ m.type = "loaded" => m.of = app.loading
    /\ ~RealApply(m)
    /\ ~WrittenPath(m)

LEMMA CalmKept ==
    ASSUME IInv, TypeOK', ArtifactsMatch', LoadInv', ReaderInv', Calm(app, app'),
           made["path"] <= made'["path"], NEW d \in {0, 1},
           \A i \in DOMAIN app'.queue :
              \/ OldAt(d, i)
              \/ NewAt(d, i) /\ CalmMessage(app'.queue[i])
    PROVE  IInv'
  <1> USE DEF IInv
  <1>0. DOMAIN app.queue = 1 .. Len(app.queue) /\ Len(app.queue) \in Nat
    BY LenProperties DEF TypeOK, App
  <1>1. Shown(app') \subseteq Shown(app)
    BY DEF Shown, Calm, CalmMessage, OldAt
  <1>2. Checked(app') \subseteq Checked(app)
    <2>1. RealChecks(app') = RealChecks(app) /\ app'.checks = app.checks
      BY DEF RealChecks, Calm
    <2>2. \A i \in RealEnds(app') : i + d \in RealEnds(app) /\ app'.queue[i] = app.queue[i + d]
      BY DEF RealEnds, CalmMessage, OldAt
    <2>3. app'.pending \in {app.pending, None}
      BY DEF Calm
    <2> QED
      BY <2>1, <2>2, <2>3 DEF Checked
  <1>3. Settled(app, app')
    <2>1. app'.path # app.path => app'.path = None
      BY DEF Calm
    <2>2. \A r \in Shown(app) \cup Checked(app) : r.bundle.from # None
      BY RequestTypes, NotNone
    <2>3. app'.path = app.path => app'.bundle = app.bundle \/ ~BundleIsAtPath(app)
      BY DEF Calm, BundleIsAtPath
    <2> QED
      BY <2>1, <2>2, <2>3 DEF Settled
  <1>4. RequestInv'
    BY <1>1, <1>2, <1>3, RequestsKept
  <1>5. QueueInv'
    BY DEF QueueInv, CalmMessage, OldAt
  <1>6. ApplyInv'
    <2>1. BundleIsAtPath(app') => BundleIsAtPath(app)
      BY DEF Calm, BundleIsAtPath
    <2>2. app'.path = None \/ app'.path = app.path
      BY DEF Calm
    <2>3. app'.modals = app.modals
      BY DEF Calm
    <2>4. \A i \in DOMAIN app'.queue :
             \/ OldAt(d, i)
             \/ /\ NewAt(d, i)
                /\ app'.queue[i].type # "answer"
                /\ RealApply(app'.queue[i]) => app'.modals = <<>>
      BY DEF CalmMessage
    <2> QED
      BY <2>1, <2>2, <2>3, <2>4, ApplyKept
  <1>7. FreshInv'
    <2>1. ASSUME NEW p \in Path, Seen(p)' PROVE Seen(p)
      <3>1. app'.path # p \/ app.path = p
        BY NotNone DEF Calm
      <3>2. app'.loadPath # p \/ app.loadPath = p \/ app.path = p
        BY NotNone DEF Calm
      <3>3. app'.loading # p \/ app.loading = p \/ app.path = p
        BY NotNone DEF Calm
      <3>4. \A r \in Shown(app') \cup Checked(app') : r \in Shown(app) \cup Checked(app)
        BY <1>1, <1>2
      <3>5. \A i \in DOMAIN app'.queue : app'.queue[i].type = "loaded" =>
               OldAt(d, i) \/ app'.queue[i].of = app.loading
        BY DEF CalmMessage
      <3> QED
        BY <2>1, <3>1, <3>2, <3>3, <3>4, <3>5 DEF Seen, OldAt
    <2>2. \A i \in DOMAIN app'.queue : OldAt(d, i) \/ ~WrittenPath(app'.queue[i])
      BY DEF CalmMessage
    <2> QED
      BY <2>1, <2>2, FreshKept
  <1> QED
    BY <1>4, <1>5, <1>6, <1>7

LEMMA QueueShapes ==
    ASSUME TypeOK, TypeOK'
    PROVE  /\ app'.queue = app.queue => \A i \in DOMAIN app'.queue : OldAt(0, i)
           /\ app.queue # <<>> /\ app'.queue = Tail(app.queue) =>
                \A i \in DOMAIN app'.queue : OldAt(1, i)
           /\ \A m \in Messages :
                app'.queue = Append(app.queue, m) =>
                  /\ Len(app.queue) + 1 \in DOMAIN app'.queue
                  /\ app'.queue[Len(app.queue) + 1] = m
                  /\ \A i \in DOMAIN app'.queue :
                       OldAt(0, i) \/ (NewAt(0, i) /\ app'.queue[i] = m)
           /\ \A m \in Messages :
                app.queue # <<>> /\ app'.queue = Append(Tail(app.queue), m) =>
                  \A i \in DOMAIN app'.queue :
                     OldAt(1, i) \/ (NewAt(1, i) /\ app'.queue[i] = m)
  <1>0. /\ app.queue \in Seq(Messages) /\ DOMAIN app.queue = 1 .. Len(app.queue)
        /\ Len(app.queue) \in Nat
    BY LenProperties DEF TypeOK, App
  <1>1. ASSUME app'.queue = app.queue, NEW i \in DOMAIN app'.queue PROVE OldAt(0, i)
    BY <1>0, <1>1 DEF OldAt
  <1>2. ASSUME app.queue # <<>>, app'.queue = Tail(app.queue),
               NEW i \in DOMAIN app'.queue
        PROVE  OldAt(1, i)
    BY <1>0, <1>2, TailFacts DEF OldAt
  <1>3. ASSUME NEW m \in Messages, app'.queue = Append(app.queue, m)
        PROVE  /\ Len(app.queue) + 1 \in DOMAIN app'.queue
               /\ app'.queue[Len(app.queue) + 1] = m
               /\ \A i \in DOMAIN app'.queue :
                    OldAt(0, i) \/ (NewAt(0, i) /\ app'.queue[i] = m)
    BY <1>0, <1>3, AppendFacts DEF OldAt, NewAt
  <1>4. ASSUME NEW m \in Messages, app.queue # <<>>,
               app'.queue = Append(Tail(app.queue), m),
               NEW i \in DOMAIN app'.queue
        PROVE  OldAt(1, i) \/ (NewAt(1, i) /\ app'.queue[i] = m)
    <2> DEFINE t == Tail(app.queue)
    <2>1. /\ t \in Seq(Messages) /\ Len(t) = Len(app.queue) - 1
          /\ \A j \in DOMAIN t : j + 1 \in DOMAIN app.queue /\ t[j] = app.queue[j + 1]
      BY <1>0, <1>4, TailFacts
    <2> HIDE DEF t
    <2>2. /\ DOMAIN Append(t, m) = 1 .. Len(t) + 1
          /\ DOMAIN t = 1 .. Len(t) /\ Len(Append(t, m)) = Len(t) + 1
          /\ Append(t, m)[Len(t) + 1] = m
          /\ \A j \in DOMAIN t : Append(t, m)[j] = t[j]
      BY <2>1, AppendFacts
    <2>3. app'.queue = Append(t, m)
      BY <1>4 DEF t
    <2>4. CASE i = Len(t) + 1
      BY <1>0, <2>1, <2>2, <2>3, <2>4 DEF NewAt
    <2>5. CASE i # Len(t) + 1
      <3>1. i \in DOMAIN t
        BY <1>0, <1>4, <2>1, <2>2, <2>3, <2>5
      <3> QED
        BY <2>1, <2>2, <2>3, <3>1 DEF OldAt
    <2> QED
      BY <2>4, <2>5
  <1> QED
    BY <1>1, <1>2, <1>3, <1>4

LEMMA CalmStep ==
    ASSUME IInv, TypeOK', ArtifactsMatch', LoadInv', ReaderInv', Calm(app, app'),
           made["path"] <= made'["path"],
           \/ app'.queue = app.queue
           \/ app.queue # <<>> /\ app'.queue = Tail(app.queue)
           \/ \E m \in Messages :
                 /\ CalmMessage(m)
                 /\ \/ app'.queue = Append(app.queue, m)
                    \/ app.queue # <<>> /\ app'.queue = Append(Tail(app.queue), m)
    PROVE  IInv'
  <1>0. TypeOK
    BY DEF IInv
  <1>1. CASE app'.queue = app.queue
    BY <1>0, <1>1, QueueShapes, CalmKept
  <1>2. CASE app.queue # <<>> /\ app'.queue = Tail(app.queue)
    BY <1>0, <1>2, QueueShapes, CalmKept
  <1>3. ASSUME NEW m \in Messages, CalmMessage(m), app'.queue = Append(app.queue, m)
        PROVE  IInv'
    BY <1>0, <1>3, QueueShapes, CalmKept
  <1>4. ASSUME NEW m \in Messages, CalmMessage(m), app.queue # <<>>,
               app'.queue = Append(Tail(app.queue), m)
        PROVE  IInv'
    BY <1>0, <1>4, QueueShapes, CalmKept
  <1> QED
    BY <1>1, <1>2, <1>3, <1>4
-----------------------------------------------------------------------------
(* The methods that handlers call are calm                                 *)

\* ArtifactsMatch, LoadInv and ReaderInv of any application.
Fits(a) ==
    /\ a.comparison # None => a.comparison.from = a.selected
    /\ a.plan # None => a.plan.from.from = a.selected
    /\ a.path # None => a.path.from = a.plan
    /\ a.bundle # None /\ a.path # None => a.bundle.from = a.path
    /\ a.history # None => a.history = a.selected
    /\ a.loadPath # None => a.bundle = None
    /\ a.lock = "reader" => a.reader # None

LEMMA FitsNow ==
    /\ Fits(app) <=> ArtifactsMatch /\ LoadInv /\ ReaderInv
    /\ Fits(app') <=> ArtifactsMatch' /\ LoadInv' /\ ReaderInv'
  BY DEF Fits, ArtifactsMatch, LoadInv, ReaderInv

Quiet(a, b) ==
    /\ Calm(a, b)
    /\ b.queue = a.queue
    /\ Fits(a) => Fits(b)

LEMMA QuietThenQuiet ==
    ASSUME NEW a, NEW b, NEW c, Quiet(a, b), Quiet(b, c) PROVE Quiet(a, c)
  <1>1. Calm(a, c)
    <2> USE DEF Quiet, Calm
    <2>1. /\ c.modals = a.modals /\ c.checks = a.checks
          /\ c.pending \in {a.pending, None}
          /\ c.path \in {a.path, None}
          /\ c.loadPath \in {a.loadPath, None, a.path}
          /\ c.loading \in {a.loading, None, a.path}
      OBVIOUS
    <2>2. c.path = None \/ c.bundle = a.bundle \/ (~BundleIsAtPath(a) /\ c.bundle = None)
      BY DEF BundleIsAtPath
    <2> QED
      BY <2>1, <2>2
  <1> QED
    BY <1>1 DEF Quiet

\* What no invariant speaks of, or what a worker is given or gives up.
LEMMA QuietUpdates ==
    ASSUME NEW a \in App, NEW x
    PROVE  /\ Quiet(a, a)
           /\ Quiet(a, [a EXCEPT !.busy = x])
           /\ Quiet(a, [a EXCEPT !.operation = x])
           /\ Quiet(a, [a EXCEPT !.onApply = x])
           /\ Quiet(a, [a EXCEPT !.dryPending = x])
           /\ Quiet(a, [a EXCEPT !.comparing = x])
           /\ Quiet(a, [a EXCEPT !.generating = x])
           /\ Quiet(a, [a EXCEPT !.saving = x])
           /\ Quiet(a, [a EXCEPT !.readerKnown = x])
           /\ Quiet(a, [a EXCEPT !.appliers = x])
           /\ Quiet(a, [a EXCEPT !.applyKnown = x])
           /\ x # "reader" => Quiet(a, [a EXCEPT !.lock = x])
           /\ Quiet(a, [a EXCEPT !.pending = None])
           /\ Quiet(a, [a EXCEPT !.loading = None])
           /\ Quiet(a, [a EXCEPT !.loadPath = None])
  BY DEF Quiet, Calm, Fits, App

LEMMA QuietMethods ==
    ASSUME NEW a \in App
    PROVE  /\ Quiet(a, CancelHistoryWorker(a))
           /\ Quiet(a, StartHistoryLoad(a))
           /\ Quiet(a, CancelBundleLoad(a))
           /\ Quiet(a, CancelMigrationGeneration(a))
           /\ Quiet(a, ClearMigration(a))
           /\ Quiet(a, InvalidateMigration(a))
           /\ \A p \in Profile : Quiet(a, SelectProfile(a, p))
           /\ Fits(a) => Quiet(a, EnsureApplyBundleLoaded(a))
           /\ Fits(a) => \A v \in {"apply", "history", "other"} : Quiet(a, SwitchView(a, v))
  <1>1. \A b \in App : Quiet(b, CancelHistoryWorker(b))
    BY DEF CancelHistoryWorker, LetGo, Quiet, Calm, Fits, App
  <1>2. \A b \in App : Quiet(b, StartHistoryLoad(b))
    BY NotNone DEF StartHistoryLoad, LetGo, Quiet, Calm, Fits, App
  <1>3. \A b \in App : Quiet(b, CancelBundleLoad(b))
    BY DEF CancelBundleLoad, Quiet, Calm, Fits, App
  <1>4. \A b \in App : Quiet(b, CancelMigrationGeneration(b))
    BY DEF CancelMigrationGeneration, Quiet, Calm, Fits, App
  <1>5. \A b \in App : Quiet(b, ClearMigration(b))
    BY DEF ClearMigration, ClearApply, Quiet, Calm, Fits, App
  <1>6. \A b \in App : Quiet(b, InvalidateMigration(b))
    <2> TAKE b \in App
    <2> DEFINE c == CancelBundleLoad(b)
               d == CancelMigrationGeneration(c)
               e == ClearMigration(d)
    <2>1. c \in App /\ Quiet(b, c)
      BY <1>3, MethodTypes
    <2>2. d \in App /\ Quiet(c, d)
      BY <2>1, <1>4, MethodTypes
    <2>3. e \in App /\ Quiet(d, e)
      BY <2>2, <1>5, MethodTypes
    <2>4. Quiet(e, InvalidateMigration(b))
      BY <2>3, QuietUpdates DEF InvalidateMigration
    <2> HIDE DEF c, d, e
    <2> QED
      BY <2>1, <2>2, <2>3, <2>4, QuietThenQuiet
  <1>7. \A b \in App, p \in Profile : Quiet(b, SelectProfile(b, p))
    BY DEF SelectProfile, ClearMigration, ClearApply, Quiet, Calm, Fits, App
  <1>8. \A b \in App : Fits(b) => Quiet(b, EnsureApplyBundleLoaded(b))
    <2> SUFFICES ASSUME NEW b \in App, Fits(b)
                 PROVE  Quiet(b, EnsureApplyBundleLoaded(b))
      OBVIOUS
    <2>1. CASE b.path = None
      BY <2>1 DEF EnsureApplyBundleLoaded, ClearApply, CancelBundleLoad, Quiet, Calm, Fits, App
    <2>2. CASE b.path # None /\ (BundleIsAtPath(b) \/ b.loadPath = b.path)
      BY <2>2, QuietUpdates DEF EnsureApplyBundleLoaded
    <2>3. CASE b.path # None /\ ~BundleIsAtPath(b) /\ b.loadPath # b.path
      <3> DEFINE c == EnsureApplyBundleLoaded(b)
      <3>1. c = [CancelBundleLoad(b) EXCEPT
                    !.bundle = None, !.operation = "loading",
                    !.loadPath = b.path, !.loading = b.path]
        BY <2>3 DEF EnsureApplyBundleLoaded
      <3> HIDE DEF c
      <3>2. Calm(b, c) /\ c.queue = b.queue
        BY <2>3, <3>1 DEF CancelBundleLoad, Calm, App
      <3>3. Fits(c)
        BY <3>1 DEF CancelBundleLoad, Fits, App
      <3> QED
        BY <3>2, <3>3 DEF Quiet, c
    <2> QED
      BY <2>1, <2>2, <2>3
  <1>9. \A b \in App : Fits(b) =>
           \A v \in {"apply", "history", "other"} : Quiet(b, SwitchView(b, v))
    <2> SUFFICES ASSUME NEW b \in App, Fits(b), NEW v \in {"apply", "history", "other"}
                 PROVE  Quiet(b, SwitchView(b, v))
      OBVIOUS
    <2> DEFINE c == [b EXCEPT !.onApply = (v = "apply")]
    <2>1. c \in App
      BY DEF App
    <2>2. Quiet(b, c) /\ Fits(c)
      BY QuietUpdates DEF Quiet
    <2>3. SwitchView(b, v) \in {EnsureApplyBundleLoaded(c), StartHistoryLoad(c), c}
      BY DEF SwitchView
    <2> HIDE DEF c
    <2>4. Quiet(c, c) /\ Quiet(c, StartHistoryLoad(c)) /\ Quiet(c, EnsureApplyBundleLoaded(c))
      BY <1>2, <1>8, <2>1, <2>2, QuietUpdates
    <2> QED
      BY <2>2, <2>3, <2>4, QuietThenQuiet
  <1> QED
    BY <1>1, <1>2, <1>3, <1>4, <1>5, <1>6, <1>7, <1>8, <1>9
-----------------------------------------------------------------------------
(* The calm handlers                                                       *)

LEMMA TakenFacts ==
    ASSUME IInv, app.queue # <<>>
    PROVE  /\ Taken \in App
           /\ Taken.queue = Tail(app.queue)
           /\ Calm(app, Taken)
           /\ Fits(Taken)
           /\ Message \in Messages /\ MadeFrom(Message)
           /\ 1 \in DOMAIN app.queue /\ Message = app.queue[1]
  <1>0. app \in App /\ app.queue \in Seq(Messages)
    BY DEF IInv, TypeOK, App
  <1>1. /\ Tail(app.queue) \in Seq(Messages)
        /\ 1 \in DOMAIN app.queue /\ Head(app.queue) = app.queue[1]
        /\ app.queue[1] \in Messages
    BY <1>0, TailFacts
  <1>2. Taken \in App
    BY <1>0, <1>1 DEF Taken, App
  <1>3. Taken.queue = Tail(app.queue) /\ Calm(app, Taken)
    BY <1>0 DEF Taken, Calm, App
  <1>4. Fits(app)
    BY FitsNow DEF IInv
  <1>5. Fits(Taken)
    BY <1>0, <1>4 DEF Taken, Fits, App
  <1>6. MadeFrom(app.queue[1])
    BY <1>1 DEF IInv, QueueInv
  <1> QED
    BY <1>1, <1>2, <1>3, <1>5, <1>6 DEF Message

LEMMA CalmThenQuiet ==
    ASSUME NEW a, NEW b, NEW c, Calm(a, b), Quiet(b, c) PROVE Calm(a, c)
  <1> USE DEF Quiet, Calm
  <1>1. /\ c.modals = a.modals /\ c.checks = a.checks
        /\ c.pending \in {a.pending, None}
        /\ c.path \in {a.path, None}
        /\ c.loadPath \in {a.loadPath, None, a.path}
        /\ c.loading \in {a.loading, None, a.path}
    OBVIOUS
  <1>2. c.path = None \/ c.bundle = a.bundle \/ (~BundleIsAtPath(a) /\ c.bundle = None)
    BY DEF BundleIsAtPath
  <1> QED
    BY <1>1, <1>2

LEMMA QuietHandled ==
    ASSUME IInv, app.queue # <<>>, UNCHANGED made,
           app' \in App, Quiet(Taken, app')
    PROVE  IInv'
  <1>1. TypeOK'
    BY DEF IInv, TypeOK
  <1>2. Calm(app, app')
    BY TakenFacts, CalmThenQuiet
  <1>3. app'.queue = Tail(app.queue)
    BY TakenFacts DEF Quiet
  <1>4. ArtifactsMatch' /\ LoadInv' /\ ReaderInv'
    BY TakenFacts, FitsNow DEF Quiet
  <1>5. made["path"] <= made'["path"]
    BY DEF IInv, TypeOK, Kinds
  <1> QED
    BY <1>1, <1>2, <1>3, <1>4, <1>5, CalmStep

LEMMA BusyUpdate ==
    ASSUME NEW a \in App, NEW x \in BOOLEAN
    PROVE  [a EXCEPT !.busy = x] \in App /\ Quiet(a, [a EXCEPT !.busy = x])
  BY QuietUpdates DEF App

LEMMA ApplyDryIsCalm == CalmMessage([type |-> "apply", dry |-> TRUE])
  BY DEF CalmMessage, Messages, Operator, MadeFrom, RealApply, WrittenPath

\* The handler may ask for a dry run when it has done the rest.
LEMMA QuietHandledThenDryRun ==
    ASSUME IInv, app.queue # <<>>, UNCHANGED made,
           NEW a \in App, Quiet(Taken, a), app' = RequestPaletteDryRun(a)
    PROVE  IInv'
  <1>1. app' \in App
    BY MethodTypes
  <1>2. CASE a.operation \in {"loading", "apply"}
    <2>1. Quiet(a, app')
      BY <1>2, QuietUpdates DEF RequestPaletteDryRun
    <2> QED
      BY <1>1, <2>1, QuietThenQuiet, QuietHandled, TakenFacts
  <1>3. CASE a.operation \notin {"loading", "apply"}
    <2> DEFINE m == [type |-> "apply", dry |-> TRUE]
    <2>1. app' = [a EXCEPT !.queue = Append(a.queue, m)]
      BY <1>3 DEF RequestPaletteDryRun, Post
    <2>2. CalmMessage(m) /\ m \in Messages
      BY ApplyDryIsCalm DEF CalmMessage
    <2> HIDE DEF m
    <2>3. app'.queue = Append(Tail(app.queue), m)
      BY <2>1, TakenFacts DEF App, Quiet
    <2>4. Calm(a, app') /\ (Fits(a) => Fits(app'))
      BY <2>1 DEF Calm, Fits, App
    <2>5. Calm(app, a) /\ Fits(a)
      BY TakenFacts, CalmThenQuiet DEF Quiet
    <2>6. Calm(app, app')
      BY <2>1, <2>5 DEF Calm, App
    <2>7. TypeOK' /\ ArtifactsMatch' /\ LoadInv' /\ ReaderInv' /\ made["path"] <= made'["path"]
      BY <1>1, <2>4, <2>5, FitsNow DEF IInv, TypeOK, Kinds
    <2> QED
      BY <2>2, <2>3, <2>6, <2>7, CalmStep
  <1> QED
    BY <1>2, <1>3

LEMMA OnProfileSelectedKeeps ==
    ASSUME IInv, OnProfileSelected PROVE IInv'
  <1>0. app.queue # <<>> /\ UNCHANGED made /\ Message.type = "select"
    BY DEF OnProfileSelected, Handling
  <1>1. Taken \in App /\ Message.profile \in Profile
    BY <1>0, TakenFacts, MessageTypes
  <1>2. CASE Applying \/ Message.profile = app.selected
    BY <1>0, <1>1, <1>2, QuietUpdates, QuietHandled DEF OnProfileSelected
  <1>3. CASE ~(Applying \/ Message.profile = app.selected)
    <2> DEFINE b == [Taken EXCEPT !.comparing = None]
               c == CancelHistoryWorker(b)
               d == CancelBundleLoad(c)
               e == CancelMigrationGeneration(d)
               f == SelectProfile(e, Message.profile)
    <2>1. app' = [f EXCEPT !.busy = FALSE]
      BY <1>3 DEF OnProfileSelected
    <2>2. b \in App /\ Quiet(Taken, b)
      BY <1>1, QuietUpdates, OptFacts DEF App
    <2>3. c \in App /\ Quiet(b, c)
      BY <2>2, MethodTypes, QuietMethods
    <2>4. d \in App /\ Quiet(c, d)
      BY <2>3, MethodTypes, QuietMethods
    <2>5. e \in App /\ Quiet(d, e)
      BY <2>4, MethodTypes, QuietMethods
    <2>6. f \in App /\ Quiet(e, f)
      BY <1>1, <2>5, MethodTypes, QuietMethods
    <2> HIDE DEF b, c, d, e, f
    <2>7. app' \in App /\ Quiet(f, app')
      BY <2>1, <2>6, QuietUpdates DEF App
    <2>8. Quiet(Taken, app')
      BY <2>2, <2>3, <2>4, <2>5, <2>6, <2>7, QuietThenQuiet
    <2> QED
      BY <1>0, <2>7, <2>8, QuietHandled
  <1> QED
    BY <1>2, <1>3

LEMMA StartTestBothKeeps ==
    ASSUME IInv, StartTestBoth PROVE IInv'
  <1>0. app.queue # <<>> /\ UNCHANGED made
    BY DEF StartTestBoth, Handling
  <1>1. Taken \in App /\ app.selected \in Profile
    BY <1>0, TakenFacts DEF IInv, TypeOK, App
  <1>2. CASE app' = Taken
    BY <1>0, <1>1, <1>2, QuietUpdates, QuietHandled
  <1>3. CASE app' # Taken
    <2> DEFINE b == InvalidateMigration(Taken)
               c == CancelHistoryWorker(b)
    <2>1. app' = [c EXCEPT !.comparing = app.selected]
      BY <1>3 DEF StartTestBoth
    <2>2. b \in App /\ Quiet(Taken, b)
      BY <1>1, MethodTypes, QuietMethods
    <2>3. c \in App /\ Quiet(b, c)
      BY <2>2, MethodTypes, QuietMethods
    <2> HIDE DEF b, c
    <2>4. app' \in App /\ Quiet(c, app')
      BY <1>1, <2>1, <2>3, QuietUpdates, OptFacts DEF App
    <2> QED
      BY <1>0, <2>2, <2>3, <2>4, QuietThenQuiet, QuietHandled
  <1> QED
    BY <1>2, <1>3

LEMMA OnGenerateMigrationRequestedKeeps ==
    ASSUME IInv, OnGenerateMigrationRequested PROVE IInv'
  <1>0. app.queue # <<>> /\ UNCHANGED made
    BY DEF OnGenerateMigrationRequested, Handling
  <1>1. Taken \in App /\ app.comparison \in Opt(Comparison)
    BY <1>0, TakenFacts DEF IInv, TypeOK, App
  <1>2. CASE Applying \/ app.comparison = None
    <2>1. app' \in {Taken, [Taken EXCEPT !.busy = FALSE]}
      BY <1>2 DEF OnGenerateMigrationRequested
    <2>2. app' \in App /\ Quiet(Taken, app')
      BY <1>1, <2>1, BusyUpdate, QuietUpdates
    <2> QED
      BY <1>0, <2>2, QuietHandled
  <1>3. CASE ~(Applying \/ app.comparison = None)
    <2> DEFINE b == InvalidateMigration(Taken)
               c == [b EXCEPT !.busy = TRUE]
    <2>1. app' = [c EXCEPT !.generating = app.comparison]
      BY <1>3 DEF OnGenerateMigrationRequested
    <2>2. b \in App /\ Quiet(Taken, b)
      BY <1>1, MethodTypes, QuietMethods
    <2> HIDE DEF b
    <2>3. c \in App /\ Quiet(b, c)
      BY <2>2, QuietUpdates DEF App
    <2> HIDE DEF c
    <2>4. app' \in App /\ Quiet(c, app')
      BY <1>1, <2>1, <2>3, QuietUpdates DEF App
    <2> QED
      BY <1>0, <2>2, <2>3, <2>4, QuietThenQuiet, QuietHandled
  <1> QED
    BY <1>2, <1>3

LEMMA OnSaveBundleRequestedKeeps ==
    ASSUME IInv, OnSaveBundleRequested PROVE IInv'
  <1>0. app.queue # <<>> /\ UNCHANGED made
    BY DEF OnSaveBundleRequested, Handling
  <1>1. Taken \in App /\ app.plan \in Opt(Plan)
    BY <1>0, TakenFacts DEF IInv, TypeOK, App
  <1> DEFINE b == [Taken EXCEPT !.busy = TRUE]
  <1>2. b \in App /\ Quiet(Taken, b)
    BY <1>1, BusyUpdate
  <1>3. app' \in {Taken, [Taken EXCEPT !.busy = FALSE], [b EXCEPT !.saving = app.plan]}
    BY DEF OnSaveBundleRequested
  <1> HIDE DEF b
  <1>4. [b EXCEPT !.saving = app.plan] \in App
    BY <1>1, <1>2 DEF App
  <1>5. Quiet(Taken, [b EXCEPT !.saving = app.plan])
    BY <1>2, QuietUpdates, QuietThenQuiet
  <1>6. app' \in App /\ Quiet(Taken, app')
    BY <1>1, <1>3, <1>4, <1>5, BusyUpdate, QuietUpdates
  <1> QED
    BY <1>0, <1>6, QuietHandled

\* A plan that is taken goes with no path.
LEMMA OnMigrationGeneratedKeeps ==
    ASSUME IInv, OnMigrationGenerated PROVE IInv'
  <1>0. app.queue # <<>> /\ UNCHANGED made /\ Message.type = "generated"
    BY DEF OnMigrationGenerated, Handling
  <1>1. /\ Taken \in App /\ Fits(Taken)
        /\ Message.plan \in Opt(Plan)
        /\ Message.plan # None => Message.plan.from = Message.of
        /\ Message.of # None
    BY <1>0, TakenFacts, MessageTypes, NotNone DEF MadeFrom
  <1>2. CASE app.comparison # Message.of \/ Message.plan = None
    <2>1. app' \in {Taken, [Taken EXCEPT !.busy = FALSE]}
      BY <1>2 DEF OnMigrationGenerated
    <2>2. app' \in App /\ Quiet(Taken, app')
      BY <1>1, <2>1, BusyUpdate, QuietUpdates
    <2> QED
      BY <1>0, <2>2, QuietHandled
  <1>3. CASE app.comparison = Message.of /\ Message.plan # None
    <2> DEFINE p == Message.plan
    <2>1. app' = [Taken EXCEPT !.busy = FALSE, !.plan = p, !.path = None]
      BY <1>3 DEF OnMigrationGenerated
    <2>2. Taken.comparison = app.comparison
      BY DEF Taken, IInv, TypeOK, App
    <2>3. p \in Opt(Plan) /\ p # None /\ p.from = Taken.comparison /\ Taken.comparison # None
      BY <1>1, <1>3, <2>2
    <2> HIDE DEF p
    <2>4. app' \in App
      BY <1>1, <2>1, <2>3, OptFacts DEF App
    <2>5. Calm(Taken, app') /\ app'.queue = Taken.queue
      BY <1>1, <2>1 DEF Calm, App
    <2>6. Fits(app')
      BY <1>1, <2>1, <2>3 DEF Fits, App
    <2> QED
      BY <1>0, <2>4, <2>5, <2>6, QuietHandled DEF Quiet
  <1> QED
    BY <1>2, <1>3

LEMMA OnSwitchViewKeeps ==
    ASSUME IInv, OnSwitchView PROVE IInv'
  <1>0. app.queue # <<>> /\ UNCHANGED made /\ Message.type = "goto"
    BY DEF OnSwitchView, Handling
  <1>1. /\ Taken \in App /\ Fits(Taken)
        /\ Message.view \in {"apply", "history", "other"}
    BY <1>0, TakenFacts, MessageTypes
  <1>2. app' = SwitchView(Taken, Message.view)
    BY DEF OnSwitchView
  <1>3. app' \in App /\ Quiet(Taken, app')
    BY <1>1, <1>2, MethodTypes, QuietMethods
  <1> QED
    BY <1>0, <1>3, QuietHandled

LEMMA DispatchApplyDryRunKeeps ==
    ASSUME IInv, DispatchApplyDryRun PROVE IInv'
  <1>0. app.queue # <<>> /\ UNCHANGED made
    BY DEF DispatchApplyDryRun, Handling
  <1> DEFINE a == SwitchView(Taken, "apply")
  <1>1. a \in App /\ Quiet(Taken, a)
    BY <1>0, TakenFacts, MethodTypes, QuietMethods
  <1>2. app' = RequestPaletteDryRun(a)
    BY DEF DispatchApplyDryRun
  <1> HIDE DEF a
  <1> QED
    BY <1>0, <1>1, <1>2, QuietHandledThenDryRun

LEMMA OnApplyOperationFinishedKeeps ==
    ASSUME IInv, OnApplyOperationFinished PROVE IInv'
  <1>0. app.queue # <<>> /\ UNCHANGED made /\ Taken \in App
    BY TakenFacts DEF OnApplyOperationFinished, Handling
  <1> DEFINE b == [Taken EXCEPT !.applyKnown = FALSE]
             c == [b EXCEPT !.operation = "none"]
  <1>1. b \in App /\ Quiet(Taken, b)
    BY <1>0, QuietUpdates DEF App
  <1>2. app' \in {c, StartHistoryLoad(c)}
    BY DEF OnApplyOperationFinished
  <1> HIDE DEF b
  <1>3. c \in App /\ Quiet(b, c)
    BY <1>1, QuietUpdates DEF App
  <1> HIDE DEF c
  <1>4. app' \in App /\ Quiet(c, app')
    BY <1>2, <1>3, QuietUpdates, QuietMethods, MethodTypes
  <1> QED
    BY <1>0, <1>1, <1>3, <1>4, QuietThenQuiet, QuietHandled

LEMMA OnHistoryLoadFinishedKeeps ==
    ASSUME IInv, OnHistoryLoadFinished PROVE IInv'
  <1>0. app.queue # <<>> /\ UNCHANGED made /\ Message.type = "history" /\ Taken \in App
    BY TakenFacts DEF OnHistoryLoadFinished, Handling
  <1>1. CASE Message.profile # app.selected
    BY <1>0, <1>1, QuietUpdates, QuietHandled DEF OnHistoryLoadFinished
  <1>2. CASE Message.profile = app.selected
    <2> DEFINE h == IF Message.runs THEN app.selected ELSE None
    <2>1. app' = [Taken EXCEPT !.readerKnown = FALSE, !.history = h]
      BY <1>2 DEF OnHistoryLoadFinished
    <2>2. Taken.selected = app.selected /\ app.selected \in Profile
      BY DEF Taken, IInv, TypeOK, App
    <2>3. h \in Opt(Profile) /\ (h # None => h = Taken.selected)
      BY <2>2, OptFacts
    <2> HIDE DEF h
    <2>4. app' \in App
      BY <1>0, <2>1, <2>3 DEF App
    <2>5. Quiet(Taken, app')
      BY <1>0, <2>1, <2>3 DEF Quiet, Calm, Fits, App
    <2> QED
      BY <1>0, <2>4, <2>5, QuietHandled
  <1> QED
    BY <1>1, <1>2
LEMMA OnApplyConfirmationKeeps ==
    ASSUME IInv, OnApplyConfirmation PROVE IInv'
  <1>0. app.queue # <<>> /\ UNCHANGED made /\ Taken \in App
    BY TakenFacts DEF OnApplyConfirmation, Handling
  <1> DEFINE b == [Taken EXCEPT !.pending = None]
  <1>1. b \in App /\ Quiet(Taken, b)
    BY <1>0, QuietUpdates, OptFacts DEF App
  <1>2. CASE app' = b
    BY <1>0, <1>1, <1>2, QuietHandled
  <1>3. CASE /\ app.pending # None
             /\ app' = StartApplyWorker(b, app.pending)
    <2> DEFINE c == CancelHistoryWorker(b)
               new == [profile |-> app.pending.profile, bundle |-> app.pending.bundle,
                       inside |-> FALSE, cancelled |-> FALSE]
               w == Append(CancelAll(c.appliers), new)
    <2>1. app' = [c EXCEPT !.operation = "apply", !.applyKnown = TRUE, !.appliers = w]
      BY <1>3 DEF StartApplyWorker
    <2>2. c \in App /\ Quiet(b, c)
      BY <1>1, MethodTypes, QuietMethods
    <2>3. app.pending \in Request
      BY <1>3, OptFacts DEF IInv, TypeOK, App
    <2>4. new \in Applier
      BY <2>3 DEF Applier, Request
    <2>5. c.appliers \in Seq(Applier)
      BY <2>2 DEF App
    <2> HIDE DEF b, c, new
    <2>6. CancelAll(c.appliers) \in Seq(Applier)
      <3>1. \A x \in Applier : [x EXCEPT !.cancelled = TRUE] \in Applier
        BY DEF Applier
      <3> QED
        BY <2>5, <3>1, CancelAllType
    <2>7. w \in Seq(Applier)
      BY <2>4, <2>6, AppendFacts
    <2> HIDE DEF w
    <2>8. app' \in App
      BY <2>1, <2>2, <2>7 DEF App
    <2>9. Quiet(c, app')
      BY <2>1, <2>2 DEF Quiet, Calm, Fits, App
    <2> QED
      BY <1>0, <1>1, <2>2, <2>8, <2>9, QuietThenQuiet, QuietHandled
  <1> QED
    BY <1>2, <1>3 DEF OnApplyConfirmation

LEMMA OnCancelApplyRequestedKeeps ==
    ASSUME IInv, OnCancelApplyRequested PROVE IInv'
  <1>0. app.queue # <<>> /\ UNCHANGED made /\ Taken \in App
    BY TakenFacts DEF OnCancelApplyRequested, Handling
  <1>1. CASE app' = Taken
    BY <1>0, <1>1, QuietUpdates, QuietHandled
  <1>2. CASE /\ app.appliers # <<>>
             /\ app' = [Taken EXCEPT !.appliers[Len(app.appliers)].cancelled = TRUE]
    <2> DEFINE n == Len(app.appliers)
               w == [app.appliers EXCEPT ![n].cancelled = TRUE]
    <2>1. app.appliers \in Seq(Applier) /\ Taken.appliers = app.appliers
      BY DEF Taken, IInv, TypeOK, App
    <2>2. n \in DOMAIN app.appliers /\ app.appliers[n] \in Applier
      BY <1>2, <2>1, FrontFacts
    <2>3. app' = [Taken EXCEPT !.appliers = w]
      BY <1>2, <2>1
    <2>4. [app.appliers[n] EXCEPT !.cancelled = TRUE] \in Applier
      BY <2>2 DEF Applier
    <2>5. w \in Seq(Applier)
      BY <2>1, <2>2, <2>4, ExceptSeq
    <2> HIDE DEF n, w
    <2>6. app' \in App
      BY <1>0, <2>3, <2>5 DEF App
    <2> QED
      BY <1>0, <2>3, <2>6, QuietUpdates, QuietHandled
  <1> QED
    BY <1>1, <1>2 DEF OnCancelApplyRequested

-----------------------------------------------------------------------------
(* The calm steps of the workers                                           *)

LEMMA QuietStep ==
    ASSUME IInv, TypeOK', Quiet(app, app'), made["path"] <= made'["path"]
    PROVE  IInv'
  BY FitsNow, CalmStep DEF Quiet, IInv

\* A worker that posts a message.
LEMMA CalmPost ==
    ASSUME IInv, made' \in [Kinds -> Nat], made["path"] <= made'["path"],
           NEW a \in App, Quiet(app, a), NEW m, CalmMessage(m),
           app' = [a EXCEPT !.queue = Append(app.queue, m)]
    PROVE  IInv'
  <1>1. m \in Messages
    BY DEF CalmMessage
  <1>2. Append(app.queue, m) \in Seq(Messages)
    BY <1>1, AppendFacts DEF IInv, TypeOK, App
  <1>3. app' \in App
    BY <1>2 DEF App
  <1>4. Calm(app, app') /\ app'.queue = Append(app.queue, m)
    BY DEF Calm, Quiet, App
  <1>5. Fits(app')
    BY FitsNow DEF Fits, Quiet, App, IInv
  <1> QED
    BY <1>1, <1>3, <1>4, <1>5, FitsNow, CalmStep DEF TypeOK

LEMMA MadeGrows ==
    ASSUME TypeOK, NEW k \in Kinds, NEW o, Making(k, o)
    PROVE  made' \in [Kinds -> Nat] /\ made["path"] <= made'["path"]
  BY DEF TypeOK, Making, Kinds

\* What is made is of its type.
LEMMA MakeTypes ==
    ASSUME TypeOK
    PROVE  /\ \A x \in Profile : Make("comparison", x) \subseteq Comparison
           /\ \A x \in Comparison : Make("plan", x) \subseteq Plan
           /\ \A x \in Plan : Make("path", x) \subseteq Path
           /\ \A x \in Path : Make("bundle", x) \subseteq Bundle
           /\ \A x : \A k \in Kinds : \A o \in Make(k, x) : o.from = x /\ o.n = made[k] + 1
  <1>1. \A k \in Kinds : made[k] \in Nat /\ MaxMade[k] \in Nat
    BY BoundsAssumption DEF TypeOK
  <1>2. \A k \in Kinds : made[k] < MaxMade[k] => made[k] + 1 \in 1 .. MaxMade[k]
    BY <1>1
  <1> QED
    BY <1>2 DEF Make, Comparison, Plan, Path, Bundle, Kinds

LEMMA CompareProfileKeeps ==
    ASSUME IInv, CompareProfile PROVE IInv'
  <1>0. app \in App /\ app.comparing \in Profile /\ app.selected \in Profile
    BY OptFacts DEF CompareProfile, IInv, TypeOK, App
  <1>1. PICK c \in {None} \cup Make("comparison", app.comparing) :
           /\ Making("comparison", c)
           /\ app' = [app EXCEPT
                !.comparing = None,
                !.comparison = IF c # None /\ app.selected = app.comparing THEN c ELSE @]
    BY DEF CompareProfile
  <1> DEFINE d == IF c # None /\ app.selected = app.comparing THEN c ELSE app.comparison
  <1>2. d \in Opt(Comparison) /\ (d = app.comparison \/ d.from = app.selected)
    BY <1>0, <1>1, MakeTypes, OptFacts DEF IInv, TypeOK, App, Kinds
  <1>3. app' = [app EXCEPT !.comparing = None, !.comparison = d]
    BY <1>0, <1>1 DEF App
  <1> HIDE DEF d
  <1>4. app' \in App
    BY <1>0, <1>2, <1>3, OptFacts DEF App
  <1>5. Quiet(app, app')
    BY <1>0, <1>2, <1>3 DEF Quiet, Calm, Fits, App
  <1>6. made' \in [Kinds -> Nat] /\ made["path"] <= made'["path"]
    BY <1>1, MadeGrows DEF IInv, Kinds
  <1> QED
    BY <1>4, <1>5, <1>6, QuietStep DEF TypeOK

LEMMA GenerateMigrationKeeps ==
    ASSUME IInv, GenerateMigration PROVE IInv'
  <1>0. app \in App /\ app.generating \in Comparison
    BY OptFacts DEF GenerateMigration, IInv, TypeOK, App
  <1>1. PICK p \in {None} \cup Make("plan", app.generating) :
           /\ Making("plan", p)
           /\ app' = [Post(app, [type |-> "generated", of |-> app.generating, plan |-> p])
                        EXCEPT !.generating = None]
    BY DEF GenerateMigration
  <1> DEFINE m == [type |-> "generated", of |-> app.generating, plan |-> p]
             a == [app EXCEPT !.generating = None]
  <1>2. p \in Opt(Plan) /\ (p # None => p.from = app.generating)
    BY <1>0, <1>1, MakeTypes, OptFacts DEF IInv, Kinds
  <1>3. CalmMessage(m)
    BY <1>0, <1>2 DEF CalmMessage, Messages, Posted, MadeFrom, RealApply, WrittenPath
  <1>4. a \in App /\ Quiet(app, a)
    BY <1>0, QuietUpdates, OptFacts DEF App
  <1> HIDE DEF m
  <1>5. app' = [a EXCEPT !.queue = Append(app.queue, m)]
    BY <1>0, <1>1 DEF Post, App, m
  <1>6. made' \in [Kinds -> Nat] /\ made["path"] <= made'["path"]
    BY <1>1, MadeGrows DEF IInv, Kinds
  <1> HIDE DEF a
  <1> QED
    BY <1>3, <1>4, <1>5, <1>6, CalmPost

LEMMA LoadApplyBundleKeeps ==
    ASSUME IInv, LoadApplyBundle PROVE IInv'
  <1>0. app \in App /\ app.loading \in Path
    BY OptFacts DEF LoadApplyBundle, IInv, TypeOK, App
  <1>1. PICK b \in {None} \cup Make("bundle", app.loading) :
           /\ Making("bundle", b)
           /\ app' = [Post(app, [type |-> "loaded", of |-> app.loading, bundle |-> b])
                        EXCEPT !.loading = None]
    BY DEF LoadApplyBundle
  <1> DEFINE m == [type |-> "loaded", of |-> app.loading, bundle |-> b]
             a == [app EXCEPT !.loading = None]
  <1>2. b \in Opt(Bundle) /\ (b # None => b.from = app.loading)
    BY <1>0, <1>1, MakeTypes, OptFacts DEF IInv, Kinds
  <1>3. CalmMessage(m)
    BY <1>0, <1>2 DEF CalmMessage, Messages, Posted, MadeFrom, RealApply, WrittenPath
  <1>4. a \in App /\ Quiet(app, a)
    BY <1>0, QuietUpdates, OptFacts DEF App
  <1> HIDE DEF m
  <1>5. app' = [a EXCEPT !.queue = Append(app.queue, m)]
    BY <1>0, <1>1 DEF Post, App, m
  <1>6. made' \in [Kinds -> Nat] /\ made["path"] <= made'["path"]
    BY <1>1, MadeGrows DEF IInv, Kinds
  <1> HIDE DEF a
  <1> QED
    BY <1>3, <1>4, <1>5, <1>6, CalmPost

LEMMA ReaderKeeps ==
    ASSUME IInv, ReaderEnters \/ ReaderEnds \/ ReaderLeaves PROVE IInv'
  <1>0. app \in App /\ made \in [Kinds -> Nat] /\ made' = made
    BY DEF IInv, TypeOK, ReaderEnters, ReaderEnds, ReaderLeaves
  <1>1. made["path"] <= made'["path"]
    BY <1>0 DEF Kinds
  <1>2. ASSUME NEW l \in {"free", "reader"}, l = "reader" => app.reader # None,
               app' = [app EXCEPT !.lock = l]
        PROVE  IInv'
    <2>1. app' \in App
      BY <1>0, <1>2 DEF App
    <2>2. Quiet(app, app')
      BY <1>0, <1>2 DEF Quiet, Calm, Fits, App
    <2> QED
      BY <1>0, <1>1, <2>1, <2>2, QuietStep DEF TypeOK
  <1>3. ASSUME NEW l \in {"free"}, NEW runs \in BOOLEAN, app.reader \in Profile,
               app' = [Post(app, [type |-> "history", profile |-> app.reader, runs |-> runs])
                          EXCEPT !.reader = None, !.lock = l]
        PROVE  IInv'
    <2> DEFINE m == [type |-> "history", profile |-> app.reader, runs |-> runs]
               a == [app EXCEPT !.reader = None, !.lock = l]
    <2>1. CalmMessage(m)
      BY <1>3 DEF CalmMessage, Messages, Posted, MadeFrom, RealApply, WrittenPath
    <2>2. a \in App /\ Quiet(app, a)
      BY <1>0, OptFacts DEF Quiet, Calm, Fits, App
    <2> HIDE DEF m
    <2>3. app' = [a EXCEPT !.queue = Append(app.queue, m)]
      BY <1>0, <1>3 DEF Post, App, m
    <2> HIDE DEF a
    <2> QED
      BY <1>0, <1>1, <2>1, <2>2, <2>3, CalmPost
  <1>4. CASE ReaderEnters /\ Applying
    <2> DEFINE l == "free"
    <2>1. app' = [Post(app, [type |-> "history", profile |-> app.reader, runs |-> FALSE])
                    EXCEPT !.reader = None]
      BY <1>4 DEF ReaderEnters
    <2>2. app' = [Post(app, [type |-> "history", profile |-> app.reader, runs |-> FALSE])
                    EXCEPT !.reader = None, !.lock = l]
      BY <1>0, <1>4, <2>1 DEF Post, App, ReaderEnters
    <2>3. app.reader \in Profile
      BY <1>0, <1>4, OptFacts DEF ReaderEnters, App
    <2> QED
      BY <1>3, <2>2, <2>3
  <1>5. CASE ReaderEnters /\ ~Applying
    BY <1>2, <1>5 DEF ReaderEnters
  <1>6. CASE ReaderEnds
    <2>1. app.reader \in Profile
      BY <1>0, <1>6, OptFacts DEF ReaderEnds, ReaderInv, IInv, App
    <2> QED
      BY <1>3, <1>6, <2>1 DEF ReaderEnds
  <1>7. CASE ReaderLeaves
    BY <1>2, <1>7 DEF ReaderLeaves
  <1> QED
    BY <1>4, <1>5, <1>6, <1>7

LEMMA ApplierKeeps ==
    ASSUME IInv, NEW i \in DOMAIN app.appliers, ApplierEnters(i) \/ ApplierEnds(i)
    PROVE  IInv'
  <1>0. /\ app \in App /\ made \in [Kinds -> Nat] /\ made' = made
        /\ app.appliers \in Seq(Applier)
    BY DEF IInv, TypeOK, App, ApplierEnters, ApplierEnds
  <1>1. made["path"] <= made'["path"]
    BY <1>0 DEF Kinds
  <1>2. CASE ApplierEnters(i)
    <2> DEFINE w == [app.appliers EXCEPT ![i].inside = TRUE]
    <2>0. app.appliers[i] \in Applier
      BY <1>0
    <2>1. [app.appliers[i] EXCEPT !.inside = TRUE] \in Applier
      BY <2>0 DEF Applier
    <2>2. w \in Seq(Applier)
      BY <1>0, <2>1, ExceptSeq
    <2>3. app' = [app EXCEPT !.lock = "apply", !.appliers = w]
      BY <1>0, <1>2 DEF ApplierEnters, App
    <2> HIDE DEF w
    <2>4. app' \in App
      BY <1>0, <2>2, <2>3 DEF App
    <2>5. Quiet(app, app')
      BY <1>0, <2>3 DEF Quiet, Calm, Fits, App
    <2> QED
      BY <1>0, <1>1, <2>4, <2>5, QuietStep DEF TypeOK
  <1>3. CASE ApplierEnds(i)
    <2> DEFINE m == [type |-> "applied"]
               w == RemoveAt(app.appliers, i)
               l == IF app.appliers[i].inside THEN "free" ELSE app.lock
               a == [app EXCEPT !.lock = l, !.appliers = w]
    <2>1. CalmMessage(m)
      BY DEF CalmMessage, Messages, Posted, MadeFrom, RealApply, WrittenPath
    <2>2. w \in Seq(Applier)
      BY <1>0, RemoveFacts
    <2>3. l \in {"free", app.lock} /\ app.lock \in {"free", "reader", "leaving", "apply"}
      BY <1>0 DEF App
    <2>4. app' = [Post(app, m) EXCEPT !.lock = l, !.appliers = w]
      BY <1>0, <1>3 DEF ApplierEnds, Post, App
    <2> HIDE DEF m, w, l
    <2>5. a \in App
      BY <1>0, <2>2, <2>3 DEF App
    <2>6. Quiet(app, a)
      BY <1>0, <2>3 DEF Quiet, Calm, Fits, App
    <2>7. app' = [a EXCEPT !.queue = Append(app.queue, m)]
      BY <1>0, <2>4 DEF Post, App
    <2> HIDE DEF a
    <2> QED
      BY <1>0, <1>1, <2>1, <2>5, <2>6, <2>7, CalmPost
  <1> QED
    BY <1>2, <1>3
-----------------------------------------------------------------------------
(* The path, the bundle and the questions                                  *)

\* Before its message is handled, a written path is new to the session; then it
\* has no bundle yet.
LEMMA OnMigrationBundleWrittenKeeps ==
    ASSUME IInv, OnMigrationBundleWritten PROVE IInv'
  <1>0. app.queue # <<>> /\ UNCHANGED made /\ Message.type = "written"
    BY DEF OnMigrationBundleWritten, Handling
  <1>1. /\ Taken \in App /\ Fits(Taken) /\ Calm(app, Taken)
        /\ Taken.queue = Tail(app.queue)
        /\ Message.path \in Opt(Path) /\ Message.of \in Plan
        /\ Message.path # None => Message.path.from = Message.of
        /\ 1 \in DOMAIN app.queue /\ Message = app.queue[1]
    BY <1>0, TakenFacts, MessageTypes DEF MadeFrom
  <1>2. CASE app.plan # Message.of \/ Message.path = None
    <2>1. app' \in {Taken, [Taken EXCEPT !.busy = FALSE]}
      BY <1>2 DEF OnMigrationBundleWritten
    <2>2. app' \in App /\ Quiet(Taken, app')
      BY <1>1, <2>1, BusyUpdate, QuietUpdates
    <2> QED
      BY <1>0, <2>2, QuietHandled
  <1>3. CASE app.plan = Message.of /\ Message.path # None
    <2> DEFINE p == Message.path
               b == [ClearApply(CancelBundleLoad(Taken))
                        EXCEPT !.path = p, !.busy = FALSE]
    <2>1. p \in Path /\ p # None /\ p.from = Message.of
      BY <1>1, <1>3, OptFacts
    <2>2. WrittenPath(app.queue[1]) /\ app.queue[1].path = p
      BY <1>0, <1>1, <1>3 DEF WrittenPath
    <2>3. app' \in {b, EnsureApplyBundleLoaded(b)}
      BY <1>3 DEF OnMigrationBundleWritten
    <2>4. Taken.plan = app.plan
      BY DEF Taken, IInv, TypeOK, App
    <2>5. p.from = Taken.plan
      BY <1>3, <2>1, <2>4
    <2> HIDE DEF p
    <2>6. b \in App
      <3> DEFINE c == ClearApply(CancelBundleLoad(Taken))
      <3>1. c \in App
        BY <1>1, MethodTypes
      <3> HIDE DEF c
      <3>2. [c EXCEPT !.path = p, !.busy = FALSE] \in App
        BY <2>1, <3>1, OptFacts DEF App
      <3> QED
        BY <3>2 DEF c
    <2>7. /\ Fits(b)
          /\ b.modals = Taken.modals /\ b.checks = Taken.checks
          /\ b.pending = Taken.pending /\ b.queue = Taken.queue
          /\ b.path = p /\ b.bundle = None /\ b.loadPath = None /\ b.loading = None
      <3>1. Fits(b)
        BY <1>1, <2>5 DEF ClearApply, CancelBundleLoad, Fits, App
      <3> QED
        BY <1>1, <3>1 DEF ClearApply, CancelBundleLoad, App
    <2> HIDE DEF b
    <2>8. app' \in App /\ Quiet(b, app')
      BY <2>3, <2>6, <2>7, MethodTypes, QuietMethods, QuietUpdates
    <2>9. /\ app'.modals = app.modals /\ app'.checks = app.checks
          /\ app'.pending \in {app.pending, None} /\ app'.queue = Tail(app.queue)
          /\ app'.path \in {p, None} /\ app'.bundle = None
          /\ app'.loadPath \in {p, None} /\ app'.loading \in {p, None}
          /\ Fits(app')
      <3>1. /\ Taken.modals = app.modals /\ Taken.checks = app.checks
            /\ Taken.pending \in {app.pending, None}
        BY <1>1 DEF Calm
      <3>2. /\ app'.modals = app.modals /\ app'.checks = app.checks
            /\ app'.pending \in {app.pending, None} /\ app'.queue = Tail(app.queue)
            /\ app'.path \in {p, None}
            /\ app'.loadPath \in {p, None} /\ app'.loading \in {p, None}
            /\ Fits(app')
        BY <1>1, <2>7, <2>8, <3>1 DEF Quiet, Calm
      <3>3. app'.bundle = None
        BY <2>3, <2>6, <2>7 DEF EnsureApplyBundleLoaded, BundleIsAtPath, App,
                             CancelBundleLoad, ClearApply
      <3> QED
        BY <3>2, <3>3
    <2>10. TypeOK /\ TypeOK'
      BY <1>0, <2>8 DEF IInv, TypeOK
    <2>11. \A i \in DOMAIN app'.queue : OldAt(1, i)
      BY <1>0, <2>9, <2>10, QueueShapes
    <2>12. ~Seen(p)
      BY <1>1, <2>2 DEF IInv, FreshInv
    <2>13. Shown(app') \subseteq Shown(app)
      BY <2>9, <2>11 DEF Shown, OldAt
    <2>14. Checked(app') \subseteq Checked(app)
      BY <2>9, <2>11 DEF Checked, RealChecks, RealEnds, OldAt
    <2>15. Settled(app, app')
      <3>1. app'.path # app.path \/ ~BundleIsAtPath(app)
        BY <2>9, <2>12 DEF Seen, BundleIsAtPath
      <3>2. \A r \in Shown(app) \cup Checked(app) : r.bundle.from \notin {p, None}
        BY <2>10, <2>12, RequestTypes, NotNone DEF Seen
      <3> QED
        BY <2>9, <3>1, <3>2 DEF Settled
    <2>16. RequestInv'
      BY <2>10, <2>13, <2>14, <2>15, RequestsKept DEF IInv
    <2>17. QueueInv'
      BY <2>11 DEF IInv, QueueInv, OldAt
    <2>18. ApplyInv'
      <3>1. ASSUME NEW i \in DOMAIN app'.queue, app'.queue[i].type = "loaded"
            PROVE  app'.queue[i].of # app'.path
        <4>1. i + 1 \in DOMAIN app.queue /\ app.queue[i + 1] = app'.queue[i]
          BY <2>11 DEF OldAt
        <4>2. app.queue[i + 1] \in Messages
          BY <2>10, <4>1 DEF TypeOK, App
        <4>3. app.queue[i + 1].of # p
          BY <2>12, <3>1, <4>1 DEF Seen
        <4>4. app.queue[i + 1].of # None
          BY <3>1, <4>1, <4>2, MessageTypes, NotNone
        <4> QED
          BY <2>9, <4>1, <4>3, <4>4
      <3>2. ~BundleIsAtPath(app')
        BY <2>9 DEF BundleIsAtPath
      <3> QED
        BY <3>1, <3>2 DEF ApplyInv, Loaded
    <2>19. FreshInv'
      <3>1. ASSUME NEW q \in Path, Seen(q)' PROVE Seen(q) \/ q = p
        <4>1. \A i \in DOMAIN app'.queue : OldAt(1, i)
          BY <2>11
        <4> QED
          BY <2>9, <2>13, <2>14, <3>1, <4>1, NotNone DEF Seen, OldAt
      <3>2. made["path"] <= made'["path"]
        BY <1>0, <2>10 DEF TypeOK, Kinds
      <3> QED
        BY <1>0, <2>2, <2>10, <2>11, <3>1, <3>2, FreshKept DEF IInv
    <2> QED
      BY <2>9, <2>10, <2>16, <2>17, <2>18, <2>19, FitsNow DEF IInv
  <1> QED
    BY <1>2, <1>3

\* A bundle is taken only at the path that was waited for, which had none.
LEMMA OnApplyBundleLoadedKeeps ==
    ASSUME IInv, OnApplyBundleLoaded PROVE IInv'
  <1>0. app.queue # <<>> /\ UNCHANGED made /\ Message.type = "loaded"
    BY DEF OnApplyBundleLoaded, Handling
  <1>1. /\ Taken \in App /\ Fits(Taken) /\ Calm(app, Taken)
        /\ Taken.queue = Tail(app.queue)
        /\ Message.bundle \in Opt(Bundle) /\ Message.of \in Path
        /\ Message.bundle # None => Message.bundle.from = Message.of
        /\ 1 \in DOMAIN app.queue /\ Message = app.queue[1]
        /\ Message.of # None
    BY <1>0, TakenFacts, MessageTypes, NotNone DEF MadeFrom
  <1> DEFINE known == [Taken EXCEPT !.loadPath = None]
  <1>2. known \in App /\ Quiet(Taken, known)
    BY <1>1, QuietUpdates, OptFacts DEF App
  <1>3. CASE app.loadPath # Message.of \/ app.path # Message.of
    <2>1. app' \in {Taken, known}
      BY <1>3 DEF OnApplyBundleLoaded
    <2> QED
      BY <1>0, <1>1, <1>2, <2>1, QuietUpdates, QuietHandled
  <1>4. CASE app.loadPath = Message.of /\ app.path = Message.of
    <2> DEFINE b == Message.bundle
               a == [known EXCEPT !.bundle = b, !.operation = "none", !.dryPending = FALSE]
               m == [type |-> "apply", dry |-> TRUE]
    <2>1. app' \in {RequestPaletteDryRun(a), a}
      BY <1>4 DEF OnApplyBundleLoaded
    <2> HIDE DEF b
    <2>2. a \in App
      BY <1>1, <1>2 DEF App, b
    <2>3. /\ a.modals = Taken.modals /\ a.checks = Taken.checks
          /\ a.pending = Taken.pending /\ a.path = Taken.path
          /\ a.queue = Taken.queue /\ a.loading = Taken.loading
          /\ a.loadPath = None /\ a.bundle = b /\ a.operation = "none"
      BY <1>1 DEF App
    <2>4. /\ Taken.modals = app.modals /\ Taken.checks = app.checks
          /\ Taken.pending = app.pending /\ Taken.path = app.path
          /\ Taken.loading = app.loading
      BY DEF Taken, IInv, TypeOK, App
    <2>5. Fits(a)
      <3>1. b # None => b.from = Taken.path
        BY <1>1, <1>4, <2>4 DEF b
      <3> QED
        BY <1>1, <3>1 DEF Fits, App
    <2> HIDE DEF a, known
    <2>6. RequestPaletteDryRun(a) = [a EXCEPT !.queue = Append(a.queue, m)]
      BY <2>3 DEF RequestPaletteDryRun, Post
    <2>7. app' \in App
      BY <2>1, <2>2, MethodTypes
    <2>8. m \in Messages /\ CalmMessage(m)
      BY ApplyDryIsCalm DEF CalmMessage
    <2> HIDE DEF m
    <2>9. /\ app'.modals = app.modals /\ app'.checks = app.checks
          /\ app'.pending = app.pending /\ app'.path = app.path
          /\ app'.loading = app.loading /\ app'.loadPath = None
          /\ app'.bundle = b /\ Fits(app')
          /\ app'.queue \in {Tail(app.queue), Append(Tail(app.queue), m)}
      <3>1. CASE app' = a
        BY <1>1, <2>3, <2>4, <2>5, <3>1
      <3>2. CASE app' = [a EXCEPT !.queue = Append(a.queue, m)]
        <4>1. /\ app'.modals = a.modals /\ app'.checks = a.checks
              /\ app'.pending = a.pending /\ app'.path = a.path
              /\ app'.loading = a.loading /\ app'.loadPath = a.loadPath
              /\ app'.bundle = a.bundle /\ app'.queue = Append(a.queue, m)
          BY <2>2, <3>2 DEF App
        <4>2. Fits(app')
          BY <2>2, <2>5, <3>2 DEF Fits, App
        <4> QED
          BY <1>1, <2>3, <2>4, <4>1, <4>2
      <3> QED
        BY <2>1, <2>6, <3>1, <3>2
    <2>10. TypeOK /\ TypeOK'
      BY <1>0, <2>7 DEF IInv, TypeOK
    <2>11. \A i \in DOMAIN app'.queue :
              OldAt(1, i) \/ (NewAt(1, i) /\ app'.queue[i] = m)
      BY <1>0, <2>8, <2>9, <2>10, QueueShapes
    <2>12. m.type = "apply" /\ m.dry
      BY DEF m
    <2>13. ~BundleIsAtPath(app)
      BY <1>1, <1>4 DEF IInv, LoadInv, BundleIsAtPath
    <2>14. Shown(app') \subseteq Shown(app)
      BY <2>9, <2>11, <2>12 DEF Shown, OldAt
    <2>15. Checked(app') \subseteq Checked(app)
      BY <2>9, <2>11, <2>12 DEF Checked, RealChecks, RealEnds, OldAt
    <2>16. RequestInv'
      BY <2>9, <2>10, <2>13, <2>14, <2>15, RequestsKept DEF IInv, Settled
    <2>17. QueueInv'
      BY <2>8, <2>11 DEF IInv, QueueInv, OldAt, CalmMessage
    <2>18. ApplyInv'
      <3>1. app.queue[1].type = "loaded" /\ app.queue[1].of = app.path
        BY <1>0, <1>1, <1>4
      <3>2. \A i \in DOMAIN app'.queue :
               \/ OldAt(1, i)
               \/ /\ NewAt(1, i)
                  /\ app'.queue[i].type # "answer"
                  /\ RealApply(app'.queue[i]) => app'.modals = <<>>
        BY <2>11, <2>12 DEF RealApply
      <3>3. ApplyInv
        BY DEF IInv
      <3> QED
        BY <2>9, <2>10, <3>1, <3>2, <3>3, ApplyKept
    <2>19. FreshInv'
      <3>1. ASSUME NEW q \in Path, Seen(q)' PROVE Seen(q)
        BY <2>9, <2>11, <2>12, <2>14, <2>15, <3>1, NotNone DEF Seen, OldAt
      <3>2. \A i \in DOMAIN app'.queue : OldAt(1, i) \/ ~WrittenPath(app'.queue[i])
        BY <2>11, <2>12 DEF WrittenPath
      <3>3. made["path"] <= made'["path"] /\ FreshInv
        BY <1>0, <2>10 DEF TypeOK, Kinds, IInv
      <3> QED
        BY <2>10, <3>1, <3>2, <3>3, FreshKept
    <2> QED
      BY <2>9, <2>10, <2>16, <2>17, <2>18, <2>19, FitsNow DEF IInv
  <1> QED
    BY <1>3, <1>4
\* The path that is written is a new one.
LEMMA WriteMigrationBundleKeeps ==
    ASSUME IInv, WriteMigrationBundle PROVE IInv'
  <1>0. app \in App /\ app.saving \in Plan /\ TypeOK /\ FreshInv
    BY OptFacts DEF WriteMigrationBundle, IInv, TypeOK, App
  <1>1. PICK p \in {None} \cup Make("path", app.saving) :
           /\ Making("path", p)
           /\ app' = [Post(app, [type |-> "written", of |-> app.saving, path |-> p])
                        EXCEPT !.saving = None]
    BY DEF WriteMigrationBundle
  <1> DEFINE m == [type |-> "written", of |-> app.saving, path |-> p]
             a == [app EXCEPT !.saving = None]
  <1>2. p \in Opt(Path) /\ (p # None => p.from = app.saving /\ p.n = made["path"] + 1)
    BY <1>0, <1>1, MakeTypes, OptFacts DEF Kinds
  <1>3. m \in Messages /\ MadeFrom(m) /\ m.type = "written" /\ m.path = p
    BY <1>0, <1>2 DEF Messages, Posted, MadeFrom
  <1>4. a \in App /\ Quiet(app, a)
    BY <1>0, QuietUpdates, OptFacts DEF App
  <1> HIDE DEF m
  <1>5. app' = [a EXCEPT !.queue = Append(app.queue, m)]
    BY <1>0, <1>1 DEF Post, App, m
  <1>6. made' \in [Kinds -> Nat] /\ made["path"] <= made'["path"]
    BY <1>1, MadeGrows DEF IInv, Kinds
  <1>7. CASE p = None
    <2>1. CalmMessage(m)
      BY <1>3, <1>7 DEF CalmMessage, RealApply, WrittenPath
    <2> HIDE DEF a
    <2> QED
      BY <1>4, <1>5, <1>6, <2>1, CalmPost
  <1>8. CASE p # None
    <2>1. made'["path"] = made["path"] + 1 /\ made["path"] \in Nat
      BY <1>0, <1>1, <1>8 DEF Making, TypeOK, Kinds
    <2>2. Append(app.queue, m) \in Seq(Messages)
      BY <1>0, <1>3, AppendFacts DEF App
    <2>3. app' \in App
      BY <1>4, <1>5, <2>2 DEF App
    <2>4. /\ app'.modals = app.modals /\ app'.checks = app.checks
          /\ app'.pending = app.pending /\ app'.path = app.path
          /\ app'.bundle = app.bundle
          /\ app'.loading = app.loading /\ app'.loadPath = app.loadPath
          /\ app'.queue = Append(app.queue, m)
          /\ Fits(app')
      <3>1. /\ app'.modals = app.modals /\ app'.checks = app.checks
            /\ app'.pending = app.pending /\ app'.path = app.path
            /\ app'.bundle = app.bundle
            /\ app'.loading = app.loading /\ app'.loadPath = app.loadPath
            /\ app'.queue = Append(app.queue, m)
        BY <1>0, <1>5 DEF App
      <3>2. Fits(app)
        BY FitsNow DEF IInv
      <3>3. Fits(app')
        BY <1>0, <1>5, <3>2 DEF Fits, App
      <3> QED
        BY <3>1, <3>3
    <2> HIDE DEF a
    <2>5. TypeOK'
      BY <1>6, <2>3 DEF TypeOK
    <2>6. \A i \in DOMAIN app'.queue :
             OldAt(0, i) \/ (NewAt(0, i) /\ app'.queue[i] = m)
      BY <1>0, <1>3, <2>4, <2>5, QueueShapes
    <2>7. Shown(app') \subseteq Shown(app)
      BY <1>3, <2>4, <2>6 DEF Shown, OldAt
    <2>8. Checked(app') \subseteq Checked(app)
      BY <1>3, <2>4, <2>6 DEF Checked, RealChecks, RealEnds, OldAt
    <2>9. RequestInv'
      BY <1>0, <2>4, <2>7, <2>8, RequestsKept DEF IInv, Settled
    <2>10. QueueInv'
      BY <1>3, <2>6 DEF IInv, QueueInv, OldAt
    <2>11. ApplyInv'
      <3>1. \A i \in DOMAIN app'.queue :
               \/ OldAt(0, i)
               \/ /\ NewAt(0, i)
                  /\ app'.queue[i].type # "answer"
                  /\ RealApply(app'.queue[i]) => app'.modals = <<>>
        BY <1>3, <2>6 DEF RealApply
      <3>2. BundleIsAtPath(app') => BundleIsAtPath(app)
        BY <2>4 DEF BundleIsAtPath
      <3>3. ApplyInv
        BY DEF IInv
      <3> QED
        BY <1>0, <2>4, <2>5, <3>1, <3>2, <3>3, ApplyKept
    <2>12. \A q \in Path : Seen(q)' => Seen(q)
      BY <1>3, <2>4, <2>6, <2>7, <2>8 DEF Seen, OldAt
    <2>13. FreshInv'
      <3>1. \A q \in Path : q.n \in Nat
        BY BoundsAssumption DEF Path, Kinds
      <3>2. p \in Path /\ ~Seen(p)
        BY <1>0, <1>2, <1>8, <2>1, OptFacts DEF FreshInv
      <3>3. /\ DOMAIN app.queue = 1 .. Len(app.queue) /\ Len(app.queue) \in Nat
            /\ \A i \in DOMAIN app.queue : app.queue[i] \in Messages
        BY <1>0, LenProperties DEF App
      <3>4. ASSUME NEW i \in DOMAIN app.queue, WrittenPath(app.queue[i])
            PROVE  app.queue[i].path \in Path /\ app.queue[i].path.n <= made["path"]
        BY <1>0, <3>3, <3>4, MessageTypes, OptFacts DEF FreshInv, WrittenPath
      <3>5. \A q \in Path : Seen(q)' => q.n <= made'["path"]
        BY <1>0, <2>1, <2>12, <3>1 DEF FreshInv
      <3>6. ASSUME NEW i \in DOMAIN app'.queue, WrittenPath(app'.queue[i])
            PROVE  app'.queue[i].path.n <= made'["path"] /\ ~Seen(app.queue[i].path)'
        <4>1. CASE app'.queue[i] = m
          <5>1. ~Seen(p)'
            BY <2>12, <3>2
          <5>2. \A q : q = p => ~Seen(q)'
            BY <5>1
          <5>3. ~Seen(app.queue[i].path)'
            BY <1>3, <4>1, <5>2
          <5> QED
            BY <1>2, <1>3, <1>8, <2>1, <4>1, <5>3
        <4>2. CASE OldAt(0, i)
          <5>1. i \in DOMAIN app.queue /\ app'.queue[i] = app.queue[i]
            BY <2>4, <3>3, <4>2 DEF OldAt
          <5> DEFINE q == app.queue[i].path
          <5>2. q \in Path /\ ~Seen(q) /\ q.n <= made["path"] /\ q.n \in Nat
            BY <1>0, <3>1, <3>4, <3>6, <5>1 DEF FreshInv
          <5> HIDE DEF q
          <5>3. \A r : r = q => ~Seen(r)'
            BY <2>12, <5>2
          <5>4. app'.queue[i].path = q
            BY <5>1 DEF q
          <5>5. ~Seen(app.queue[i].path)'
            BY <5>3, <5>4
          <5> QED
            BY <2>1, <5>2, <5>4, <5>5
        <4> QED
          BY <2>6, <4>1, <4>2
      <3>7. ASSUME NEW i \in DOMAIN app'.queue, NEW j \in DOMAIN app'.queue,
                   WrittenPath(app'.queue[i]), WrittenPath(app'.queue[j]),
                   app'.queue[i].path = app'.queue[j].path
            PROVE  i = j
        <4>0. i \in Nat /\ j \in Nat
          BY <2>3 DEF App
        <4>1. CASE OldAt(0, i) /\ OldAt(0, j)
          <5>1. /\ i \in DOMAIN app.queue /\ app'.queue[i] = app.queue[i]
                /\ j \in DOMAIN app.queue /\ app'.queue[j] = app.queue[j]
            BY <4>0, <4>1 DEF OldAt
          <5> QED
            BY <1>0, <3>7, <5>1 DEF FreshInv
        <4>2. CASE NewAt(0, i) /\ NewAt(0, j)
          BY <4>0, <4>2 DEF NewAt
        <4>3. ASSUME NEW k \in DOMAIN app'.queue, OldAt(0, k), WrittenPath(app'.queue[k])
              PROVE  app'.queue[k].path # p
          <5>1. k \in DOMAIN app.queue /\ app'.queue[k] = app.queue[k]
            BY <3>3, <4>3, <2>3 DEF OldAt, App
          <5>2. app'.queue[k].path.n <= made["path"] /\ app'.queue[k].path \in Path
            BY <3>4, <4>3, <5>1
          <5> QED
            BY <1>2, <1>8, <2>1, <3>1, <5>2
        <4> QED
          BY <1>3, <2>6, <3>7, <4>1, <4>2, <4>3
      <3> QED
        BY <3>5, <3>6, <3>7 DEF FreshInv
    <2> QED
      BY <2>4, <2>5, <2>9, <2>10, <2>11, <2>13, FitsNow DEF IInv
  <1> QED
    BY <1>7, <1>8

\* An apply is posted only while no confirmation is on the screen.
LEMMA PressKeeps ==
    ASSUME IInv, NEW m \in Input, Press(m) PROVE IInv'
  <1>0. /\ app \in App /\ made \in [Kinds -> Nat] /\ made' = made /\ TypeOK
        /\ m \in Operator /\ m \in Messages
        /\ app' = [app EXCEPT !.queue = Append(app.queue, m)]
    BY InputAssumption DEF IInv, TypeOK, Press, Messages, Post
  <1>1. made["path"] <= made'["path"]
    BY <1>0 DEF Kinds
  <1>2. m.type \notin {"generated", "written", "loaded", "checked", "answer"}
    BY <1>0 DEF Operator
  <1>3. CASE ~RealApply(m)
    <2>1. CalmMessage(m)
      BY <1>0, <1>2, <1>3 DEF CalmMessage, MadeFrom, WrittenPath
    <2> QED
      BY <1>0, <1>1, <2>1, QuietUpdates, CalmPost
  <1>4. CASE RealApply(m)
    <2>1. app.modals = <<>>
      BY <1>4 DEF Press, Enabled, RealApply
    <2>2. Append(app.queue, m) \in Seq(Messages)
      BY <1>0, AppendFacts DEF App
    <2>3. TypeOK'
      BY <1>0, <2>2 DEF TypeOK, App
    <2>4. /\ app'.modals = app.modals /\ app'.checks = app.checks
          /\ app'.pending = app.pending /\ app'.path = app.path
          /\ app'.bundle = app.bundle
          /\ app'.loading = app.loading /\ app'.loadPath = app.loadPath
          /\ app'.queue = Append(app.queue, m)
      BY <1>0 DEF App
    <2>5. Fits(app')
      <3>1. Fits(app)
        BY FitsNow DEF IInv
      <3> QED
        BY <1>0, <3>1 DEF Fits, App
    <2>6. \A i \in DOMAIN app'.queue :
             OldAt(0, i) \/ (NewAt(0, i) /\ app'.queue[i] = m)
      BY <1>0, <2>3, <2>4, QueueShapes
    <2>7. Shown(app') \subseteq Shown(app)
      BY <1>2, <2>4, <2>6 DEF Shown, OldAt
    <2>8. Checked(app') \subseteq Checked(app)
      BY <1>2, <2>4, <2>6 DEF Checked, RealChecks, RealEnds, OldAt
    <2>9. RequestInv'
      BY <1>0, <2>4, <2>7, <2>8, RequestsKept DEF IInv, Settled
    <2>10. QueueInv'
      BY <1>2, <2>6 DEF IInv, QueueInv, OldAt, MadeFrom
    <2>11. ApplyInv'
      <3>1. \A i \in DOMAIN app'.queue :
               \/ OldAt(0, i)
               \/ /\ NewAt(0, i)
                  /\ app'.queue[i].type # "answer"
                  /\ RealApply(app'.queue[i]) => app'.modals = <<>>
        BY <1>2, <2>1, <2>4, <2>6
      <3>2. BundleIsAtPath(app') => BundleIsAtPath(app)
        BY <2>4 DEF BundleIsAtPath
      <3>3. ApplyInv
        BY DEF IInv
      <3> QED
        BY <1>0, <2>3, <2>4, <3>1, <3>2, <3>3, ApplyKept
    <2>12. FreshInv'
      <3>1. \A q \in Path : Seen(q)' => Seen(q)
        BY <1>2, <2>4, <2>6, <2>7, <2>8 DEF Seen, OldAt
      <3>2. \A i \in DOMAIN app'.queue : OldAt(0, i) \/ ~WrittenPath(app'.queue[i])
        BY <1>2, <2>6 DEF WrittenPath
      <3>3. FreshInv
        BY DEF IInv
      <3> QED
        BY <1>0, <1>1, <2>3, <3>1, <3>2, <3>3, FreshKept
    <2> QED
      BY <2>3, <2>5, <2>9, <2>10, <2>11, <2>12, FitsNow DEF IInv
  <1> QED
    BY <1>3, <1>4

\* An answer goes before what waits, so that what waited after an apply still
\* does.
LEMMA AnswerKeeps ==
    ASSUME IInv, NEW yes \in BOOLEAN, Answer(yes) PROVE IInv'
  <1>0. /\ app \in App /\ made \in [Kinds -> Nat] /\ made' = made /\ TypeOK
        /\ app.modals # <<>> /\ app.modals \in Seq(Request)
        /\ app.queue \in Seq(Messages)
    BY DEF IInv, TypeOK, Answer, App
  <1> DEFINE shown == Last(app.modals)
             m == [type |-> "answer", yes |-> yes, shown |-> shown]
  <1>1. PICK n \in {1, 2} :
           /\ n <= Len(app.queue) + 1
           /\ app' = [app EXCEPT !.modals = Front(@), !.queue = InsertAt(@, n, m)]
    BY DEF Answer
  <1>2. /\ Front(app.modals) \in Seq(Request)
        /\ \A k \in DOMAIN Front(app.modals) :
              k \in DOMAIN app.modals /\ Front(app.modals)[k] = app.modals[k]
        /\ shown \in Request
        /\ Len(app.modals) \in DOMAIN app.modals /\ shown = app.modals[Len(app.modals)]
    BY <1>0, FrontFacts
  <1> HIDE DEF shown
  <1>3. m \in Messages /\ m.type = "answer" /\ m.shown = shown
    BY <1>2 DEF Messages, Answered
  <1> HIDE DEF m
  <1>4. /\ InsertAt(app.queue, n, m) \in Seq(Messages)
        /\ DOMAIN InsertAt(app.queue, n, m) = 1 .. Len(app.queue) + 1
        /\ DOMAIN app.queue = 1 .. Len(app.queue) /\ Len(app.queue) \in Nat
        /\ InsertAt(app.queue, n, m)[n] = m
        /\ \A j \in DOMAIN app.queue : j < n => InsertAt(app.queue, n, m)[j] = app.queue[j]
        /\ \A j \in DOMAIN app.queue : j >= n => InsertAt(app.queue, n, m)[j + 1] = app.queue[j]
    <2>1. Len(app.queue) \in Nat
      BY <1>0, LenProperties
    <2>2. n \in 1 .. Len(app.queue) + 1
      BY <1>1, <2>1
    <2>3. app.queue \in Seq(Messages) /\ m \in Messages
      BY <1>0, <1>3
    <2> QED
      BY <2>2, <2>3, InsertFacts
  <1>5. /\ app'.modals = Front(app.modals) /\ app'.checks = app.checks
        /\ app'.pending = app.pending /\ app'.path = app.path
        /\ app'.bundle = app.bundle
        /\ app'.loading = app.loading /\ app'.loadPath = app.loadPath
        /\ app'.queue = InsertAt(app.queue, n, m)
    BY <1>0, <1>1 DEF App
  <1>6. TypeOK'
    BY <1>0, <1>1, <1>2, <1>4 DEF TypeOK, App
  <1>7. Fits(app')
    <2>1. Fits(app)
      BY FitsNow DEF IInv
    <2> QED
      BY <1>0, <1>1, <2>1 DEF Fits, App
  \* Where message i was before.
  <1> DEFINE at(i) == IF i < n THEN i ELSE i - 1
  <1>8. \A i \in DOMAIN app'.queue : i # n =>
           /\ i \in Nat /\ at(i) \in DOMAIN app.queue
           /\ app'.queue[i] = app.queue[at(i)]
    <2> TAKE i \in DOMAIN app'.queue
    <2>1. i \in 1 .. Len(app.queue) + 1
      BY <1>4, <1>5
    <2>2. CASE i < n
      BY <1>1, <1>4, <1>5, <2>1, <2>2
    <2>3. CASE i > n
      <3>1. i - 1 \in DOMAIN app.queue /\ i - 1 >= n /\ (i - 1) + 1 = i
        BY <1>1, <1>4, <2>1, <2>3
      <3>2. app'.queue[(i - 1) + 1] = app.queue[i - 1]
        BY <1>4, <1>5, <3>1
      <3> QED
        BY <1>1, <2>1, <2>3, <3>1, <3>2
    <2> QED
      BY <1>1, <2>1, <2>2, <2>3
  <1>9. app'.queue[n] = m /\ n \in DOMAIN app'.queue /\ n \in Nat
    BY <1>1, <1>4, <1>5
  <1>10. \A i, j \in DOMAIN app'.queue : i # n /\ j # n /\ i < j => at(i) < at(j)
    BY <1>4, <1>5, <1>9
  <1> HIDE DEF at
  <1>11. Shown(app') \subseteq Shown(app)
    <2>1. ASSUME NEW i \in DOMAIN app'.queue, app'.queue[i].type = "answer"
          PROVE  app'.queue[i].shown \in Shown(app)
      BY <1>2, <1>3, <1>8, <1>9, <2>1 DEF Shown
    <2>2. ASSUME NEW k \in DOMAIN app'.modals PROVE app'.modals[k] \in Shown(app)
      BY <1>2, <1>5, <2>2 DEF Shown
    <2> QED
      BY <2>1, <2>2 DEF Shown
  <1>12. Checked(app') \subseteq Checked(app)
    <2>1. \A i \in RealEnds(app') : at(i) \in RealEnds(app) /\ app'.queue[i] = app.queue[at(i)]
      BY <1>3, <1>8, <1>9 DEF RealEnds
    <2>2. RealChecks(app') = RealChecks(app)
      BY <1>5 DEF RealChecks
    <2> QED
      BY <1>5, <2>1, <2>2 DEF Checked
  <1>13. RequestInv'
    BY <1>0, <1>5, <1>11, <1>12, RequestsKept DEF IInv, Settled
  <1>14. QueueInv'
    BY <1>3, <1>8, <1>9 DEF IInv, QueueInv, MadeFrom
  <1>15. ApplyInv'
    <2> SUFFICES ASSUME NEW i \in DOMAIN app'.queue, RealApply(app'.queue[i]),
                        Loaded(i)'
                 PROVE  /\ \A k \in DOMAIN app'.modals :
                              app'.modals[k].bundle.from = app'.path
                        /\ \A k \in DOMAIN app'.queue :
                              k > i /\ app'.queue[k].type = "answer" =>
                                  app'.queue[k].shown.bundle.from = app'.path
      BY DEF ApplyInv
    <2>1. i # n
      BY <1>3, <1>9 DEF RealApply
    <2>2. at(i) \in DOMAIN app.queue /\ RealApply(app.queue[at(i)])
      BY <1>8, <2>1
    <2>3. Loaded(at(i))
      <3>1. CASE BundleIsAtPath(app')
        BY <1>5, <3>1 DEF Loaded, BundleIsAtPath
      <3>2. CASE \E j \in DOMAIN app'.queue : /\ j < i
                                              /\ app'.queue[j].type = "loaded"
                                              /\ app'.queue[j].of = app'.path
        <4>1. PICK j \in DOMAIN app'.queue : /\ j < i
                                             /\ app'.queue[j].type = "loaded"
                                             /\ app'.queue[j].of = app'.path
          BY <3>2
        <4>2. j # n
          BY <1>3, <1>9, <4>1
        <4>3. at(j) < at(i)
          BY <1>10, <2>1, <4>1, <4>2
        <4> QED
          BY <1>5, <1>8, <4>1, <4>2, <4>3 DEF Loaded
      <3> QED
        BY <3>1, <3>2 DEF Loaded
    <2>4. /\ \A k \in DOMAIN app.modals : app.modals[k].bundle.from = app.path
          /\ \A k \in DOMAIN app.queue :
                k > at(i) /\ app.queue[k].type = "answer" =>
                    app.queue[k].shown.bundle.from = app.path
      BY <2>2, <2>3 DEF IInv, ApplyInv
    <2>5. ASSUME NEW k \in DOMAIN app'.queue, k > i, app'.queue[k].type = "answer"
          PROVE  app'.queue[k].shown.bundle.from = app'.path
      <3>1. CASE k = n
        BY <1>2, <1>3, <1>5, <1>9, <2>4, <3>1
      <3>2. CASE k # n
        <4>1. i < k /\ i \in Nat /\ k \in Nat
          BY <1>8, <2>1, <2>5, <3>2
        <4>2. at(i) < at(k)
          BY <1>10, <2>1, <3>2, <4>1
        <4>3. at(k) \in DOMAIN app.queue /\ at(i) \in Nat /\ at(k) \in Nat
          BY <1>4, <1>8, <2>2, <3>2
        <4> QED
          BY <1>5, <1>8, <2>4, <2>5, <3>2, <4>2, <4>3
      <3> QED
        BY <3>1, <3>2
    <2> QED
      BY <1>2, <1>5, <2>4, <2>5
  <1>16. FreshInv'
    <2>1. \A q \in Path : Seen(q)' => Seen(q)
      BY <1>3, <1>5, <1>8, <1>9, <1>11, <1>12 DEF Seen
    <2>2. \A i \in DOMAIN app'.queue : WrittenPath(app'.queue[i]) => i # n
      BY <1>3, <1>9 DEF WrittenPath
    <2>3. \A i \in DOMAIN app'.queue : i # n =>
             /\ at(i) \in DOMAIN app.queue
             /\ app'.queue[i] = app.queue[at(i)]
             /\ app.queue[at(i)] \in Messages
      BY <1>0, <1>8
    <2>4. \A q \in Path : Seen(q)' => q.n <= made'["path"]
      BY <1>0, <2>1 DEF IInv, FreshInv
    <2>5. ASSUME NEW i \in DOMAIN app'.queue, WrittenPath(app'.queue[i])
          PROVE  app'.queue[i].path.n <= made'["path"] /\ ~Seen(app.queue[i].path)'
      <3> DEFINE q == app'.queue[i].path
      <3>1. q \in Path /\ ~Seen(q) /\ q.n <= made["path"]
        BY <2>2, <2>3, <2>5, MessageTypes, OptFacts DEF IInv, FreshInv, WrittenPath
      <3>2. \A r : r = q => ~Seen(r)'
        BY <2>1, <3>1
      <3>3. ~Seen(app.queue[i].path)'
        BY <3>2
      <3> QED
        BY <1>0, <3>1, <3>3
    <2>6. ASSUME NEW i \in DOMAIN app'.queue, NEW j \in DOMAIN app'.queue,
                 WrittenPath(app'.queue[i]), WrittenPath(app'.queue[j]),
                 app'.queue[i].path = app'.queue[j].path
          PROVE  i = j
      <3>1. i # n /\ j # n /\ at(i) = at(j)
        BY <2>2, <2>3, <2>6 DEF IInv, FreshInv
      <3>2. i \in Nat /\ j \in Nat /\ at(i) \in Nat /\ at(j) \in Nat
        BY <1>4, <1>8, <3>1
      <3>3. ~(i < j) /\ ~(j < i)
        BY <1>10, <3>1, <3>2
      <3> QED
        BY <3>2, <3>3
    <2> QED
      BY <2>4, <2>5, <2>6 DEF FreshInv
  <1> QED
    BY <1>6, <1>7, <1>13, <1>14, <1>15, <1>16, FitsNow DEF IInv
\* A check that starts is of what the session holds, and so is all that is
\* shown, or it would have been answered before.
LEMMA OnApplyOperationRequestedKeeps ==
    ASSUME IInv, OnApplyOperationRequested PROVE IInv'
  <1>0. /\ app.queue # <<>> /\ made' = made /\ Message.type = "apply"
        /\ TypeOK /\ app \in App /\ made \in [Kinds -> Nat]
    BY DEF OnApplyOperationRequested, Handling, IInv, TypeOK
  <1>1. /\ Taken \in App /\ Fits(Taken) /\ Calm(app, Taken)
        /\ Taken.queue = Tail(app.queue)
        /\ Message.dry \in BOOLEAN
        /\ 1 \in DOMAIN app.queue /\ Message = app.queue[1]
    BY <1>0, TakenFacts, MessageTypes
  <1>2. CASE app' = Taken
    BY <1>0, <1>1, <1>2, QuietUpdates, QuietHandled
  <1>3. CASE BundleIsAtPath(app) /\ app' = StartSourceCheck(Taken, Message.dry)
    <2> DEFINE new == [profile |-> app.selected, bundle |-> app.bundle,
                       dry |-> Message.dry, cancelled |-> FALSE]
               old == CancelAll(app.checks)
               w == Append(old, new)
    <2>1. /\ Taken.selected = app.selected /\ Taken.bundle = app.bundle
          /\ Taken.checks = app.checks /\ Taken.path = app.path
          /\ Taken.pending = app.pending /\ Taken.modals = app.modals
          /\ Taken.loading = app.loading /\ Taken.loadPath = app.loadPath
      BY <1>0 DEF Taken, App
    <2>2. app' = [Taken EXCEPT !.operation = "loading", !.checks = w]
      BY <1>1, <1>3, <2>1 DEF StartSourceCheck, App
    <2>3. /\ app.bundle \in Bundle /\ app.path \in Path /\ app.bundle.from = app.path
          /\ app.selected \in Profile /\ app.checks \in Seq(Check)
      BY <1>0, <1>3, OptFacts DEF BundleIsAtPath, App
    <2>4. new \in Check
      BY <1>1, <2>3 DEF Check
    <2>5. /\ old \in Seq(Check)
          /\ DOMAIN old = DOMAIN app.checks
          /\ \A i \in DOMAIN old : Ask(old[i]) = Ask(app.checks[i])
                                   /\ old[i].dry = app.checks[i].dry
      <3>1. \A x \in Check : /\ [x EXCEPT !.cancelled = TRUE] \in Check
                             /\ Ask([x EXCEPT !.cancelled = TRUE]) = Ask(x)
                             /\ [x EXCEPT !.cancelled = TRUE].dry = x.dry
        BY DEF Check, Ask
      <3>2. \A i \in DOMAIN app.checks :
               app.checks[i] \in Check /\ old[i] = [app.checks[i] EXCEPT !.cancelled = TRUE]
        BY <2>3 DEF CancelAll
      <3>3. old \in Seq(Check) /\ DOMAIN old = DOMAIN app.checks
        BY <2>3, <3>1, CancelAllType
      <3> QED
        BY <3>1, <3>2, <3>3
    <2>6. /\ new.dry = Message.dry
          /\ Ask(new) = [profile |-> app.selected, bundle |-> app.bundle]
      BY DEF Ask
    <2> HIDE DEF new, old
    <2>7. /\ w \in Seq(Check)
          /\ DOMAIN w = 1 .. Len(old) + 1 /\ DOMAIN old = 1 .. Len(old)
          /\ Len(old) \in Nat
          /\ w[Len(old) + 1] = new
          /\ \A i \in DOMAIN old : w[i] = old[i]
      BY <2>4, <2>5, AppendFacts
    <2> HIDE DEF w
    <2>8. app' \in App
      BY <1>1, <2>2, <2>7 DEF App
    <2>9. /\ app'.modals = app.modals /\ app'.checks = w
          /\ app'.pending = app.pending /\ app'.path = app.path
          /\ app'.bundle = app.bundle
          /\ app'.loading = app.loading /\ app'.loadPath = app.loadPath
          /\ app'.queue = Tail(app.queue)
      BY <1>1, <2>1, <2>2 DEF App
    <2>10. Fits(app')
      BY <1>1, <2>2 DEF Fits, App
    <2>11. TypeOK'
      BY <1>0, <2>8 DEF TypeOK
    <2>12. \A i \in DOMAIN app'.queue : OldAt(1, i)
      BY <1>0, <2>9, <2>11, QueueShapes
    <2>13. Shown(app') \subseteq Shown(app)
      BY <2>9, <2>12 DEF Shown, OldAt
    <2>14. \A c \in Checked(app') :
              \/ c \in Checked(app)
              \/ ~Message.dry /\ c = [profile |-> app.selected, bundle |-> app.bundle]
      <3>1. ASSUME NEW i \in RealChecks(app')
            PROVE  \/ Ask(app'.checks[i]) \in Checked(app)
                   \/ /\ ~Message.dry
                      /\ Ask(app'.checks[i]) = [profile |-> app.selected, bundle |-> app.bundle]
        <4>1. i \in DOMAIN w /\ ~w[i].dry
          BY <2>9 DEF RealChecks
        <4>2. CASE i \in DOMAIN old
          BY <2>5, <2>7, <2>9, <4>1, <4>2 DEF Checked, RealChecks
        <4>3. CASE i = Len(old) + 1
          BY <2>6, <2>7, <2>9, <4>1, <4>3
        <4> QED
          BY <2>7, <4>1, <4>2, <4>3
      <3>2. \A i \in RealEnds(app') : Ask(app'.queue[i].check) \in Checked(app)
        BY <2>12 DEF RealEnds, OldAt, Checked
      <3> QED
        BY <2>9, <3>1, <3>2 DEF Checked
    <2>15. Now(app', [profile |-> app.selected, bundle |-> app.bundle])
      <3>1. app.path.from = app.plan /\ app.plan # None => app.plan.from.from = app.selected
        BY <2>3, NotNone DEF IInv, ArtifactsMatch
      <3>2. app.plan # None
        BY <2>3, NotNone DEF IInv, ArtifactsMatch, Path
      <3> QED
        BY <2>3, <2>9, <3>1, <3>2, NotNone DEF IInv, ArtifactsMatch, Now, ProfileOf
    <2>16. ~Message.dry => \A r \in Shown(app') : r.bundle.from = app'.path
      <3> SUFFICES ASSUME ~Message.dry, NEW r \in Shown(app')
                   PROVE  r.bundle.from = app.path
        BY <2>9
      <3>1. RealApply(app.queue[1]) /\ Loaded(1)
        BY <1>0, <1>1, <1>3 DEF RealApply, Loaded
      <3>2. /\ \A k \in DOMAIN app.modals : app.modals[k].bundle.from = app.path
            /\ \A k \in DOMAIN app.queue :
                  k > 1 /\ app.queue[k].type = "answer" =>
                      app.queue[k].shown.bundle.from = app.path
        BY <1>1, <3>1 DEF IInv, ApplyInv
      <3>3. ASSUME NEW k \in DOMAIN app'.queue, app'.queue[k].type = "answer"
            PROVE  app'.queue[k].shown.bundle.from = app.path
        <4>1. k \in Nat \ {0}
          BY <2>8, LenProperties DEF App
        <4>2. OldAt(1, k)
          BY <2>12
        <4> QED
          BY <3>2, <3>3, <4>1, <4>2 DEF OldAt
      <3> QED
        BY <2>9, <3>2, <3>3 DEF Shown
    <2>17. RequestInv'
      BY <1>0, <2>9, <2>13, <2>14, <2>15, <2>16, RequestsKept DEF IInv, Settled
    <2>18. QueueInv'
      BY <2>12 DEF IInv, QueueInv, OldAt
    <2>19. ApplyInv'
      <3>1. BundleIsAtPath(app') => BundleIsAtPath(app)
        BY <1>3
      <3>2. ApplyInv
        BY DEF IInv
      <3> QED
        BY <1>0, <2>9, <2>11, <2>12, <3>1, <3>2, ApplyKept
    <2>20. FreshInv'
      <3>1. ASSUME NEW q \in Path, Seen(q)' PROVE Seen(q)
        <4>1. CASE \E r \in Shown(app') \cup Checked(app') : r.bundle.from = q
          <5>1. \A c \in Checked(app') : c \in Checked(app) \/ c.bundle.from = app.path
            BY <2>3, <2>14
          <5> QED
            BY <2>13, <4>1, <5>1 DEF Seen
        <4>2. CASE ~ \E r \in Shown(app') \cup Checked(app') : r.bundle.from = q
          BY <2>9, <2>12, <3>1, <4>2 DEF Seen, OldAt
        <4> QED
          BY <4>1, <4>2
      <3>2. FreshInv /\ made["path"] <= made'["path"]
        BY <1>0 DEF IInv, Kinds
      <3> QED
        BY <1>0, <2>11, <2>12, <3>1, <3>2, FreshKept
    <2> QED
      BY <2>10, <2>11, <2>17, <2>18, <2>19, <2>20, FitsNow DEF IInv
  <1> QED
    BY <1>2, <1>3 DEF OnApplyOperationRequested

\* A check that ends is in its message until that is handled.
LEMMA RunApplySourceCheckKeeps ==
    ASSUME IInv, NEW n \in DOMAIN app.checks, RunApplySourceCheck(n) PROVE IInv'
  <1>0. /\ TypeOK /\ app \in App /\ made \in [Kinds -> Nat] /\ made' = made
        /\ app.checks \in Seq(Check)
    BY DEF RunApplySourceCheck, IInv, TypeOK, App
  <1>1. PICK ok \in BOOLEAN :
           app' = [Post(app, [type |-> "checked", check |-> app.checks[n], ok |-> ok])
                     EXCEPT !.checks = RemoveAt(@, n)]
    BY DEF RunApplySourceCheck
  <1> DEFINE m == [type |-> "checked", check |-> app.checks[n], ok |-> ok]
             w == RemoveAt(app.checks, n)
  <1>2. app.checks[n] \in Check
    BY <1>0
  <1>3. m \in Messages /\ m.type = "checked" /\ m.check = app.checks[n]
    BY <1>2 DEF Messages, Posted
  <1>4. /\ w \in Seq(Check)
        /\ \A j \in DOMAIN w : \E k \in DOMAIN app.checks : w[j] = app.checks[k]
    BY <1>0, RemoveFacts
  <1> HIDE DEF m
  <1>5. Append(app.queue, m) \in Seq(Messages)
    BY <1>0, <1>3, AppendFacts DEF App
  <1>6. app' = [app EXCEPT !.queue = Append(app.queue, m), !.checks = w]
    BY <1>0, <1>1 DEF Post, App, m
  <1> HIDE DEF w
  <1>7. TypeOK'
    BY <1>0, <1>4, <1>5, <1>6 DEF TypeOK, App
  <1>8. /\ app'.modals = app.modals /\ app'.checks = w
        /\ app'.pending = app.pending /\ app'.path = app.path
        /\ app'.bundle = app.bundle
        /\ app'.loading = app.loading /\ app'.loadPath = app.loadPath
        /\ app'.queue = Append(app.queue, m)
    BY <1>0, <1>6 DEF App
  <1>9. Fits(app')
    <2>1. Fits(app)
      BY FitsNow DEF IInv
    <2> QED
      BY <1>0, <1>6, <2>1 DEF Fits, App
  <1>10. \A i \in DOMAIN app'.queue :
            OldAt(0, i) \/ (NewAt(0, i) /\ app'.queue[i] = m)
    BY <1>0, <1>3, <1>7, <1>8, QueueShapes
  <1>11. Shown(app') \subseteq Shown(app)
    BY <1>3, <1>8, <1>10 DEF Shown, OldAt
  <1>12. Checked(app') \subseteq Checked(app)
    <2>1. \A j \in RealChecks(app') : Ask(app'.checks[j]) \in Checked(app)
      BY <1>4, <1>8 DEF RealChecks, Checked
    <2>2. ASSUME NEW i \in RealEnds(app') PROVE Ask(app'.queue[i].check) \in Checked(app)
      <3>1. CASE OldAt(0, i)
        BY <2>2, <3>1 DEF RealEnds, OldAt, Checked
      <3>2. CASE app'.queue[i] = m
        BY <1>3, <2>2, <3>2 DEF RealEnds, RealChecks, Checked
      <3> QED
        BY <1>10, <2>2, <3>1, <3>2 DEF RealEnds
    <2> QED
      BY <1>8, <2>1, <2>2 DEF Checked
  <1>13. RequestInv'
    BY <1>0, <1>8, <1>11, <1>12, RequestsKept DEF IInv, Settled
  <1>14. QueueInv'
    BY <1>3, <1>10 DEF IInv, QueueInv, OldAt, MadeFrom
  <1>15. ApplyInv'
    <2>1. \A i \in DOMAIN app'.queue :
             \/ OldAt(0, i)
             \/ /\ NewAt(0, i)
                /\ app'.queue[i].type # "answer"
                /\ RealApply(app'.queue[i]) => app'.modals = <<>>
      BY <1>3, <1>10 DEF RealApply
    <2>2. BundleIsAtPath(app') => BundleIsAtPath(app)
      BY <1>8 DEF BundleIsAtPath
    <2>3. ApplyInv
      BY DEF IInv
    <2> QED
      BY <1>0, <1>7, <1>8, <2>1, <2>2, <2>3, ApplyKept
  <1>16. FreshInv'
    <2>1. \A q \in Path : Seen(q)' => Seen(q)
      BY <1>3, <1>8, <1>10, <1>11, <1>12 DEF Seen, OldAt
    <2>2. \A i \in DOMAIN app'.queue : OldAt(0, i) \/ ~WrittenPath(app'.queue[i])
      BY <1>3, <1>10 DEF WrittenPath
    <2>3. FreshInv /\ made["path"] <= made'["path"]
      BY <1>0 DEF IInv, Kinds
    <2> QED
      BY <1>0, <1>7, <2>1, <2>2, <2>3, FreshKept
  <1> QED
    BY <1>7, <1>9, <1>13, <1>14, <1>15, <1>16, FitsNow DEF IInv

\* The operator is asked about what the session holds.
LEMMA OnApplySourceCheckFinishedKeeps ==
    ASSUME IInv, OnApplySourceCheckFinished PROVE IInv'
  <1>0. /\ app.queue # <<>> /\ made' = made /\ Message.type = "checked"
        /\ TypeOK /\ app \in App /\ made \in [Kinds -> Nat] /\ app.modals \in Seq(Request)
    BY DEF OnApplySourceCheckFinished, Handling, IInv, TypeOK, App
  <1>1. /\ Taken \in App /\ Fits(Taken)
        /\ Taken.queue = Tail(app.queue)
        /\ Message.check \in Check
        /\ 1 \in DOMAIN app.queue /\ Message = app.queue[1]
    BY <1>0, TakenFacts, MessageTypes
  <1> DEFINE request == Ask(Message.check)
             ended == [Taken EXCEPT !.operation = "none"]
             w == Append(ended.modals, request)
  <1>2. ended \in App /\ Quiet(Taken, ended)
    BY <1>1, QuietUpdates DEF App
  <1>3. CASE app' = ended
    BY <1>0, <1>2, <1>3, QuietHandled
  <1>4. CASE /\ StillCurrent(app, Message.check)
             /\ ~Message.check.dry
             /\ app' = [ended EXCEPT !.pending = request, !.modals = Append(@, request)]
    <2>1. app' = [ended EXCEPT !.pending = request, !.modals = w]
      BY <1>2, <1>4 DEF App
    <2>2. request \in Request /\ request.bundle = Message.check.bundle
      BY <1>1 DEF Ask, Check, Request
    <2>3. request \in Checked(app)
      BY <1>0, <1>1, <1>4 DEF Checked, RealEnds
    <2>4. request.bundle.from = app.path /\ app.bundle = request.bundle
      BY <1>4, <2>2 DEF StillCurrent, BundleIsAtPath
    <2>5. request.profile = ProfileOf(request.bundle)
      BY <2>3 DEF IInv, RequestInv, ProfileInv
    <2>6. /\ ended.modals = app.modals /\ ended.checks = app.checks
          /\ ended.path = app.path /\ ended.bundle = app.bundle
          /\ ended.loading = app.loading /\ ended.loadPath = app.loadPath
          /\ ended.queue = Tail(app.queue) /\ Fits(ended)
      <3>1. /\ Taken.modals = app.modals /\ Taken.checks = app.checks
            /\ Taken.path = app.path /\ Taken.bundle = app.bundle
            /\ Taken.loading = app.loading /\ Taken.loadPath = app.loadPath
        BY <1>0 DEF Taken, App
      <3> QED
        BY <1>1, <1>2, <3>1 DEF Quiet, App
    <2> HIDE DEF request, ended
    <2>7. /\ w \in Seq(Request)
          /\ DOMAIN w = 1 .. Len(app.modals) + 1
          /\ DOMAIN app.modals = 1 .. Len(app.modals) /\ Len(app.modals) \in Nat
          /\ w[Len(app.modals) + 1] = request
          /\ \A k \in DOMAIN app.modals : w[k] = app.modals[k]
      BY <1>0, <2>2, <2>6, AppendFacts
    <2> HIDE DEF w
    <2>8. \A k \in DOMAIN w : w[k] = request \/ (k \in DOMAIN app.modals /\ w[k] = app.modals[k])
      BY <2>7
    <2>9. TypeOK'
      BY <1>0, <1>2, <2>1, <2>2, <2>7, OptFacts DEF TypeOK, App
    <2>10. /\ app'.modals = w /\ app'.checks = app.checks
           /\ app'.pending = request /\ app'.path = app.path
           /\ app'.bundle = app.bundle
           /\ app'.loading = app.loading /\ app'.loadPath = app.loadPath
           /\ app'.queue = Tail(app.queue)
      BY <1>2, <2>1, <2>6 DEF App
    <2>11. Fits(app')
      BY <1>2, <2>1, <2>6 DEF Fits, App
    <2>12. \A i \in DOMAIN app'.queue : OldAt(1, i)
      BY <1>0, <2>9, <2>10, QueueShapes
    <2>13. \A r \in Shown(app') : r \in Shown(app) \/ r = request
      BY <2>8, <2>10, <2>12 DEF Shown, OldAt
    <2>14. Checked(app') \subseteq Checked(app)
      BY <2>3, <2>10, <2>12 DEF Checked, RealChecks, RealEnds, OldAt
    <2>15. Now(app', request)
      BY <2>4, <2>5, <2>10 DEF Now
    <2>16. RequestInv'
      BY <1>0, <2>10, <2>13, <2>14, <2>15, RequestsKept DEF IInv, Settled
    <2>17. QueueInv'
      BY <2>12 DEF IInv, QueueInv, OldAt
    <2>18. ApplyInv'
      <3>1. BundleIsAtPath(app') => BundleIsAtPath(app)
        BY <2>10 DEF BundleIsAtPath
      <3>2. \A k \in DOMAIN app'.modals :
               \/ app'.modals[k].bundle.from = app'.path
               \/ \E l \in DOMAIN app.modals : app'.modals[k] = app.modals[l]
        BY <2>4, <2>8, <2>10
      <3>3. ApplyInv
        BY DEF IInv
      <3> QED
        BY <1>0, <2>9, <2>10, <2>12, <3>1, <3>2, <3>3, ApplyKept
    <2>19. FreshInv'
      <3>1. ASSUME NEW q \in Path, Seen(q)' PROVE Seen(q)
        BY <2>3, <2>10, <2>12, <2>13, <2>14, <3>1 DEF Seen, OldAt
      <3>2. FreshInv /\ made["path"] <= made'["path"]
        BY <1>0 DEF IInv, Kinds
      <3> QED
        BY <1>0, <2>9, <2>12, <3>1, <3>2, FreshKept
    <2> QED
      BY <2>9, <2>11, <2>16, <2>17, <2>18, <2>19, FitsNow DEF IInv
  <1>5. app' = ended \/ (/\ StillCurrent(app, Message.check)
                         /\ ~Message.check.dry
                         /\ app' = [ended EXCEPT !.pending = request,
                                                 !.modals = Append(@, request)])
    BY DEF OnApplySourceCheckFinished, Ask
  <1> QED
    BY <1>3, <1>4, <1>5
-----------------------------------------------------------------------------
(* The invariant                                                           *)

LEMMA InitIInv == Init => IInv
  <1> SUFFICES ASSUME Init PROVE IInv
    OBVIOUS
  <1>1. TypeOK
    BY OptFacts DEF Init, TypeOK, App, Kinds
  <1>2. Fits(app)
    BY DEF Init, Fits
  <1>3. /\ app.queue = <<>> /\ app.modals = <<>> /\ app.checks = <<>>
        /\ app.pending = None /\ app.path = None /\ app.loadPath = None
        /\ app.loading = None
    BY DEF Init
  <1>4. Shown(app) = {} /\ Checked(app) = {}
    BY <1>3 DEF Shown, Checked, RealChecks, RealEnds
  <1>5. QueueInv /\ RequestInv /\ ApplyInv
    BY <1>3, <1>4 DEF QueueInv, RequestInv, ProfileInv, CurrentInv, AskedInv, ApplyInv
  <1>6. FreshInv
    BY <1>3, <1>4, NotNone DEF FreshInv, Seen
  <1> QED
    BY <1>1, <1>2, <1>5, <1>6, FitsNow DEF IInv

LEMMA StepIInv ==
    ASSUME IInv, [Next]_vars PROVE IInv'
  <1>1. CASE UNCHANGED vars
    <2>1. app' = app /\ made' = made
      BY <1>1 DEF vars
    <2>2. TypeOK' /\ made["path"] <= made'["path"]
      BY <2>1 DEF IInv, TypeOK, Kinds
    <2>3. Quiet(app, app')
      BY <2>1, QuietUpdates DEF IInv, TypeOK
    <2> QED
      BY <2>2, <2>3, QuietStep
  <1>2. ASSUME NEW m \in Input, Press(m) PROVE IInv'
    BY <1>2, PressKeeps
  <1>3. ASSUME NEW yes \in BOOLEAN, Answer(yes) PROVE IInv'
    BY <1>3, AnswerKeeps
  <1>4. CASE HandleMessage
    BY <1>4, OnProfileSelectedKeeps, StartTestBothKeeps,
       OnGenerateMigrationRequestedKeeps, OnSaveBundleRequestedKeeps,
       OnMigrationGeneratedKeeps, OnMigrationBundleWrittenKeeps,
       OnApplyBundleLoadedKeeps, OnSwitchViewKeeps, DispatchApplyDryRunKeeps,
       OnApplyOperationRequestedKeeps, OnApplySourceCheckFinishedKeeps,
       OnApplyConfirmationKeeps, OnApplyOperationFinishedKeeps,
       OnCancelApplyRequestedKeeps, OnHistoryLoadFinishedKeeps
    DEF HandleMessage
  <1>5. CASE CompareProfile \/ GenerateMigration \/ WriteMigrationBundle
             \/ LoadApplyBundle \/ SomeCheckEnds
    BY <1>5, CompareProfileKeeps, GenerateMigrationKeeps,
       WriteMigrationBundleKeeps, LoadApplyBundleKeeps, RunApplySourceCheckKeeps
    DEF SomeCheckEnds
  <1>6. CASE ReaderEnters \/ ReaderEnds \/ ReaderLeaves
    BY <1>6, ReaderKeeps
  <1>7. CASE SomeApplierEnters \/ SomeApplierEnds
    BY <1>7, ApplierKeeps DEF SomeApplierEnters, SomeApplierEnds
  <1> QED
    BY <1>1, <1>2, <1>3, <1>4, <1>5, <1>6, <1>7 DEF Next

\* What the proofs of the properties rest on holds in every state.
THEOREM SessionInvariance == Spec => []IInv
  BY InitIInv, StepIInv, PTL DEF Spec

\* The types of the session, of its messages and of its workers
\* (PgSchemaDiffApp and SessionState).
THEOREM SessionTypeCorrect == Spec => []TypeOK
  <1>1. IInv => TypeOK
    BY DEF IInv
  <1> QED
    BY <1>1, SessionInvariance, PTL

\* What the session holds fits together, whatever was generated, saved, loaded
\* or dropped, in which order (the methods of PgSchemaDiffApp that clear it).
THEOREM ArtifactsFit == Spec => []ArtifactsMatch
  <1>1. IInv => ArtifactsMatch
    BY DEF IInv
  <1> QED
    BY <1>1, SessionInvariance, PTL

-----------------------------------------------------------------------------
(* Applies: what starts them, and what the session knows of them            *)

Waiting(a) == \E i \in DOMAIN a.queue : a.queue[i].type = "applied"

\* From a to b no apply starts or ends, and the end of one is not lost while
\* the session waits for it.
Steady(a, b) ==
    /\ b.appliers = a.appliers
    /\ b.operation = "apply" =>
         /\ a.operation = "apply"
         /\ b.applyKnown = a.applyKnown
         /\ Waiting(a) => Waiting(b)

LEMMA SteadyThenSteady ==
    ASSUME NEW a, NEW b, NEW c, Steady(a, b), Steady(b, c) PROVE Steady(a, c)
  BY DEF Steady

LEMMA SteadyUpdates ==
    ASSUME NEW a \in App, NEW x
    PROVE  /\ Steady(a, a)
           /\ Steady(a, [a EXCEPT !.busy = x])
           /\ Steady(a, [a EXCEPT !.onApply = x])
           /\ Steady(a, [a EXCEPT !.dryPending = x])
           /\ Steady(a, [a EXCEPT !.comparing = x])
           /\ Steady(a, [a EXCEPT !.generating = x])
           /\ Steady(a, [a EXCEPT !.saving = x])
           /\ Steady(a, [a EXCEPT !.loadPath = x])
           /\ Steady(a, [a EXCEPT !.pending = x])
           /\ x # "apply" => Steady(a, [a EXCEPT !.operation = x])
  BY DEF Steady, Waiting, App

\* Another message in the queue loses none.
LEMMA PostIsSteady ==
    ASSUME NEW a \in App, NEW m \in Messages PROVE Steady(a, Post(a, m))
  <1> DEFINE b == Post(a, m)
  <1>1. /\ b.appliers = a.appliers /\ b.operation = a.operation
        /\ b.applyKnown = a.applyKnown /\ b.queue = Append(a.queue, m)
        /\ a.queue \in Seq(Messages)
    BY DEF Post, App
  <1>2. Waiting(a) => Waiting(b)
    BY <1>1, AppendFacts DEF Waiting
  <1> QED
    BY <1>1, <1>2 DEF Steady

LEMMA SteadyMethods ==
    ASSUME NEW a \in App
    PROVE  /\ Steady(a, CancelHistoryWorker(a))
           /\ Steady(a, StartHistoryLoad(a))
           /\ Steady(a, CancelBundleLoad(a))
           /\ Steady(a, CancelMigrationGeneration(a))
           /\ Steady(a, ClearApply(a))
           /\ Steady(a, ClearMigration(a))
           /\ Steady(a, InvalidateMigration(a))
           /\ \A p \in Profile : Steady(a, SelectProfile(a, p))
           /\ Steady(a, EnsureApplyBundleLoaded(a))
           /\ \A v \in {"apply", "history", "other"} : Steady(a, SwitchView(a, v))
           /\ Steady(a, RequestPaletteDryRun(a))
           /\ \A dry : Steady(a, StartSourceCheck(a, dry))
  <1>1. \A b \in App : Steady(b, CancelHistoryWorker(b))
    BY DEF CancelHistoryWorker, Steady, Waiting, App
  <1>2. \A b \in App : Steady(b, StartHistoryLoad(b))
    BY DEF StartHistoryLoad, Steady, Waiting, App
  <1>3. \A b \in App : Steady(b, CancelBundleLoad(b))
    BY DEF CancelBundleLoad, Steady, Waiting, App
  <1>4. \A b \in App : Steady(b, CancelMigrationGeneration(b))
    BY DEF CancelMigrationGeneration, Steady, Waiting, App
  <1>5. \A b \in App : Steady(b, ClearApply(b))
    BY DEF ClearApply, Steady, Waiting, App
  <1>6. \A b \in App : Steady(b, ClearMigration(b))
    BY DEF ClearMigration, ClearApply, Steady, Waiting, App
  <1>7. \A b \in App : Steady(b, InvalidateMigration(b))
    BY DEF InvalidateMigration, CancelMigrationGeneration, CancelBundleLoad,
           ClearMigration, ClearApply, Steady, Waiting, App
  <1>8. \A b \in App : \A p \in Profile : Steady(b, SelectProfile(b, p))
    BY DEF SelectProfile, ClearMigration, ClearApply, Steady, Waiting, App
  <1>9. \A b \in App : Steady(b, EnsureApplyBundleLoaded(b))
    <2> TAKE b \in App
    <2> DEFINE c == CancelBundleLoad(b)
    <2>1. c \in App /\ Steady(b, c) /\ Steady(c, ClearApply(c))
      BY <1>3, <1>5, MethodTypes
    <2> HIDE DEF c
    <2>2. Steady(c, [c EXCEPT !.bundle = None, !.operation = "loading",
                              !.loadPath = b.path, !.loading = b.path])
      BY <2>1 DEF Steady, Waiting, App
    <2>3. EnsureApplyBundleLoaded(b) \in
             {ClearApply(c), b, [c EXCEPT !.bundle = None, !.operation = "loading",
                                          !.loadPath = b.path, !.loading = b.path]}
      BY DEF EnsureApplyBundleLoaded, c
    <2> QED
      BY <2>1, <2>2, <2>3, SteadyUpdates, SteadyThenSteady
  <1>10. \A b \in App : \A v \in {"apply", "history", "other"} : Steady(b, SwitchView(b, v))
    <2> TAKE b \in App
    <2> TAKE v \in {"apply", "history", "other"}
    <2> DEFINE c == [b EXCEPT !.onApply = (v = "apply")]
    <2>1. c \in App /\ Steady(b, c)
      BY SteadyUpdates DEF App
    <2>2. SwitchView(b, v) \in {EnsureApplyBundleLoaded(c), StartHistoryLoad(c), c}
      BY DEF SwitchView
    <2> HIDE DEF c
    <2>3. Steady(c, c) /\ Steady(c, StartHistoryLoad(c)) /\ Steady(c, EnsureApplyBundleLoaded(c))
      BY <1>2, <1>9, <2>1, SteadyUpdates
    <2> QED
      BY <2>1, <2>2, <2>3, SteadyThenSteady
  <1>11. \A b \in App : Steady(b, RequestPaletteDryRun(b))
    BY ApplyDryIsCalm, PostIsSteady, SteadyUpdates DEF RequestPaletteDryRun, CalmMessage
  <1>12. \A b \in App : \A dry : Steady(b, StartSourceCheck(b, dry))
    BY DEF StartSourceCheck, Steady, Waiting, App
  <1> QED
    BY <1>1, <1>2, <1>3, <1>4, <1>5, <1>6, <1>7, <1>8, <1>9, <1>10, <1>11, <1>12

\* Unless the end of an apply is handled, taking the message is steady, too.
LEMMA TakenIsSteady ==
    ASSUME TypeOK, app.queue # <<>>, Message.type # "applied"
    PROVE  Taken \in App /\ Steady(app, Taken)
  <1>1. app \in App /\ app.queue \in Seq(Messages)
    BY DEF TypeOK, App
  <1>2. /\ Tail(app.queue) \in Seq(Messages)
        /\ Message = app.queue[1]
        /\ Len(Tail(app.queue)) = Len(app.queue) - 1
        /\ \A i \in DOMAIN Tail(app.queue) : Tail(app.queue)[i] = app.queue[i + 1]
        /\ DOMAIN app.queue = 1 .. Len(app.queue) /\ Len(app.queue) \in Nat
    BY <1>1, TailFacts, LenProperties DEF Message
  <1>3. DOMAIN Tail(app.queue) = 1 .. Len(app.queue) - 1
    BY <1>2, LenProperties
  <1>4. Taken \in App
    BY <1>1, <1>2 DEF Taken, App
  <1>5. /\ Taken.appliers = app.appliers /\ Taken.operation = app.operation
        /\ Taken.applyKnown = app.applyKnown /\ Taken.queue = Tail(app.queue)
    BY <1>1 DEF Taken, App
  <1>6. ASSUME Waiting(app) PROVE Waiting(Taken)
    <2>1. PICK i \in DOMAIN app.queue : app.queue[i].type = "applied"
      BY <1>6 DEF Waiting
    <2>2. i # 1
      BY <1>2, <2>1
    <2>3. i - 1 \in DOMAIN Tail(app.queue) /\ app.queue[i] = app.queue[(i - 1) + 1]
      BY <1>2, <1>3, <2>1, <2>2
    <2> QED
      BY <1>2, <1>5, <2>1, <2>3 DEF Waiting
  <1> QED
    BY <1>4, <1>5, <1>6 DEF Steady

LEMMA SteadyKeeps ==
    ASSUME TypeOK, Steady(app, app')
    PROVE  (CancelReaches => CancelReaches') /\ StartsRight
  <1>1. CancelReaches => CancelReaches'
    BY DEF Steady, Waiting, CancelReaches, Applying
  <1>2. StartsRight
    <2>1. Len(app.appliers) \in Nat
      BY DEF TypeOK, App
    <2>2. ~(Len(app'.appliers) > Len(app.appliers))
      BY <2>1 DEF Steady
    <2> QED
      BY <2>2 DEF StartsRight
  <1> QED
    BY <1>1, <1>2

LEMMA PressIsSteady ==
    ASSUME TypeOK, NEW m \in Input, Press(m) PROVE Steady(app, app')
  <1>1. m \in Messages /\ app \in App
    BY InputAssumption DEF TypeOK, Messages
  <1> QED
    BY <1>1, PostIsSteady DEF Press

\* The answer is put among the messages that wait, and none is lost.
LEMMA AnswerIsSteady ==
    ASSUME TypeOK, NEW yes \in BOOLEAN, Answer(yes) PROVE Steady(app, app')
  <1>0. app \in App /\ app.queue \in Seq(Messages) /\ app.modals \in Seq(Request)
    BY DEF TypeOK, App
  <1> DEFINE m == [type |-> "answer", yes |-> yes, shown |-> Last(app.modals)]
             g == Front(app.modals)
  <1>1. m \in Messages
    BY <1>0, FrontFacts DEF Answer, Messages, Answered
  <1>2. PICK i \in {1, 2} :
           /\ i <= Len(app.queue) + 1
           /\ app' = [app EXCEPT !.modals = Front(@), !.queue = InsertAt(@, i, m)]
    BY DEF Answer
  <1> HIDE DEF m
  <1> DEFINE q == InsertAt(app.queue, i, m)
  <1>3. Len(app.queue) \in Nat
    BY <1>0, LenProperties
  <1>4. i \in 1 .. Len(app.queue) + 1
    BY <1>2, <1>3
  <1>5. /\ DOMAIN q = 1 .. Len(app.queue) + 1
        /\ DOMAIN app.queue = 1 .. Len(app.queue)
        /\ \A j \in DOMAIN app.queue : j < i => q[j] = app.queue[j]
        /\ \A j \in DOMAIN app.queue : j >= i => q[j + 1] = app.queue[j]
    BY <1>0, <1>1, <1>4, InsertFacts
  <1>6. app' = [app EXCEPT !.modals = g, !.queue = q]
    BY <1>0, <1>2 DEF App
  <1> HIDE DEF q, g
  <1>7. /\ app'.appliers = app.appliers /\ app'.operation = app.operation
        /\ app'.applyKnown = app.applyKnown /\ app'.queue = q
    BY <1>0, <1>6 DEF App
  <1>8. ASSUME Waiting(app) PROVE Waiting(app')
    <2>1. PICK j \in DOMAIN app.queue : app.queue[j].type = "applied"
      BY <1>8 DEF Waiting
    <2>2. CASE j < i
      BY <1>3, <1>5, <1>7, <2>1, <2>2 DEF Waiting
    <2>3. CASE ~(j < i)
      <3>1. j + 1 \in DOMAIN q /\ q[j + 1] = app.queue[j]
        BY <1>3, <1>4, <1>5, <2>1, <2>3
      <3> QED
        BY <1>7, <2>1, <3>1 DEF Waiting
    <2> QED
      BY <2>2, <2>3
  <1> QED
    BY <1>7, <1>8 DEF Steady

\* The handlers that start and end no apply.
LEMMA HandlersAreSteady ==
    ASSUME TypeOK,
           \/ OnProfileSelected \/ StartTestBoth \/ OnGenerateMigrationRequested
           \/ OnSaveBundleRequested \/ OnMigrationGenerated
           \/ OnMigrationBundleWritten \/ OnApplyBundleLoaded \/ OnSwitchView
           \/ DispatchApplyDryRun \/ OnApplyOperationRequested
           \/ OnApplySourceCheckFinished \/ OnHistoryLoadFinished
    PROVE  Steady(app, app')
  <1>0. /\ app \in App /\ app.queue # <<>> /\ Message \in Messages
        /\ Message.type # "applied"
    <2>1. app \in App /\ app.queue \in Seq(Messages)
      BY DEF TypeOK, App
    <2>2. app.queue # <<>> /\ Message.type # "applied"
      BY DEF Handling, OnProfileSelected, StartTestBoth,
             OnGenerateMigrationRequested, OnSaveBundleRequested,
             OnMigrationGenerated, OnMigrationBundleWritten, OnApplyBundleLoaded,
             OnSwitchView, DispatchApplyDryRun, OnApplyOperationRequested,
             OnApplySourceCheckFinished, OnHistoryLoadFinished
    <2> QED
      BY <2>1, <2>2, TailFacts DEF Message
  <1> DEFINE t == Taken
  <1>1. t \in App /\ Steady(app, t)
    BY <1>0, TakenIsSteady
  <1>2. \A b : Steady(t, b) => Steady(app, b)
    BY <1>1, SteadyThenSteady
  <1>3. Steady(t, t)
    BY <1>1, SteadyUpdates
  <1>4. CASE OnProfileSelected
    <2> DEFINE b == [t EXCEPT !.comparing = None]
               c == CancelHistoryWorker(b)
               d == CancelBundleLoad(c)
               e == CancelMigrationGeneration(d)
               f == SelectProfile(e, Message.profile)
    <2>1. Message.profile \in Profile
      BY <1>0, <1>4, MessageTypes DEF OnProfileSelected, Handling
    <2>2. b \in App /\ Steady(t, b)
      BY <1>1, SteadyUpdates, OptFacts DEF App
    <2>3. c \in App /\ Steady(b, c)
      BY <2>2, MethodTypes, SteadyMethods
    <2>4. d \in App /\ Steady(c, d)
      BY <2>3, MethodTypes, SteadyMethods
    <2>5. e \in App /\ Steady(d, e)
      BY <2>4, MethodTypes, SteadyMethods
    <2>6. f \in App /\ Steady(e, f)
      BY <2>1, <2>5, MethodTypes, SteadyMethods
    <2>7. app' \in {t, [f EXCEPT !.busy = FALSE]}
      BY <1>4 DEF OnProfileSelected
    <2> HIDE DEF b, c, d, e, f, t
    <2>8. Steady(f, [f EXCEPT !.busy = FALSE])
      BY <2>6, SteadyUpdates
    <2>9. Steady(t, d)
      BY <2>2, <2>3, <2>4, SteadyThenSteady
    <2>10. Steady(t, f)
      BY <2>5, <2>6, <2>9, SteadyThenSteady
    <2>11. Steady(t, [f EXCEPT !.busy = FALSE])
      BY <2>8, <2>10, SteadyThenSteady
    <2> QED
      BY <1>2, <1>3, <2>7, <2>11
  <1>5. CASE StartTestBoth
    <2> DEFINE b == InvalidateMigration(t)
               c == CancelHistoryWorker(b)
    <2>1. b \in App /\ Steady(t, b)
      BY <1>1, MethodTypes, SteadyMethods
    <2>2. c \in App /\ Steady(b, c)
      BY <2>1, MethodTypes, SteadyMethods
    <2>3. app' \in {t, [c EXCEPT !.comparing = app.selected]}
      BY <1>5 DEF StartTestBoth
    <2> HIDE DEF b, c, t
    <2>4. Steady(c, [c EXCEPT !.comparing = app.selected])
      BY <2>2, SteadyUpdates
    <2> QED
      BY <1>2, <1>3, <2>1, <2>2, <2>3, <2>4, SteadyThenSteady
  <1>6. CASE OnGenerateMigrationRequested
    <2> DEFINE b == InvalidateMigration(t)
               c == [b EXCEPT !.busy = TRUE, !.generating = app.comparison]
    <2>1. b \in App /\ Steady(t, b)
      BY <1>1, MethodTypes, SteadyMethods
    <2>2. app' \in {t, [t EXCEPT !.busy = FALSE], c}
      BY <1>6 DEF OnGenerateMigrationRequested
    <2> HIDE DEF b, t
    <2>3. Steady(b, c)
      BY <2>1 DEF Steady, Waiting, App
    <2> HIDE DEF c
    <2>4. Steady(t, c)
      BY <2>1, <2>3, SteadyThenSteady
    <2> QED
      BY <1>1, <1>2, <1>3, <2>2, <2>4, SteadyUpdates
  <1>7. CASE OnSaveBundleRequested
    <2> DEFINE c == [t EXCEPT !.busy = TRUE, !.saving = app.plan]
    <2>1. app' \in {t, [t EXCEPT !.busy = FALSE], c}
      BY <1>7 DEF OnSaveBundleRequested
    <2> HIDE DEF t
    <2>2. Steady(t, c)
      BY <1>1 DEF Steady, Waiting, App
    <2> HIDE DEF c
    <2> QED
      BY <1>1, <1>2, <1>3, <2>1, <2>2, SteadyUpdates
  <1>8. CASE OnMigrationGenerated
    <2> DEFINE c == [t EXCEPT !.busy = FALSE, !.plan = Message.plan, !.path = None]
    <2>1. app' \in {t, [t EXCEPT !.busy = FALSE], c}
      BY <1>8 DEF OnMigrationGenerated
    <2> HIDE DEF t
    <2>2. Steady(t, c)
      BY <1>1 DEF Steady, Waiting, App
    <2> HIDE DEF c
    <2> QED
      BY <1>1, <1>2, <1>3, <2>1, <2>2, SteadyUpdates
  <1>9. CASE OnMigrationBundleWritten
    <2> DEFINE b == ClearApply(CancelBundleLoad(t))
               c == [b EXCEPT !.path = Message.path, !.busy = FALSE]
    <2>1. Message.path \in Opt(Path)
      BY <1>0, <1>9, MessageTypes DEF OnMigrationBundleWritten, Handling
    <2>2. b \in App /\ Steady(t, b)
      BY <1>1, MethodTypes, SteadyMethods, SteadyThenSteady
    <2>3. app' \in {t, [t EXCEPT !.busy = FALSE], c, EnsureApplyBundleLoaded(c)}
      BY <1>9 DEF OnMigrationBundleWritten
    <2> HIDE DEF b, t
    <2>4. c \in App
      BY <2>1, <2>2 DEF App
    <2>5. Steady(b, c)
      BY <2>2 DEF Steady, Waiting, App
    <2> HIDE DEF c
    <2>6. Steady(c, EnsureApplyBundleLoaded(c))
      BY <2>4, SteadyMethods
    <2>7. Steady(t, c) /\ Steady(t, EnsureApplyBundleLoaded(c))
      BY <2>2, <2>5, <2>6, SteadyThenSteady
    <2> QED
      BY <1>1, <1>2, <1>3, <2>3, <2>7, SteadyUpdates
  <1>10. CASE OnApplyBundleLoaded
    <2> DEFINE b == [t EXCEPT !.loadPath = None]
               c == [b EXCEPT !.bundle = Message.bundle, !.operation = "none",
                              !.dryPending = FALSE]
    <2>1. Message.bundle \in Opt(Bundle)
      BY <1>0, <1>10, MessageTypes DEF OnApplyBundleLoaded, Handling
    <2>2. b \in App /\ Steady(t, b)
      BY <1>1, SteadyUpdates, OptFacts DEF App
    <2>3. app' \in {t, b, c, RequestPaletteDryRun(c)}
      BY <1>10 DEF OnApplyBundleLoaded
    <2> HIDE DEF b, t
    <2>4. c \in App
      BY <2>1, <2>2 DEF App
    <2>5. Steady(b, c)
      BY <2>2 DEF Steady, Waiting, App
    <2> HIDE DEF c
    <2>6. Steady(c, RequestPaletteDryRun(c))
      BY <2>4, SteadyMethods
    <2> QED
      BY <1>2, <1>3, <2>2, <2>3, <2>5, <2>6, SteadyThenSteady
  <1>11. CASE OnSwitchView
    <2>1. Message.view \in {"apply", "history", "other"}
      BY <1>0, <1>11, MessageTypes DEF OnSwitchView, Handling
    <2> QED
      BY <1>1, <1>2, <1>11, <2>1, SteadyMethods DEF OnSwitchView
  <1>12. CASE DispatchApplyDryRun
    <2> DEFINE b == SwitchView(t, "apply")
    <2>1. b \in App /\ Steady(t, b)
      BY <1>1, MethodTypes, SteadyMethods
    <2>2. app' = RequestPaletteDryRun(b)
      BY <1>12 DEF DispatchApplyDryRun
    <2> HIDE DEF b, t
    <2> QED
      BY <1>2, <2>1, <2>2, SteadyMethods, SteadyThenSteady
  <1>13. CASE OnApplyOperationRequested
    <2>1. app' = t \/ app' = StartSourceCheck(t, Message.dry)
      BY <1>13 DEF OnApplyOperationRequested
    <2> HIDE DEF t
    <2> QED
      BY <1>1, <1>2, <1>3, <2>1, SteadyMethods
  <1>14. CASE OnApplySourceCheckFinished
    <2> DEFINE b == [t EXCEPT !.operation = "none"]
               r == [profile |-> Message.check.profile, bundle |-> Message.check.bundle]
               c == [b EXCEPT !.pending = r, !.modals = Append(@, r)]
    <2>1. app' \in {b, c}
      BY <1>14 DEF OnApplySourceCheckFinished
    <2>2. b \in App /\ Steady(t, b)
      BY <1>1, SteadyUpdates DEF App
    <2> HIDE DEF b, t, r
    <2>3. Steady(b, c)
      BY <2>2 DEF Steady, Waiting, App
    <2> HIDE DEF c
    <2> QED
      BY <1>2, <2>1, <2>2, <2>3, SteadyThenSteady
  <1>15. CASE OnHistoryLoadFinished
    <2> DEFINE h == IF Message.runs THEN app.selected ELSE None
               c == [t EXCEPT !.readerKnown = FALSE, !.history = h]
    <2>1. app' \in {t, c}
      BY <1>15 DEF OnHistoryLoadFinished
    <2> HIDE DEF t, h
    <2>2. Steady(t, c)
      BY <1>1 DEF Steady, Waiting, App
    <2> QED
      BY <1>2, <1>3, <2>1, <2>2
  <1> QED
    BY <1>4, <1>5, <1>6, <1>7, <1>8, <1>9, <1>10, <1>11, <1>12, <1>13, <1>14, <1>15

\* A message in the queue, and anything that has to do with no apply.
LEMMA SteadyAfterPost ==
    ASSUME NEW a \in App, NEW m, NEW b, b.queue = Append(a.queue, m),
           b.appliers = a.appliers, b.operation = a.operation,
           b.applyKnown = a.applyKnown
    PROVE  Steady(a, b)
  <1> DEFINE S == Messages \cup {m}
  <1>1. a.queue \in Seq(S) /\ m \in S
    <2>1. a.queue \in Seq(Messages)
      BY DEF App
    <2> QED
      BY <2>1
  <1> HIDE DEF S
  <1>2. Waiting(a) => Waiting(b)
    BY <1>1, AppendFacts DEF Waiting
  <1> QED
    BY <1>2 DEF Steady

LEMMA CompareProfileIsSteady ==
    ASSUME TypeOK, CompareProfile PROVE Steady(app, app')
  <1>0. app \in App
    BY DEF TypeOK
  <1>1. PICK c \in {None} \cup Make("comparison", app.comparing) :
           /\ Making("comparison", c)
           /\ app' = [app EXCEPT
                !.comparing = None,
                !.comparison = IF c # None /\ app.selected = app.comparing THEN c ELSE @]
    BY DEF CompareProfile
  <1> DEFINE x == IF c # None /\ app.selected = app.comparing THEN c ELSE app.comparison
  <1>2. app' = [app EXCEPT !.comparing = None, !.comparison = x]
    BY <1>0, <1>1 DEF App
  <1> HIDE DEF x
  <1> QED
    BY <1>0, <1>2 DEF Steady, Waiting, App

\* So are the workers but the applies, and the reader of the history.
LEMMA WorkersAreSteady ==
    ASSUME TypeOK,
           \/ CompareProfile \/ GenerateMigration \/ WriteMigrationBundle
           \/ LoadApplyBundle \/ SomeCheckEnds
           \/ ReaderEnters \/ ReaderEnds \/ ReaderLeaves
    PROVE  Steady(app, app')
  <1>0. app \in App
    BY DEF TypeOK
  <1>2. CASE GenerateMigration
    <2>1. PICK x \in {None} \cup Make("plan", app.generating) :
             app' = [Post(app, [type |-> "generated", of |-> app.generating, plan |-> x])
                        EXCEPT !.generating = None]
      BY <1>2 DEF GenerateMigration
    <2> DEFINE m == [type |-> "generated", of |-> app.generating, plan |-> x]
    <2>2. app' = [Post(app, m) EXCEPT !.generating = None]
      BY <2>1
    <2> HIDE DEF m
    <2>3. /\ app'.queue = Append(app.queue, m) /\ app'.appliers = app.appliers
          /\ app'.operation = app.operation /\ app'.applyKnown = app.applyKnown
      BY <1>0, <2>2 DEF Post, App
    <2> QED
      BY <1>0, <2>3, SteadyAfterPost
  <1>3. CASE WriteMigrationBundle
    <2>1. PICK x \in {None} \cup Make("path", app.saving) :
             app' = [Post(app, [type |-> "written", of |-> app.saving, path |-> x])
                        EXCEPT !.saving = None]
      BY <1>3 DEF WriteMigrationBundle
    <2> DEFINE m == [type |-> "written", of |-> app.saving, path |-> x]
    <2>2. app' = [Post(app, m) EXCEPT !.saving = None]
      BY <2>1
    <2> HIDE DEF m
    <2>3. /\ app'.queue = Append(app.queue, m) /\ app'.appliers = app.appliers
          /\ app'.operation = app.operation /\ app'.applyKnown = app.applyKnown
      BY <1>0, <2>2 DEF Post, App
    <2> QED
      BY <1>0, <2>3, SteadyAfterPost
  <1>4. CASE LoadApplyBundle
    <2>1. PICK x \in {None} \cup Make("bundle", app.loading) :
             app' = [Post(app, [type |-> "loaded", of |-> app.loading, bundle |-> x])
                        EXCEPT !.loading = None]
      BY <1>4 DEF LoadApplyBundle
    <2> DEFINE m == [type |-> "loaded", of |-> app.loading, bundle |-> x]
    <2>2. app' = [Post(app, m) EXCEPT !.loading = None]
      BY <2>1
    <2> HIDE DEF m
    <2>3. /\ app'.queue = Append(app.queue, m) /\ app'.appliers = app.appliers
          /\ app'.operation = app.operation /\ app'.applyKnown = app.applyKnown
      BY <1>0, <2>2 DEF Post, App
    <2> QED
      BY <1>0, <2>3, SteadyAfterPost
  <1>5. CASE SomeCheckEnds
    <2>1. PICK i \in DOMAIN app.checks, ok \in BOOLEAN :
             app' = [Post(app, [type |-> "checked", check |-> app.checks[i], ok |-> ok])
                        EXCEPT !.checks = RemoveAt(@, i)]
      BY <1>5 DEF SomeCheckEnds, RunApplySourceCheck
    <2> DEFINE m == [type |-> "checked", check |-> app.checks[i], ok |-> ok]
               w == RemoveAt(app.checks, i)
    <2>2. app' = [Post(app, m) EXCEPT !.checks = w]
      BY <1>0, <2>1 DEF Post, App
    <2> HIDE DEF m, w
    <2>3. /\ app'.queue = Append(app.queue, m) /\ app'.appliers = app.appliers
          /\ app'.operation = app.operation /\ app'.applyKnown = app.applyKnown
      BY <1>0, <2>2 DEF Post, App
    <2> QED
      BY <1>0, <2>3, SteadyAfterPost
  <1>6. ASSUME NEW r \in BOOLEAN, NEW l,
               app' = [Post(app, [type |-> "history", profile |-> app.reader, runs |-> r])
                          EXCEPT !.reader = None, !.lock = l]
        PROVE  Steady(app, app')
    <2> DEFINE m == [type |-> "history", profile |-> app.reader, runs |-> r]
    <2>2. app' = [Post(app, m) EXCEPT !.reader = None, !.lock = l]
      BY <1>6
    <2> HIDE DEF m
    <2>3. /\ app'.queue = Append(app.queue, m) /\ app'.appliers = app.appliers
          /\ app'.operation = app.operation /\ app'.applyKnown = app.applyKnown
      BY <1>0, <2>2 DEF Post, App
    <2> QED
      BY <1>0, <2>3, SteadyAfterPost
  <1>7. CASE ReaderEnters
    <2>1. CASE app' = [app EXCEPT !.lock = "reader"]
      BY <1>0, <2>1 DEF Steady, Waiting, App
    <2> DEFINE m == [type |-> "history", profile |-> app.reader, runs |-> FALSE]
    <2>2. CASE app' = [Post(app, m) EXCEPT !.reader = None]
      <3> HIDE DEF m
      <3>1. /\ app'.queue = Append(app.queue, m) /\ app'.appliers = app.appliers
            /\ app'.operation = app.operation /\ app'.applyKnown = app.applyKnown
        BY <1>0, <2>2 DEF Post, App
      <3> QED
        BY <1>0, <3>1, SteadyAfterPost
    <2> QED
      BY <1>7, <2>1, <2>2 DEF ReaderEnters
  <1>8. CASE ReaderEnds
    <2>1. PICK r \in BOOLEAN :
             app' = [Post(app, [type |-> "history", profile |-> app.reader, runs |-> r])
                        EXCEPT !.reader = None, !.lock = "free"]
      BY <1>8 DEF ReaderEnds
    <2> QED
      BY <1>6, <2>1
  <1>9. CASE ReaderLeaves
    <2>1. app' = [app EXCEPT !.lock = "free"]
      BY <1>9 DEF ReaderLeaves
    <2> QED
      BY <1>0, <2>1 DEF Steady, Waiting, App
  <1> QED
    BY <1>2, <1>3, <1>4, <1>5, <1>7, <1>8, <1>9, CompareProfileIsSteady

LEMMA CancelledType == \A x \in Applier : [x EXCEPT !.cancelled = TRUE] \in Applier
  BY DEF Applier

\* An apply that starts is the newest, and nothing else is.
LEMMA OneStarts ==
    ASSUME NEW a \in App, NEW request \in Request
    PROVE  LET b == StartApplyWorker(a, request) IN
           /\ b.operation = "apply" /\ b.applyKnown = TRUE
           /\ b.appliers \in Seq(Applier)
           /\ Len(b.appliers) = Len(a.appliers) + 1
           /\ b.appliers[Len(b.appliers)].profile = request.profile
           /\ b.appliers[Len(b.appliers)].bundle = request.bundle
  <1> DEFINE c == CancelHistoryWorker(a)
             new == [profile |-> request.profile, bundle |-> request.bundle,
                     inside |-> FALSE, cancelled |-> FALSE]
             w == Append(CancelAll(c.appliers), new)
             b == StartApplyWorker(a, request)
  <1>1. c \in App /\ c.appliers = a.appliers /\ a.appliers \in Seq(Applier)
    BY MethodTypes, SteadyMethods DEF Steady, App
  <1>2. new \in Applier
    BY DEF Applier, Request
  <1>3. /\ CancelAll(c.appliers) \in Seq(Applier)
        /\ Len(CancelAll(c.appliers)) = Len(a.appliers)
    BY <1>1, CancelledType, CancelAllType
  <1>4. b = [c EXCEPT !.operation = "apply", !.applyKnown = TRUE, !.appliers = w]
    BY DEF StartApplyWorker
  <1>5. /\ w \in Seq(Applier)
        /\ Len(w) = Len(a.appliers) + 1
        /\ w[Len(w)] = new
    BY <1>2, <1>3, AppendFacts
  <1> HIDE DEF c, b, w
  <1>6. b.operation = "apply" /\ b.applyKnown = TRUE /\ b.appliers = w
    BY <1>1, <1>4 DEF App
  <1> QED
    BY <1>5, <1>6 DEF b

\* What the answer was about is what the session, and the request that it
\* keeps, are about.
LEMMA OnApplyConfirmationIsRight ==
    ASSUME IInv, OnApplyConfirmation
    PROVE  (CancelReaches => CancelReaches') /\ StartsRight
  <1>0. /\ app \in App /\ TypeOK /\ app.queue \in Seq(Messages) /\ app.queue # <<>>
        /\ Message.type = "answer"
    BY DEF IInv, TypeOK, App, OnApplyConfirmation, Handling
  <1>1. Message = app.queue[1] /\ 1 \in DOMAIN app.queue /\ Message \in Messages
    BY <1>0, TailFacts DEF Message
  <1>2. Message.shown \in Request /\ Message.shown \in Shown(app)
    BY <1>0, <1>1, MessageTypes DEF Shown
  <1> DEFINE a == [Taken EXCEPT !.pending = None]
  <1>3. /\ a \in App /\ Steady(app, a)
        /\ a.appliers = app.appliers
    <2>1. Taken \in App /\ Steady(app, Taken)
      BY <1>0, TakenIsSteady
    <2>2. a \in App /\ Steady(Taken, a)
      BY <2>1, SteadyUpdates, OptFacts DEF App
    <2> QED
      BY <2>1, <2>2, SteadyThenSteady DEF Steady
  <1>4. CASE app' = a
    BY <1>0, <1>3, <1>4, SteadyKeeps
  <1>5. CASE /\ Message.yes
             /\ app.pending # None
             /\ StillCurrent(app, app.pending)
             /\ app' = StartApplyWorker(a, app.pending)
    <2> DEFINE p == app.pending
               s == Message.shown
               n == Len(app'.appliers)
    <2>1. p \in Request /\ p \in Checked(app)
      BY <1>0, <1>5, OptFacts DEF App, Checked
    <2>2. /\ app'.operation = "apply" /\ app'.applyKnown = TRUE
          /\ app'.appliers \in Seq(Applier)
          /\ n = Len(app.appliers) + 1
          /\ app'.appliers[n].profile = p.profile
          /\ app'.appliers[n].bundle = p.bundle
      BY <1>3, <1>5, <2>1, OneStarts
    <2>3. p.profile = app.selected /\ p.bundle = app.bundle /\ p.bundle.from = app.path
      BY <1>5 DEF StillCurrent, BundleIsAtPath
    <2>4. s.bundle = p.bundle
      BY <1>2, <2>1, <2>3 DEF IInv, RequestInv, AskedInv, CurrentInv
    <2>5. p.profile = ProfileOf(p.bundle) /\ s.profile = p.profile
      BY <1>2, <2>1, <2>4 DEF IInv, RequestInv, ProfileInv
    <2>6. s = [profile |-> p.profile, bundle |-> p.bundle]
      BY <1>2, <2>4, <2>5 DEF Request
    <2>7. StartsRight
      BY <1>0, <1>5, <2>2, <2>3, <2>5, <2>6 DEF StartsRight
    <2>8. app'.appliers # <<>>
      <3>1. Len(app.appliers) \in Nat
        BY <1>0 DEF App
      <3> QED
        BY <2>2, <3>1
    <2> QED
      BY <2>2, <2>7, <2>8 DEF CancelReaches
  <1> QED
    BY <1>4, <1>5 DEF OnApplyConfirmation

\* When the end of an apply has been handled, none is running for the session.
LEMMA OnApplyOperationFinishedIsRight ==
    ASSUME TypeOK, OnApplyOperationFinished
    PROVE  (CancelReaches => CancelReaches') /\ StartsRight
  <1>0. app \in App /\ app.queue \in Seq(Messages) /\ app.queue # <<>>
    BY DEF TypeOK, App, OnApplyOperationFinished, Handling
  <1>1. Taken \in App /\ Taken.appliers = app.appliers /\ Taken.operation = app.operation
    BY <1>0, TailFacts DEF Taken, App
  <1> DEFINE e == [Taken EXCEPT !.applyKnown = FALSE, !.operation = "none"]
  <1>2. e \in App /\ e.operation = "none" /\ e.appliers = app.appliers
    BY <1>1 DEF App
  <1>3. app' \in {e, StartHistoryLoad(e)}
    BY DEF OnApplyOperationFinished
  <1> HIDE DEF e
  <1>4. Steady(e, StartHistoryLoad(e))
    BY <1>2, SteadyMethods
  <1>5. app'.operation # "apply" /\ app'.appliers = app.appliers
    BY <1>2, <1>3, <1>4 DEF Steady
  <1>6. CancelReaches'
    BY <1>5 DEF CancelReaches, Applying
  <1>7. StartsRight
    <2>1. Len(app.appliers) \in Nat
      BY <1>0 DEF App
    <2> QED
      BY <1>5, <2>1 DEF StartsRight
  <1> QED
    BY <1>6, <1>7

\* A cancelled apply is still alive.
LEMMA OnCancelApplyRequestedIsRight ==
    ASSUME TypeOK, OnCancelApplyRequested
    PROVE  (CancelReaches => CancelReaches') /\ StartsRight
  <1>0. /\ app \in App /\ app.queue \in Seq(Messages) /\ app.queue # <<>>
        /\ app.appliers \in Seq(Applier) /\ Message.type = "cancel"
    BY DEF TypeOK, App, OnCancelApplyRequested, Handling
  <1>1. Taken \in App /\ Steady(app, Taken)
    BY <1>0, TakenIsSteady
  <1>2. CASE app' = Taken
    BY <1>1, <1>2, SteadyKeeps
  <1>3. CASE /\ app.applyKnown /\ app.appliers # <<>>
             /\ app' = [Taken EXCEPT !.appliers[Len(app.appliers)].cancelled = TRUE]
    <2> DEFINE n == Len(app.appliers)
               w == [app.appliers EXCEPT ![n].cancelled = TRUE]
    <2>1. n \in Nat /\ DOMAIN app.appliers = 1 .. n /\ n # 0
      BY <1>0, <1>3, LenProperties, EmptySeq
    <2>2. app.appliers[n] \in Applier
      BY <1>0, <2>1, ElementOfSeq
    <2>3. [app.appliers[n] EXCEPT !.cancelled = TRUE] \in Applier
      BY <2>2, CancelledType
    <2>4. w \in Seq(Applier) /\ Len(w) = n
      BY <1>0, <2>1, <2>3, ExceptSeq
    <2>5. app' = [Taken EXCEPT !.appliers = w]
      BY <1>0, <1>1, <1>3 DEF Taken, App
    <2> HIDE DEF w
    <2>6. app'.appliers = w /\ app'.applyKnown = app.applyKnown
      BY <1>0, <2>5 DEF Taken, App
    <2>7. CancelReaches'
      BY <1>3, <2>1, <2>4, <2>6 DEF CancelReaches
    <2> QED
      BY <2>1, <2>4, <2>6, <2>7 DEF StartsRight
  <1> QED
    BY <1>2, <1>3 DEF OnCancelApplyRequested

\* The message of an apply is in the queue when the apply is gone.
LEMMA ApplierIsRight ==
    ASSUME TypeOK, NEW i \in DOMAIN app.appliers, ApplierEnters(i) \/ ApplierEnds(i)
    PROVE  (CancelReaches => CancelReaches') /\ StartsRight
  <1>0. /\ app \in App /\ app.queue \in Seq(Messages) /\ app.appliers \in Seq(Applier)
        /\ Len(app.appliers) \in Nat /\ DOMAIN app.appliers = 1 .. Len(app.appliers)
    BY LenProperties DEF TypeOK, App
  <1>1. CASE ApplierEnters(i)
    <2> DEFINE w == [app.appliers EXCEPT ![i].inside = TRUE]
    <2>1. [app.appliers[i] EXCEPT !.inside = TRUE] \in Applier
      <3>1. app.appliers[i] \in Applier
        BY <1>0, ElementOfSeq
      <3> QED
        BY <3>1 DEF Applier
    <2>2. w \in Seq(Applier) /\ Len(w) = Len(app.appliers)
      BY <1>0, <2>1, ExceptSeq
    <2>3. app' = [app EXCEPT !.lock = "apply", !.appliers = w]
      BY <1>0, <1>1 DEF ApplierEnters, App
    <2> HIDE DEF w
    <2>4. /\ app'.appliers = w /\ app'.applyKnown = app.applyKnown
          /\ app'.operation = app.operation /\ app'.queue = app.queue
      BY <1>0, <2>3 DEF App
    <2>5. app.appliers # <<>> /\ w # <<>>
      BY <1>0, <2>2, EmptySeq
    <2>6. CancelReaches => CancelReaches'
      BY <2>4, <2>5 DEF CancelReaches, Applying
    <2> QED
      BY <1>0, <2>2, <2>4, <2>6 DEF StartsRight
  <1>2. CASE ApplierEnds(i)
    <2> DEFINE m == [type |-> "applied"]
               w == RemoveAt(app.appliers, i)
               l == IF app.appliers[i].inside THEN "free" ELSE app.lock
    <2>1. m \in Messages /\ m.type = "applied"
      BY DEF Messages, Posted
    <2>2. w \in Seq(Applier) /\ Len(w) = Len(app.appliers) - 1
      BY <1>0, RemoveFacts
    <2>3. app' = [app EXCEPT !.queue = Append(app.queue, m), !.lock = l, !.appliers = w]
      BY <1>0, <1>2 DEF ApplierEnds, Post, App
    <2> HIDE DEF m, w, l
    <2>4. app'.appliers = w /\ app'.queue = Append(app.queue, m)
      BY <1>0, <2>3 DEF App
    <2>5. \E j \in DOMAIN app'.queue : app'.queue[j].type = "applied"
      BY <1>0, <2>1, <2>4, AppendFacts
    <2>6. CancelReaches'
      BY <2>5 DEF CancelReaches
    <2> QED
      BY <1>0, <2>2, <2>4, <2>6 DEF StartsRight
  <1> QED
    BY <1>1, <1>2

LEMMA StepIsRight ==
    ASSUME IInv, [Next]_vars
    PROVE  /\ CancelReaches => CancelReaches'
           /\ [StartsRight]_vars
  <1>0. TypeOK
    BY DEF IInv
  <1>1. CASE UNCHANGED vars
    BY <1>1 DEF vars, CancelReaches, Applying
  <1>2. ASSUME Steady(app, app')
        PROVE  (CancelReaches => CancelReaches') /\ [StartsRight]_vars
    BY <1>0, <1>2, SteadyKeeps
  <1>3. CASE \/ \E m \in Input : Press(m)
             \/ \E yes \in BOOLEAN : Answer(yes)
    BY <1>0, <1>2, <1>3, PressIsSteady, AnswerIsSteady
  <1>4. CASE HandleMessage
    BY <1>0, <1>2, <1>4, HandlersAreSteady, OnApplyConfirmationIsRight,
       OnApplyOperationFinishedIsRight, OnCancelApplyRequestedIsRight
    DEF HandleMessage
  <1>5. CASE \/ CompareProfile \/ GenerateMigration \/ WriteMigrationBundle
             \/ LoadApplyBundle \/ SomeCheckEnds
             \/ ReaderEnters \/ ReaderEnds \/ ReaderLeaves
    BY <1>0, <1>2, <1>5, WorkersAreSteady
  <1>6. CASE SomeApplierEnters \/ SomeApplierEnds
    BY <1>0, <1>6, ApplierIsRight DEF SomeApplierEnters, SomeApplierEnds
  <1> QED
    BY <1>1, <1>3, <1>4, <1>5, <1>6 DEF Next

\* While the session says that an apply is running, one is and can be
\* cancelled, or its end is about to be handled, however many applies follow
\* each other (on_cancel_apply_requested, _on_apply_operation_finished).
THEOREM CancelIsReached == Spec => []CancelReaches
  <1>1. Init => CancelReaches
    BY DEF Init, CancelReaches, Applying
  <1>2. IInv /\ CancelReaches /\ [Next]_vars => CancelReaches'
    BY StepIsRight
  <1> QED
    BY <1>1, <1>2, SessionInvariance, PTL DEF Spec

\* An apply starts only for what was checked, shown and confirmed, while it is
\* still what the session is about: the selected profile, and the bundle at
\* the path of its last save (_on_apply_confirmation).
THEOREM AppliesAreRight == Spec => ApplyRight
  <1>1. IInv /\ [Next]_vars => [StartsRight]_vars
    BY StepIsRight
  <1> QED
    BY <1>1, SessionInvariance, PTL DEF Spec, ApplyRight
=============================================================================
