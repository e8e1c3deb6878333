----------------------------- MODULE BundleWriter -----------------------------
(***************************************************************************)
(* Calls of FilesystemMigrationWriter.write that publish a bundle under one  *)
(* final name below one output directory, in one process or several.        *)
(*                                                                         *)
(* A call fills a temporary directory of its own beside the final name and   *)
(* renames it.  What a program sees of the file system is kept in memory:    *)
(* a file, the names in a directory and the names in the output directory    *)
(* survive a loss of power for certain only when they have been synced.  Any *)
(* operation can fail, a process can die, other programs may put something   *)
(* of their own under the final name.                                       *)
(***************************************************************************)
EXTENDS Integers

CONSTANTS
    Writer,     \* calls of write()
    Files,      \* len(rendered.files)
    SyncWorks   \* the platform and the file system can sync a directory

ASSUME FilesAssumption == Files \in Nat \ {0}    \* there is always a manifest
ASSUME SyncAssumption == SyncWorks \in BOOLEAN

VARIABLES
    pc,         \* [Writer -> the operation that comes next]
    at,         \* [Writer -> the file that is being written]
    place,      \* [Writer -> where its directory is: "none", "temp", "final"]
    mayBe,      \* [Writer -> where it may be after a loss of power]
    content,    \* [Writer -> [File -> "absent", "partial" or "whole"]]
    synced,     \* [Writer -> files whose content was synced]
    named,      \* [Writer -> files whose names were synced]
    other,      \* under the final name, by others: "none", "empty", "taken"
    result      \* [Writer -> "none", "path" or "error"]

directories == <<place, mayBe>>
data == <<content, synced, named>>
vars == <<pc, at, directories, data, other, result>>

File == 1 .. Files
Place == {"none", "temp", "final"}
Content == {"absent", "partial", "whole"}

\* The temporary directory exists, or did until it was renamed.
Filling == {"open", "write", "fsync", "syncTemp", "checkAgain", "rename"}
PC == {"check", "validate", "mkdtemp", "cleanup", "syncOutput", "done", "dead"}
        \cup Filling

TypeOK ==
    /\ pc \in [Writer -> PC]
    /\ at \in [Writer -> 1 .. (Files + 1)]
    /\ place \in [Writer -> Place]
    /\ mayBe \in [Writer -> SUBSET Place]
    /\ content \in [Writer -> [File -> Content]]
    /\ synced \in [Writer -> SUBSET File]
    /\ named \in [Writer -> SUBSET File]
    /\ other \in {"none", "empty", "taken"}
    /\ result \in [Writer -> {"none", "path", "error"}]

\* Rendering keeps to itself; the output directory is all that exists.
Init ==
    /\ pc = [w \in Writer |-> "check"]
    /\ at = [w \in Writer |-> 1]
    /\ place = [w \in Writer |-> "none"]
    /\ mayBe = [w \in Writer |-> {"none"}]
    /\ content = [w \in Writer |-> [f \in File |-> "absent"]]
    /\ synced = [w \in Writer |-> {}]
    /\ named = [w \in Writer |-> {}]
    /\ other = "none"
    /\ result = [w \in Writer |-> "none"]

-----------------------------------------------------------------------------
(* A call of write()                                                        *)

DestinationExists == other # "none" \/ \E w \in Writer : place[w] = "final"

Goto(w, label) == pc' = [pc EXCEPT ![w] = label]

End(w, answer) ==
    /\ Goto(w, "done")
    /\ result' = [result EXCEPT ![w] = answer]

\* MUTANT: only an OSError leads to the removal of the temporary directory.
RaiseAtOnce(w) == End(w, "error")

\* MigrationError, or an OSError on its way to become one, leaves the try block.
Raise(w) ==
    IF pc[w] \in Filling THEN Goto(w, "cleanup") /\ UNCHANGED result
                         ELSE End(w, "error")

CheckDestination(w) ==
    /\ pc[w] \in {"check", "checkAgain"}
    /\ IF DestinationExists THEN Raise(w)
       ELSE /\ Goto(w, IF pc[w] = "check" THEN "validate" ELSE "rename")
            /\ UNCHANGED result
    /\ UNCHANGED <<at, directories, data, other>>

\* The output directory exists, or the call ends with an error (Fails).
ValidateOutput(w) ==
    /\ pc[w] = "validate"
    /\ Goto(w, "mkdtemp")
    /\ UNCHANGED <<at, directories, data, other, result>>

\* MUTANT: the loop goes one file too far.
NextFileLate(w) ==
    IF at'[w] <= Files + 1 THEN Goto(w, "open") ELSE Goto(w, "syncTemp")

\* The loop over the files goes on.
NextFile(w) == IF at'[w] <= Files THEN Goto(w, "open") ELSE Goto(w, "syncTemp")

MakeTemp(w) ==
    /\ pc[w] = "mkdtemp"
    /\ place' = [place EXCEPT ![w] = "temp"]
    /\ mayBe' = [mayBe EXCEPT ![w] = @ \cup {"temp"}]
    /\ UNCHANGED at
    /\ NextFile(w)
    /\ UNCHANGED <<data, other, result>>

SetContent(w, f, c) == content' = [content EXCEPT ![w][f] = c]

OpenFile(w) ==
    /\ pc[w] = "open"
    /\ SetContent(w, at[w], "partial")
    /\ Goto(w, "write")
    /\ UNCHANGED <<at, directories, synced, named, other, result>>

WriteFile(w) ==
    /\ pc[w] = "write"
    /\ SetContent(w, at[w], "whole")
    /\ Goto(w, "fsync")
    /\ UNCHANGED <<at, directories, synced, named, other, result>>

\* MUTANT: files are left to the cache.
SyncNoFile(w) ==
    /\ pc[w] = "fsync"
    /\ at' = [at EXCEPT ![w] = @ + 1]
    /\ NextFile(w)
    /\ UNCHANGED <<directories, data, other, result>>

SyncFile(w) ==
    /\ pc[w] = "fsync"
    /\ synced' = [synced EXCEPT ![w] = @ \cup {at[w]}]
    /\ at' = [at EXCEPT ![w] = @ + 1]
    /\ NextFile(w)
    /\ UNCHANGED <<directories, content, named, other, result>>

\* Where a directory cannot be synced, the error is ignored.
SyncTemp(w) ==
    /\ pc[w] = "syncTemp"
    /\ named' = [named EXCEPT ![w] =
           IF SyncWorks THEN {f \in File : content[w][f] # "absent"} ELSE @]
    /\ Goto(w, "checkAgain")
    /\ UNCHANGED <<at, directories, content, synced, other, result>>

\* rename(2) replaces an empty directory, and nothing else.
CanRename == other # "taken" /\ \A w \in Writer : place[w] # "final"

Rename(w) ==
    /\ pc[w] = "rename"
    /\ CanRename
    /\ place' = [place EXCEPT ![w] = "final"]
    /\ mayBe' = [mayBe EXCEPT ![w] = @ \cup {"final"}]
    /\ other' = "none"
    /\ Goto(w, "syncOutput")
    /\ UNCHANGED <<at, data, result>>

\* MUTANT: the path is returned before the output directory was synced.
SyncedNothing == UNCHANGED mayBe

\* Every name in the output directory is synced, not only the one of this call.
SyncedNames == mayBe' = [v \in Writer |-> {place[v]}]

SyncOutput(w) ==
    /\ pc[w] = "syncOutput"
    /\ IF SyncWorks THEN SyncedNames ELSE UNCHANGED mayBe
    /\ End(w, "path")
    /\ UNCHANGED <<at, place, data, other>>

\* An operation fails.  After the rename nothing is cleaned up: the bundle is
\* published although the call raises.
Fails(w) ==
    /\ pc[w] \notin {"cleanup", "done", "dead"}
    /\ Raise(w)
    /\ UNCHANGED <<at, directories, data, other>>

\* The files are removed one by one, then the directory; where that fails, what
\* is left stays.
Cleanup(w) ==
    /\ pc[w] = "cleanup"
    /\ \E kept \in SUBSET File :
         /\ content' = [content EXCEPT ![w] =
                [f \in File |-> IF f \in kept THEN @[f] ELSE "absent"]]
         /\ \/ kept = {} /\ place' = [place EXCEPT ![w] = "none"]
            \/ UNCHANGED place
    /\ mayBe' = [mayBe EXCEPT ![w] = @ \cup {place'[w]}]
    /\ End(w, "error")
    /\ UNCHANGED <<at, synced, named, other>>

Proceed(w) ==
    \/ CheckDestination(w) \/ ValidateOutput(w) \/ MakeTemp(w)
    \/ OpenFile(w) \/ WriteFile(w) \/ SyncFile(w) \/ SyncTemp(w)
    \/ Rename(w) \/ SyncOutput(w) \/ Fails(w) \/ Cleanup(w)

-----------------------------------------------------------------------------
(* What happens to the calls                                                *)

\* The process is killed between two operations.
Die(w) ==
    /\ pc[w] \notin {"done", "dead"}
    /\ pc' = [pc EXCEPT ![w] = "dead"]
    /\ UNCHANGED <<at, directories, data, other, result>>

\* What a file may hold after the power was lost: what it held if both its
\* content and its name were synced, and less of it otherwise.
MayHold(w, f) ==
    CASE f \in synced[w] /\ f \in named[w] -> {content[w][f]}
      [] f \in synced[w] /\ f \notin named[w] -> {content[w][f], "absent"}
      [] OTHER -> {"absent", "partial", content[w][f]}

\* The calls under way end, and the file system is what reached the disk; the
\* calls that have not begun may come after the restart.
PowerLoss ==
    /\ pc' = [w \in Writer |->
                IF pc[w] \in {"check", "done"} THEN pc[w] ELSE "dead"]
    /\ place' \in {p \in [Writer -> Place] :
                     /\ \A w \in Writer : p[w] \in mayBe[w]
                     /\ \A v, w \in Writer : p[v] = "final" /\ p[w] = "final" => v = w}
    /\ mayBe' = [w \in Writer |-> {place'[w]}]
    /\ content' \in {c \in [Writer -> [File -> Content]] :
                       \A w \in Writer, f \in File : c[w][f] \in MayHold(w, f)}
    /\ synced' = [w \in Writer |-> File]
    /\ named' = [w \in Writer |-> File]
    /\ other' \in {o \in {"none", "empty", "taken"} :
                     /\ other = "taken" => o = "taken"
                     /\ o # "none" => \A w \in Writer : place'[w] # "final"}
    /\ UNCHANGED <<at, result>>

\* Other programs make, fill and remove what is theirs.
Others ==
    /\ \A w \in Writer : place[w] # "final"
    /\ other' \in {"none", "empty", "taken"}
    /\ UNCHANGED <<pc, at, directories, data, result>>

Next == (\E w \in Writer : Proceed(w) \/ Die(w)) \/ PowerLoss \/ Others

Spec == Init /\ [][Next]_vars

-----------------------------------------------------------------------------
(* Properties                                                              *)

Whole(w) == \A f \in File : content[w][f] = "whole"

\* Under the final name there is never a part of a bundle: not while calls race
\* or fail, not after one was killed, not when the power was lost.  It needs
\* every file and the names in the temporary directory on the disk before the
\* rename (write, 94-116).
PublishedWhole ==
    SyncWorks => \A w \in Writer : place[w] = "final" => Whole(w)

\* The calls keep what BundleStore promises: one bundle at most, never
\* replaced, and in place for good once a call has returned its path, which is
\* what the sync of the output directory is for (write, 109-122).
Store == INSTANCE BundleStore WITH
    shown    <- {w \in Writer : place[w] = "final"},
    broken   <- {w \in Writer : place[w] = "final" /\ ~Whole(w)},
    reported <- {w \in Writer : result[w] = "path"}

ImplementsStore == Store!Spec

\* However a call ends, by a collision as by a failed operation, it has tried
\* to remove its temporary directory before it ends (write, 125-127).
EndsTidy ==
    [][\A w \in Writer :
         place[w] = "temp" /\ pc[w] # "done" /\ pc'[w] = "done"
             => pc[w] = "cleanup"]_vars
=============================================================================
