-------------------------- MODULE BundleWriterProofs --------------------------
(***************************************************************************)
(* What BundleWriter does for any number of calls and files: the types, that *)
(* a bundle under the final name is whole, and that BundleStore is           *)
(* implemented.                                                            *)
(***************************************************************************)
EXTENDS BundleWriter, TLAPS

\* The directory of a call is where its next operation expects it.
Located(w) ==
    /\ pc[w] \in {"check", "validate", "mkdtemp"} =>
         place[w] = "none" /\ mayBe[w] = {"none"}
    /\ pc[w] \in Filling \cup {"cleanup"} => place[w] = "temp"
    /\ pc[w] = "syncOutput" => place[w] = "final"
    /\ place[w] = "final" => pc[w] \in {"syncOutput", "done", "dead"}
    /\ "final" \in mayBe[w] => place[w] = "final"

\* How far the files are, for the operation that comes next.
Filled(w) ==
    /\ pc[w] \in {"check", "validate", "mkdtemp"} => at[w] = 1
    /\ pc[w] \in {"open", "write", "fsync"} => at[w] \in File
    /\ pc[w] \in {"open", "write", "fsync"} =>
         \A f \in File : f < at[w] => content[w][f] = "whole" /\ f \in synced[w]
    /\ pc[w] = "fsync" => content[w][at[w]] = "whole"
    /\ pc[w] \in {"syncTemp", "checkAgain", "rename"} =>
         \A f \in File : content[w][f] = "whole" /\ f \in synced[w]
    /\ SyncWorks /\ pc[w] \in {"checkAgain", "rename"} => named[w] = File

\* What is published is on the disk: no loss of power changes it.
OnDisk(w) ==
    SyncWorks /\ place[w] = "final" =>
        \A f \in File : content[w][f] = "whole" /\ f \in synced[w] /\ f \in named[w]

\* What was reported is under the final name, for certain.
Kept(w) ==
    /\ result[w] = "path" => pc[w] = "done" /\ (SyncWorks => place[w] = "final")
    /\ SyncWorks /\ result[w] = "path" => mayBe[w] = {"final"}

OnePublished ==
    \A v, w \in Writer : place[v] = "final" /\ place[w] = "final" => v = w

OneCall(w) == Located(w) /\ Filled(w) /\ OnDisk(w) /\ Kept(w)

IInv == TypeOK /\ OnePublished /\ \A w \in Writer : OneCall(w)

-----------------------------------------------------------------------------
(* The invariant is inductive                                              *)

USE FilesAssumption, SyncAssumption DEF File, Filling

LEMMA InitIInv == Init => IInv
  <1> SUFFICES ASSUME Init PROVE IInv
    OBVIOUS
  <1>1. TypeOK
    BY DEF Init, TypeOK, Place, Content, PC
  <1>2. OnePublished
    BY DEF Init, OnePublished
  <1>3. ASSUME NEW w \in Writer PROVE OneCall(w)
    BY DEF Init, OneCall, Located, Filled, OnDisk, Kept
  <1> QED
    BY <1>1, <1>2, <1>3 DEF IInv

\* Nothing of call v changes, but that its entry in the output directory may be
\* synced.
Untouched(v) ==
    /\ pc'[v] = pc[v]
    /\ at'[v] = at[v]
    /\ place'[v] = place[v]
    /\ mayBe'[v] = mayBe[v] \/ mayBe'[v] = {place[v]}
    /\ content'[v] = content[v]
    /\ synced'[v] = synced[v]
    /\ named'[v] = named[v]
    /\ result'[v] = result[v]

LEMMA UntouchedKeeps ==
    ASSUME NEW v \in Writer, OneCall(v), Untouched(v) PROVE OneCall(v)'
  <1>1. Located(v)'
    BY DEF OneCall, Located, Untouched
  <1>2. Filled(v)'
    BY DEF OneCall, Filled, Untouched
  <1>3. OnDisk(v)'
    BY DEF OneCall, OnDisk, Untouched
  <1>4. Kept(v)'
    BY DEF OneCall, Kept, Untouched
  <1> QED
    BY <1>1, <1>2, <1>3, <1>4 DEF OneCall

\* A step of one call keeps the invariant if it keeps what the invariant says
\* of that call and the types, and publishes only where nothing is.
LEMMA StepOfOne ==
    ASSUME IInv, NEW w \in Writer, TypeOK', OneCall(w)',
           \A v \in Writer \ {w} : Untouched(v),
           \/ place'[w] # "final"
           \/ place[w] = "final"
           \/ \A v \in Writer : place[v] # "final"
    PROVE  IInv'
  <1>1. ASSUME NEW v \in Writer PROVE OneCall(v)'
    BY <1>1, UntouchedKeeps DEF IInv
  <1>2. \A v \in Writer \ {w} : place'[v] = place[v]
    BY DEF Untouched
  <1>3. OnePublished'
    BY <1>2 DEF OnePublished, IInv
  <1> QED
    BY <1>1, <1>3 DEF IInv

-----------------------------------------------------------------------------
(* The operations of a call                                                *)

LEMMA RaiseKeeps ==
    ASSUME IInv, NEW w \in Writer, pc[w] \notin {"cleanup", "done", "dead"},
           Raise(w), UNCHANGED <<at, directories, data, other>>
    PROVE  IInv'
  <1> USE DEF Raise, Goto, End, directories, data
  <1>1. TypeOK'
    BY DEF IInv, TypeOK, PC
  <1>2. OneCall(w)'
    BY DEF IInv, TypeOK, OneCall, Located, Filled, OnDisk, Kept, PC
  <1>3. \A v \in Writer \ {w} : Untouched(v)
    BY DEF IInv, TypeOK, Untouched
  <1>4. place' = place
    OBVIOUS
  <1> QED
    BY <1>1, <1>2, <1>3, <1>4, StepOfOne

LEMMA CheckKeeps ==
    ASSUME IInv, NEW w \in Writer, CheckDestination(w) PROVE IInv'
  <1>1. CASE DestinationExists
    BY <1>1, RaiseKeeps DEF CheckDestination
  <1>2. CASE ~DestinationExists
    <2> USE <1>2 DEF CheckDestination, Goto, directories, data
    <2>1. TypeOK'
      BY DEF IInv, TypeOK, PC
    <2>2. OneCall(w)'
      BY DEF IInv, TypeOK, OneCall, Located, Filled, OnDisk, Kept
    <2>3. \A v \in Writer \ {w} : Untouched(v)
      BY DEF IInv, TypeOK, Untouched
    <2>4. place' = place
      OBVIOUS
    <2> QED
      BY <2>1, <2>2, <2>3, <2>4, StepOfOne
  <1> QED
    BY <1>1, <1>2

LEMMA ValidateKeeps ==
    ASSUME IInv, NEW w \in Writer, ValidateOutput(w) PROVE IInv'
  <1> USE DEF ValidateOutput, Goto, directories, data
  <1>1. TypeOK'
    BY DEF IInv, TypeOK, OneCall, Filled, PC, Place, Content
  <1>2. OneCall(w)'
    <2>1. Located(w)'
      BY DEF IInv, TypeOK, OneCall, Located, Kept
    <2>2. Filled(w)'
      BY DEF IInv, TypeOK, OneCall, Filled, Located
    <2>3. OnDisk(w)'
      BY DEF IInv, TypeOK, OneCall, OnDisk, Located, Filled
    <2>4. Kept(w)'
      BY DEF IInv, TypeOK, OneCall, Kept, Located
    <2> QED
      BY <2>1, <2>2, <2>3, <2>4 DEF OneCall
  <1>3. \A v \in Writer \ {w} : Untouched(v)
    BY DEF IInv, TypeOK, Untouched
  <1>4. place'[w] # "final" \/ place[w] = "final" \/ \A v \in Writer : place[v] # "final"
    BY DEF IInv, TypeOK, OneCall, Located
  <1> QED
    BY <1>1, <1>2, <1>3, <1>4, StepOfOne

LEMMA MakeTempKeeps ==
    ASSUME IInv, NEW w \in Writer, MakeTemp(w) PROVE IInv'
  <1> USE DEF MakeTemp, Goto, directories, data, NextFile
  <1>1. TypeOK'
    <2>1. pc' \in [Writer -> PC]
      BY DEF IInv, TypeOK, PC
    <2>2. place' \in [Writer -> Place] /\ mayBe' \in [Writer -> SUBSET Place]
      BY DEF IInv, TypeOK, Place
    <2> QED
      BY <2>1, <2>2 DEF IInv, TypeOK
  <1>2. OneCall(w)'
    <2>1. Located(w)'
      BY DEF IInv, TypeOK, OneCall, Located, Kept
    <2>2. Filled(w)'
      BY DEF IInv, TypeOK, OneCall, Filled, Located
    <2>3. OnDisk(w)'
      BY DEF IInv, TypeOK, OneCall, OnDisk, Located, Filled
    <2>4. Kept(w)'
      BY DEF IInv, TypeOK, OneCall, Kept, Located
    <2> QED
      BY <2>1, <2>2, <2>3, <2>4 DEF OneCall
  <1>3. \A v \in Writer \ {w} : Untouched(v)
    BY DEF IInv, TypeOK, Untouched
  <1>4. place'[w] # "final" \/ place[w] = "final" \/ \A v \in Writer : place[v] # "final"
    BY DEF IInv, TypeOK, OneCall, Located
  <1> QED
    BY <1>1, <1>2, <1>3, <1>4, StepOfOne

LEMMA OpenKeeps ==
    ASSUME IInv, NEW w \in Writer, OpenFile(w) PROVE IInv'
  <1> USE DEF OpenFile, Goto, directories, data, SetContent
  <1>1. TypeOK'
    BY DEF IInv, TypeOK, OneCall, Filled, PC, Place, Content
  <1>2. OneCall(w)'
    <2>1. Located(w)'
      BY DEF IInv, TypeOK, OneCall, Located, Kept
    <2>2. Filled(w)'
      BY DEF IInv, TypeOK, OneCall, Filled, Located
    <2>3. OnDisk(w)'
      BY DEF IInv, TypeOK, OneCall, OnDisk, Located, Filled
    <2>4. Kept(w)'
      BY DEF IInv, TypeOK, OneCall, Kept, Located
    <2> QED
      BY <2>1, <2>2, <2>3, <2>4 DEF OneCall
  <1>3. \A v \in Writer \ {w} : Untouched(v)
    BY DEF IInv, TypeOK, Untouched
  <1>4. place'[w] # "final" \/ place[w] = "final" \/ \A v \in Writer : place[v] # "final"
    BY DEF IInv, TypeOK, OneCall, Located
  <1> QED
    BY <1>1, <1>2, <1>3, <1>4, StepOfOne

LEMMA WriteKeeps ==
    ASSUME IInv, NEW w \in Writer, WriteFile(w) PROVE IInv'
  <1> USE DEF WriteFile, Goto, directories, data, SetContent
  <1>1. TypeOK'
    BY DEF IInv, TypeOK, OneCall, Filled, PC, Place, Content
  <1>2. OneCall(w)'
    <2>1. Located(w)'
      BY DEF IInv, TypeOK, OneCall, Located, Kept
    <2>2. Filled(w)'
      BY DEF IInv, TypeOK, OneCall, Filled, Located
    <2>3. OnDisk(w)'
      BY DEF IInv, TypeOK, OneCall, OnDisk, Located, Filled
    <2>4. Kept(w)'
      BY DEF IInv, TypeOK, OneCall, Kept, Located
    <2> QED
      BY <2>1, <2>2, <2>3, <2>4 DEF OneCall
  <1>3. \A v \in Writer \ {w} : Untouched(v)
    BY DEF IInv, TypeOK, Untouched
  <1>4. place'[w] # "final" \/ place[w] = "final" \/ \A v \in Writer : place[v] # "final"
    BY DEF IInv, TypeOK, OneCall, Located
  <1> QED
    BY <1>1, <1>2, <1>3, <1>4, StepOfOne

LEMMA SyncFileKeeps ==
    ASSUME IInv, NEW w \in Writer, SyncFile(w) PROVE IInv'
  <1> USE DEF SyncFile, Goto, directories, data, NextFile
  <1>1. TypeOK'
    <2>1. at[w] \in File
      BY DEF IInv, OneCall, Filled
    <2>2. at' \in [Writer -> 1 .. (Files + 1)]
      BY <2>1 DEF IInv, TypeOK
    <2>3. synced' \in [Writer -> SUBSET File]
      BY <2>1 DEF IInv, TypeOK
    <2>4. pc' \in [Writer -> PC]
      BY DEF IInv, TypeOK, PC
    <2> QED
      BY <2>2, <2>3, <2>4 DEF IInv, TypeOK
  <1>2. OneCall(w)'
    <2>1. Located(w)'
      BY DEF IInv, TypeOK, OneCall, Located, Kept
    <2>2. Filled(w)'
      BY DEF IInv, TypeOK, OneCall, Filled, Located
    <2>3. OnDisk(w)'
      BY DEF IInv, TypeOK, OneCall, OnDisk, Located, Filled
    <2>4. Kept(w)'
      BY DEF IInv, TypeOK, OneCall, Kept, Located
    <2> QED
      BY <2>1, <2>2, <2>3, <2>4 DEF OneCall
  <1>3. \A v \in Writer \ {w} : Untouched(v)
    BY DEF IInv, TypeOK, Untouched
  <1>4. place'[w] # "final" \/ place[w] = "final" \/ \A v \in Writer : place[v] # "final"
    BY DEF IInv, TypeOK, OneCall, Located
  <1> QED
    BY <1>1, <1>2, <1>3, <1>4, StepOfOne

LEMMA SyncTempKeeps ==
    ASSUME IInv, NEW w \in Writer, SyncTemp(w) PROVE IInv'
  <1> USE DEF SyncTemp, Goto, directories, data
  <1>1. TypeOK'
    BY DEF IInv, TypeOK, OneCall, Filled, PC, Place, Content
  <1>2. OneCall(w)'
    <2>1. Located(w)'
      BY DEF IInv, TypeOK, OneCall, Located, Kept
    <2>2. Filled(w)'
      <3>1. \A f \in File : content[w][f] = "whole"
        BY DEF IInv, OneCall, Filled
      <3>2. {f \in File : content[w][f] # "absent"} = File
        BY <3>1
      <3>3. SyncWorks => named'[w] = File
        BY <3>2 DEF IInv, TypeOK
      <3> QED
        BY <3>3 DEF IInv, TypeOK, OneCall, Filled, Located
    <2>3. OnDisk(w)'
      BY DEF IInv, TypeOK, OneCall, OnDisk, Located, Filled
    <2>4. Kept(w)'
      BY DEF IInv, TypeOK, OneCall, Kept, Located
    <2> QED
      BY <2>1, <2>2, <2>3, <2>4 DEF OneCall
  <1>3. \A v \in Writer \ {w} : Untouched(v)
    BY DEF IInv, TypeOK, Untouched
  <1>4. place'[w] # "final" \/ place[w] = "final" \/ \A v \in Writer : place[v] # "final"
    BY DEF IInv, TypeOK, OneCall, Located
  <1> QED
    BY <1>1, <1>2, <1>3, <1>4, StepOfOne

LEMMA RenameKeeps ==
    ASSUME IInv, NEW w \in Writer, Rename(w) PROVE IInv'
  <1> USE DEF Rename, Goto, directories, data, CanRename
  <1>1. TypeOK'
    BY DEF IInv, TypeOK, OneCall, Filled, PC, Place, Content
  <1>2. OneCall(w)'
    <2>1. Located(w)'
      BY DEF IInv, TypeOK, OneCall, Located, Kept
    <2>2. Filled(w)'
      BY DEF IInv, TypeOK, OneCall, Filled, Located
    <2>3. OnDisk(w)'
      BY DEF IInv, TypeOK, OneCall, OnDisk, Located, Filled
    <2>4. Kept(w)'
      BY DEF IInv, TypeOK, OneCall, Kept, Located
    <2> QED
      BY <2>1, <2>2, <2>3, <2>4 DEF OneCall
  <1>3. \A v \in Writer \ {w} : Untouched(v)
    BY DEF IInv, TypeOK, Untouched
  <1>4. place'[w] # "final" \/ place[w] = "final" \/ \A v \in Writer : place[v] # "final"
    BY DEF IInv, TypeOK, OneCall, Located
  <1> QED
    BY <1>1, <1>2, <1>3, <1>4, StepOfOne

LEMMA SyncOutputKeeps ==
    ASSUME IInv, NEW w \in Writer, SyncOutput(w) PROVE IInv'
  <1> USE DEF SyncOutput, Goto, directories, data, End, SyncedNames
  <1>1. TypeOK'
    BY DEF IInv, TypeOK, OneCall, Filled, PC, Place, Content
  <1>2. OneCall(w)'
    <2>1. Located(w)'
      BY DEF IInv, TypeOK, OneCall, Located, Kept
    <2>2. Filled(w)'
      BY DEF IInv, TypeOK, OneCall, Filled, Located
    <2>3. OnDisk(w)'
      BY DEF IInv, TypeOK, OneCall, OnDisk, Located, Filled
    <2>4. Kept(w)'
      BY DEF IInv, TypeOK, OneCall, Kept, Located
    <2> QED
      BY <2>1, <2>2, <2>3, <2>4 DEF OneCall
  <1>3. \A v \in Writer \ {w} : Untouched(v)
    BY DEF IInv, TypeOK, Untouched
  <1>4. place'[w] # "final" \/ place[w] = "final" \/ \A v \in Writer : place[v] # "final"
    BY DEF IInv, TypeOK, OneCall, Located
  <1> QED
    BY <1>1, <1>2, <1>3, <1>4, StepOfOne

LEMMA CleanupKeeps ==
    ASSUME IInv, NEW w \in Writer, Cleanup(w) PROVE IInv'
  <1> USE DEF Cleanup, Goto, directories, data, End
  <1>1. TypeOK'
    BY DEF IInv, TypeOK, OneCall, Filled, PC, Place, Content
  <1>2. OneCall(w)'
    <2>1. Located(w)'
      BY DEF IInv, TypeOK, OneCall, Located, Kept
    <2>2. Filled(w)'
      BY DEF IInv, TypeOK, OneCall, Filled, Located
    <2>3. OnDisk(w)'
      BY DEF IInv, TypeOK, OneCall, OnDisk, Located, Filled
    <2>4. Kept(w)'
      BY DEF IInv, TypeOK, OneCall, Kept, Located
    <2> QED
      BY <2>1, <2>2, <2>3, <2>4 DEF OneCall
  <1>3. \A v \in Writer \ {w} : Untouched(v)
    BY DEF IInv, TypeOK, Untouched
  <1>4. place'[w] # "final" \/ place[w] = "final" \/ \A v \in Writer : place[v] # "final"
    BY DEF IInv, TypeOK, OneCall, Located
  <1> QED
    BY <1>1, <1>2, <1>3, <1>4, StepOfOne

LEMMA DieKeeps ==
    ASSUME IInv, NEW w \in Writer, Die(w) PROVE IInv'
  <1> USE DEF Die, Goto, directories, data
  <1>1. TypeOK'
    BY DEF IInv, TypeOK, OneCall, Filled, PC, Place, Content
  <1>2. OneCall(w)'
    <2>1. Located(w)'
      BY DEF IInv, TypeOK, OneCall, Located, Kept
    <2>2. Filled(w)'
      BY DEF IInv, TypeOK, OneCall, Filled, Located
    <2>3. OnDisk(w)'
      BY DEF IInv, TypeOK, OneCall, OnDisk, Located, Filled
    <2>4. Kept(w)'
      BY DEF IInv, TypeOK, OneCall, Kept, Located
    <2> QED
      BY <2>1, <2>2, <2>3, <2>4 DEF OneCall
  <1>3. \A v \in Writer \ {w} : Untouched(v)
    BY DEF IInv, TypeOK, Untouched
  <1>4. place'[w] # "final" \/ place[w] = "final" \/ \A v \in Writer : place[v] # "final"
    BY DEF IInv, TypeOK, OneCall, Located
  <1> QED
    BY <1>1, <1>2, <1>3, <1>4, StepOfOne
-----------------------------------------------------------------------------
(* Loss of power, and other programs                                       *)

LEMMA PowerLossKeeps == ASSUME IInv, PowerLoss PROVE IInv'
  <1> USE DEF PowerLoss
  <1>1. TypeOK'
    <2>1. pc' \in [Writer -> PC]
      BY DEF IInv, TypeOK, PC
    <2>2. mayBe' \in [Writer -> SUBSET Place]
      <3>1. place' \in [Writer -> Place]
        OBVIOUS
      <3> QED
        BY <3>1
    <2> QED
      BY <2>1, <2>2 DEF IInv, TypeOK
  <1>2. ASSUME NEW w \in Writer PROVE OneCall(w)'
    <2>1. OneCall(w) /\ pc[w] \in PC
      BY DEF IInv, TypeOK
    <2>2. place'[w] \in mayBe[w] /\ mayBe'[w] = {place'[w]}
      OBVIOUS
    <2>3. pc'[w] = IF pc[w] \in {"check", "done"} THEN pc[w] ELSE "dead"
      OBVIOUS
    <2>4. at'[w] = at[w] /\ result'[w] = result[w]
      OBVIOUS
    <2>5. Located(w)'
      BY <2>1, <2>2, <2>3 DEF OneCall, Located
    <2>6. Filled(w)'
      BY <2>1, <2>3, <2>4 DEF OneCall, Filled
    <2>7. OnDisk(w)'
      <3> SUFFICES ASSUME SyncWorks, place'[w] = "final", NEW f \in File
                   PROVE  content'[w][f] = "whole" /\ f \in synced'[w] /\ f \in named'[w]
        BY DEF OnDisk
      <3>1. place[w] = "final"
        BY <2>1, <2>2 DEF OneCall, Located
      <3>2. content[w][f] = "whole" /\ f \in synced[w] /\ f \in named[w]
        BY <2>1, <3>1 DEF OneCall, OnDisk
      <3>3. content'[w][f] \in MayHold(w, f)
        OBVIOUS
      <3> QED
        BY <3>2, <3>3 DEF MayHold
    <2>8. Kept(w)'
      BY <2>1, <2>2, <2>3, <2>4 DEF OneCall, Kept
    <2> QED
      BY <2>5, <2>6, <2>7, <2>8 DEF OneCall
  <1>3. OnePublished'
    BY DEF OnePublished
  <1> QED
    BY <1>1, <1>2, <1>3 DEF IInv

LEMMA UnchangedKeeps ==
    ASSUME IInv, UNCHANGED <<pc, at, directories, data, result>>,
           other' \in {"none", "empty", "taken"}
    PROVE  IInv'
  <1> USE DEF directories, data
  <1>1. TypeOK'
    BY DEF IInv, TypeOK
  <1>2. ASSUME NEW w \in Writer PROVE OneCall(w)'
    BY UntouchedKeeps DEF IInv, Untouched
  <1>3. OnePublished'
    BY DEF IInv, OnePublished
  <1> QED
    BY <1>1, <1>2, <1>3 DEF IInv

LEMMA StepKeeps == ASSUME IInv, [Next]_vars PROVE IInv'
  <1>1. CASE UNCHANGED vars
    BY <1>1, UnchangedKeeps DEF vars, IInv, TypeOK
  <1>2. CASE Next
    <2>1. ASSUME NEW w \in Writer, Proceed(w) PROVE IInv'
      <3>1. CASE Fails(w)
        BY <3>1, RaiseKeeps DEF Fails
      <3> QED
        BY <2>1, <3>1, CheckKeeps, ValidateKeeps, MakeTempKeeps, OpenKeeps,
           WriteKeeps, SyncFileKeeps, SyncTempKeeps, RenameKeeps,
           SyncOutputKeeps, CleanupKeeps DEF Proceed
    <2>2. CASE Others
      BY <2>2, UnchangedKeeps DEF Others
    <2> QED
      BY <1>2, <2>1, <2>2, DieKeeps, PowerLossKeeps DEF Next
  <1> QED
    BY <1>1, <1>2

\* IInv always holds.
THEOREM WriterInvariance == Spec => []IInv
  BY InitIInv, StepKeeps, PTL DEF Spec

-----------------------------------------------------------------------------
(* The results                                                             *)

\* Every variable keeps its type, for any calls and any number of files.
THEOREM WriterTypeCorrect == Spec => []TypeOK
  <1>1. IInv => TypeOK
    BY DEF IInv
  <1> QED
    BY <1>1, WriterInvariance, PTL

LEMMA WholeThere == IInv => PublishedWhole
  BY DEF IInv, OneCall, OnDisk, PublishedWhole, Whole

\* Under the final name there is never a part of a bundle, whatever races,
\* fails, dies or is lost, for any calls and any number of files.
THEOREM PublishedIsWhole == Spec => []PublishedWhole
  BY WholeThere, WriterInvariance, PTL

\* No call ends without having tried to remove its temporary directory: it is
\* a step of Cleanup that ends the call, or there is no such directory.
THEOREM CallsEndTidy == Spec => EndsTidy
  <1>1. ASSUME IInv, [Next]_vars
        PROVE  [\A w \in Writer :
                  place[w] = "temp" /\ pc[w] # "done" /\ pc'[w] = "done"
                      => pc[w] = "cleanup"]_vars
    <2> SUFFICES ASSUME Next, NEW w \in Writer,
                        place[w] = "temp", pc[w] # "done", pc'[w] = "done"
                 PROVE  pc[w] = "cleanup"
      BY <1>1
    <2>0. Located(w) /\ pc \in [Writer -> PC]
      BY <1>1 DEF IInv, OneCall, TypeOK
    <2>1. CASE PowerLoss
      BY <2>1 DEF PowerLoss
    <2>2. CASE Others
      BY <2>2 DEF Others
    <2>3. ASSUME NEW v \in Writer, Proceed(v) \/ Die(v) PROVE v = w
      <3> SUFFICES ASSUME v # w PROVE pc'[w] = pc[w]
        OBVIOUS
      <3> QED
        BY <2>0, <2>3 DEF Proceed, Die, CheckDestination, ValidateOutput, MakeTemp,
           OpenFile, WriteFile, SyncFile, SyncTemp, Rename, SyncOutput, Fails,
           Cleanup, NextFile, Raise, Goto, End
    <2>4. CASE Die(w)
      BY <2>0, <2>4 DEF Die
    <2>5. CASE CheckDestination(w) \/ Fails(w)
      <3>1. Raise(w) \/ pc'[w] \in {"validate", "rename"}
        BY <2>0, <2>5 DEF CheckDestination, Fails, Goto
      <3>2. pc[w] \in Filling \cup {"cleanup"}
        BY <2>0, <2>5, <3>1 DEF CheckDestination, Fails, Located, PC
      <3> QED
        BY <2>0, <3>1, <3>2 DEF Raise, Goto
    <2>6. CASE Proceed(w) /\ ~CheckDestination(w) /\ ~Fails(w)
      BY <2>0, <2>6 DEF Proceed, ValidateOutput, MakeTemp, OpenFile, WriteFile,
         SyncFile, SyncTemp, Rename, SyncOutput, Cleanup, NextFile, Goto, End, Located
    <2> QED
      BY <2>1, <2>2, <2>3, <2>4, <2>5, <2>6 DEF Next
  <1> QED
    BY <1>1, WriterInvariance, PTL DEF Spec, EndsTidy

-----------------------------------------------------------------------------
(* The calls implement BundleStore                                         *)

\* A step of the calls is one of the store or does not concern it.
LEMMA StoreStep ==
    ASSUME SyncWorks, IInv, IInv', [Next]_vars
    PROVE  [Store!Next]_(Store!vars)
  <1> DEFINE shown == {w \in Writer : place[w] = "final"}
             broken == {w \in Writer : place[w] = "final" /\ ~Whole(w)}
             reported == {w \in Writer : result[w] = "path"}
  <1>1. broken = {} /\ broken' = {}
    BY DEF IInv, OneCall, OnDisk, Whole
  <1>2. ASSUME \A w \in Writer : place'[w] = "final" <=> place[w] = "final",
               \A w \in Writer : result'[w] = "path" <=> result[w] = "path"
        PROVE  UNCHANGED Store!vars
    <2>1. shown' = shown /\ reported' = reported
      BY <1>2
    <2> QED
      BY <1>1, <2>1 DEF Store!vars
  <1>3. CASE UNCHANGED vars \/ Others
    BY <1>2, <1>3 DEF vars, directories, Others
  <1>4. ASSUME NEW w \in Writer, Rename(w) PROVE Store!Publish(w)
    <2>1. shown = {}
      BY <1>4 DEF Rename, CanRename
    <2>2. shown' = {w}
      BY <1>4, <2>1 DEF Rename, IInv, TypeOK
    <2>3. reported' = reported
      BY <1>4 DEF Rename
    <2> QED
      BY <1>1, <2>1, <2>2, <2>3 DEF Store!Publish
  <1>5. ASSUME NEW w \in Writer, SyncOutput(w) PROVE Store!Report(w)
    <2>1. w \in shown
      BY <1>5 DEF SyncOutput, IInv, OneCall, Located
    <2>2. shown' = shown
      BY <1>5 DEF SyncOutput
    <2>3. reported' = reported \cup {w}
      BY <1>5 DEF SyncOutput, End, IInv, TypeOK
    <2> QED
      BY <1>1, <2>1, <2>2, <2>3 DEF Store!Report
  <1>6. ASSUME PowerLoss PROVE UNCHANGED Store!vars \/ Store!Lose
    <2>1. \A w \in Writer : place'[w] = "final" => place[w] = "final"
      BY <1>6 DEF PowerLoss, IInv, OneCall, Located
    <2>2. \A w \in Writer : result'[w] = result[w]
      BY <1>6 DEF PowerLoss
    <2>3. CASE \A w \in Writer : place[w] = "final" => place'[w] = "final"
      BY <1>2, <2>1, <2>2, <2>3
    <2>4. CASE \E w \in Writer : place[w] = "final" /\ place'[w] # "final"
      <3>1. PICK w \in Writer : place[w] = "final" /\ place'[w] # "final"
        BY <2>4
      <3>2. \A v \in Writer : place[v] = "final" => v = w
        BY <3>1 DEF IInv, OnePublished
      <3>3. result[w] # "path"
        BY <1>6, <3>1 DEF PowerLoss, IInv, OneCall, Kept
      <3>4. shown' = {}
        BY <2>1, <3>1, <3>2
      <3>5. reported = {} /\ reported' = {}
        BY <2>2, <3>2, <3>3 DEF IInv, OneCall, Kept
      <3> QED
        BY <1>1, <3>4, <3>5 DEF Store!Lose
    <2> QED
      BY <2>3, <2>4
  <1>7. ASSUME NEW w \in Writer, Proceed(w) \/ Die(w), ~Rename(w), ~SyncOutput(w)
        PROVE  UNCHANGED Store!vars
    <2>1. Located(w) /\ Kept(w) /\ pc[w] \in PC
      BY DEF IInv, OneCall, TypeOK
    <2>2. \A v \in Writer : place'[v] = "final" <=> place[v] = "final"
      BY <1>7, <2>1 DEF Proceed, Die, CheckDestination, ValidateOutput, MakeTemp,
         OpenFile, WriteFile, SyncFile, SyncTemp, Fails, Cleanup, directories,
         Located, IInv, TypeOK
    <2>3. \A v \in Writer : result'[v] = "path" <=> result[v] = "path"
      BY <1>7, <2>1 DEF Proceed, Die, CheckDestination, ValidateOutput, MakeTemp,
         OpenFile, WriteFile, SyncFile, SyncTemp, Fails, Cleanup, Raise, End,
         Kept, IInv, TypeOK
    <2> QED
      BY <1>2, <2>2, <2>3
  <1> QED
    BY <1>3, <1>4, <1>5, <1>6, <1>7 DEF Next, Store!Next

\* Where directories can be synced the calls are a BundleStore: one bundle at
\* most, whole, never replaced, and there for good once its path was returned,
\* for any calls and any number of files.
THEOREM WriterImplementsStore == ASSUME SyncWorks PROVE Spec => ImplementsStore
  <1>1. Init => Store!Init
    BY DEF Init, Store!Init
  <1>2. ASSUME IInv, IInv', [Next]_vars PROVE [Store!Next]_(Store!vars)
    BY <1>2, StoreStep
  <1> QED
    BY <1>1, <1>2, WriterInvariance, PTL DEF Spec, ImplementsStore, Store!Spec
=============================================================================
