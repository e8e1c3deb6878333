----------------------------- MODULE MCSession -----------------------------
(* Finite instances of Session.                                            *)
EXTENDS Session, TLC

CONSTANTS p1, p2

\* Two profiles.  A comparison may be replaced, and a save and its load done
\* again while an apply goes on.
ProfilesMade == [k \in Kinds |-> IF k = "plan" THEN 1 ELSE 2]
ProfilesInput ==
    {m \in Operator : /\ m.type # "dryRunCommand"
                      /\ m.type = "goto" => m.view = "apply"
                      /\ m.type = "apply" => ~m.dry}

\* One profile.  A plan may be replaced while it is saved, and a save by
\* another one; a dry run may be under way or waited for.
SavesMade == [k \in Kinds |-> IF k \in {"plan", "path"} THEN 2 ELSE 1]
SavesInput ==
    {m \in Operator : /\ m.type # "select"
                      /\ m.type = "goto" => m.view = "apply"}

\* One profile, and one comparison after another.
ReadsMade == [k \in Kinds |-> 1]
ReadsInput == {m \in Operator : m.type # "select"}

\* Two profiles, and a second save while the first one is applied.
ForgottenMade == [k \in Kinds |-> IF k = "path" THEN 2 ELSE 1]
ForgottenInput ==
    {m \in Operator : /\ m.type \notin {"dryRunCommand", "cancel"}
                      /\ m.type = "goto" => m.view = "apply"
                      /\ m.type = "apply" => ~m.dry}

MCSymmetry == Permutations(Profile)
=============================================================================
