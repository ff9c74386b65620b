------------------------------ MODULE MCServices ------------------------------
(* Components that share no step: who sees whom, the visitors tab, the       *)
(* profile, and notifications.  TLC picks one of them and runs it.           *)
EXTENDS Visibility, Visits, Profile, Notifications, TLC

CONSTANTS ann, bob, d1, d2

VARIABLE part

\* Visibility: bob has verified his photos, ann has not; ann searches.
VLevel == ann :> 1 @@ bob :> 3
VMatch == {<<bob, ann>>}
VBoth == {<<ann, bob>>, <<bob, ann>>}
VMay == ann :> {"in-club"} @@ bob :> {"hide", "private"}

\* Two searches of ann, two visitors and two workers differ in nothing but their names.
SvcSymmetry == Permutations({d1, d2})

\* Notifications: never, at once, and at most every tick.  Chats at once and intros
\* daily is what init-api.sql gives a new person.
NDaily == {-1, 0, 1}
Defaults == "intro" :> 1 @@ "chat" :> 0

SvcInit ==
  /\ part \in {"visibility", "visits", "profile", "notifications"}
  /\ VisInit /\ VstInit /\ ProInit /\ NotInit
  /\ notDrift = Defaults

SvcNext ==
  /\ UNCHANGED part
  /\ \/ part = "visibility" /\ VisNext /\ UNCHANGED <<vstVars, proVars, notVars>>
     \/ part = "visits" /\ VstNext /\ UNCHANGED <<visVars, proVars, notVars>>
     \/ part = "profile" /\ ProNext /\ UNCHANGED <<visVars, vstVars, notVars>>
     \/ part = "notifications" /\ NotNext /\ UNCHANGED <<visVars, vstVars, proVars>>

SvcSpec == SvcInit /\ [][SvcNext]_<<part, visVars, vstVars, proVars, notVars>>

\* The variables of the one that runs keep their types.
SvcTypeOK ==
  CASE part = "visibility"    -> VisTypeOK
    [] part = "visits"        -> VstTypeOK
    [] part = "profile"       -> ProTypeOK
    [] part = "notifications" -> NotTypeOK
=============================================================================
