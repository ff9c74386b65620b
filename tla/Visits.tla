-------------------------------- MODULE Visits --------------------------------
(* The visitors tab of one member: the visits that others make to them, the   *)
(* list of those that may be shown, and the time up to which the member has   *)
(* looked at it.  A visit is a transaction: its time is when it began, it is  *)
(* in the table when it commits, and the row of the same visitor is           *)
(* overwritten.  The list tells the time of its latest row, and the client    *)
(* gives that back when it marks the list as checked.                         *)
(*                                                                            *)
(* No two visits begin at the same time (timestamps are of a microsecond).    *)
EXTENDS Naturals

CONSTANTS VstVisitors,
          VstEnd      \* bound: how many visits are made, the member's own included

ASSUME VstAssumption == VstEnd \in Nat

VARIABLES vstNow,     \* the time of the latest visit
          vstUnseen,  \* who browses invisibly, or hides from the member as a stranger
          vstLeftOut, \* whom the list leaves out for now: asleep, skipped, hiding, suspect
          vstOpening, \* visits that have not committed: records [by, at, invisible]
          vstRow,     \* table visited: [at, invisible] of each visitor, at = 0 for no row
          vstMine,    \* the member's own latest visit
          vstList,    \* last_visited_at of the latest list that the client holds
          vstChecked, \* last_visitor_check_time
          vstOpenly,  \* history: the visits that were made openly
          vstShown,   \* history: the visits that some list has shown
          vstPassed   \* history: the visits that a list or a mark has passed over

vstHistory == <<vstOpenly, vstShown, vstPassed>>
vstVars == <<vstNow, vstUnseen, vstLeftOut, vstOpening, vstRow, vstMine, vstList,
             vstChecked, vstHistory>>

VstTimes == 0 .. VstEnd

VstInit ==
  /\ vstNow = 0 /\ vstUnseen = {} /\ vstLeftOut = {} /\ vstOpening = {}
  /\ vstRow = [v \in VstVisitors |-> [at |-> 0, invisible |-> FALSE]]
  /\ vstMine = 0 /\ vstList = 0 /\ vstChecked = 0
  /\ vstOpenly = {} /\ vstShown = {} /\ vstPassed = {}

-----------------------------------------------------------------------------
(* Visits.                                                                     *)

\* updated_visited of Q_SELECT_PROSPECT_PROFILE: whether it is invisible is read
\* in the statement's snapshot.
BeginVisit(v) ==
  /\ vstNow < VstEnd /\ vstNow' = vstNow + 1
  /\ vstOpening' = vstOpening \cup
       {[by |-> v, at |-> vstNow + 1, invisible |-> v \in vstUnseen]}
  /\ vstOpenly' = IF v \in vstUnseen THEN vstOpenly ELSE vstOpenly \cup {vstNow + 1}
  /\ UNCHANGED <<vstUnseen, vstLeftOut, vstRow, vstMine, vstList, vstChecked,
                 vstShown, vstPassed>>

\* ON CONFLICT: whichever commits last has the row, with a time that may be older.
CommitVisit(o) ==
  /\ vstRow' = [vstRow EXCEPT ![o.by] = [at |-> o.at, invisible |-> o.invisible]]
  /\ vstOpening' = vstOpening \ {o}
  /\ UNCHANGED <<vstNow, vstUnseen, vstLeftOut, vstMine, vstList, vstChecked, vstHistory>>

FailVisit(o) ==
  /\ vstOpening' = vstOpening \ {o}
  /\ UNCHANGED <<vstNow, vstUnseen, vstLeftOut, vstRow, vstMine, vstList, vstChecked, vstHistory>>

\* The member looks at somebody else's profile: the list holds those visits too.
OwnVisit ==
  /\ vstNow < VstEnd /\ vstNow' = vstNow + 1 /\ vstMine' = vstNow + 1
  /\ UNCHANGED <<vstUnseen, vstLeftOut, vstOpening, vstRow, vstList, vstChecked, vstHistory>>

\* browse_invisibly, hide_me_from_strangers, a first message to the member.
ChangeSettings(v) ==
  /\ vstUnseen' = IF v \in vstUnseen THEN vstUnseen \ {v} ELSE vstUnseen \cup {v}
  /\ UNCHANGED <<vstNow, vstLeftOut, vstOpening, vstRow, vstMine, vstList, vstChecked, vstHistory>>

\* Skips, deactivation, hiding, reports, and the end of each.
ComeAndGo(v) ==
  /\ vstLeftOut' = IF v \in vstLeftOut THEN vstLeftOut \ {v} ELSE vstLeftOut \cup {v}
  /\ UNCHANGED <<vstNow, vstUnseen, vstOpening, vstRow, vstMine, vstList, vstChecked, vstHistory>>

-----------------------------------------------------------------------------
(* The list and the mark.                                                      *)

\* Q_VISITORS.
Listed == {v \in VstVisitors :
             vstRow[v].at # 0 /\ ~vstRow[v].invisible /\ v \notin vstLeftOut}
IsNew(v) == vstRow[v].at > vstChecked

\* The visits that are in the table or on their way to it.
Pending == ({o.at : o \in vstOpening} \cup {vstRow[v].at : v \in VstVisitors}) \ {0}

\* last_visited_at, over both directions; m is 0 when the latest whom the member
\* visited are themselves left out.
GetVisitors(m) ==
  LET times == {vstRow[v].at : v \in Listed} IN
  /\ \E last \in times \cup {m} :
       /\ \A t \in times \cup {m} : t <= last
       /\ vstList' = last
       /\ vstPassed' = vstPassed \cup {t \in Pending \ times : t <= last}
  /\ vstShown' = vstShown \cup times
  /\ UNCHANGED <<vstNow, vstUnseen, vstLeftOut, vstOpening, vstRow, vstMine, vstChecked, vstOpenly>>

\* Mutant of CheckedAt: the time that the client gives is not used.
CheckedNow(when) == vstNow

\* GREATEST(LEAST(when, NOW()), last_visitor_check_time); NOW() is later than
\* every visit that has begun.
CheckedAt(when) ==
  LET until == IF when > vstNow THEN vstNow ELSE when
  IN  IF until > vstChecked THEN until ELSE vstChecked

MarkVisitorsChecked ==
  /\ vstChecked' = CheckedAt(vstList)
  /\ UNCHANGED <<vstNow, vstUnseen, vstLeftOut, vstOpening, vstRow, vstMine, vstList, vstHistory>>

\* Without a time it is NOW(): whatever there is by now counts as looked at.
MarkAllChecked ==
  /\ vstChecked' = CheckedAt(vstNow)
  /\ vstPassed' = vstPassed \cup Pending
  /\ UNCHANGED <<vstNow, vstUnseen, vstLeftOut, vstOpening, vstRow, vstMine, vstList,
                 vstOpenly, vstShown>>

VstNext ==
  \/ \E v \in VstVisitors : BeginVisit(v) \/ ChangeSettings(v) \/ ComeAndGo(v)
  \/ \E o \in vstOpening : CommitVisit(o) \/ FailVisit(o)
  \/ OwnVisit
  \/ \E m \in {0, vstMine} : GetVisitors(m)
  \/ MarkVisitorsChecked \/ MarkAllChecked

VstSpec == VstInit /\ [][VstNext]_vstVars

-----------------------------------------------------------------------------
(* Properties.                                                                 *)

\* Every variable keeps its type.
VstTypeOK ==
  /\ vstNow \in VstTimes /\ vstMine \in VstTimes /\ vstList \in VstTimes
  /\ vstChecked \in VstTimes
  /\ vstUnseen \subseteq VstVisitors /\ vstLeftOut \subseteq VstVisitors
  /\ vstOpening \subseteq [by : VstVisitors, at : VstTimes, invisible : BOOLEAN]
  /\ vstRow \in [VstVisitors -> [at : VstTimes, invisible : BOOLEAN]]
  /\ vstOpenly \subseteq VstTimes /\ vstShown \subseteq VstTimes /\ vstPassed \subseteq VstTimes

\* Whoever the tab shows made the visit that it shows openly, whatever settings,
\* skips and messages followed; and a visit appears there as new until a list has
\* shown it, unless it was passed over: it had not committed, or was left out,
\* when a list with a later time was read, or when the tab was marked as checked
\* without a time.
VisitorsAreNoticed ==
  \A v \in Listed : LET t == vstRow[v].at IN
    /\ t \in vstOpenly
    /\ IsNew(v) \/ t \in vstShown \cup vstPassed

=============================================================================
