---------------------------- MODULE BestDistance ----------------------------
(* The distance preference of a new member: best_distance, a recursive query  *)
(* of Q_FINISH_ONBOARDING that looks for the distance within which about 2000  *)
(* people match, and what p4 makes of it.  A step of the recursion is an action.*)
(*                                                                             *)
(* Who matches otherwise (gender, age, the other's distance) is the set        *)
(* bdPeople, given by the distances at which they live.  Distances are counted *)
(* in 32nds of 10000 km, which is as fine as five halvings get; the last is     *)
(* further than 10000 km.                                                      *)
EXTENDS Integers, FiniteSets

CONSTANTS BdTarget,  \* 2000 people
          BdCrowd    \* how many people there are at most (bound)

ASSUME BestDistanceAssumption == BdTarget \in Nat \ {0} /\ BdCrowd \in Nat

VARIABLES bdPeople,  \* the distances at which people live
          bdPoints,  \* the rows of the last iteration: [dist, cnt]
          bdIters    \* iters of these rows

bdVars == <<bdPeople, bdPoints, bdIters>>

BdMax == 32
Sentinel == 1000  \* 1.0e9 in the query

BdTypeOK ==
  /\ bdPeople \subseteq 1 .. BdMax + 1
  /\ bdPoints \subseteq [dist : 0 .. BdMax, cnt : 0 .. Sentinel]
  /\ Cardinality(bdPoints) \in {2, 3} /\ bdIters \in 0 .. 5

BdInit ==
  /\ bdPeople \in {{f[i] : i \in 1 .. BdCrowd} \ {0} : f \in [1 .. BdCrowd -> 0 .. BdMax + 1]}
  /\ bdPoints = {[dist |-> 0, cnt |-> 0], [dist |-> BdMax, cnt |-> Sentinel]}
  /\ bdIters = 0

Within(d) == Cardinality({p \in bdPeople : p <= d})
Off(n) == IF n < BdTarget THEN BdTarget - n ELSE n - BdTarget

\* limited_search_results: LIMIT 2000 * 2.
Counted(d) == IF Within(d) < 2 * BdTarget THEN Within(d) ELSE 2 * BdTarget

\* ORDER BY ABS(cnt - 2000), dist LIMIT 2
Before(r, q) == \/ Off(r.cnt) < Off(q.cnt)
                \/ Off(r.cnt) = Off(q.cnt) /\ r.dist < q.dist
TwoClosest == {r \in bdPoints : Cardinality({q \in bdPoints : Before(q, r)}) < 2}

Midpoint == LET r == CHOOSE r \in TwoClosest : TRUE
                q == CHOOSE q \in TwoClosest : q # r
            IN  (r.dist + q.dist) \div 2

\* Without anybody within the midpoint its row is one of NULLs, which
\* `iters < 5' drops.
NewPoints == IF Counted(Midpoint) = 0 THEN TwoClosest
  ELSE TwoClosest \cup {[dist |-> Midpoint, cnt |-> Counted(Midpoint)]}

Halve ==
  /\ bdIters < 5 /\ bdIters' = bdIters + 1
  /\ bdPoints' = NewPoints /\ UNCHANGED bdPeople

\* ORDER BY iters DESC, dist LIMIT 1 OFFSET 1
Best == CHOOSE r \in bdPoints : Cardinality({q \in bdPoints : q.dist < r.dist}) = 1

NoLimit == BdMax + 1

\* Mutant of Preference: fewer than 500 are enough.
PreferenceOfFew == IF Best.dist > 28 THEN 28 ELSE Best.dist

\* p4, for one who does not join with a club: no limit if fewer than 500 are
\* found, and at most 9000 km, which is between 28 and 29.
Preference == CASE 4 * Best.cnt < BdTarget -> NoLimit
                [] 4 * Best.cnt >= BdTarget /\ Best.dist > 28 -> 28
                [] OTHER -> Best.dist

BdNext == Halve
BdSpec == BdInit /\ [][BdNext]_bdVars

-----------------------------------------------------------------------------
(* Properties.                                                                 *)

\* A limit is stored only if it leaves 500 people, or if there are not as many
\* within 9000 km: the rows that the search drops and the row it ends on do not
\* make a new member miss them.
EnoughAreFound == bdIters = 5 /\ 4 * Within(28) >= BdTarget => 4 * Within(Preference) >= BdTarget

\* "... which causes search results to contain as close as possible to 2000
\* users": if 2000 live within 9000 km, no distance that differs by more than the
\* search's resolution would be closer.
AsCloseAsPossible == bdIters = 5 /\ Within(28) >= BdTarget =>
  \E d \in {Preference - 1, Preference, Preference + 1} : \A e \in 0 .. BdMax :
     Off(Within(d)) <= Off(Within(e))
=============================================================================
