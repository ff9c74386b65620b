-------------------------------- MODULE Clubs --------------------------------
(***************************************************************************)
(* Accounts and clubs.  A club counts its members in a column of its own,   *)
(* and person_club carries a copy of its member's `activated`; joining,     *)
(* leaving, deactivating, signing in again, deleting an account and losing  *)
(* gold each keep both up to date in one transaction of their own.          *)
(*                                                                         *)
(* All of them run under REPEATABLE READ.  What such a transaction will     *)
(* write is a function of its snapshot, so it is a plan, made when it       *)
(* begins; of two transactions that write the same row PostgreSQL lets only *)
(* the first commit, and it knows nothing of the rows that were only read.  *)
(* An API process has one connection behind one lock: it is a worker that   *)
(* runs one transaction at a time; the cron service has a connection of its  *)
(* own, for the one statement that deactivates all who are asleep.          *)
(* Sessions are checked before these transactions, in transactions of their *)
(* own: a request of any account may still come.                            *)
(***************************************************************************)
EXTENDS Integers, FiniteSets, Functions

CONSTANTS
  People,     \* email addresses
  Clubs,      \* names that Q_IS_ALLOWED_CLUB_NAME allows
  Liked,      \* [People -> SUBSET Clubs]: the clubs that each may ask for
  Subscribers, \* those among People who buy gold
  NoClub,     \* a session without a pending club
  Workers,    \* database connections
  QuotaFree,  \* CLUB_QUOTA_FREE
  QuotaGold,  \* CLUB_QUOTA_GOLD
  MaxDrift,   \* bound: how often the same club is counted wrongly
  MaxOpen     \* bound: how many transactions are open at once

ASSUME ClubsAssumption ==
  /\ NoClub \notin Clubs /\ Subscribers \subseteq People /\ Liked \in [People -> SUBSET Clubs]
  /\ QuotaFree \in Nat /\ QuotaGold \in Nat /\ QuotaFree <= QuotaGold
  /\ MaxDrift \in Nat /\ MaxOpen \in Nat /\ IsFiniteSet(People) /\ IsFiniteSet(Clubs)

VARIABLES
  person,   \* table person: partial function to activated and has_gold
  member,   \* table person_club: partial function to the copied `activated`
  count,    \* table club: partial function to count_members
  tx,       \* partial function from the busy workers to their transactions
  pass,     \* the open transaction of autodeactivate2, if there is one
  drift,    \* history: how often a club was counted wrongly in a way that is known
  skewed,   \* history: memberships whose copy went wrong across an (de)activation
  raced     \* history: people over their quota after two transactions at once

tables == <<person, member, count>>
history == <<drift, skewed, raced>>
clubsVars == <<tables, tx, pass, history>>

ClubsOf(p) == {c \in Clubs : <<p, c>> \in DOMAIN member}
Quota(gold) == IF gold THEN QuotaGold ELSE QuotaFree

ClubsInit ==
  /\ person = [p \in {} |-> {}] /\ member = [m \in {} |-> {}] /\ count = [c \in {} |-> 0]
  /\ tx = [w \in {} |-> {}] /\ pass = {}
  /\ drift = [c \in Clubs |-> 0] /\ skewed = {} /\ raced = {}

-----------------------------------------------------------------------------
(* The plan of a transaction that writes nothing.  `me` is what it leaves in *)
(* the person's row, if it writes that; `copy` goes into the memberships in  *)
(* `add` and `mark`; the counts of the clubs in `up` and `down` change.      *)
(* For the histories, `seen` is the memberships in the snapshot of a          *)
(* transaction that changes `activated`, and `raced` says that the person's    *)
(* quota was at stake in another transaction that committed meanwhile.         *)
Reading(op, p) ==
  [op |-> op, who |-> p, me |-> {}, add |-> {}, drop |-> {}, mark |-> {},
   up |-> {}, down |-> {}, copy |-> FALSE, seen |-> {}, raced |-> FALSE]

\* Rows of person, person_club and club.  Deleting a person conflicts with any
\* membership of theirs that was inserted meanwhile: the cascade finds it.
Written(t) ==
  {<<t.who>> : m \in t.me}
    \cup {<<t.who, c>> : c \in IF t.op = "delete" THEN Clubs ELSE t.add \cup t.drop \cup t.mark}
    \cup {<<c>> : c \in t.up \cup t.down}

Open == Cardinality(DOMAIN tx) + Cardinality(pass)

\* One that writes nothing is as good as none.
Begin(w, t) ==
  /\ w \notin DOMAIN tx /\ Written(t) # {} /\ Open < MaxOpen
  /\ tx' = [v \in DOMAIN tx \cup {w} |-> IF v = w THEN t ELSE tx[v]]
  /\ UNCHANGED <<tables, pass, history>>

\* Mutant of Joined: one club too many.
JoinedAtQuota(c, mine, gold) ==
  IF c \in Clubs \ mine /\ Cardinality(mine) <= Quota(gold) THEN {c} ELSE {}

\* The membership that Q_JOIN_CLUB inserts for a member of the clubs `mine`.
Joined(c, mine, gold) ==
  IF c \in Clubs \ mine /\ Cardinality(mine) < Quota(gold) THEN {c} ELSE {}

\* post_finish_onboarding, with the club that the session was waiting for.
FinishOnboarding(w, p, c) ==
  LET joined == Joined(c, {}, FALSE) IN
  /\ p \notin DOMAIN person
  /\ Begin(w, [Reading("register", p) EXCEPT
                 !.me = {[activated |-> TRUE, gold |-> FALSE]},
                 !.add = joined, !.up = joined, !.copy = TRUE])

\* post_check_otp: signing in activates the account.
CheckOtp(w, p, c) ==
  /\ p \in DOMAIN person
  /\ LET mine == ClubsOf(p)
         joined == Joined(c, mine, person[p].gold)
         woken == IF person[p].activated THEN {} ELSE mine
     IN Begin(w, [Reading("signin", p) EXCEPT
                    !.me = {[person[p] EXCEPT !.activated = TRUE]},
                    !.add = joined, !.mark = woken, !.up = joined \cup woken, !.copy = TRUE,
                    !.seen = woken])

\* Whether the account is activated makes no difference to this request.
JoinClub(w, p, c) ==
  /\ p \in DOMAIN person
  /\ LET joined == Joined(c, ClubsOf(p), person[p].gold)
     IN Begin(w, [Reading("join", p) EXCEPT !.add = joined, !.up = joined,
                                            !.copy = person[p].activated])

\* Mutant of LeaveClub: the count is decremented whether or not a row was deleted.
LeaveClubAnyway(w, p, c) ==
  /\ p \in DOMAIN person
  /\ Begin(w, [Reading("leave", p) EXCEPT !.drop = {c} \cap ClubsOf(p),
                                          !.down = {c} \cap DOMAIN count])

LeaveClub(w, p, c) ==
  /\ p \in DOMAIN person
  /\ LET left == {c} \cap ClubsOf(p)
     IN Begin(w, [Reading("leave", p) EXCEPT !.drop = left, !.down = left])

\* Mutant of Deactivate: the trigger that copies `activated` is missing.
DeactivateUncopied(w, p) ==
  /\ p \in DOMAIN person /\ person[p].activated
  /\ Begin(w, [Reading("deactivate", p) EXCEPT
                 !.me = {[person[p] EXCEPT !.activated = FALSE]}, !.down = ClubsOf(p),
                 !.seen = ClubsOf(p)])

\* By the member, who stays signed in.
Deactivate(w, p) ==
  /\ p \in DOMAIN person /\ person[p].activated
  /\ Begin(w, [Reading("deactivate", p) EXCEPT
                 !.me = {[person[p] EXCEPT !.activated = FALSE]},
                 !.mark = ClubsOf(p), !.down = ClubsOf(p), !.seen = ClubsOf(p)])

\* Mutant of DeleteAccount: memberships outlive their person.
DeleteAccountUncascaded(w, p) ==
  /\ p \in DOMAIN person
  /\ Begin(w, [Reading("delete", p) EXCEPT
                 !.me = {person[p]},
                 !.down = IF person[p].activated THEN ClubsOf(p) ELSE {}])

\* By the member, or by an administrator's ban.
DeleteAccount(w, p) ==
  /\ p \in DOMAIN person
  /\ Begin(w, [Reading("delete", p) EXCEPT
                 !.me = {person[p]}, !.drop = ClubsOf(p),
                 !.down = IF person[p].activated THEN ClubsOf(p) ELSE {}])

\* The clubs of p that rank within the quota, by ascending count (ties by name).
Kept(p, gold) ==
  {K \in SUBSET ClubsOf(p) :
     IF Cardinality(ClubsOf(p)) <= Quota(gold) THEN K = ClubsOf(p)
     ELSE /\ Cardinality(K) = Quota(gold)
          /\ \A k \in K, c \in ClubsOf(p) \ K : count[k] <= count[c]}

\* post_revenuecat: a subscription begins or ends.
UpdateGold(w, p, gold) ==
  /\ p \in Subscribers \cap DOMAIN person
  /\ \E K \in Kept(p, gold) :
       Begin(w, [Reading("gold", p) EXCEPT
                   !.me = {[person[p] EXCEPT !.gold = gold]},
                   !.drop = ClubsOf(p) \ K, !.down = ClubsOf(p) \ K])

\* Q_DEACTIVATE of the cron service: those among the activated who have not been
\* seen for 30 days, and their memberships, in one statement's snapshot.
BeginPass(P) ==
  /\ pass = {} /\ Open < MaxOpen /\ P # {} /\ P \subseteq {p \in DOMAIN person : person[p].activated}
  /\ pass' = {[asleep |-> P, seen |-> {m \in DOMAIN member : m[1] \in P}]}
  /\ UNCHANGED <<tables, tx, history>>

-----------------------------------------------------------------------------
(* Commit.                                                                  *)

\* Both write the same row, so that the first committer wins.
Conflict(t, u) == Written(t) \cap Written(u) # {}

\* A club's row is written once, however many of its members fall asleep.
SeenClubs(s) == {m[2] : m \in s.seen}
Disturbs(t, s) ==
  Written(t) \cap ({<<p>> : p \in s.asleep} \cup s.seen \cup {<<c>> : c \in SeenClubs(s)}) # {}

\* A club that is not there yet is inserted with its first member; only the
\* loss of gold decrements without GREATEST(0, ...).
NewCount(t, c) ==
  IF c \notin DOMAIN count THEN 1
  ELSE IF c \in t.up THEN count[c] + 1
  ELSE IF c \notin t.down THEN count[c]
  ELSE IF count[c] > 0 \/ t.op = "gold" THEN count[c] - 1
  ELSE 0

PersonAfter(t) ==
  IF t.op = "delete" THEN Restrict(person, DOMAIN person \ {t.who})
  ELSE [p \in DOMAIN person \cup {t.who : m \in t.me} |->
          IF p = t.who /\ t.me # {} THEN CHOOSE m \in t.me : TRUE ELSE person[p]]

Sets(t) == t.op \in {"signin", "deactivate"} /\ person[t.who].activated # t.copy

\* Memberships that an activation or deactivation did not see.
Unseen(t) == IF Sets(t) THEN ClubsOf(t.who) \ t.seen ELSE {}

\* Joining across a change of `activated`.
Crossed(t) == IF t.op = "join" /\ person[t.who].activated # t.copy THEN t.add ELSE {}

\* Changes of a count for somebody who does not count.
Uncounted(t) ==
  IF t.op \in {"join", "leave", "gold"} /\ ~person[t.who].activated THEN t.up \cup t.down ELSE {}

OnQuota(t) == t.add # {} \/ t.op = "gold"

\* Both count the same person's clubs, each in a snapshot without the other.
Races(t, u) == OnQuota(t) /\ OnQuota(u) /\ t.who = u.who

Exceeds(p) == Cardinality(ClubsOf(p)) > Quota(person[p].gold)
Stale(m) == member[m] # person[m[1]].activated

Commit(w) ==
  LET t == tx[w]
      added == {t.who} \X t.add
  IN
  /\ \A c \in Unseen(t) \cup Uncounted(t) : drift[c] < MaxDrift
  /\ person' = PersonAfter(t)
  /\ member' = [s \in (DOMAIN member \ ({t.who} \X t.drop)) \cup added |->
                  IF s \in added \cup ({t.who} \X t.mark) THEN t.copy ELSE member[s]]
  /\ count' = [c \in DOMAIN count \cup t.up |-> NewCount(t, c)]
  /\ tx' = [v \in {v \in DOMAIN tx \ {w} : ~Conflict(t, tx[v])} |->
              IF Races(t, tx[v]) THEN [tx[v] EXCEPT !.raced = TRUE] ELSE tx[v]]
  /\ pass' = {s \in pass : ~Disturbs(t, s)}
  /\ drift' = [c \in Clubs |-> IF c \in Unseen(t) \cup Uncounted(t) THEN drift[c] + 1
                                ELSE drift[c]]
  /\ raced' = {p \in raced \cup IF t.raced THEN {t.who} ELSE {} :
                 p \in DOMAIN person' /\ Exceeds(p)'}
  /\ skewed' = {m \in skewed \cup ({t.who} \X (Unseen(t) \cup Crossed(t))) :
                  m \in DOMAIN member' /\ Stale(m)'}

\* A serialization failure, a deadlock, the statement timeout, a lost connection.
Abort(w) ==
  /\ tx' = Restrict(tx, DOMAIN tx \ {w})
  /\ UNCHANGED <<tables, pass, history>>

\* The members of c who fall asleep, and those among them for whom its count is
\* not decremented: all but one, and all who joined after the snapshot.
Sleepers(s, c) == {p \in s.asleep : <<p, c>> \in DOMAIN member}
Overlooked(s, c) == Cardinality(Sleepers(s, c)) - IF c \in SeenClubs(s) THEN 1 ELSE 0

CommitPass(s) ==
  /\ \A c \in Clubs : drift[c] + Overlooked(s, c) <= MaxDrift
  /\ person' = [p \in DOMAIN person |->
                  IF p \in s.asleep THEN [person[p] EXCEPT !.activated = FALSE] ELSE person[p]]
  /\ member' = [m \in DOMAIN member |-> m \notin s.seen /\ member[m]]
  /\ count' = [c \in DOMAIN count |->
                 IF c \notin SeenClubs(s) THEN count[c]
                 ELSE IF count[c] > 0 THEN count[c] - 1 ELSE 0]
  /\ tx' = Restrict(tx, {v \in DOMAIN tx : ~Disturbs(tx[v], s)})
  /\ pass' = {}
  /\ drift' = [c \in Clubs |-> drift[c] + Overlooked(s, c)]
  /\ skewed' = {m \in skewed \cup {m \in DOMAIN member \ s.seen : m[1] \in s.asleep} : Stale(m)'}
  /\ UNCHANGED raced

AbortPass ==
  /\ pass # {} /\ pass' = {}
  /\ UNCHANGED <<tables, tx, history>>

ClubsNext ==
  \/ \E w \in Workers, p \in People :
       \/ Deactivate(w, p) \/ DeleteAccount(w, p)
       \/ \E gold \in BOOLEAN : UpdateGold(w, p, gold)
       \/ \E c \in Liked[p] : JoinClub(w, p, c) \/ LeaveClub(w, p, c)
       \/ \E c \in Liked[p] \cup {NoClub} : FinishOnboarding(w, p, c) \/ CheckOtp(w, p, c)
  \/ \E w \in DOMAIN tx : Commit(w) \/ Abort(w)
  \/ \E P \in SUBSET People : BeginPass(P)
  \/ \E s \in pass : CommitPass(s)
  \/ AbortPass

ClubsSpec == ClubsInit /\ [][ClubsNext]_clubsVars

-----------------------------------------------------------------------------
(* Properties.                                                              *)

Active(c) == {p \in DOMAIN person : <<p, c>> \in DOMAIN member /\ person[p].activated}

\* Every variable keeps its type, and memberships have their person and
\* their club.
ClubsTypeOK ==
  /\ DOMAIN person \subseteq People
  /\ \A p \in DOMAIN person : person[p] \in [activated : BOOLEAN, gold : BOOLEAN]
  /\ DOMAIN member \subseteq (DOMAIN person) \X (DOMAIN count)
  /\ \A m \in DOMAIN member : member[m] \in BOOLEAN
  /\ DOMAIN count \subseteq Clubs /\ \A c \in DOMAIN count : count[c] \in Int
  /\ DOMAIN tx \subseteq Workers
  /\ pass \subseteq [asleep : SUBSET People, seen : SUBSET (People \X Clubs)]
  /\ drift \in [Clubs -> 0..MaxDrift] /\ skewed \subseteq People \X Clubs

\* However the workers' transactions interleave, a club counts its activated
\* members, off by one at most for each time that somebody deactivated joined it,
\* left it or lost it with their gold, that somebody joined it while being
\* (de)activated, or that somebody fell asleep in the same pass as another member.
CountsAreExact ==
  \A c \in DOMAIN count :
    LET error == count[c] - Cardinality(Active(c))
    IN error \in -drift[c]..drift[c]

\* The copy of `activated` by which club searches select is the person's own,
\* unless the membership began while that was being changed.
CopiesAgree ==
  \A m \in DOMAIN member \ skewed : ~Stale(m)

\* Nobody is in more clubs than their subscription allows, unless two of their own
\* transactions overlapped: the quota is only read, so neither sees the other.
QuotaHolds ==
  \A p \in DOMAIN person \ raced : ~Exceeds(p)

\* Both: the copies and the quota hold, but for the races that are named.
MembershipsHold == CopiesAgree /\ QuotaHolds

=============================================================================
