----------------------------- MODULE Visibility -----------------------------
(* Who sees whom: the search and its cache, the feed, the profile, the head of *)
(* a conversation, the inbox and the visitors tab, over the tables person,     *)
(* skipped, messaged, visited and search_cache, with the requests that change  *)
(* them.  A query is an operator: the set of pairs, or the rows, it answers    *)
(* with in the current state.                                                  *)
(*                                                                             *)
(* Search filters are abstracted to what they decide: VisWanted (the viewer    *)
(* wants the prospect's gender and distance), VisAccepts (and what else the    *)
(* prospect is), and VisMatch (the prospect wants the viewer's gender,         *)
(* distance and age, and the match is above 50 %).  No limit of a query is     *)
(* reached.                                                                    *)
EXTENDS Naturals, FiniteSets

CONSTANTS VisUsers,
          VisLevel,    \* verification_level_id of each user
          VisWanted, VisAccepts, VisMatch, \* pairs <<viewer, prospect>>
          VisClub,     \* the members of the club that is searched in
          VisTrusted,  \* reporters whose bot reports are acted on
          VisBots,     \* users with the role `bot`
          VisMay,      \* for each user the flags they may set and clear
          VisSearchers, VisVisitors, VisLeavers, \* who searches, opens profiles, leaves
          VisWays      \* the searches that a searcher may have open at once: one that
                       \* holds the rows of the sessions, which Q_SEARCH_PREFERENCE
                       \* updates first, and those that found none to update, because
                       \* the session they came with is gone by then

ASSUME VisAssumption == VisLevel \in [VisUsers -> Nat]

VARIABLES visStatus,   \* "active", "asleep" or "deleted"
          visFlags,    \* columns of person and of search_preference_* that are on
          visSkipped,  \* pairs <<subject, object>>
          visMessaged, \* pairs <<subject, object>>
          visVisited,  \* visits: records [by, to, invisible], one per pair
          visCopies,   \* members of the club whose person_club.activated is on
          visCache,    \* search_cache: the prospects of each searcher
          visSearch,   \* the running searches of each searcher
          visRaced     \* ghost: pairs <<searcher, prospect>> with a skip that was
                       \* committed while the search that filled the cache ran

visVars == <<visStatus, visFlags, visSkipped, visMessaged, visVisited, visCopies, visCache,
             visSearch, visRaced>>

\* The flags: hide_me_from_strangers, privacy_verification_level_id = 3,
\* browse_invisibly, verification_required, skipped prospects
\* wanted, messaged prospects wanted, searching within the club.
VisFlagNames == {"hide", "private", "invisible", "suspect",
                 "wants-skipped", "wants-messaged", "in-club"}

Searches ==
  [stage : {"none", "emptied", "read"}, found : SUBSET VisUsers, raced : SUBSET VisUsers,
   kept : SUBSET VisUsers]
Idle == [stage |-> "none", found |-> {}, raced |-> {}, kept |-> {}]
Visits(u, p) == [by : {u}, to : {p}, invisible : BOOLEAN]
Pairs == {w \in VisUsers \X VisUsers : w[1] # w[2]}

VisTypeOK ==
  /\ visStatus \in [VisUsers -> {"active", "asleep", "deleted"}]
  /\ visFlags \in [VisUsers -> SUBSET VisFlagNames]
  /\ visSkipped \subseteq Pairs /\ visMessaged \subseteq Pairs /\ visRaced \subseteq Pairs
  /\ \A r \in visVisited : r \in Visits(r.by, r.to)
  /\ \A r, q \in visVisited : r.by = q.by /\ r.to = q.to => r = q
  /\ visCopies \subseteq VisClub
  /\ visCache \in [VisUsers -> SUBSET VisUsers]
  /\ visSearch \in [VisUsers -> [VisWays -> Searches]]

VisInit ==
  /\ visStatus = [u \in VisUsers |-> "active"]
  /\ visFlags = [u \in VisUsers |-> {}]
  /\ visSkipped = {} /\ visMessaged = {} /\ visVisited = {} /\ visRaced = {}
  /\ visCopies = VisClub
  /\ visCache = [u \in VisUsers |-> {}]
  /\ visSearch = [u \in VisUsers |-> [k \in VisWays |-> Idle]]

-----------------------------------------------------------------------------
(* The queries.  v is the viewer, p the prospect.                              *)

IsActive(p) == visStatus[p] = "active"
Hides(p) == "hide" \in visFlags[p]
Skipped(u, p) == <<u, p>> \in visSkipped
Messaged(u, p) == <<u, p>> \in visMessaged
Privacy(p) == IF "private" \in visFlags[p] THEN 3 ELSE 1
IsVerified(p) == VisLevel[p] > 1
Suspect(p) == "suspect" \in visFlags[p] /\ ~IsVerified(p)

\* Q_UNCACHED_SEARCH_2.  First who is whom the viewer wants and is active or, if
\* the viewer searches within a club, has a membership whose copy says so.
InClubSearch(v) == "in-club" \in visFlags[v]
Pool(v) == {p \in VisUsers : <<v, p>> \in VisWanted
                                /\ IF InClubSearch(v) THEN p \in visCopies ELSE IsActive(p)}

\* Then who wants the viewer, unless the viewer searches within a club.
Mutual(v, p) == <<v, p>> \in VisMatch \/ InClubSearch(v)

\* Then the viewer's own filters.
OneWay(v, p) == <<v, p>> \in VisAccepts

\* Mutant of SkippedAway: what the viewer skipped only.
SkippedAwayByViewer(v, p) == Skipped(v, p) /\ "wants-skipped" \notin visFlags[v]

\* What the relations between the two leave.
HiddenFrom(p, v) == Hides(p) /\ ~Messaged(p, v)
SkippedAway(v, p) ==
  \/ Skipped(p, v)
  \/ Skipped(v, p) /\ "wants-skipped" \notin visFlags[v]
MessagedAway(v, p) == Messaged(v, p) /\ "wants-messaged" \notin visFlags[v]

\* What the statement inserts.
Found(v) == {p \in Pool(v) \ ({v} \cup VisBots) :
  /\ Mutual(v, p) /\ OneWay(v, p)
  /\ ~HiddenFrom(p, v) /\ ~SkippedAway(v, p) /\ ~MessagedAway(v, p) /\ ~Suspect(p)}

\* Q_CACHED_SEARCH: every cached row has a card; it leads to the prospect only
\* if the searcher is verified enough for what the prospect wants by now.
Card(v, p) ==
  LET enough == visStatus[p] # "deleted" /\ VisLevel[v] >= Privacy(p)
  IN  [prospect |-> p, linked |-> enough,
       needs |-> IF enough \/ visStatus[p] = "deleted" THEN "nothing" ELSE "photos"]
CachedPage(v) == {Card(v, p) : p \in visCache[v]}

\* Q_QUIZ_SEARCH: one of the cached rows, the best after the viewer's last answer.
QuizCards(v) == {{Card(v, p)} : p \in visCache[v]}

\* Q_SELECT_PROSPECT_PROFILE for a viewer who is signed in, and for one who is not.
ProfileOpens(v, p) ==
  /\ IsActive(p)
  /\ \/ /\ ~Hides(p) \/ Messaged(p, v)
        /\ Privacy(p) <= VisLevel[v] \/ Messaged(p, v)
        /\ ~Skipped(p, v)
     \/ v = p

\* Q_SELECT_CONVERSATION_PROSPECT.
ConversationOpens(v, p) ==
  LET known == Messaged(p, v) IN
  /\ IsActive(p)
  /\ \/ (~Hides(p) \/ known) /\ (Privacy(p) <= VisLevel[v] \/ known) /\ ~Skipped(p, v)
     \/ p = v

\* Q_FEED: who may be shown; age gaps, chance, recent reports and how human a
\* profile looks leave some of them out.
InFeed(v, p) ==
  /\ IsActive(p) /\ Privacy(p) <= VisLevel[v] /\ v # p
  /\ ~HiddenFrom(p, v) /\ ~SkippedAway(v, p) /\ ~MessagedAway(v, p) /\ ~Suspect(p)

\* Q_INBOX_INFO: where a conversation is shown, and whether with name and photo.
InInbox(v, p) == visStatus[p] # "deleted" /\ (Messaged(v, p) \/ Messaged(p, v))
InboxNames(v, p) == IsActive(p) /\ ~Skipped(p, v)
InboxBox(v, p) ==
  LET shown == Messaged(p, v) /\ InboxNames(v, p) /\ ~Skipped(v, p) IN
  CASE ~Messaged(p, v)             -> "nowhere"
    [] shown /\ Messaged(v, p)     -> "chats"
    [] shown /\ ~Messaged(v, p)    -> "intros"
    [] OTHER                       -> "archive"

\* Q_VISITORS: the rows of both lists, and whether the photo is withheld.
Visitors(v) == {r \in visVisited :
  LET p == IF r.by = v THEN r.to ELSE r.by IN
  /\ v \in {r.by, r.to} /\ p # v /\ IsActive(p)
  /\ ~SkippedAway(v, p) /\ ~HiddenFrom(p, v)
  /\ r.by = v \/ ~r.invisible
  /\ ~Suspect(p)}

PhotoWithheld(v, p) == VisLevel[v] < Privacy(p)

-----------------------------------------------------------------------------
(* The requests.                                                               *)

VisitsUnseen(v, p) == "invisible" \in visFlags[v] \/ (Hides(v) /\ ~Messaged(p, v))

\* Mutant of OpenProfile: an insert that does not update the row of an earlier visit.
OpenProfileTwice(v, p) ==
  /\ ProfileOpens(v, p) /\ visStatus[v] # "deleted"
  /\ visVisited' = visVisited \cup
        {[by |-> v, to |-> p, invisible |-> VisitsUnseen(v, p)]}
  /\ UNCHANGED <<visStatus, visFlags, visSkipped, visMessaged, visCopies, visCache, visSearch,
                 visRaced>>

\* /prospect-profile by a signed-in user records the visit, unless it fails.
OpenProfile(v, p) ==
  /\ ProfileOpens(v, p) /\ visStatus[v] # "deleted"
  /\ visVisited' = {r \in visVisited : ~(r.by = v /\ r.to = p)} \cup
        {[by |-> v, to |-> p,
          invisible |-> VisitsUnseen(v, p)]}
  /\ UNCHANGED <<visStatus, visFlags, visSkipped, visMessaged, visCopies, visCache, visSearch,
                 visRaced>>

\* What a running search of either is when a skip between v and p commits.
Overtaken(s, v, p) == [s EXCEPT !.raced = @ \cup (s.found \cap {v, p}), !.kept = @ \ {v, p}]

\* A skip, with a report or a bot report if a reason is given; rows of the
\* search cache go, in both directions.
SkipByUuid(v, p, botReport) ==
  /\ v # p /\ visStatus[v] # "deleted" /\ visStatus[p] # "deleted"
  /\ visSkipped' = visSkipped \cup {<<v, p>>}
  /\ visCache' = [visCache EXCEPT ![v] = @ \ {p}, ![p] = @ \ {v}]
  /\ visFlags' = IF botReport /\ v \in VisTrusted
                 THEN [visFlags EXCEPT ![p] = @ \cup {"suspect"}] ELSE visFlags
  /\ visRaced' = visRaced \ {<<v, p>>, <<p, v>>}
  /\ visSearch' = [u \in VisUsers |->
        IF u \in {v, p} THEN [k \in VisWays |-> Overtaken(visSearch[u][k], v, p)]
        ELSE visSearch[u]]
  /\ UNCHANGED <<visStatus, visMessaged, visVisited, visCopies>>

Unskip(v, p) ==
  /\ Skipped(v, p) /\ visSkipped' = visSkipped \ {<<v, p>>}
  /\ UNCHANGED <<visStatus, visFlags, visMessaged, visVisited, visCopies, visCache,
                 visSearch, visRaced>>

\* The chat service stores a first message.
SendMessage(v, p) ==
  /\ v # p /\ visStatus[v] = "active" /\ visStatus[p] # "deleted"
  /\ ~Skipped(v, p) /\ ~Skipped(p, v)
  /\ visMessaged' = visMessaged \cup {<<v, p>>}
  /\ UNCHANGED <<visStatus, visFlags, visSkipped, visVisited, visCopies, visCache,
                 visSearch, visRaced>>

\* An uncached search, in one READ COMMITTED transaction.  First the cached rows
\* that there are go: those that another search commits from now on are kept.
BeginSearch(v, k) ==
  /\ visSearch[v][k].stage = "none" /\ visStatus[v] # "deleted"
  /\ visSearch' = [visSearch EXCEPT ![v][k] = [Idle EXCEPT !.stage = "emptied"]]
  /\ UNCHANGED <<visStatus, visFlags, visSkipped, visMessaged, visVisited, visCopies, visCache,
                 visRaced>>

\* Then the prospects are read, in the snapshot of the statement that inserts them.
ReadProspects(v, k) ==
  /\ visSearch[v][k].stage = "emptied"
  /\ visSearch' = [visSearch EXCEPT ![v][k].stage = "read", ![v][k].found = Found(v)]
  /\ UNCHANGED <<visStatus, visFlags, visSkipped, visMessaged, visVisited, visCopies, visCache,
                 visRaced>>

\* At its end, which is when the page is read, they have taken the first positions,
\* also from the rows that were kept (ON CONFLICT DO UPDATE): what remains of those
\* are the positions beyond.
EndSearch(v, k) ==
  LET s == visSearch[v][k] IN
  /\ s.stage = "read"
  /\ \E rest \in SUBSET s.kept :
       /\ Cardinality(rest) = IF Cardinality(s.kept) > Cardinality(s.found)
                               THEN Cardinality(s.kept) - Cardinality(s.found) ELSE 0
       /\ visCache' = [visCache EXCEPT ![v] = s.found \cup rest]
       /\ visSearch' = [visSearch EXCEPT ![v] = [l \in VisWays |->
            IF l = k THEN Idle
            ELSE IF visSearch[v][l].stage = "none" THEN visSearch[v][l]
            ELSE [visSearch[v][l] EXCEPT !.kept = s.found \cup (@ \cap rest)]]]
       /\ visRaced' = {w \in visRaced : w[1] # v \/ w[2] \in rest}
                         \cup ({v} \X s.raced)
  /\ UNCHANGED <<visStatus, visFlags, visSkipped, visMessaged, visVisited, visCopies>>

\* A statement times out and the whole transaction is rolled back.
SearchTimesOut(v, k) ==
  /\ visSearch[v][k].stage # "none"
  /\ visSearch' = [visSearch EXCEPT ![v][k] = Idle]
  /\ UNCHANGED <<visStatus, visFlags, visSkipped, visMessaged, visVisited, visCopies, visCache,
                 visRaced>>

\* Settings and search filters.
SetFlag(u, f) ==
  /\ f \in VisMay[u] /\ visStatus[u] = "active"
  /\ visFlags' = [visFlags EXCEPT ![u] = IF f \in @ THEN @ \ {f} ELSE @ \cup {f}]
  /\ UNCHANGED <<visStatus, visSkipped, visMessaged, visVisited, visCopies, visCache,
                 visSearch, visRaced>>

\* The trigger copies `activated` into the memberships, but not into one that was
\* joined in an overlapping transaction (module Clubs).
FallAsleep(u) ==
  /\ visStatus[u] = "active" /\ visStatus' = [visStatus EXCEPT ![u] = "asleep"]
  /\ visCopies' \in {visCopies, visCopies \ {u}}
  /\ UNCHANGED <<visFlags, visSkipped, visMessaged, visVisited, visCache, visSearch, visRaced>>

WakeUp(u) ==
  /\ visStatus[u] = "asleep" /\ visStatus' = [visStatus EXCEPT ![u] = "active"]
  /\ visCopies' \in {visCopies, visCopies \cup ({u} \cap VisClub)}
  /\ UNCHANGED <<visFlags, visSkipped, visMessaged, visVisited, visCache, visSearch, visRaced>>

\* Deletion takes the rows that reference the account with it; search_cache
\* references the searcher only.
Vanish(u) ==
  /\ visStatus[u] # "deleted" /\ visStatus' = [visStatus EXCEPT ![u] = "deleted"]
  /\ visSkipped' = {w \in visSkipped : u \notin {w[1], w[2]}}
  /\ visMessaged' = {w \in visMessaged : u \notin {w[1], w[2]}}
  /\ visVisited' = {r \in visVisited : u \notin {r.by, r.to}}
  /\ visCopies' = visCopies \ {u}
  /\ visCache' = [visCache EXCEPT ![u] = {}]
  /\ visSearch' = [visSearch EXCEPT ![u] = [k \in VisWays |-> Idle]]
  /\ visRaced' = {w \in visRaced : u \notin {w[1], w[2]}}
  /\ UNCHANGED visFlags

VisNext ==
  \/ \E v, p \in VisUsers :
        \/ v \in VisVisitors /\ OpenProfile(v, p)
        \/ Unskip(v, p) \/ SendMessage(v, p)
        \/ \E b \in BOOLEAN : SkipByUuid(v, p, b)
  \/ \E u \in VisUsers :
        \/ \E k \in VisWays :
             \/ u \in VisSearchers /\ BeginSearch(u, k)
             \/ ReadProspects(u, k) \/ EndSearch(u, k) \/ SearchTimesOut(u, k)
        \/ u \in VisLeavers /\ (FallAsleep(u) \/ WakeUp(u) \/ Vanish(u))
        \/ \E f \in VisFlagNames : SetFlag(u, f)

VisSpec == VisInit /\ [][VisNext]_visVars

-----------------------------------------------------------------------------
(* Properties.                                                                 *)

\* A membership whose copy stayed on when its member fell asleep.
StillListed(v, p) == InClubSearch(v) /\ ~IsActive(p) /\ p \in visCopies

\* What a list shows can be opened: whoever the search that is read now, the
\* feed, the visitors tab or the inbox presents with a name and a photo has a
\* profile that opens and a conversation that opens, although six queries
\* decide with conditions of their own; only a search within a club may present
\* somebody asleep, whose membership overlapped with falling asleep.
ListedProfilesOpen == \A w \in Pairs : visStatus[w[1]] = "active" =>
  LET v == w[1]  p == w[2]
      listed ==
        \/ InFeed(v, p)
        \/ \E r \in Visitors(v) : p \in {r.by, r.to} /\ ~PhotoWithheld(v, p)
        \/ InInbox(v, p) /\ InboxBox(v, p) \in {"chats", "intros"}
      searched == p \in Found(v) /\ VisLevel[v] >= Privacy(p)
  IN  /\ listed => ProfileOpens(v, p)
      /\ searched => ProfileOpens(v, p) \/ StillListed(v, p)
      /\ ProfileOpens(v, p) <=> ConversationOpens(v, p)

\* A card of the search or of the quiz that leads to a profile leads to one
\* that opens, although the cache is as old as the last search and holds what
\* overlapping searches left in it, unless the prospect is asleep or has hidden
\* since, or skipped the searcher while a search ran that put the card there:
\* a search inserts what it read before the skip took the rows away.
CardsOpen == \A v \in VisUsers :
  \A c \in CachedPage(v) \cup UNION QuizCards(v) : LET p == c.prospect IN
     c.linked => \/ ProfileOpens(v, p)
                 \/ ~IsActive(p) \/ HiddenFrom(p, v)
                 \/ <<v, p>> \in visRaced

\* Both: whatever list shows somebody leads on to them.
ListsLeadOn == ListedProfilesOpen /\ CardsOpen
=============================================================================
