---------------------------- MODULE ServicesProofs ----------------------------
(* Machine-checked proofs about Visibility, Visits, Profile and Notifications,   *)
(* and about MCServices, which runs one of them: for any users, whatever they    *)
(* want, accept and may set; for any visitors; for any positions, pictures,      *)
(* recordings, words and settings; for any tokens, messages, drifts and lengths  *)
(* of time.                                                                      *)
EXTENDS MCServices, FiniteSetTheorems, WellFoundedInduction, TLAPS

-----------------------------------------------------------------------------
(* Visibility.                                                                 *)

\* What the cache holds, and what a running search read or kept for it, are other
\* people who have not skipped the searcher, unless the skip overtook the search
\* that found them.
CacheKnowsSkips ==
  \A v \in VisUsers :
    /\ visCache[v] \subseteq VisUsers \ {v}
    /\ \A p \in visCache[v] : Skipped(p, v) => <<v, p>> \in visRaced

SearchKnowsSkips ==
  \A v \in VisUsers, k \in VisWays : LET s == visSearch[v][k] IN
    /\ s.stage # "read" => s.found = {}
    /\ s.stage = "none" => s.kept = {}
    /\ v \notin s.found \cup s.kept
    /\ s.raced \subseteq s.found
    /\ \A p \in s.found : Skipped(p, v) => p \in s.raced
    /\ \A p \in s.kept : Skipped(p, v) => <<v, p>> \in visRaced

VisIInv == VisTypeOK /\ CacheKnowsSkips /\ SearchKnowsSkips

-----------------------------------------------------------------------------
\* A new set of flags, of statuses or of visits leaves the invariant alone.
LEMMA OthersKeep ==
  ASSUME VisIInv, UNCHANGED <<visSkipped, visMessaged, visCache, visSearch, visRaced>>
  PROVE  CacheKnowsSkips' /\ SearchKnowsSkips'
  BY DEF VisIInv, CacheKnowsSkips, SearchKnowsSkips, Skipped

LEMMA InitVisIInv == VisInit => VisIInv
  BY DEF VisInit, VisIInv, VisTypeOK, CacheKnowsSkips, SearchKnowsSkips, Idle, Pairs, Searches

\* The types of the visits, of which there is one for a pair.
LEMMA VisitTypes ==
  ASSUME VisTypeOK, NEW v \in VisUsers, NEW p \in VisUsers, OpenProfile(v, p)
  PROVE  VisTypeOK'
<1>1. VisitsUnseen(v, p) \in BOOLEAN
  BY DEF VisitsUnseen
<1> DEFINE new == [by |-> v, to |-> p, invisible |-> VisitsUnseen(v, p)]
           old == {r \in visVisited : ~(r.by = v /\ r.to = p)}
<1>2. visVisited' = old \cup {new}
  BY DEF OpenProfile
<1>3. new.by = v /\ new.to = p /\ new \in Visits(v, p)
  BY <1>1 DEF Visits
<1> HIDE DEF new
<1>4. \A r \in visVisited' : r \in Visits(r.by, r.to)
  BY <1>2, <1>3 DEF VisTypeOK
<1>5. \A r, q \in visVisited' : r.by = q.by /\ r.to = q.to => r = q
  BY <1>2, <1>3 DEF VisTypeOK
<1> QED
  BY <1>4, <1>5 DEF OpenProfile, VisTypeOK

\* A search that a skip overtakes.
LEMMA OvertakenIs ==
  ASSUME NEW s \in Searches, NEW v, NEW p
  PROVE  LET t == Overtaken(s, v, p) IN
         /\ t \in Searches /\ t.stage = s.stage /\ t.found = s.found
         /\ t.raced = s.raced \cup (s.found \cap {v, p}) /\ t.kept = s.kept \ {v, p}
<1> DEFINE found == s.raced \cup (s.found \cap {v, p})
           kept == s.kept \ {v, p}
<1>1. found \in SUBSET VisUsers /\ kept \in SUBSET VisUsers
  BY DEF Searches
<1>2. Overtaken(s, v, p) = [s EXCEPT !.raced = found, !.kept = kept]
  BY DEF Overtaken
<1> HIDE DEF found, kept
<1>3. /\ Overtaken(s, v, p) \in Searches
      /\ Overtaken(s, v, p).stage = s.stage /\ Overtaken(s, v, p).found = s.found
      /\ Overtaken(s, v, p).raced = found /\ Overtaken(s, v, p).kept = kept
  BY <1>1, <1>2 DEF Searches
<1> QED
  BY <1>3 DEF found, kept

LEMMA NextVisTypes == VisIInv /\ [VisNext]_visVars => VisTypeOK'
<1> SUFFICES ASSUME VisIInv, VisTypeOK, [VisNext]_visVars PROVE VisTypeOK'
  BY DEF VisIInv
<1>1. ASSUME NEW v \in VisUsers, NEW p \in VisUsers, Unskip(v, p) \/ SendMessage(v, p)
      PROVE  VisTypeOK'
  BY <1>1 DEF Unskip, SendMessage, VisTypeOK, Pairs
<1>2. ASSUME NEW v \in VisUsers, NEW p \in VisUsers, NEW b \in BOOLEAN, SkipByUuid(v, p, b)
      PROVE  VisTypeOK'
  <2>1. visSkipped' \subseteq Pairs
    BY <1>2 DEF SkipByUuid, VisTypeOK, Pairs
  <2>2. visCache' \in [VisUsers -> SUBSET VisUsers]
    BY <1>2 DEF SkipByUuid, VisTypeOK
  <2>3. visFlags' \in [VisUsers -> SUBSET VisFlagNames]
    BY <1>2 DEF SkipByUuid, VisTypeOK, VisFlagNames
  <2>4. visSearch' \in [VisUsers -> [VisWays -> Searches]]
    <3>1. \A u \in VisUsers : visSearch[u] \in [VisWays -> Searches]
      BY DEF VisTypeOK
    <3>2. \A u \in VisUsers, k \in VisWays : Overtaken(visSearch[u][k], v, p) \in Searches
      BY <3>1, OvertakenIs
    <3> QED
      BY <1>2, <3>1, <3>2 DEF SkipByUuid
  <2> QED
    BY <1>2, <2>1, <2>2, <2>3, <2>4 DEF SkipByUuid, VisTypeOK
<1>3. ASSUME NEW u \in VisUsers, NEW k \in VisWays,
             BeginSearch(u, k) \/ ReadProspects(u, k) \/ SearchTimesOut(u, k)
      PROVE  VisTypeOK'
  <2>1. Found(u) \subseteq VisUsers
    BY DEF Found, Pool
  <2>2. visSearch[u][k] \in Searches /\ Idle \in Searches
    BY DEF VisTypeOK, Idle, Searches
  <2>3. visSearch' \in [VisUsers -> [VisWays -> Searches]]
    <3>1. CASE BeginSearch(u, k)
      BY <2>2, <3>1 DEF BeginSearch, VisTypeOK, Idle, Searches
    <3>2. CASE ReadProspects(u, k)
      BY <2>1, <2>2, <3>2 DEF ReadProspects, VisTypeOK, Searches
    <3>3. CASE SearchTimesOut(u, k)
      BY <2>2, <3>3 DEF SearchTimesOut, VisTypeOK
    <3> QED
      BY <1>3, <3>1, <3>2, <3>3
  <2> QED
    BY <1>3, <2>3 DEF BeginSearch, ReadProspects, SearchTimesOut, VisTypeOK
<1>4. ASSUME NEW u \in VisUsers, NEW k \in VisWays, EndSearch(u, k) PROVE VisTypeOK'
  <2> DEFINE s == visSearch[u][k]
  <2>1. s \in Searches /\ s.raced \subseteq s.found /\ u \notin s.found
    BY DEF VisTypeOK, VisIInv, SearchKnowsSkips
  <2>2. PICK rest \in SUBSET s.kept :
          /\ visCache' = [visCache EXCEPT ![u] = s.found \cup rest]
          /\ visSearch' = [visSearch EXCEPT ![u] = [l \in VisWays |->
               IF l = k THEN Idle
               ELSE IF visSearch[u][l].stage = "none" THEN visSearch[u][l]
               ELSE [visSearch[u][l] EXCEPT !.kept = s.found \cup (@ \cap rest)]]]
          /\ visRaced' = {w \in visRaced : w[1] # u \/ w[2] \in rest} \cup ({u} \X s.raced)
    BY <1>4 DEF EndSearch
  <2>3. s.found \subseteq VisUsers /\ rest \subseteq VisUsers
    BY <2>1 DEF Searches
  <2> HIDE DEF s
  <2>4. visRaced' \subseteq Pairs
    BY <2>1, <2>2, <2>3 DEF VisTypeOK, Pairs
  <2>5. visCache' \in [VisUsers -> SUBSET VisUsers]
    BY <2>2, <2>3 DEF VisTypeOK
  <2>6. visSearch' \in [VisUsers -> [VisWays -> Searches]]
    <3>1. \A l \in VisWays : visSearch[u][l] \in Searches
      BY DEF VisTypeOK
    <3>2. \A l \in VisWays :
            [visSearch[u][l] EXCEPT !.kept = s.found \cup (@ \cap rest)] \in Searches
      BY <2>3, <3>1 DEF Searches
    <3>3. Idle \in Searches
      BY DEF Idle, Searches
    <3> QED
      BY <2>2, <3>1, <3>2, <3>3 DEF VisTypeOK
  <2> QED
    BY <1>4, <2>4, <2>5, <2>6 DEF EndSearch, VisTypeOK
<1>5. ASSUME NEW u \in VisUsers, NEW f \in VisFlagNames, SetFlag(u, f) PROVE VisTypeOK'
  BY <1>5 DEF SetFlag, VisTypeOK
<1>6. ASSUME NEW u \in VisUsers, FallAsleep(u) \/ WakeUp(u) PROVE VisTypeOK'
  <2>1. visCopies' \subseteq VisClub
    BY <1>6 DEF FallAsleep, WakeUp, VisTypeOK
  <2> QED
    BY <1>6, <2>1 DEF FallAsleep, WakeUp, VisTypeOK
<1>7. ASSUME NEW u \in VisUsers, Vanish(u) PROVE VisTypeOK'
  <2>1. /\ visStatus' \in [VisUsers -> {"active", "asleep", "deleted"}]
        /\ visCache' \in [VisUsers -> SUBSET VisUsers]
    BY <1>7 DEF Vanish, VisTypeOK
  <2>2. visSearch' \in [VisUsers -> [VisWays -> Searches]]
    BY <1>7 DEF Vanish, VisTypeOK, Idle, Searches
  <2> QED
    BY <1>7, <2>1, <2>2 DEF Vanish, VisTypeOK
<1>8. CASE UNCHANGED visVars
  BY <1>8 DEF visVars, VisTypeOK
<1> QED
  BY <1>1, <1>2, <1>3, <1>4, <1>5, <1>6, <1>7, <1>8, VisitTypes DEF VisNext

-----------------------------------------------------------------------------
\* A skip takes the rows of the cache away, and a running search is marked.
LEMMA SkipKeeps ==
  ASSUME VisIInv, NEW v \in VisUsers, NEW p \in VisUsers, NEW b \in BOOLEAN,
         SkipByUuid(v, p, b)
  PROVE  CacheKnowsSkips' /\ SearchKnowsSkips'
<1> USE DEF VisIInv, SkipByUuid
<1>1. \A x, y \in VisUsers : Skipped(x, y)' => Skipped(x, y) \/ (x = v /\ y = p)
  BY DEF Skipped
<1>2. CacheKnowsSkips'
  <2>1. \A u \in VisUsers : visCache'[u] \subseteq visCache[u]
    BY DEF VisTypeOK
  <2>2. v \notin visCache'[p] /\ p \notin visCache'[v]
    BY DEF VisTypeOK
  <2> SUFFICES ASSUME NEW u \in VisUsers
               PROVE  /\ visCache'[u] \subseteq VisUsers \ {u}
                      /\ \A q \in visCache'[u] : Skipped(q, u)' => <<u, q>> \in visRaced'
    BY DEF CacheKnowsSkips
  <2>3. /\ visCache[u] \subseteq VisUsers \ {u}
        /\ \A q \in visCache[u] : Skipped(q, u) => <<u, q>> \in visRaced
    BY DEF CacheKnowsSkips
  <2>4. ASSUME NEW q \in visCache'[u], Skipped(q, u)' PROVE <<u, q>> \in visRaced'
    <3>1. <<u, q>> \in visRaced
      BY <1>1, <2>1, <2>2, <2>3, <2>4
    <3>2. <<u, q>> # <<v, p>> /\ <<u, q>> # <<p, v>>
      BY <2>2
    <3> QED
      BY <3>1, <3>2
  <2> QED
    BY <2>1, <2>3, <2>4
<1>3. SearchKnowsSkips'
  <2> SUFFICES ASSUME NEW u \in VisUsers, NEW k \in VisWays,
                      NEW s, s = visSearch[u][k], NEW t, t = visSearch'[u][k]
               PROVE  /\ t.stage # "read" => t.found = {}
                      /\ t.stage = "none" => t.kept = {}
                      /\ u \notin t.found \cup t.kept
                      /\ t.raced \subseteq t.found
                      /\ \A q \in t.found : Skipped(q, u)' => q \in t.raced
                      /\ \A q \in t.kept : Skipped(q, u)' => <<u, q>> \in visRaced'
    BY ZenonT(60) DEF SearchKnowsSkips
  <2>1. t = IF u \in {v, p} THEN Overtaken(s, v, p) ELSE s
    OBVIOUS
  <2>2. s \in Searches
    BY DEF VisTypeOK
  <2>3. /\ t.stage = s.stage /\ t.found = s.found
        /\ t.raced = IF u \in {v, p} THEN s.raced \cup (s.found \cap {v, p}) ELSE s.raced
        /\ t.kept = IF u \in {v, p} THEN s.kept \ {v, p} ELSE s.kept
    <3> HIDE DEF VisIInv, SkipByUuid
    <3>1. CASE u \in {v, p}
      BY <2>1, <2>2, <3>1, OvertakenIs
    <3>2. CASE u \notin {v, p}
      BY <2>1, <3>2
    <3> QED
      BY <3>1, <3>2
  <2>4. /\ s.stage # "read" => s.found = {}
        /\ s.stage = "none" => s.kept = {}
        /\ u \notin s.found \cup s.kept
        /\ s.raced \subseteq s.found
        /\ \A q \in s.found : Skipped(q, u) => q \in s.raced
        /\ \A q \in s.kept : Skipped(q, u) => <<u, q>> \in visRaced
    BY DEF SearchKnowsSkips
  <2>5. \A q \in t.found : Skipped(q, u)' => q \in t.raced
    BY <1>1, <2>2, <2>3, <2>4 DEF Searches
  <2>6. \A q \in t.kept : Skipped(q, u)' => <<u, q>> \in visRaced'
    BY <1>1, <2>2, <2>3, <2>4 DEF Searches
  <2> QED
    BY <2>3, <2>4, <2>5, <2>6
<1> QED
  BY <1>2, <1>3

\* The end of a search: what it leaves in the cache is what it found and some of
\* what it kept, and so is what it leaves to the others to keep.
LEMMA EndKeeps ==
  ASSUME VisIInv, NEW u \in VisUsers, NEW k \in VisWays, EndSearch(u, k)
  PROVE  CacheKnowsSkips' /\ SearchKnowsSkips'
<1> DEFINE s == visSearch[u][k]
<1>1. /\ s \in Searches
      /\ u \notin s.found \cup s.kept
      /\ \A q \in s.found : Skipped(q, u) => q \in s.raced
      /\ \A q \in s.kept : Skipped(q, u) => <<u, q>> \in visRaced
  BY DEF VisIInv, VisTypeOK, SearchKnowsSkips
<1>2. PICK rest \in SUBSET s.kept :
        /\ visCache' = [visCache EXCEPT ![u] = s.found \cup rest]
        /\ visSearch' = [visSearch EXCEPT ![u] = [l \in VisWays |->
             IF l = k THEN Idle
             ELSE IF visSearch[u][l].stage = "none" THEN visSearch[u][l]
             ELSE [visSearch[u][l] EXCEPT !.kept = s.found \cup (@ \cap rest)]]]
        /\ visRaced' = {w \in visRaced : w[1] # u \/ w[2] \in rest} \cup ({u} \X s.raced)
  BY DEF EndSearch
<1>3. \A w, q : Skipped(w, q)' <=> Skipped(w, q)
  BY DEF EndSearch, Skipped
<1>4. s.found \cup rest \subseteq VisUsers \ {u}
  BY <1>1 DEF Searches
<1> HIDE DEF s
<1>5. \A q \in s.found \cup rest : Skipped(q, u) => <<u, q>> \in visRaced'
  BY <1>1, <1>2
<1>6. \A w : w[1] # u /\ w \in visRaced => w \in visRaced'
  BY <1>2
<1>7. CacheKnowsSkips'
  <2> SUFFICES ASSUME NEW y \in VisUsers
               PROVE  /\ visCache'[y] \subseteq VisUsers \ {y}
                      /\ \A q \in visCache'[y] : Skipped(q, y)' => <<y, q>> \in visRaced'
    BY DEF CacheKnowsSkips
  <2>1. CASE y = u
    BY <1>2, <1>3, <1>4, <1>5, <2>1 DEF VisIInv, VisTypeOK
  <2>2. CASE y # u
    <3>1. visCache'[y] = visCache[y]
      BY <1>2, <2>2 DEF VisIInv, VisTypeOK
    <3> QED
      BY <1>3, <1>6, <2>2, <3>1 DEF VisIInv, CacheKnowsSkips
  <2> QED
    BY <2>1, <2>2
<1>8. SearchKnowsSkips'
  <2> SUFFICES ASSUME NEW y \in VisUsers, NEW l \in VisWays,
                      NEW r, r = visSearch[y][l], NEW t, t = visSearch'[y][l]
               PROVE  /\ t.stage # "read" => t.found = {}
                      /\ t.stage = "none" => t.kept = {}
                      /\ y \notin t.found \cup t.kept
                      /\ t.raced \subseteq t.found
                      /\ \A q \in t.found : Skipped(q, y)' => q \in t.raced
                      /\ \A q \in t.kept : Skipped(q, y)' => <<y, q>> \in visRaced'
    BY DEF SearchKnowsSkips
  <2>1. /\ r \in Searches
        /\ r.stage # "read" => r.found = {}
        /\ r.stage = "none" => r.kept = {}
        /\ y \notin r.found \cup r.kept
        /\ r.raced \subseteq r.found
        /\ \A q \in r.found : Skipped(q, y) => q \in r.raced
        /\ \A q \in r.kept : Skipped(q, y) => <<y, q>> \in visRaced
    BY DEF VisIInv, VisTypeOK, SearchKnowsSkips
  <2>2. CASE t = Idle
    BY <2>2 DEF Idle
  <2>3. CASE y = u /\ r.stage # "none" /\ t = [r EXCEPT !.kept = s.found \cup (@ \cap rest)]
    <3>1. /\ t.stage = r.stage /\ t.found = r.found /\ t.raced = r.raced
          /\ t.kept \subseteq s.found \cup rest
      BY <2>1, <2>3 DEF Searches
    <3>2. \A q \in t.kept : Skipped(q, y)' => <<y, q>> \in visRaced'
      BY <1>3, <1>5, <2>3, <3>1
    <3>3. y \notin t.found \cup t.kept
      BY <1>4, <2>1, <2>3, <3>1
    <3>4. \A q \in t.found : Skipped(q, y)' => q \in t.raced
      BY <1>3, <2>1, <3>1
    <3> QED
      BY <2>1, <2>3, <3>1, <3>2, <3>3, <3>4
  <2>4. CASE y # u /\ t = r
    BY <1>3, <1>6, <2>1, <2>4
  <2>5. CASE y = u /\ t = r /\ r.stage = "none"
    <3>1. r.kept = {}
      BY <2>5 DEF VisIInv, SearchKnowsSkips
    <3> QED
      BY <1>3, <2>1, <2>5, <3>1
  <2>6. CASE y = u
    <3>1. t = IF l = k THEN Idle ELSE IF r.stage = "none" THEN r
              ELSE [r EXCEPT !.kept = s.found \cup (@ \cap rest)]
      BY <1>2, <2>6 DEF VisIInv, VisTypeOK
    <3> QED
      BY <2>2, <2>3, <2>5, <2>6, <3>1
  <2>7. CASE y # u
    BY <1>2, <2>4, <2>7 DEF VisIInv, VisTypeOK
  <2> QED
    BY <2>6, <2>7
<1> QED
  BY <1>7, <1>8

LEMMA NextVisIInv == VisIInv /\ [VisNext]_visVars => VisIInv'
<1> SUFFICES ASSUME VisIInv, [VisNext]_visVars PROVE CacheKnowsSkips' /\ SearchKnowsSkips'
  BY NextVisTypes DEF VisIInv
<1> USE DEF VisIInv
<1>1. ASSUME NEW v \in VisUsers, NEW p \in VisUsers, OpenProfile(v, p)
      PROVE  CacheKnowsSkips' /\ SearchKnowsSkips'
  BY <1>1, OthersKeep DEF OpenProfile
<1>2. ASSUME NEW v \in VisUsers, NEW p \in VisUsers, Unskip(v, p) \/ SendMessage(v, p)
      PROVE  CacheKnowsSkips' /\ SearchKnowsSkips'
  BY <1>2 DEF Unskip, SendMessage, CacheKnowsSkips, SearchKnowsSkips, Skipped
<1>3. ASSUME NEW u \in VisUsers, NEW k \in VisWays,
             BeginSearch(u, k) \/ ReadProspects(u, k) \/ SearchTimesOut(u, k)
      PROVE  CacheKnowsSkips' /\ SearchKnowsSkips'
  <2>1. u \notin Found(u) /\ \A p \in Found(u) : ~Skipped(p, u)
    BY DEF Found, SkippedAway
  <2>2. \A w, q : Skipped(w, q)' <=> Skipped(w, q)
    BY <1>3 DEF BeginSearch, ReadProspects, SearchTimesOut, Skipped
  <2>3. CacheKnowsSkips'
    BY <1>3, <2>2 DEF BeginSearch, ReadProspects, SearchTimesOut, CacheKnowsSkips
  <2>4. visRaced' = visRaced
    BY <1>3 DEF BeginSearch, ReadProspects, SearchTimesOut
  <2> DEFINE s == visSearch[u][k]
             t == visSearch'[u][k]
  <2>5. /\ s \in Searches
        /\ \A y \in VisUsers, l \in VisWays :
             ~(y = u /\ l = k) => visSearch'[y][l] = visSearch[y][l]
    BY <1>3 DEF BeginSearch, ReadProspects, SearchTimesOut, VisTypeOK
  <2>6. \/ t.found = {} /\ t.raced = {} /\ t.kept = {}
        \/ /\ s.stage = "emptied" /\ t.stage = "read" /\ t.found = Found(u)
           /\ t.raced = s.raced /\ t.kept = s.kept
    <3>1. CASE BeginSearch(u, k)
      BY <3>1 DEF BeginSearch, VisTypeOK, Idle
    <3>2. CASE ReadProspects(u, k)
      BY <2>5, <3>2 DEF ReadProspects, VisTypeOK, Searches
    <3>3. CASE SearchTimesOut(u, k)
      BY <3>3 DEF SearchTimesOut, VisTypeOK, Idle
    <3> QED
      BY <1>3, <3>1, <3>2, <3>3
  <2>7. /\ s.stage # "read" => s.found = {}
        /\ s.stage = "none" => s.kept = {}
        /\ u \notin s.found \cup s.kept
        /\ s.raced \subseteq s.found
        /\ \A q \in s.kept : Skipped(q, u) => <<u, q>> \in visRaced
    BY DEF SearchKnowsSkips
  <2>8. /\ t.stage # "read" => t.found = {}
        /\ t.stage = "none" => t.kept = {}
        /\ u \notin t.found \cup t.kept
        /\ t.raced \subseteq t.found
        /\ \A q \in t.found : Skipped(q, u)' => q \in t.raced
        /\ \A q \in t.kept : Skipped(q, u)' => <<u, q>> \in visRaced'
    <3> HIDE DEF s, t
    <3> QED
      BY <2>1, <2>2, <2>4, <2>6, <2>7
  <2>9. SearchKnowsSkips'
    <3> SUFFICES ASSUME NEW y \in VisUsers, NEW l \in VisWays, ~(y = u /\ l = k)
                 PROVE  LET r == visSearch'[y][l] IN
                        /\ r.stage # "read" => r.found = {}
                        /\ r.stage = "none" => r.kept = {}
                        /\ y \notin r.found \cup r.kept
                        /\ r.raced \subseteq r.found
                        /\ \A q \in r.found : Skipped(q, y)' => q \in r.raced
                        /\ \A q \in r.kept : Skipped(q, y)' => <<y, q>> \in visRaced'
      BY <2>8 DEF SearchKnowsSkips
    <3>1. visSearch'[y][l] = visSearch[y][l]
      BY <2>5
    <3> QED
      BY <2>2, <2>4, <3>1 DEF SearchKnowsSkips
  <2> QED
    BY <2>3, <2>9
<1>4. ASSUME NEW u \in VisUsers, NEW k \in VisWays, EndSearch(u, k)
      PROVE  CacheKnowsSkips' /\ SearchKnowsSkips'
  BY <1>4, EndKeeps
<1>5. ASSUME NEW u \in VisUsers,
             (\E f \in VisFlagNames : SetFlag(u, f)) \/ FallAsleep(u) \/ WakeUp(u)
      PROVE  CacheKnowsSkips' /\ SearchKnowsSkips'
  BY <1>5, OthersKeep DEF SetFlag, FallAsleep, WakeUp
<1>6. ASSUME NEW u \in VisUsers, Vanish(u) PROVE CacheKnowsSkips' /\ SearchKnowsSkips'
  <2>1. CacheKnowsSkips'
    BY <1>6 DEF Vanish, CacheKnowsSkips, Skipped, VisTypeOK
  <2>2. SearchKnowsSkips'
    BY <1>6 DEF Vanish, SearchKnowsSkips, Skipped, VisTypeOK, Idle
  <2> QED
    BY <2>1, <2>2
<1>7. CASE UNCHANGED visVars
  BY <1>7, OthersKeep DEF visVars
<1> QED
  BY <1>1, <1>2, <1>3, <1>4, <1>5, <1>6, <1>7, SkipKeeps DEF VisNext

-----------------------------------------------------------------------------
LEMMA VisInvariant == VisSpec => []VisIInv
  BY InitVisIInv, NextVisIInv, PTL DEF VisSpec

\* Every variable keeps its type, and two people have one visit at most.
THEOREM VisTypeCorrect == VisSpec => []VisTypeOK
<1>1. VisIInv => VisTypeOK
  BY DEF VisIInv
<1> QED
  BY <1>1, VisInvariant, PTL

\* Six queries with conditions of their own agree on who may be looked at, but for
\* the memberships whose copy stayed on.
LEMMA ListedOpen == ListedProfilesOpen
<1> SUFFICES ASSUME NEW w \in Pairs, NEW v, v = w[1], NEW p, p = w[2]
             PROVE  /\ \/ InFeed(v, p)
                       \/ \E r \in Visitors(v) : p \in {r.by, r.to} /\ ~PhotoWithheld(v, p)
                       \/ InInbox(v, p) /\ InboxBox(v, p) \in {"chats", "intros"}
                       => ProfileOpens(v, p)
                    /\ p \in Found(v) /\ VisLevel[v] >= Privacy(p)
                       => ProfileOpens(v, p) \/ StillListed(v, p)
                    /\ ProfileOpens(v, p) <=> ConversationOpens(v, p)
  BY DEF ListedProfilesOpen
<1>1. v \in VisUsers /\ p \in VisUsers /\ v # p
  BY DEF Pairs
<1>2. VisLevel[v] \in Nat /\ Privacy(p) \in Nat
  BY <1>1, VisAssumption DEF VisAssumption, Privacy
<1>3. ProfileOpens(v, p) <=> ConversationOpens(v, p)
  BY <1>1 DEF ProfileOpens, ConversationOpens
<1>4. ASSUME p \in Found(v), VisLevel[v] >= Privacy(p)
      PROVE  ProfileOpens(v, p) \/ StillListed(v, p)
  BY <1>2, <1>4 DEF Found, Pool, HiddenFrom, SkippedAway, ProfileOpens, StillListed
<1>5. ASSUME InFeed(v, p) PROVE ProfileOpens(v, p)
  BY <1>5 DEF InFeed, HiddenFrom, SkippedAway, ProfileOpens
<1>6. ASSUME NEW r \in Visitors(v), p \in {r.by, r.to}, ~PhotoWithheld(v, p)
      PROVE  ProfileOpens(v, p)
  <2>1. p = IF r.by = v THEN r.to ELSE r.by
    BY <1>1, <1>6 DEF Visitors
  <2>2. IsActive(p) /\ ~SkippedAway(v, p) /\ ~HiddenFrom(p, v)
    BY <2>1 DEF Visitors
  <2>3. Privacy(p) <= VisLevel[v]
    BY <1>2, <1>6 DEF PhotoWithheld
  <2> QED
    BY <2>2, <2>3 DEF SkippedAway, HiddenFrom, ProfileOpens
<1>7. ASSUME InInbox(v, p), InboxBox(v, p) \in {"chats", "intros"} PROVE ProfileOpens(v, p)
  BY <1>7 DEF InboxBox, InboxNames, ProfileOpens
<1> QED
  BY <1>3, <1>4, <1>5, <1>6, <1>7

\* The cards of the search and of the quiz.
LEMMA CachedOpen == VisIInv => CardsOpen
<1> SUFFICES ASSUME VisIInv, NEW v \in VisUsers, NEW p \in visCache[v], Card(v, p).linked
             PROVE  \/ ProfileOpens(v, p)
                    \/ ~IsActive(p) \/ HiddenFrom(p, v)
                    \/ <<v, p>> \in visRaced
  <2>1. \A v \in VisUsers : \A c \in CachedPage(v) \cup UNION QuizCards(v) :
          \E p \in visCache[v] : c = Card(v, p) /\ c.prospect = p
    BY DEF CachedPage, QuizCards, Card
  <2> QED
    BY <2>1 DEF CardsOpen
<1>1. VisLevel[v] >= Privacy(p) /\ VisLevel[v] \in Nat /\ Privacy(p) \in Nat
  BY VisAssumption DEF VisAssumption, Card, Privacy
<1>2. Skipped(p, v) => <<v, p>> \in visRaced
  BY DEF VisIInv, CacheKnowsSkips
<1> QED
  BY <1>1, <1>2 DEF ProfileOpens, HiddenFrom

\* However skips, settings, messages and searches interleave, what the lists and
\* the cached cards show can be opened, up to the race and the changes that are
\* named.
THEOREM ListsLead == VisSpec => []ListsLeadOn
<1>1. VisIInv => ListsLeadOn
  BY ListedOpen, CachedOpen DEF ListsLeadOn
<1> QED
  BY <1>1, VisInvariant, PTL

-----------------------------------------------------------------------------
(* The visitors tab.                                                           *)

\* Nothing is later than now; a visit that may be shown was made openly; and what
\* lies behind the list's time or the mark has been shown or passed over.
TimesAreBehind ==
  /\ \A o \in vstOpening : o.at <= vstNow
  /\ \A v \in VstVisitors : vstRow[v].at <= vstNow
  /\ vstMine <= vstNow /\ vstList <= vstNow /\ vstChecked <= vstNow

OpenlyMade ==
  /\ \A o \in vstOpening : ~o.invisible => o.at \in vstOpenly
  /\ \A v \in VstVisitors : ~vstRow[v].invisible => vstRow[v].at \in vstOpenly \cup {0}

PassedIsKnown ==
  \A t \in Pending : t <= vstList \/ t <= vstChecked => t \in vstShown \cup vstPassed

VstIInv == VstTypeOK /\ TimesAreBehind /\ OpenlyMade /\ PassedIsKnown

LEMMA InitVstIInv == VstInit => VstIInv
  BY VstAssumption DEF VstAssumption, VstInit, VstIInv, VstTypeOK, VstTimes, TimesAreBehind,
     OpenlyMade, PassedIsKnown, Pending

\* What a step that neither lists nor marks nor begins a visit leaves alone.
LEMMA PendingKeeps ==
  ASSUME VstIInv, Pending' \subseteq Pending,
         UNCHANGED <<vstList, vstChecked, vstShown, vstPassed>>
  PROVE  PassedIsKnown'
  BY DEF VstIInv, PassedIsKnown

LEMMA NextVstIInv == VstIInv /\ [VstNext]_vstVars => VstIInv'
<1> SUFFICES ASSUME VstIInv, [VstNext]_vstVars PROVE VstIInv'
  OBVIOUS
<1> USE VstAssumption DEF VstAssumption, VstTimes
<1>1. ASSUME NEW v \in VstVisitors, BeginVisit(v) PROVE VstIInv'
  <2> DEFINE new == [by |-> v, at |-> vstNow + 1, invisible |-> v \in vstUnseen]
  <2>1. vstNow + 1 \in VstTimes /\ vstNow \in Nat
    BY <1>1 DEF BeginVisit, VstIInv, VstTypeOK
  <2>2. (v \in vstUnseen) \in BOOLEAN
    OBVIOUS
  <2>3. /\ new \in [by : VstVisitors, at : VstTimes, invisible : BOOLEAN]
        /\ new.at = vstNow + 1 /\ new.invisible = (v \in vstUnseen)
    BY <2>1, <2>2
  <2>4. /\ vstOpening' = vstOpening \cup {new} /\ vstNow' = vstNow + 1
        /\ vstOpenly' = IF new.invisible THEN vstOpenly ELSE vstOpenly \cup {new.at}
    BY <1>1, <2>3 DEF BeginVisit
  <2>5. UNCHANGED <<vstUnseen, vstLeftOut, vstRow, vstMine, vstList, vstChecked,
                    vstShown, vstPassed>>
    BY <1>1 DEF BeginVisit
  <2> HIDE DEF new
  <2>6. VstTypeOK'
    BY <2>1, <2>3, <2>4, <2>5 DEF VstIInv, VstTypeOK
  <2>7. TimesAreBehind'
    BY <2>1, <2>3, <2>4, <2>5 DEF VstIInv, VstTypeOK, TimesAreBehind
  <2>8. OpenlyMade'
    BY <2>4, <2>5 DEF VstIInv, OpenlyMade
  <2>9. Pending' \subseteq Pending \cup {vstNow + 1}
    BY <2>3, <2>4, <2>5 DEF Pending
  <2>10. vstList <= vstNow /\ vstChecked <= vstNow /\ vstList \in Nat /\ vstChecked \in Nat
    BY DEF VstIInv, VstTypeOK, TimesAreBehind
  <2>11. PassedIsKnown'
    BY <2>1, <2>5, <2>9, <2>10 DEF VstIInv, PassedIsKnown
  <2> QED
    BY <2>6, <2>7, <2>8, <2>11 DEF VstIInv
<1>2. ASSUME NEW o \in vstOpening, CommitVisit(o) \/ FailVisit(o) PROVE VstIInv'
  <2>1. o \in [by : VstVisitors, at : 0 .. VstEnd, invisible : BOOLEAN]
    BY DEF VstIInv, VstTypeOK
  <2>2. VstTypeOK'
    <3>1. [at |-> o.at, invisible |-> o.invisible] \in [at : VstTimes, invisible : BOOLEAN]
      BY <2>1
    <3>2. vstRow' \in [VstVisitors -> [at : VstTimes, invisible : BOOLEAN]]
      BY <1>2, <3>1 DEF CommitVisit, FailVisit, VstIInv, VstTypeOK
    <3> QED
      BY <1>2, <3>2 DEF CommitVisit, FailVisit, VstIInv, VstTypeOK, vstHistory
  <2>3. TimesAreBehind'
    BY <1>2, <2>1 DEF CommitVisit, FailVisit, VstIInv, VstTypeOK, TimesAreBehind
  <2>4. OpenlyMade'
    BY <1>2, <2>1 DEF CommitVisit, FailVisit, VstIInv, VstTypeOK, OpenlyMade, vstHistory
  <2>5. Pending' \subseteq Pending
    BY <1>2, <2>1 DEF CommitVisit, FailVisit, VstIInv, VstTypeOK, Pending
  <2> QED
    BY <1>2, <2>2, <2>3, <2>4, <2>5, PendingKeeps
       DEF CommitVisit, FailVisit, VstIInv, vstHistory
<1>3. CASE OwnVisit
  <2>1. vstNow \in Nat /\ vstNow + 1 \in VstTimes
    BY <1>3 DEF OwnVisit, VstIInv, VstTypeOK
  <2>2. VstTypeOK' /\ OpenlyMade'
    BY <1>3, <2>1 DEF OwnVisit, VstIInv, VstTypeOK, OpenlyMade, vstHistory
  <2>3. TimesAreBehind'
    BY <1>3, <2>1 DEF OwnVisit, VstIInv, VstTypeOK, TimesAreBehind
  <2>4. Pending' = Pending
    BY <1>3 DEF OwnVisit, Pending
  <2> QED
    BY <1>3, <2>2, <2>3, <2>4, PendingKeeps DEF OwnVisit, VstIInv, vstHistory
<1>4. ASSUME NEW v \in VstVisitors, ChangeSettings(v) \/ ComeAndGo(v) PROVE VstIInv'
  <2>1. VstTypeOK'
    BY <1>4 DEF ChangeSettings, ComeAndGo, VstIInv, VstTypeOK, vstHistory
  <2>2. Pending' = Pending
    BY <1>4 DEF ChangeSettings, ComeAndGo, Pending
  <2>3. TimesAreBehind' /\ OpenlyMade'
    BY <1>4 DEF ChangeSettings, ComeAndGo, VstIInv, TimesAreBehind, OpenlyMade, vstHistory
  <2> QED
    BY <1>4, <2>1, <2>2, <2>3, PendingKeeps DEF ChangeSettings, ComeAndGo, VstIInv, vstHistory
<1>5. ASSUME NEW m \in {0, vstMine}, GetVisitors(m) PROVE VstIInv'
  <2> DEFINE times == {vstRow[v].at : v \in Listed}
  <2>1. PICK last \in times \cup {m} :
          /\ vstList' = last
          /\ vstPassed' = vstPassed \cup {t \in Pending \ times : t <= last}
    BY <1>5 DEF GetVisitors
  <2>2. times \subseteq VstTimes /\ (\A t \in times : t <= vstNow)
    BY DEF Listed, VstIInv, VstTypeOK, TimesAreBehind
  <2>3. m \in VstTimes /\ m <= vstNow
    BY <1>5 DEF VstIInv, VstTypeOK, TimesAreBehind
  <2>4. Pending \subseteq VstTimes
    BY DEF Pending, VstIInv, VstTypeOK
  <2>5. Pending' = Pending /\ vstShown' = vstShown \cup times /\ vstChecked' = vstChecked
    BY <1>5 DEF GetVisitors, Pending
  <2> HIDE DEF times
  <2>6. VstTypeOK'
    BY <1>5, <2>1, <2>2, <2>3, <2>4, <2>5 DEF GetVisitors, VstIInv, VstTypeOK
  <2>7. TimesAreBehind'
    BY <1>5, <2>1, <2>2, <2>3 DEF GetVisitors, VstIInv, TimesAreBehind
  <2>8. OpenlyMade'
    BY <1>5 DEF GetVisitors, VstIInv, OpenlyMade
  <2>9. PassedIsKnown'
    BY <2>1, <2>5 DEF VstIInv, PassedIsKnown
  <2> QED
    BY <2>6, <2>7, <2>8, <2>9 DEF VstIInv
<1>6. CASE MarkVisitorsChecked
  <2>1. /\ vstChecked' \in {vstList, vstChecked} /\ vstChecked' \in VstTimes
        /\ vstChecked' <= vstNow
    BY <1>6 DEF MarkVisitorsChecked, CheckedAt, VstIInv, VstTypeOK, TimesAreBehind
  <2>2. VstTypeOK'
    BY <1>6, <2>1 DEF MarkVisitorsChecked, VstIInv, VstTypeOK, vstHistory
  <2>3. Pending' = Pending
    BY <1>6 DEF MarkVisitorsChecked, Pending
  <2>4. TimesAreBehind' /\ OpenlyMade'
    BY <1>6, <2>1 DEF MarkVisitorsChecked, VstIInv, TimesAreBehind, OpenlyMade, vstHistory
  <2>5. PassedIsKnown'
    BY <1>6, <2>1, <2>3 DEF MarkVisitorsChecked, VstIInv, PassedIsKnown, vstHistory
  <2> QED
    BY <2>2, <2>4, <2>5 DEF VstIInv
<1>7. CASE MarkAllChecked
  <2>1. vstChecked' \in VstTimes /\ vstChecked' <= vstNow
    BY <1>7 DEF MarkAllChecked, CheckedAt, VstIInv, VstTypeOK, TimesAreBehind
  <2>2. Pending' = Pending /\ Pending \subseteq VstTimes
    BY <1>7 DEF MarkAllChecked, Pending, VstIInv, VstTypeOK
  <2>3. VstTypeOK'
    BY <1>7, <2>1, <2>2 DEF MarkAllChecked, VstIInv, VstTypeOK
  <2>4. TimesAreBehind' /\ OpenlyMade'
    BY <1>7, <2>1 DEF MarkAllChecked, VstIInv, TimesAreBehind, OpenlyMade
  <2>5. PassedIsKnown'
    BY <1>7, <2>2 DEF MarkAllChecked, PassedIsKnown
  <2> QED
    BY <2>3, <2>4, <2>5 DEF VstIInv
<1>8. CASE UNCHANGED vstVars
  BY <1>8 DEF vstVars, vstHistory, VstIInv, VstTypeOK, TimesAreBehind, OpenlyMade,
     PassedIsKnown, Pending
<1> QED
  BY <1>1, <1>2, <1>3, <1>4, <1>5, <1>6, <1>7, <1>8 DEF VstNext

LEMMA VstInvariant == VstSpec => []VstIInv
  BY InitVstIInv, NextVstIInv, PTL DEF VstSpec

\* However visits overlap with each other, with the lists and with the marks, and
\* whatever settings, skips and messages follow, the tab shows open visits only, and
\* one that is not marked as new was shown or passed over.
THEOREM VisitorsNoticed == VstSpec => []VisitorsAreNoticed
<1>1. VstIInv => VisitorsAreNoticed
  <2> SUFFICES ASSUME VstIInv, NEW v \in Listed
               PROVE  /\ vstRow[v].at \in vstOpenly
                      /\ IsNew(v) \/ vstRow[v].at \in vstShown \cup vstPassed
    BY DEF VisitorsAreNoticed
  <2>1. v \in VstVisitors /\ vstRow[v].at # 0 /\ ~vstRow[v].invisible
    BY DEF Listed
  <2>2. vstRow[v].at \in Pending
    BY <2>1 DEF Pending
  <2>3. vstRow[v].at \in Nat /\ vstChecked \in Nat
    BY <2>1, VstAssumption DEF VstAssumption, VstIInv, VstTypeOK, VstTimes
  <2> QED
    BY <2>1, <2>2, <2>3 DEF VstIInv, OpenlyMade, PassedIsKnown, IsNew
<1> QED
  BY <1>1, VstInvariant, PTL

-----------------------------------------------------------------------------
(* Profile.                                                                    *)

\* The event is about something that is there.
EventIsTrue ==
  \/ proEvent = JoinedEvent
  \/ \E x \in Photos : proEvent = Added("photo", {x})
  \/ proSound # ProNone /\ proEvent = Added("sound", {proSound})
  \/ \E ws \in (SUBSET proBio) \ {{}} : proEvent = Added("bio", ws)

\* What waits for the row has nothing to do with what holds it: an upload brings
\* a new picture, and a deletion that waits is of an older one, of which the
\* event, whatever it becomes meanwhile, does not speak.  A deletion that holds the
\* row leaves no event that speaks of what it takes, and has counted what it
\* leaves, unless it had waited.
WaitersAreApart ==
  /\ proUpload = ProNone \/ proDeletion = ProNone
  /\ proUpload # ProNone => proUpload.pic \notin Photos
  /\ proDeletion # ProNone =>
       /\ proDeletion.event \in {JoinedEvent, proEvent}
       /\ proDeletion.event.of \cap proDeletion.gone = {}
       /\ proDeletion.waited \/ proDeletion.flag = LeavesPhoto(proDeletion.gone)
  /\ \A d \in proWaiting :
       /\ d.pic \notin proEvent.of
       /\ proUpload # ProNone => d.pic # proUpload.pic

ProIInv == ProTypeOK /\ EventIsTrue /\ WaitersAreApart /\ FlagFollowsPhotos /\ GoldSettingsEnd

-----------------------------------------------------------------------------
(* Lemmas on the photos.                                                       *)

\* Deleting pictures leaves the others.
LEMMA WithoutIs ==
  ASSUME ProTypeOK, NEW xs
  PROVE  /\ Without(xs) \in [ProPositions -> ProPics \cup {ProNone}]
         /\ PhotosOf(Without(xs)) = Photos \ xs
  BY DEF ProTypeOK, Without, PhotosOf, Photos

\* Putting a picture somewhere replaces at most the one that was there.
LEMMA WithIs ==
  ASSUME ProTypeOK, NEW p \in ProPositions, NEW x \in ProPics,
         NEW ph \in {[proPhoto EXCEPT ![p] = x]}
  PROVE  /\ ph \in [ProPositions -> ProPics \cup {ProNone}]
         /\ x \in PhotosOf(ph)
         /\ proPhoto[p] = ProNone => Photos \subseteq PhotosOf(ph)
         /\ PhotosOf(ph) \subseteq Photos \cup {x}
  BY ProAssumption DEF ProAssumption, ProTypeOK, PhotosOf, Photos

\* An assignment that puts no two photos into one position fills every position.
LEMMA RearrangeIs ==
  ASSUME ProTypeOK, NEW f \in [ProPositions -> ProPositions], Rearrange(f)
  PROVE  proPhoto' \in [ProPositions -> ProPics \cup {ProNone}] /\ Photos' = Photos
<1>1. f \in Injection(ProPositions, ProPositions)
  BY DEF Rearrange, Injection, IsInjective
<1>2. f \in Surjection(ProPositions, ProPositions)
  BY <1>1, FS_Injection, ProAssumption DEF ProAssumption
<1>3. \A p \in ProPositions : \E q \in ProPositions : f[q] = p
  BY <1>2 DEF Surjection
<1> DEFINE From(p) == CHOOSE q \in ProPositions : f[q] = p
<1>4. \A p \in ProPositions : From(p) \in ProPositions /\ f[From(p)] = p
  BY <1>3
<1>5. \A q \in ProPositions : From(f[q]) = q
  BY <1>4 DEF Rearrange
<1>6. proPhoto' = [p \in ProPositions |-> proPhoto[From(p)]]
  BY DEF Rearrange
<1> HIDE DEF From
<1>7. proPhoto' \in [ProPositions -> ProPics \cup {ProNone}]
  BY <1>4, <1>6 DEF ProTypeOK
<1>8. \A q \in ProPositions : proPhoto[q] = proPhoto'[f[q]]
  BY <1>5, <1>6
<1>9. Photos' = Photos
  <2>1. \A x : x \in Photos <=> x # ProNone /\ \E p \in ProPositions : proPhoto[p] = x
    BY DEF Photos, PhotosOf
  <2>2. \A x : x \in Photos' <=> x # ProNone /\ \E p \in ProPositions : proPhoto'[p] = x
    BY DEF Photos, PhotosOf
  <2>3. \A p \in ProPositions : proPhoto'[p] = proPhoto[From(p)]
    BY <1>6
  <2>4. \A q \in ProPositions : f[q] \in ProPositions
    OBVIOUS
  <2> QED
    BY <1>4, <1>8, <2>1, <2>2, <2>3, <2>4
<1> QED
  BY <1>7, <1>9

-----------------------------------------------------------------------------
LEMMA InitProIInv == ProInit => ProIInv
<1> SUFFICES ASSUME ProInit PROVE ProIInv
  OBVIOUS
<1>1. ProTypeOK
  BY DEF ProInit, ProTypeOK, Events
<1>2. Photos = {}
  BY DEF ProInit, Photos, PhotosOf
<1> QED
  BY <1>1, <1>2 DEF ProInit, ProIInv, EventIsTrue, WaitersAreApart, FlagFollowsPhotos, GoldSettingsEnd

\* The events.
LEMMA EventsAre ==
  ASSUME ProTypeOK
  PROVE  /\ JoinedEvent \in Events /\ proEvent \in Events
         /\ \A gone : Forget(gone) \in {JoinedEvent, proEvent}
         /\ \A gone : Forget(gone).of \cap gone = {}
  BY DEF ProTypeOK, Events, Forget, JoinedEvent

\* What else leaves what waits and what holds apart.
LEMMA FreeIsApart ==
  ASSUME RowIsFree, UNCHANGED <<proUpload, proDeletion, proWaiting>>
  PROVE  WaitersAreApart'
  BY DEF RowIsFree, NobodyHolds, WaitersAreApart

LEMMA ApartKeeps ==
  ASSUME WaitersAreApart, UNCHANGED <<proPhoto, proUpload, proDeletion, proWaiting, proEvent>>
  PROVE  WaitersAreApart'
<1>1. Photos' = Photos /\ \A xs : LeavesPhoto(xs)' = LeavesPhoto(xs)
  BY DEF Photos, LeavesPhoto, Without
<1> QED
  BY <1>1 DEF WaitersAreApart

\* Every deletion with the row free.
LEMMA DeleteKeeps ==
  ASSUME ProIInv, NEW xs, NEW event, Delete(xs, event),
         event \in {JoinedEvent, proEvent}, event.of \cap xs = {}
  PROVE  ProIInv'
<1> USE DEF ProIInv, bioVars, goldVars
<1> DEFINE d == [gone |-> xs, flag |-> LeavesPhoto(xs), event |-> event, waited |-> FALSE]
<1>1. /\ proDeletion' = d /\ proUpload = ProNone /\ proWaiting = {} /\ xs \subseteq Photos
      /\ UNCHANGED <<proPhoto, proFlag, proUpload, proWaiting, proRaced, bioVars, proEvent,
                     goldVars>>
  BY DEF Delete, RowIsFree, NobodyHolds
<1>2. LeavesPhoto(xs) \in BOOLEAN
  BY DEF LeavesPhoto
<1>3. xs \in SUBSET ProPics /\ event \in Events
  BY <1>1, EventsAre DEF ProTypeOK, Photos, PhotosOf
<1>4. /\ d \in Deletions
      /\ d.gone = xs /\ d.flag = LeavesPhoto(xs) /\ d.event = event
  BY <1>2, <1>3 DEF Deletions
<1> HIDE DEF d
<1>5. Photos' = Photos /\ LeavesPhoto(xs)' = LeavesPhoto(xs)
  BY <1>1 DEF Photos, LeavesPhoto, Without
<1>6. ProTypeOK'
  BY <1>1, <1>4 DEF ProTypeOK
<1>7. WaitersAreApart'
  BY <1>1, <1>4, <1>5 DEF WaitersAreApart
<1>8. EventIsTrue' /\ FlagFollowsPhotos' /\ GoldSettingsEnd'
  BY <1>1, <1>5 DEF EventIsTrue, FlagFollowsPhotos, GoldSettingsEnd
<1> QED
  BY <1>6, <1>7, <1>8

\* The end of every deletion.
LEMMA CommitDeletionKeeps ==
  ASSUME ProIInv, CommitDeletion
  PROVE  ProIInv'
<1> USE DEF ProIInv, bioVars, goldVars
<1> DEFINE d == proDeletion
<1>1. /\ d # ProNone /\ proDeletion' = ProNone
      /\ proPhoto' = Without(d.gone) /\ proFlag' = d.flag /\ proEvent' = d.event
      /\ proRaced' = (d.waited /\ d.flag # LeavesPhoto(d.gone))
      /\ UNCHANGED <<proUpload, proWaiting, bioVars, goldVars>>
  BY DEF CommitDeletion
<1>2. d \in Deletions
  BY <1>1 DEF ProTypeOK
<1>3. /\ d.gone \subseteq ProPics /\ d.flag \in BOOLEAN /\ d.event \in Events
      /\ d.waited \in BOOLEAN
  BY <1>2 DEF Deletions
<1>4. /\ proUpload = ProNone /\ d.event \in {JoinedEvent, proEvent}
      /\ d.event.of \cap d.gone = {}
      /\ d.waited \/ d.flag = LeavesPhoto(d.gone)
      /\ \A w \in proWaiting : w.pic \notin proEvent.of
  BY <1>1 DEF WaitersAreApart
<1> HIDE DEF d
<1>5. /\ Photos' = Photos \ d.gone
      /\ proPhoto' \in [ProPositions -> ProPics \cup {ProNone}]
  BY <1>1, WithoutIs DEF Photos
<1>6. LeavesPhoto(d.gone) = (Photos' # {})
  BY <1>1 DEF LeavesPhoto, Photos
<1>7. (d.waited /\ d.flag # LeavesPhoto(d.gone)) \in BOOLEAN
  BY <1>3
<1>8. ProTypeOK'
  <2>1. proRaced' \in BOOLEAN
    BY <1>1, <1>7
  <2> QED
    BY <1>1, <1>3, <1>5, <2>1 DEF ProTypeOK
<1>9. EventIsTrue'
  <2>1. CASE d.event = JoinedEvent
    BY <1>1, <2>1 DEF EventIsTrue, JoinedEvent
  <2>2. CASE d.event = proEvent
    <3>1. ASSUME NEW x \in Photos, proEvent = Added("photo", {x}) PROVE x \in Photos'
      BY <1>4, <1>5, <2>2, <3>1 DEF Added
    <3>2. proEvent' = proEvent /\ UNCHANGED <<proSound, proBio>>
      BY <1>1, <2>2
    <3> QED
      BY <3>1, <3>2 DEF EventIsTrue, JoinedEvent
  <2> QED
    BY <1>4, <2>1, <2>2
<1>10. WaitersAreApart'
  BY <1>1, <1>4 DEF WaitersAreApart, JoinedEvent
<1>11. FlagFollowsPhotos'
  BY <1>1, <1>4, <1>6 DEF FlagFollowsPhotos
<1>12. GoldSettingsEnd'
  BY <1>1 DEF GoldSettingsEnd
<1> QED
  BY <1>8, <1>9, <1>10, <1>11, <1>12

\* The deletion that waits, gets the row, or gives it up.
LEMMA WaitingKeeps ==
  ASSUME ProIInv,
         \/ AbortDeletion
         \/ \E d \in proWaiting : AdminGoesOn(d)
         \/ \E x \in ProPics : AdminWaits(x)
  PROVE  ProIInv'
<1> USE DEF ProIInv, bioVars, goldVars
<1>1. CASE AbortDeletion
  <2>1. ProTypeOK' /\ Photos' = Photos
    BY <1>1 DEF AbortDeletion, ProTypeOK, Photos
  <2> QED
    BY <1>1, <2>1 DEF AbortDeletion, EventIsTrue, WaitersAreApart, FlagFollowsPhotos,
                      GoldSettingsEnd
<1>2. ASSUME NEW d \in proWaiting, AdminGoesOn(d) PROVE ProIInv'
  <2> DEFINE n == [gone |-> {d.pic}, flag |-> d.flag, event |-> proEvent, waited |-> TRUE]
  <2>1. /\ proDeletion' = n /\ proWaiting' = proWaiting \ {d} /\ proUpload = ProNone
        /\ UNCHANGED <<proPhoto, proFlag, proUpload, proRaced, bioVars, proEvent, goldVars>>
    BY <1>2 DEF AdminGoesOn, NobodyHolds
  <2>2. d.pic \in ProPics /\ d.flag \in BOOLEAN /\ proEvent \in Events /\ d.pic \notin proEvent.of
    BY DEF ProTypeOK, WaitersAreApart
  <2>3. n \in Deletions /\ n.gone = {d.pic} /\ n.event = proEvent /\ n.waited
    BY <2>2 DEF Deletions
  <2> HIDE DEF n
  <2>4. ProTypeOK' /\ Photos' = Photos
    BY <2>1, <2>3 DEF ProTypeOK, Photos
  <2>5. WaitersAreApart'
    BY <2>1, <2>2, <2>3 DEF WaitersAreApart
  <2> QED
    BY <2>1, <2>4, <2>5 DEF EventIsTrue, FlagFollowsPhotos, GoldSettingsEnd
<1>3. ASSUME NEW x \in ProPics, AdminWaits(x) PROVE ProIInv'
  <2> DEFINE w == [pic |-> x, flag |-> LeavesPhoto({x})]
  <2>1. /\ proWaiting' = proWaiting \cup {w} /\ x \in Photos /\ x \notin proEvent.of
        /\ UNCHANGED <<proPhoto, proFlag, proUpload, proDeletion, proRaced, bioVars, proEvent,
                       goldVars>>
    BY <1>3 DEF AdminWaits
  <2>2. LeavesPhoto({x}) \in BOOLEAN
    BY DEF LeavesPhoto
  <2>3. w \in [pic : ProPics, flag : BOOLEAN] /\ w.pic = x
    BY <2>2
  <2> HIDE DEF w
  <2>4. ProTypeOK' /\ Photos' = Photos
    BY <2>1, <2>3 DEF ProTypeOK, Photos
  <2>5. \A xs : LeavesPhoto(xs)' = LeavesPhoto(xs)
    BY <2>1 DEF LeavesPhoto, Without
  <2>6. WaitersAreApart'
    BY <2>1, <2>3, <2>4, <2>5 DEF WaitersAreApart
  <2> QED
    BY <2>1, <2>4, <2>6 DEF EventIsTrue, FlagFollowsPhotos, GoldSettingsEnd
<1> QED
  BY <1>1, <1>2, <1>3

\* Uploads.
LEMMA UploadKeeps ==
  ASSUME ProIInv,
         \/ \E p \in ProPositions, x \in ProPics : StartUpload(p, x)
         \/ CommitUpload \/ AbortUpload
  PROVE  ProIInv'
<1> USE DEF ProIInv, bioVars, goldVars
<1>1. ASSUME NEW p \in ProPositions, NEW x \in ProPics, StartUpload(p, x) PROVE ProIInv'
  <2>1. ProTypeOK' /\ Photos' = Photos
    BY <1>1 DEF StartUpload, ProTypeOK, Photos
  <2> QED
    BY <1>1, <2>1 DEF StartUpload, RowIsFree, NobodyHolds, EventIsTrue, WaitersAreApart,
                      FlagFollowsPhotos, GoldSettingsEnd
<1>2. CASE CommitUpload
  <2> DEFINE u == proUpload
             ph == [proPhoto EXCEPT ![u.at] = u.pic]
  <2>1. u \in [at : ProPositions, pic : ProPics] /\ u.at \in ProPositions /\ u.pic \in ProPics
    BY <1>2 DEF CommitUpload, ProTypeOK
  <2>2. /\ proPhoto' = ph /\ Photos' = PhotosOf(ph)
        /\ proEvent' = Added("photo", {u.pic}) /\ proUpload' = ProNone
        /\ IF proPhoto[u.at] = ProNone THEN proFlag' = (Photos' # {}) /\ proRaced' = FALSE
           ELSE UNCHANGED <<proFlag, proRaced>>
        /\ UNCHANGED <<proDeletion, proWaiting, bioVars, goldVars>>
    BY <1>2 DEF CommitUpload, Photos
  <2>3. /\ ph \in [ProPositions -> ProPics \cup {ProNone}]
        /\ u.pic \in PhotosOf(ph)
    BY <2>1, WithIs
  <2> HIDE DEF u, ph
  <2>4. ProTypeOK'
    <3>1. proFlag' \in BOOLEAN /\ proRaced' \in BOOLEAN
      BY <2>2 DEF ProTypeOK
    <3>2. proEvent' \in Events
      BY <2>1, <2>2 DEF Events
    <3> QED
      BY <2>2, <2>3, <3>1, <3>2 DEF ProTypeOK
  <2>5. EventIsTrue'
    BY <2>2, <2>3 DEF EventIsTrue
  <2>6. WaitersAreApart'
    BY <1>2, <2>2 DEF WaitersAreApart, Added, CommitUpload, u
  <2>7. FlagFollowsPhotos'
    <3>1. CASE proPhoto[u.at] = ProNone
      BY <2>2, <3>1 DEF FlagFollowsPhotos
    <3>2. CASE proPhoto[u.at] # ProNone
      <4>1. Photos # {} /\ Photos' # {}
        BY <2>1, <2>2, <2>3, <3>2 DEF Photos, PhotosOf
      <4> QED
        BY <2>2, <3>2, <4>1 DEF FlagFollowsPhotos
    <3> QED
      BY <3>1, <3>2
  <2>8. GoldSettingsEnd'
    BY <2>2 DEF GoldSettingsEnd
  <2> QED
    BY <2>4, <2>5, <2>6, <2>7, <2>8
<1>3. CASE AbortUpload
  <2>1. ProTypeOK' /\ Photos' = Photos
    BY <1>3 DEF AbortUpload, ProTypeOK, Photos
  <2> QED
    BY <1>3, <2>1 DEF AbortUpload, EventIsTrue, WaitersAreApart, FlagFollowsPhotos, GoldSettingsEnd
<1> QED
  BY <1>1, <1>2, <1>3

\* The bio, and gold.
LEMMA BioAndGoldKeep ==
  ASSUME ProIInv,
         \/ \E x \in ProSounds : PatchSound(x)
         \/ DeleteSound \/ GetGold \/ LoseGold
         \/ \E ws \in SUBSET ProWords : PatchAbout(ws)
         \/ \E f \in ProSettings : AskForGold(f) \/ \E on \in BOOLEAN : PatchSetting(f, on)
  PROVE  ProIInv'
<1> USE DEF ProIInv, photoVars, bioVars, goldVars
<1>1. UNCHANGED photoVars /\ Photos' = Photos /\ FlagFollowsPhotos'
  BY DEF PatchSound, DeleteSound, GetGold, LoseGold, PatchAbout, AskForGold, PatchSetting,
         Photos, PhotosOf, FlagFollowsPhotos
<1>2. ASSUME NEW x \in ProSounds, PatchSound(x) PROVE ProIInv'
  <2>1. ProTypeOK'
    BY <1>2 DEF PatchSound, ProTypeOK, Events
  <2> QED
    BY <1>1, <1>2, <2>1, ProAssumption, FreeIsApart
    DEF ProAssumption, PatchSound, EventIsTrue, GoldSettingsEnd
<1>3. CASE DeleteSound
  <2>1. ProTypeOK'
    BY <1>3 DEF DeleteSound, Forget, ProTypeOK, Events
  <2>2. EventIsTrue'
    <3>1. CASE proSound \in proEvent.of
      BY <1>3, <3>1 DEF DeleteSound, Forget, EventIsTrue, JoinedEvent
    <3>2. CASE proSound \notin proEvent.of
      <4>1. proEvent' = proEvent /\ proBio' = proBio
        BY <1>3, <3>2 DEF DeleteSound, Forget
      <4>2. proEvent # Added("sound", {proSound})
        BY <3>2 DEF Added
      <4> QED
        BY <1>1, <4>1, <4>2 DEF EventIsTrue, Added, JoinedEvent
    <3> QED
      BY <3>1, <3>2
  <2>3. WaitersAreApart'
    BY <1>1, <1>3, FreeIsApart DEF DeleteSound
  <2>4. GoldSettingsEnd'
    BY <1>3 DEF DeleteSound, GoldSettingsEnd
  <2> QED
    BY <1>1, <2>1, <2>2, <2>3, <2>4
<1>4. CASE GetGold \/ LoseGold
  <2>1. ProTypeOK'
    BY <1>4 DEF GetGold, LoseGold, ProTypeOK
  <2> QED
    BY <1>1, <1>4, <2>1, FreeIsApart DEF GetGold, LoseGold, EventIsTrue, GoldSettingsEnd
<1>5. ASSUME NEW ws \in SUBSET ProWords, PatchAbout(ws) PROVE ProIInv'
  <2>1. ProTypeOK'
    BY <1>5 DEF PatchAbout, ProTypeOK, Events
  <2>2. EventIsTrue'
    <3>1. CASE ws \subseteq proBio
      BY <1>5, <3>1 DEF PatchAbout, EventIsTrue, JoinedEvent
    <3>2. CASE ~(ws \subseteq proBio)
      <4>1. ws \ proBio \in (SUBSET proBio') \ {{}}
        BY <1>5, <3>2 DEF PatchAbout
      <4> QED
        BY <1>5, <3>2, <4>1 DEF PatchAbout, EventIsTrue, Added
    <3> QED
      BY <3>1, <3>2
  <2> QED
    BY <1>1, <1>5, <2>1, <2>2, FreeIsApart DEF PatchAbout, GoldSettingsEnd
<1>6. ASSUME NEW f \in ProSettings, AskForGold(f) PROVE ProIInv'
  <2>1. ProTypeOK'
    BY <1>6 DEF AskForGold, ProTypeOK
  <2> QED
    BY <1>1, <1>6, <2>1, ApartKeeps DEF AskForGold, EventIsTrue, GoldSettingsEnd
<1>7. ASSUME NEW f \in ProSettings, NEW on \in BOOLEAN, PatchSetting(f, on) PROVE ProIInv'
  <2>1. ProTypeOK'
    BY <1>7 DEF PatchSetting, ProTypeOK
  <2>2. GoldSettingsEnd'
    BY <1>7 DEF PatchSetting, GoldSettingsEnd
  <2> QED
    BY <1>1, <1>7, <2>1, <2>2, FreeIsApart DEF PatchSetting, EventIsTrue
<1> QED
  BY <1>2, <1>3, <1>4, <1>5, <1>6, <1>7

LEMMA NextProIInv == ProIInv /\ [ProNext]_proVars => ProIInv'
<1> SUFFICES ASSUME ProIInv, [ProNext]_proVars PROVE ProIInv'
  OBVIOUS
<1>0. /\ \A gone : Forget(gone) \in {JoinedEvent, proEvent}
      /\ \A gone : Forget(gone).of \cap gone = {}
      /\ \A gone : JoinedEvent.of \cap gone = {}
  BY EventsAre DEF ProIInv, JoinedEvent
<1>1. ASSUME NEW ps \in SUBSET ProPositions, DeletePhotos(ps) PROVE ProIInv'
  BY <1>0, <1>1, DeleteKeeps DEF DeletePhotos
<1>2. ASSUME NEW xs \in SUBSET ProPics, DeleteUnsafe(xs) PROVE ProIInv'
  BY <1>0, <1>2, DeleteKeeps DEF DeleteUnsafe
<1>3. ASSUME NEW x \in ProPics, AdminDeletes(x) PROVE ProIInv'
  BY <1>0, <1>3, DeleteKeeps DEF AdminDeletes
<1>4. ASSUME NEW f \in [ProPositions -> ProPositions], Rearrange(f) PROVE ProIInv'
  <2>1. ProTypeOK' /\ Photos' = Photos
    BY <1>4, RearrangeIs DEF Rearrange, ProIInv, ProTypeOK, bioVars, goldVars
  <2> QED
    BY <1>4, <2>1, FreeIsApart DEF Rearrange, ProIInv, EventIsTrue, FlagFollowsPhotos,
                      GoldSettingsEnd, bioVars, goldVars
<1>5. CASE UNCHANGED proVars
  <2>1. Photos' = Photos
    BY <1>5 DEF proVars, photoVars, Photos
  <2> QED
    BY <1>5, <2>1, ApartKeeps, ZenonT(60) DEF proVars, photoVars, bioVars, goldVars, ProIInv,
                      ProTypeOK, EventIsTrue, FlagFollowsPhotos, GoldSettingsEnd
<1> QED
  BY <1>1, <1>2, <1>3, <1>4, <1>5, UploadKeeps, CommitDeletionKeeps, WaitingKeeps,
     BioAndGoldKeep DEF ProNext

-----------------------------------------------------------------------------
LEMMA ProInvariant == ProSpec => []ProIInv
  BY InitProIInv, NextProIInv, PTL DEF ProSpec

\* What an event is about, as the feed shows it.
LEMMA EventIsTold == ProIInv => FeedTellsWhatIs
<1> DEFINE Told(recent, data) ==
      CASE FeedName(recent) = "photo"  -> data # {} /\ data \subseteq Photos
        [] FeedName(recent) = "sound"  -> data = {proSound} /\ proSound # ProNone
        [] FeedName(recent) = "bio"    -> data # {} /\ data \subseteq proBio
        [] FeedName(recent) = "joined" -> data = {}
<1> SUFFICES ASSUME ProIInv, NEW recent \in BOOLEAN, NEW data \in FeedData(recent)
             PROVE  Told(recent, data)
  BY DEF FeedTellsWhatIs
<1>0. EventIsTrue
  BY DEF ProIInv
<1>1. CASE proEvent = JoinedEvent
  BY <1>1 DEF JoinedEvent, FeedData, FeedName
<1>2. CASE \E x \in Photos : proEvent = Added("photo", {x})
  BY <1>2 DEF Added, FeedData, FeedName
<1>3. CASE proSound # ProNone /\ proEvent = Added("sound", {proSound})
  BY <1>3 DEF Added, FeedData, FeedName
<1>4. CASE \E ws \in (SUBSET proBio) \ {{}} : proEvent = Added("bio", ws)
  BY <1>4 DEF Added, FeedData, FeedName
<1> HIDE DEF Told
<1> QED
  BY <1>0, <1>1, <1>2, <1>3, <1>4 DEF EventIsTrue

\* Every variable keeps its type.
THEOREM ProTypeCorrect == ProSpec => []ProTypeOK
<1>1. ProIInv => ProTypeOK
  BY DEF ProIInv
<1> QED
  BY <1>1, ProInvariant, PTL

\* However uploads, deletions, the administrator's ones among them, and the
\* other requests interleave: the feed announces what can be seen, the search
\* knows who has a photo but after the races that are named, and settings end
\* with the gold that they need.
THEOREM ProfileTold == ProSpec => []ProfileIsTold
<1>1. ProIInv => ProfileIsTold
  BY EventIsTold DEF ProIInv, ProfileIsTold
<1> QED
  BY <1>1, ProInvariant, PTL

-----------------------------------------------------------------------------
(* Notifications.                                                              *)

\* Messages of which a notification was sent, waits for its batch, or was dropped.
Tried == notTold \cup notPushes \cup notDropped

\* What was tried for has come.
TriedHaveCome ==
  \A m \in NotMsgs : notMsg[m] = NotNone /\ m \notin notTold => m \notin Tried

\* Whoever will record the time of a kind has tried to tell of what is unread of
\* it, or what came since is marked as raced.
RecordersCover ==
  \A m \in NotMsgs : notMsg[m] # NotNone =>
    LET k == notMsg[m].kind IN
    \/ k \in notQueue
    \/ notCron.stage = "sent" /\ k \in notCron.has
    \/ notMsg[m].time <= notLast[k]
    => m \in Tried \cup notRaced

\* If the last registration found none waiting for another worker, it is the
\* last of the one batch that waits, and the only one unless it was crowded.
LastIsWanted == ~notWants.crossed =>
  \/ \A w \in NotWorkers : notRegs[w] = << >>
  \/ \E w \in NotWorkers :
        /\ notRegs[w] # << >> /\ notRegs[w][Len(notRegs[w])] = notWants.token
        /\ \A v \in NotWorkers \ {w} : notRegs[v] = << >>
        /\ ~notWants.crowded => Len(notRegs[w]) = 1

\* Messages are of the past, and those that wait for their callback of this
\* tick, like the newest of a kind of which the callback told.
QueueIsFresh ==
  /\ \A m \in NotMsgs : notMsg[m] # NotNone => notMsg[m].time <= notNow
  /\ \A m \in notPending : notMsg[m] # NotNone => notMsg[m].time = notNow
  /\ \A k \in notQueue : Unread(k) # {} => \E m \in Unread(k) : notMsg[m].time = notNow

\* A message that was tried for is covered by the time of its kind, or will be,
\* or the time was lost.
TriedAreTimed ==
  \A m \in NotMsgs \cap Tried : notMsg[m] # NotNone =>
    LET k == notMsg[m].kind IN
    \/ k \in notLost \cup notQueue
    \/ notCron.stage = "sent" /\ k \in notCron.has
    \/ notMsg[m].time <= notLast[k]

\* The row of the cron job has no kind whose newest message was told of.
RowIsNews == notCron # NoRow => notCron.has \cap notCron.known = {}

NotIInv ==
  /\ NotTypeOK /\ TriedHaveCome /\ RecordersCover /\ LastIsWanted /\ RegistrationsStick
  /\ QueueIsFresh /\ TriedAreTimed /\ RowIsNews

-----------------------------------------------------------------------------
\* A set of numbers up to n that is not empty has a largest one.
LEMMA LargestOf ==
  ASSUME NEW n \in Nat, NEW S \in SUBSET (0 .. n), S # {}
  PROVE  \E t \in S : \A u \in S : u <= t
<1> DEFINE B == {b \in Nat : \A u \in S : u <= b}
<1>1. n \in B
  OBVIOUS
<1>2. IsWellFoundedOn(OpToRel(<, Nat), Nat)
  BY NatLessThanWellFounded
<1>3. PICK x \in B : \A y \in B : ~(<<y, x>> \in OpToRel(<, Nat))
  <2>1. B \subseteq Nat /\ B # {}
    BY <1>1
  <2> HIDE DEF B
  <2> QED
    BY <1>2, <2>1, WFMin
<1>4. \A y \in B : ~(y < x)
  BY <1>3 DEF OpToRel
<1> HIDE <1>2, <1>3
<1>5. x \in Nat /\ \A u \in S : u <= x
  BY <1>3
<1>6. x \in S
  <2> SUFFICES ASSUME x \notin S PROVE FALSE
    OBVIOUS
  <2>1. PICK u \in S : TRUE
    OBVIOUS
  <2>2. \A v \in S : v < x
    BY <1>5
  <2>3. x - 1 \in Nat
    BY <1>5, <2>1, <2>2
  <2>4. x - 1 \in B
    BY <2>2, <2>3, <1>5
  <2> QED
    BY <1>4, <1>5, <2>4
<1> QED
  BY <1>5, <1>6

\* The newest unread message of a kind is one of them, and none is newer.
LEMMA NewestIs ==
  ASSUME NotTypeOK, NEW k \in Kinds, Unread(k) # {}
  PROVE  /\ \E m \in Unread(k) : notMsg[m].time = Newest(k)
         /\ \A m \in Unread(k) : notMsg[m].time <= Newest(k)
         /\ Newest(k) \in 0 .. NotEnd
<1> DEFINE times == {notMsg[m].time : m \in Unread(k)}
<1>1. \A m \in Unread(k) : m \in NotMsgs /\ notMsg[m].time \in 0 .. NotEnd
  BY DEF Unread, NotTypeOK
<1>2. times \subseteq 0 .. NotEnd /\ times # {}
  BY <1>1
<1>3. \E t \in times : \A u \in times : u <= t
  BY <1>2, NotAssumption, LargestOf DEF NotAssumption
<1>4. Newest(k) \in times /\ \A m \in Unread(k) : notMsg[m].time <= Newest(k)
  BY <1>3 DEF Newest
<1> QED
  BY <1>2, <1>4

-----------------------------------------------------------------------------
LEMMA InitNotIInv == NotInit => NotIInv
<1> SUFFICES ASSUME NotInit PROVE NotIInv
  OBVIOUS
<1>1. /\ notNow = 1 /\ notOnline = 0 /\ notMsg = [m \in NotMsgs |-> NotNone]
      /\ notPending = {} /\ notLast = [k \in Kinds |-> 0] /\ notQueue = {} /\ notPushes = {}
      /\ notDrift \in [Kinds -> NotDaily] /\ notChanged = FALSE
      /\ notToken = NotNone /\ notKnown = {} /\ notRegs = [w \in NotWorkers |-> << >>]
      /\ notCron = NoRow /\ notTold = {} /\ notDropped = {}
      /\ notRaced = {} /\ notLost = {} /\ notActs = 0
  BY DEF NotInit
<1>2. /\ notWants \in [token : NotTokens \cup {NotNone}, lost : BOOLEAN, crossed : BOOLEAN,
                       crowded : BOOLEAN]
      /\ notWants.token = NotNone
  BY DEF NotInit
<1>3. NotTypeOK
  <2>1. /\ notRegs \in [NotWorkers -> Seq(NotTokens \cup {NotNone})]
        /\ notMsg \in [NotMsgs -> [kind : Kinds, time : 0 .. NotEnd] \cup {NotNone}]
    BY <1>1
  <2>2. /\ notLast \in [Kinds -> 0 .. NotEnd + NotSlack] /\ notActs \in 0 .. NotMaxActs
        /\ notNow \in 0 .. NotEnd /\ notOnline \in 0 .. NotEnd
    BY <1>1, NotAssumption DEF NotAssumption
  <2> QED
    BY <1>1, <1>2, <2>1, <2>2 DEF NotTypeOK
<1>4. NoRow.stage = "none"
  BY DEF NoRow
<1>5. TriedHaveCome /\ RecordersCover /\ QueueIsFresh /\ TriedAreTimed /\ RowIsNews
  BY <1>1, <1>4 DEF TriedHaveCome, RecordersCover, QueueIsFresh, TriedAreTimed, RowIsNews, Tried
<1>6. LastIsWanted /\ RegistrationsStick
  BY <1>1, <1>2 DEF LastIsWanted, RegistrationsStick
<1> QED
  BY <1>3, <1>5, <1>6 DEF NotIInv

\* A message arrives.
LEMMA ArriveKeeps ==
  ASSUME NotIInv, NEW m \in NotMsgs, NEW k \in Kinds, Arrive(m, k)
  PROVE  NotIInv'
<1> USE DEF NotIInv
<1> DEFINE new == [kind |-> k, time |-> notNow]
<1>1. /\ new.kind = k /\ new.time = notNow
      /\ new \in [kind : Kinds, time : 0 .. NotEnd]
      /\ notMsg[m] = NotNone /\ m \notin notTold
      /\ notMsg' = [notMsg EXCEPT ![m] = new]
      /\ notPending' = notPending \cup {m}
      /\ notRaced' = IF \/ k \in notQueue
                        \/ notCron.stage = "sent" /\ k \in notCron.has
                        \/ notNow <= notLast[k]
                     THEN notRaced \cup {m} ELSE notRaced
      /\ UNCHANGED <<notActs, notNow, notOnline, notLast, notQueue, notDrift, notChanged,
                     notPushes, notKnown, notDropped, notToken, notRegs, notCron, notTold,
                     notLost, notWants>>
  BY DEF Arrive, NotTypeOK, timeVars, tokenVars
<1> HIDE DEF new
<1>2. /\ \A n \in NotMsgs \ {m} : notMsg'[n] = notMsg[n]
      /\ notMsg'[m] = new
      /\ Tried' = Tried /\ m \notin Tried
  BY <1>1 DEF NotTypeOK, Tried, TriedHaveCome
<1>3. NotTypeOK'
  BY <1>1 DEF NotTypeOK
<1>4. TriedHaveCome' /\ RecordersCover'
  BY <1>1, <1>2 DEF TriedHaveCome, RecordersCover
<1>5. QueueIsFresh'
  <2>1. \A n \in NotMsgs : notMsg'[n] # NotNone => notMsg'[n].time <= notNow
    BY <1>1, <1>2 DEF QueueIsFresh, NotTypeOK
  <2>2. \A n \in notPending' : notMsg'[n] # NotNone => notMsg'[n].time = notNow
    BY <1>1, <1>2 DEF QueueIsFresh, NotTypeOK
  <2>3. ASSUME NEW q \in notQueue, Unread(q)' # {}
        PROVE  \E n \in Unread(q)' : notMsg'[n].time = notNow
    <3>1. CASE Unread(q) # {}
      <4>1. PICK n \in Unread(q) : notMsg[n].time = notNow
        BY <3>1 DEF QueueIsFresh
      <4>2. n \in NotMsgs \ {m} /\ notMsg'[n] = notMsg[n]
        BY <1>1, <1>2 DEF Unread
      <4>3. n \in Unread(q)'
        BY <4>2 DEF Unread
      <4> QED
        BY <4>1, <4>2, <4>3
    <3>2. CASE Unread(q) = {}
      <4>1. m \in Unread(q)'
        BY <1>1, <1>2, <2>3, <3>2 DEF Unread
      <4> QED
        BY <1>1, <1>2, <4>1
    <3> QED
      BY <3>1, <3>2
  <2> QED
    BY <1>1, <2>1, <2>2, <2>3 DEF QueueIsFresh
<1>6. TriedAreTimed'
  BY <1>1, <1>2 DEF TriedAreTimed
<1>7. LastIsWanted' /\ RegistrationsStick' /\ RowIsNews'
  BY <1>1 DEF LastIsWanted, RegistrationsStick, RowIsNews
<1> QED
  BY <1>3, <1>4, <1>5, <1>6, <1>7

\* What is queued of a push is tried for, whatever its token.
LEMMA EnqueueTries ==
  ASSUME NotTypeOK, NEW ms \in SUBSET NotMsgs, NEW token, Enqueue(ms, token), notTold' = notTold
  PROVE  /\ Tried' = Tried \cup ms
         /\ notPushes' \cup notDropped' \subseteq NotMsgs
         /\ notPushes' \cup notDropped' \subseteq notPushes \cup notDropped \cup ms
  BY DEF Enqueue, Tried, NotTypeOK

\* The callback of a message.
LEMMA NotifyKeeps ==
  ASSUME NotIInv, NEW m \in NotMsgs, NotifyAtOnce(m)
  PROVE  NotIInv'
<1> USE DEF NotIInv
<1> DEFINE k == notMsg[m].kind
<1>1. /\ m \in notPending /\ notPending' = notPending \ {m}
      /\ UNCHANGED <<notActs, notNow, notOnline, notMsg, notDrift, notChanged, notKnown, notTold,
                     notLast, notLost, notToken, notRegs, notWants, notCron, notRaced>>
      /\ \A q \in Kinds : Unread(q)' = Unread(q)
  BY DEF NotifyAtOnce, Unread, peopleVars, tokenVars
<1>2. LastIsWanted' /\ RegistrationsStick' /\ RowIsNews'
  BY <1>1 DEF LastIsWanted, RegistrationsStick, RowIsNews
<1>3. CASE UNCHANGED <<notPushes, notDropped, notQueue>>
  <2>1. NotTypeOK' /\ Tried' = Tried
    BY <1>1, <1>3 DEF NotTypeOK, Tried
  <2>2. TriedHaveCome' /\ RecordersCover' /\ QueueIsFresh' /\ TriedAreTimed'
    BY <1>1, <1>3, <2>1 DEF TriedHaveCome, RecordersCover, QueueIsFresh, TriedAreTimed, Unread
  <2> QED
    BY <1>2, <2>1, <2>2
<1>4. ASSUME NEW token \in notKnown, notMsg[m] # NotNone, Enqueue(Unread(k), token),
             notQueue' = notQueue \cup {k}
      PROVE  NotIInv'
  <2>1. k \in Kinds /\ m \in Unread(k) /\ Unread(k) \subseteq NotMsgs
    BY <1>4 DEF NotTypeOK, Unread
  <2>2. /\ Tried' = Tried \cup Unread(k)
        /\ notPushes' \cup notDropped' \subseteq NotMsgs
        /\ notPushes' \cup notDropped' \subseteq notPushes \cup notDropped \cup Unread(k)
    BY <1>1, <1>4, <2>1, EnqueueTries
  <2>3. NotTypeOK'
    BY <1>1, <1>4, <2>1, <2>2 DEF NotTypeOK
  <2>4. TriedHaveCome' /\ RecordersCover'
    BY <1>1, <1>4, <2>2 DEF TriedHaveCome, RecordersCover, Unread
  <2>5. QueueIsFresh'
    <3>1. notMsg[m].time = notNow
      BY <1>1, <1>4 DEF QueueIsFresh
    <3>2. \A q \in notQueue' : Unread(q) # {} => \E n \in Unread(q) : notMsg[n].time = notNow
      BY <1>4, <2>1, <3>1 DEF QueueIsFresh
    <3> QED
      BY <1>1, <3>2, <2>3 DEF QueueIsFresh, NotTypeOK, Unread
  <2>6. TriedAreTimed'
    BY <1>1, <1>4, <2>2 DEF TriedAreTimed, Unread
  <2> QED
    BY <1>2, <2>3, <2>4, <2>5, <2>6
<1> QED
  BY <1>3, <1>4 DEF NotifyAtOnce

\* Tokens are cached or expire, and queued pushes are sent or dropped: what was
\* tried for stays so.
LEMMA PushesKeep ==
  ASSUME NotIInv,
         LookUpToken \/ FlushPushes \/ \E token \in notKnown : TokenExpires(token)
  PROVE  NotIInv'
<1> USE DEF NotIInv
<1>1. UNCHANGED <<notNow, notOnline, notMsg, notDrift, notChanged, notPending, notLast,
                  notQueue, notLost, notToken, notRegs, notWants, notCron, notRaced, notActs>>
  BY DEF LookUpToken, FlushPushes, TokenExpires, peopleVars, timeVars, tokenVars
<1> DEFINE kept ==
      /\ notKnown' \subseteq NotTokens /\ Tried' = Tried /\ notTold \subseteq notTold'
      /\ notTold' \cup notPushes' \cup notDropped' \subseteq NotMsgs
<1>2. kept
  <2>1. CASE LookUpToken
    BY <2>1 DEF LookUpToken, NotTypeOK, Tried
  <2>2. CASE FlushPushes
    <3>1. PICK batch \in SUBSET notPushes :
            /\ notPushes' = notPushes \ batch /\ notKnown' = notKnown
            /\ \/ notTold' = notTold \cup batch /\ notDropped' = notDropped
               \/ notDropped' = notDropped \cup batch /\ notTold' = notTold
      BY <2>2 DEF FlushPushes
    <3> QED
      BY <3>1 DEF NotTypeOK, Tried
  <2>3. CASE \E token \in notKnown : TokenExpires(token)
    BY <2>3 DEF TokenExpires, NotTypeOK, Tried
  <2> QED
    BY <2>1, <2>2, <2>3
<1>3. NotTypeOK'
  BY <1>1, <1>2 DEF NotTypeOK
<1>4. TriedHaveCome' /\ RecordersCover' /\ TriedAreTimed'
  BY <1>1, <1>2 DEF TriedHaveCome, RecordersCover, TriedAreTimed
<1>5. QueueIsFresh' /\ LastIsWanted' /\ RegistrationsStick' /\ RowIsNews'
  BY <1>1 DEF QueueIsFresh, LastIsWanted, RegistrationsStick, RowIsNews, Unread
<1> QED
  BY <1>3, <1>4, <1>5

\* Times are recorded: those of the kinds in ks, which something told of.
LEMMA RecordingKeeps ==
  ASSUME NotIInv, NEW ks \in SUBSET Kinds,
         notLast' = Recorded(ks),
         \A n \in NotMsgs : notMsg[n] # NotNone /\ notMsg[n].kind \in ks =>
            n \in Tried \cup notRaced,
         UNCHANGED <<notNow, peopleVars, pushVars, tokenVars, notRaced, notActs>>,
         notLost' \subseteq Kinds, notQueue' \subseteq notQueue,
         notCron' \in {notCron, NoRow},
         \A q \in Kinds \ ks : /\ q \in notLost \/ q \in notQueue => q \in notLost' \cup notQueue'
                               /\ notCron.stage = "sent" /\ q \in notCron.has => notCron' = notCron
  PROVE  NotIInv'
<1> USE DEF NotIInv
<1>0. /\ UNCHANGED <<notNow, notOnline, notMsg, notDrift, notChanged, notPending, notPushes,
                     notKnown, notTold, notDropped, notToken, notRegs, notWants, notRaced, notActs>>
      /\ Tried' = Tried
  BY DEF peopleVars, pushVars, tokenVars, Tried
<1>1. \A q \in Kinds : notLast'[q] = IF q \in ks THEN notNow + NotSlack ELSE notLast[q]
  BY DEF Recorded
<1>2. NoRow.stage = "none" /\ notNow \in Nat /\ NotSlack \in Nat /\ notNow <= NotEnd
  BY NotAssumption DEF NotAssumption, NoRow, NotTypeOK
<1>3. NotTypeOK'
  <2>1. notLast' \in [Kinds -> 0 .. NotEnd + NotSlack]
    BY <1>2, NotAssumption DEF NotAssumption, NotTypeOK, Recorded
  <2> QED
    BY <1>0, <2>1 DEF NotTypeOK
<1>4. \A n \in NotMsgs : notMsg[n] # NotNone =>
        notMsg[n].kind \in Kinds /\ notMsg[n].time \in Nat /\ notMsg[n].time <= notNow
  BY NotAssumption DEF NotAssumption, NotTypeOK, QueueIsFresh
<1>5. RecordersCover'
  BY <1>0, <1>1, <1>2, <1>4 DEF RecordersCover
<1>6. TriedAreTimed'
  <2> SUFFICES ASSUME NEW n \in NotMsgs \cap Tried, notMsg[n] # NotNone
               PROVE  \/ notMsg[n].kind \in notLost' \cup notQueue'
                      \/ notCron'.stage = "sent" /\ notMsg[n].kind \in notCron'.has
                      \/ notMsg[n].time <= notLast'[notMsg[n].kind]
    BY <1>0 DEF TriedAreTimed
  <2>1. CASE notMsg[n].kind \in ks
    BY <1>1, <1>2, <1>4, <2>1
  <2>2. CASE notMsg[n].kind \notin ks
    BY <1>1, <1>4, <2>2 DEF TriedAreTimed
  <2> QED
    BY <2>1, <2>2
<1>7. QueueIsFresh' /\ TriedHaveCome'
  BY <1>0 DEF QueueIsFresh, TriedHaveCome, Unread
<1>8. LastIsWanted' /\ RegistrationsStick' /\ RowIsNews'
  BY <1>0 DEF LastIsWanted, RegistrationsStick, RowIsNews
<1> QED
  BY <1>3, <1>5, <1>6, <1>7, <1>8

\* What appending leaves at the end of a sequence.
LEMMA AppendIs ==
  ASSUME NEW S, NEW seq \in Seq(S), NEW e \in S
  PROVE  /\ Append(seq, e) \in Seq(S) /\ Append(seq, e) # << >>
         /\ Append(seq, e)[Len(Append(seq, e))] = e
         /\ seq = << >> => Len(Append(seq, e)) = 1
  OBVIOUS

\* Registrations, and their batches.
LEMMA TokensKeep ==
  ASSUME NotIInv, NEW w \in NotWorkers,
         FlushTokens(w) \/ \E token \in NotTokens \cup {NotNone} : Register(w, token)
  PROVE  NotIInv'
<1> USE DEF NotIInv
<1>1. UNCHANGED <<notNow, notOnline, notMsg, notDrift, notChanged, notPending, notPushes,
                  notKnown, notTold, notDropped, notLast, notQueue, notLost, notCron, notRaced>>
  BY DEF FlushTokens, Register, peopleVars, pushVars, timeVars
<1>2. /\ TriedHaveCome' /\ RecordersCover' /\ QueueIsFresh' /\ TriedAreTimed'
      /\ RowIsNews'
  BY <1>1 DEF TriedHaveCome, RecordersCover, QueueIsFresh, TriedAreTimed, RowIsNews, Unread, Tried
<1> DEFINE Regs == Seq(NotTokens \cup {NotNone})
<1>3. ASSUME NEW token \in NotTokens \cup {NotNone}, Register(w, token) PROVE NotIInv'
  <2> DEFINE crossed == \E v \in NotWorkers \ {w} : notRegs[v] # << >>
             crowded == notRegs[w] # << >>
  <2>1. /\ notRegs' = [notRegs EXCEPT ![w] = Append(@, token)] /\ notToken' = notToken
        /\ notWants' = [token |-> token, lost |-> notWants.lost, crossed |-> crossed,
                        crowded |-> crowded]
        /\ notActs < NotMaxActs /\ notActs' = notActs + 1
    BY <1>3 DEF Register, Act
  <2>2. /\ notRegs' \in [NotWorkers -> Regs] /\ notRegs'[w] # << >>
        /\ notRegs'[w][Len(notRegs'[w])] = token
        /\ \A v \in NotWorkers \ {w} : notRegs'[v] = notRegs[v]
        /\ notRegs[w] = << >> => Len(notRegs'[w]) = 1
    <3>1. notRegs \in [NotWorkers -> Regs] /\ notRegs[w] \in Regs
      BY DEF NotTypeOK
    <3> DEFINE after == Append(notRegs[w], token)
    <3>2. /\ after \in Regs /\ after # << >> /\ after[Len(after)] = token
          /\ notRegs[w] = << >> => Len(after) = 1
      BY <3>1, AppendIs
    <3>3. notRegs' = [notRegs EXCEPT ![w] = after]
      BY <2>1
    <3> HIDE DEF after, Regs
    <3> QED
      BY <3>1, <3>2, <3>3
  <2>3. crossed \in BOOLEAN /\ crowded \in BOOLEAN /\ notWants.lost \in BOOLEAN
    BY DEF NotTypeOK
  <2>4. /\ notWants'.crossed = crossed /\ notWants'.crowded = crowded /\ notWants'.token = token
        /\ notWants' \in [token : NotTokens \cup {NotNone}, lost : BOOLEAN, crossed : BOOLEAN,
                          crowded : BOOLEAN]
    <3> HIDE DEF crossed, crowded
    <3> QED
      BY <2>1, <2>3
  <2>5. NotTypeOK'
    BY <1>1, <2>1, <2>2, <2>4, NotAssumption, SMTT(60) DEF NotAssumption, NotTypeOK
  <2>6. LastIsWanted'
    BY <2>2, <2>4 DEF LastIsWanted
  <2>7. RegistrationsStick'
    BY <2>2 DEF RegistrationsStick
  <2> QED
    BY <1>2, <2>5, <2>6, <2>7
<1>4. CASE FlushTokens(w)
  <2> DEFINE regs == {notRegs[w][i] : i \in 1 .. Len(notRegs[w])}
             set == regs \ {NotNone}
             afterSet == IF set = {} THEN {notToken} ELSE set
  <2>1. /\ regs \subseteq NotTokens \cup {NotNone}
        /\ notRegs[w] # << >> => notRegs[w][Len(notRegs[w])] \in regs
        /\ Len(notRegs[w]) = 1 => regs = {notRegs[w][Len(notRegs[w])]}
    <3>1. notRegs[w] \in Regs
      BY DEF NotTypeOK
    <3> QED
      BY <3>1
  <2>2. /\ notRegs[w] # << >> /\ notRegs' = [notRegs EXCEPT ![w] = << >>]
        /\ \/ /\ notToken' \in IF NotNone \in regs THEN {NotNone} ELSE afterSet
              /\ notWants' = [notWants EXCEPT !.lost = FALSE]
           \/ /\ notToken' \in afterSet \cup {notToken}
              /\ notWants' = [notWants EXCEPT !.lost = TRUE]
        /\ notActs' = notActs
    BY <1>4 DEF FlushTokens
  <2>3. afterSet \subseteq NotTokens \cup {NotNone}
    BY <2>1 DEF NotTypeOK
  <2>4. set = regs \ {NotNone} /\ afterSet = IF set = {} THEN {notToken} ELSE set
    OBVIOUS
  <2> HIDE DEF afterSet, set, regs
  <2>5. /\ notWants' \in [token : NotTokens \cup {NotNone}, lost : BOOLEAN, crossed : BOOLEAN,
                          crowded : BOOLEAN]
        /\ notWants'.token = notWants.token /\ notWants'.crossed = notWants.crossed
        /\ notWants'.crowded = notWants.crowded
    BY <2>2 DEF NotTypeOK
  <2>6. /\ notRegs' \in [NotWorkers -> Regs] /\ notRegs'[w] = << >>
        /\ \A v \in NotWorkers \ {w} : notRegs'[v] = notRegs[v]
    <3>1. << >> \in Regs /\ notRegs \in [NotWorkers -> Regs]
      BY DEF NotTypeOK
    <3> HIDE DEF Regs
    <3> QED
      BY <2>2, <3>1
  <2>7. NotTypeOK'
    BY <1>1, <2>2, <2>3, <2>5, <2>6 DEF NotTypeOK
  <2>8. ~notWants.crossed =>
          /\ notRegs[w][Len(notRegs[w])] = notWants.token
          /\ \A v \in NotWorkers \ {w} : notRegs[v] = << >>
          /\ ~notWants.crowded => Len(notRegs[w]) = 1
    BY <2>2 DEF LastIsWanted
  <2>9. LastIsWanted'
    BY <2>5, <2>6, <2>8 DEF LastIsWanted
  <2>10. RegistrationsStick'
    <3>1. CASE notWants' = [notWants EXCEPT !.lost = TRUE]
      BY <3>1 DEF NotTypeOK, RegistrationsStick
    <3>2. CASE notToken' \in IF NotNone \in regs THEN {NotNone} ELSE afterSet
      <4> SUFFICES ASSUME ~notWants.crossed
                   PROVE  /\ notWants.token = NotNone => notToken' = NotNone
                          /\ notWants.token # NotNone /\ ~notWants.crowded =>
                               notToken' = notWants.token
        BY <2>5 DEF RegistrationsStick
      <4>1. notWants.token \in regs
        BY <2>1, <2>2, <2>8
      <4>2. ~notWants.crowded => regs = {notWants.token}
        BY <2>1, <2>8
      <4> QED
        BY <2>4, <3>2, <4>1, <4>2
    <3> QED
      BY <2>2, <3>1, <3>2
  <2> QED
    BY <1>2, <2>7, <2>9, <2>10
<1> QED
  BY <1>3, <1>4

\* The person comes online, changes the settings, or time passes.
LEMMA PersonKeeps ==
  ASSUME NotIInv,
         \/ \E read \in {{}, {m \in NotMsgs : notMsg[m] # NotNone}} : ComeOnline(read)
         \/ \E ks \in (SUBSET Kinds) \ {{}}, d \in NotDaily : SetFrequency(ks, d)
         \/ Tick \/ UNCHANGED notVars
  PROVE  NotIInv'
<1> USE DEF NotIInv
<1>1. UNCHANGED <<notLast, notQueue, notLost, notToken, notRegs, notWants, notKnown, notDropped,
                  notCron, notRaced>>
  BY DEF ComeOnline, SetFrequency, Tick, notVars, pushVars, timeVars, tokenVars
<1>2. LastIsWanted' /\ RegistrationsStick' /\ RowIsNews'
  BY <1>1 DEF LastIsWanted, RegistrationsStick, RowIsNews
<1>3. ASSUME NEW read \in {{}, {m \in NotMsgs : notMsg[m] # NotNone}}, ComeOnline(read)
      PROVE  NotIInv'
  <2>1. /\ notMsg' = [m \in NotMsgs |-> IF m \in read THEN NotNone ELSE notMsg[m]]
        /\ notPending' = notPending \ read /\ notTold' = notTold \cup read
        /\ notPushes' = notPushes \ read
        /\ notNow' = notNow /\ notDrift' = notDrift /\ notChanged' = notChanged
        /\ notOnline' = notNow
        /\ notActs < NotMaxActs /\ notActs' = notActs + 1
        /\ read \subseteq NotMsgs
    BY <1>3 DEF ComeOnline, Act
  <2>2. /\ \A m \in NotMsgs : notMsg'[m] # NotNone => notMsg'[m] = notMsg[m] /\ m \notin read
        /\ Tried' = Tried \cup read
    BY <1>1, <2>1 DEF Tried
  <2>3. NotTypeOK'
    BY <1>1, <2>1, NotAssumption DEF NotAssumption, NotTypeOK
  <2>4. TriedHaveCome' /\ RecordersCover'
    BY <1>1, <2>1, <2>2 DEF TriedHaveCome, RecordersCover
  <2>5. TriedAreTimed'
    BY <1>1, <2>1, <2>2 DEF TriedAreTimed
  <2>6. QueueIsFresh'
    <3>1. \A q : Unread(q)' = Unread(q) \ read
      BY <2>1 DEF Unread
    <3>2. read = {} \/ \A q : Unread(q)' = {}
      BY <1>3, <3>1 DEF Unread
    <3>3. CASE read = {}
      <4>1. notMsg' = notMsg /\ notPending' = notPending /\ \A q : Unread(q)' = Unread(q)
        BY <2>1, <3>1, <3>3 DEF NotTypeOK
      <4> QED
        BY <1>1, <2>1, <4>1 DEF QueueIsFresh
    <3>4. CASE \A q : Unread(q)' = {}
      <4>1. \A m \in notPending' : notMsg'[m] # NotNone => notMsg'[m].time = notNow
        BY <2>1, <2>2 DEF QueueIsFresh, NotTypeOK
      <4>2. \A m \in NotMsgs : notMsg'[m] # NotNone => notMsg'[m].time <= notNow
        BY <2>2 DEF QueueIsFresh
      <4> QED
        BY <1>1, <2>1, <3>4, <4>1, <4>2 DEF QueueIsFresh
    <3> QED
      BY <3>2, <3>3, <3>4
  <2> QED
    BY <1>2, <2>3, <2>4, <2>5, <2>6
<1>4. ASSUME NEW ks \in (SUBSET Kinds) \ {{}}, NEW d \in NotDaily, SetFrequency(ks, d)
      PROVE  NotIInv'
  <2>1. UNCHANGED <<notNow, notOnline, notMsg, notPending, notPushes, notTold>>
    BY <1>4 DEF SetFrequency, pushVars
  <2>2. NotTypeOK'
    BY <1>1, <1>4, <2>1, NotAssumption DEF NotAssumption, SetFrequency, Act, NotTypeOK
  <2>3. TriedHaveCome' /\ RecordersCover' /\ QueueIsFresh' /\ TriedAreTimed'
    BY <1>1, <2>1 DEF TriedHaveCome, RecordersCover, QueueIsFresh, TriedAreTimed, Unread, Tried
  <2> QED
    BY <1>2, <2>2, <2>3
<1>5. CASE Tick
  <2>1. /\ UNCHANGED <<notOnline, notMsg, notDrift, notPending, notPushes, notTold, notActs>>
        /\ notNow < NotEnd /\ notNow' = notNow + 1 /\ notChanged' = FALSE
        /\ notPending = {} /\ notQueue = {}
    BY <1>5 DEF Tick, pushVars
  <2>2. NotTypeOK'
    <3>1. notNow' \in 0 .. NotEnd
      BY <2>1, NotAssumption DEF NotAssumption, NotTypeOK
    <3> QED
      BY <1>1, <2>1, <3>1 DEF NotTypeOK
  <2>3. TriedHaveCome' /\ RecordersCover' /\ TriedAreTimed'
    BY <1>1, <2>1 DEF TriedHaveCome, RecordersCover, TriedAreTimed, Tried
  <2>4. QueueIsFresh'
    BY <1>1, <2>1, NotAssumption DEF NotAssumption, QueueIsFresh, NotTypeOK
  <2> QED
    BY <1>2, <2>2, <2>3, <2>4
<1>6. CASE UNCHANGED notVars
  <2>1. UNCHANGED <<notNow, notOnline, notMsg, notDrift, notChanged, notPending, notPushes,
                    notTold, notActs>>
    BY <1>6 DEF notVars, peopleVars, pushVars
  <2>2. NotTypeOK'
    BY <1>1, <2>1 DEF NotTypeOK
  <2>3. TriedHaveCome' /\ RecordersCover' /\ QueueIsFresh' /\ TriedAreTimed'
    BY <1>1, <2>1 DEF TriedHaveCome, RecordersCover, QueueIsFresh, TriedAreTimed, Unread, Tried
  <2> QED
    BY <1>2, <2>2, <2>3
<1> QED
  BY <1>3, <1>4, <1>5, <1>6

\* The cron job reads a row: what it finds new, nobody told of.
LEMMA ReadKeeps ==
  ASSUME NotIInv, ReadInbox
  PROVE  NotIInv'
<1> USE DEF NotIInv
<1> DEFINE has == {k \in Kinds : Has(k)}
           known == {k \in Kinds \ notLost : \A m \in Unread(k) :
                       notMsg[m].time = Newest(k) => m \in notTold}
           newest == [k \in Kinds |-> Newest(k)]
           token == IF notOnline > notNow - NotStale THEN notToken ELSE NotNone
           row == [stage |-> "read", has |-> has, known |-> known, newest |-> newest,
                   last |-> notLast, drift |-> notDrift, token |-> token]
<1>1. /\ notCron = NoRow /\ notCron' = row
      /\ UNCHANGED <<notActs, notNow, notOnline, notMsg, notDrift, notChanged, notPending,
                     notPushes, notKnown, notTold, notDropped, notLast, notQueue, notLost,
                     notToken, notRegs, notWants, notRaced>>
  BY DEF ReadInbox, peopleVars, pushVars, timeVars, tokenVars
<1>2. newest \in [Kinds -> 0 .. NotEnd]
  <2>1. \A k \in Kinds : Newest(k) \in 0 .. NotEnd
    <3> SUFFICES ASSUME NEW k \in Kinds PROVE Newest(k) \in 0 .. NotEnd
      OBVIOUS
    <3>1. CASE Unread(k) = {}
      BY <3>1, NotAssumption DEF NotAssumption, Newest
    <3>2. CASE Unread(k) # {}
      BY <3>2, NewestIs
    <3> QED
      BY <3>1, <3>2
  <2> QED
    BY <2>1
<1>3. token \in NotTokens \cup {NotNone} /\ has \subseteq Kinds /\ known \subseteq Kinds
  BY DEF NotTypeOK
<1>4. has \cap known = {}
  <2> SUFFICES ASSUME NEW k \in Kinds, Has(k), k \in known PROVE FALSE
    OBVIOUS
  <2>1. /\ Unread(k) # {} /\ Newest(k) > notLast[k] /\ Newest(k) < notNow - NotTen
    BY DEF Has
  <2>2. PICK m \in Unread(k) : notMsg[m].time = Newest(k)
    BY <2>1, NewestIs
  <2>3. m \in NotMsgs /\ notMsg[m] # NotNone /\ notMsg[m].kind = k
    BY DEF Unread
  <2>4. m \in Tried /\ k \notin notLost
    BY <2>2 DEF Tried
  <2>5. NoRow.stage # "sent"
    BY DEF NoRow
  <2>6. k \in notQueue \/ notMsg[m].time <= notLast[k]
    BY <1>1, <2>3, <2>4, <2>5 DEF TriedAreTimed
  <2>7. /\ Newest(k) \in Int /\ notLast[k] \in Int /\ notNow \in Int /\ NotTen \in Nat
    BY <2>1, NewestIs, NotAssumption DEF NotAssumption, NotTypeOK
  <2>8. k \in notQueue
    BY <2>1, <2>2, <2>6, <2>7
  <2>9. PICK n \in Unread(k) : notMsg[n].time = notNow
    BY <2>1, <2>8 DEF QueueIsFresh
  <2>10. notNow <= Newest(k)
    BY <2>1, <2>9, NewestIs
  <2> QED
    BY <2>1, <2>7, <2>10
<1> HIDE DEF has, known, newest, token
<1>5. row \in CronRows /\ row.stage = "read" /\ row.has \cap row.known = {}
  BY <1>2, <1>3, <1>4 DEF CronRows, NotTypeOK
<1> HIDE DEF row
<1>6. NotTypeOK'
  BY <1>1, <1>5 DEF NotTypeOK
<1>7. NoRow.stage # "sent"
  BY DEF NoRow
<1>8. TriedHaveCome' /\ RecordersCover' /\ TriedAreTimed'
  BY <1>1, <1>5, <1>7 DEF TriedHaveCome, RecordersCover, TriedAreTimed, Tried
<1>9. QueueIsFresh' /\ LastIsWanted' /\ RegistrationsStick' /\ RowIsNews'
  BY <1>1, <1>5 DEF QueueIsFresh, LastIsWanted, RegistrationsStick, RowIsNews, Unread
<1> QED
  BY <1>6, <1>8, <1>9

\* It sends, or not, or fails.
LEMMA SendKeeps ==
  ASSUME NotIInv, SendNotification \/ NothingToSend \/ CronFails
  PROVE  NotIInv'
<1> USE DEF NotIInv
<1>0. NoRow.stage = "none" /\ \A r \in CronRows : r.has \subseteq Kinds
  BY DEF NoRow, CronRows
<1>1. UNCHANGED <<notActs, notNow, notOnline, notMsg, notDrift, notChanged, notPending,
                  notKnown, notLast, notQueue, notToken, notRegs, notWants, notRaced>>
  BY DEF SendNotification, NothingToSend, CronFails, peopleVars, pushVars, timeVars, tokenVars
<1>2. QueueIsFresh' /\ LastIsWanted' /\ RegistrationsStick'
  BY <1>1 DEF QueueIsFresh, LastIsWanted, RegistrationsStick, Unread
<1>3. CASE SendNotification
  <2> DEFINE row == [notCron EXCEPT !.stage = "sent"]
  <2>1. notCron \in CronRows
    BY <1>0, <1>3 DEF SendNotification, NotTypeOK
  <2>2. /\ row \in CronRows /\ row.stage = "sent" /\ row.has = notCron.has
        /\ row.known = notCron.known
    BY <2>1 DEF CronRows
  <2>3. /\ notCron.stage = "read" /\ notCron' = row /\ notLost' = notLost
        /\ IF notCron.token = NotNone
           THEN /\ notTold' = notTold \cup Covers(notCron)
                /\ UNCHANGED <<notPushes, notDropped>>
           ELSE Enqueue(Covers(notCron), notCron.token) /\ notTold' = notTold
    BY <1>3 DEF SendNotification, timeVars
  <2> HIDE DEF row
  <2>4. /\ Covers(notCron) \subseteq NotMsgs
        /\ \A m \in NotMsgs : notMsg[m] # NotNone =>
              (m \in Covers(notCron) <=> notMsg[m].kind \in notCron.has)
        /\ \A m \in Covers(notCron) : notMsg[m] # NotNone
    BY DEF Covers, Unread
  <2>5. /\ Tried' = Tried \cup Covers(notCron) /\ notTold \subseteq notTold'
        /\ notTold' \cup notPushes' \cup notDropped' \subseteq NotMsgs
        /\ notPushes' \cup notDropped' \subseteq notPushes \cup notDropped \cup Covers(notCron)
    <3>1. CASE notCron.token = NotNone
      BY <2>3, <2>4, <3>1 DEF Tried, NotTypeOK
    <3>2. CASE notCron.token # NotNone
      BY <2>3, <2>4, <3>2, EnqueueTries DEF NotTypeOK
    <3> QED
      BY <3>1, <3>2
  <2>6. NotTypeOK'
    BY <1>1, <2>2, <2>3, <2>5 DEF NotTypeOK
  <2>7. TriedHaveCome' /\ RecordersCover'
    BY <1>1, <2>2, <2>3, <2>4, <2>5 DEF TriedHaveCome, RecordersCover
  <2>8. TriedAreTimed'
    BY <1>1, <2>2, <2>3, <2>4, <2>5 DEF TriedAreTimed
  <2>9. RowIsNews'
    BY <1>0, <2>2, <2>3 DEF RowIsNews
  <2> QED
    BY <1>2, <2>6, <2>7, <2>8, <2>9
<1>4. CASE NothingToSend
  <2>1. /\ notCron.stage = "read" /\ notCron' = NoRow
        /\ UNCHANGED <<notLost, notTold, notPushes, notDropped>>
    BY <1>4 DEF NothingToSend, pushVars, timeVars
  <2>2. /\ NotTypeOK' /\ TriedHaveCome' /\ RecordersCover' /\ TriedAreTimed'
        /\ RowIsNews'
    BY <1>0, <1>1, <2>1 DEF NotTypeOK, TriedHaveCome, RecordersCover, TriedAreTimed, RowIsNews,
                            Tried
  <2> QED
    BY <1>2, <2>2
<1>5. CASE CronFails
  <2>1. /\ notCron # NoRow /\ notCron' = NoRow
        /\ UNCHANGED <<notTold, notPushes, notDropped>>
        /\ notLost' = IF notCron.stage = "sent" THEN notLost \cup notCron.has ELSE notLost
    BY <1>5 DEF CronFails, pushVars
  <2>2. notLost' \subseteq Kinds
    BY <1>0, <2>1 DEF NotTypeOK
  <2>3. NotTypeOK'
    BY <1>1, <2>1, <2>2 DEF NotTypeOK
  <2>4. TriedHaveCome' /\ RecordersCover' /\ TriedAreTimed' /\ RowIsNews'
    BY <1>0, <1>1, <2>1 DEF TriedHaveCome, RecordersCover, TriedAreTimed, RowIsNews, Tried
  <2> QED
    BY <1>2, <2>3, <2>4
<1> QED
  BY <1>3, <1>4, <1>5

LEMMA NextNotIInv == NotIInv /\ [NotNext]_notVars => NotIInv'
<1> SUFFICES ASSUME NotIInv, [NotNext]_notVars PROVE NotIInv'
  OBVIOUS
<1>1. CASE FlushTimes
  <2> USE DEF NotIInv
  <2>1. PICK batch \in SUBSET notQueue, done \in SUBSET notQueue :
          /\ done \subseteq batch /\ notQueue' = notQueue \ batch
          /\ notLast' = Recorded(done) /\ notLost' = (notLost \ done) \cup (batch \ done)
    BY <1>1 DEF FlushTimes
  <2>2. UNCHANGED <<notNow, peopleVars, pushVars, tokenVars, notCron, notRaced, notActs>>
    BY <1>1 DEF FlushTimes
  <2>3. done \in SUBSET Kinds /\ notLost' \subseteq Kinds
    BY <2>1 DEF NotTypeOK
  <2>4. \A n \in NotMsgs : notMsg[n] # NotNone /\ notMsg[n].kind \in done =>
          n \in Tried \cup notRaced
    BY <2>1 DEF RecordersCover
  <2>5. \A q \in Kinds \ done : q \in notLost \/ q \in notQueue => q \in notLost' \cup notQueue'
    BY <2>1
  <2> QED
    BY <2>1, <2>2, <2>3, <2>4, <2>5, RecordingKeeps
<1>2. CASE RecordTimes
  <2> USE DEF NotIInv
  <2>1. /\ notCron.stage = "sent" /\ notCron' = NoRow
        /\ notLast' = Recorded(notCron.has) /\ notLost' = notLost \ notCron.has
        /\ UNCHANGED <<notNow, peopleVars, pushVars, notQueue, tokenVars, notRaced, notActs>>
    BY <1>2 DEF RecordTimes
  <2>2. notCron.has \in SUBSET Kinds /\ notLost' \subseteq Kinds
    BY <2>1 DEF NotTypeOK, CronRows, NoRow
  <2>3. \A n \in NotMsgs : notMsg[n] # NotNone /\ notMsg[n].kind \in notCron.has =>
          n \in Tried \cup notRaced
    BY <2>1 DEF RecordersCover
  <2>4. \A q \in Kinds \ notCron.has :
          q \in notLost \/ q \in notQueue => q \in notLost' \cup notQueue'
    BY <2>1
  <2> QED
    BY <2>1, <2>2, <2>3, <2>4, RecordingKeeps
<1> QED
  BY <1>1, <1>2, ArriveKeeps, NotifyKeeps, PushesKeep, TokensKeep, PersonKeeps, ReadKeeps,
     SendKeeps
  DEF NotNext

LEMMA NotInvariant == NotSpec => []NotIInv
  BY InitNotIInv, NextNotIInv, PTL DEF NotSpec

\* However messages, callbacks, batches, settings and the cron job interleave:
\* no message counts as notified that no notification covered, and the token is
\* that of the last registration, but in the cases that are named.
THEOREM NotificationsRight == NotSpec => []NotificationsHold
<1>1. NotIInv => NotificationsHold
  BY DEF NotIInv, Tried, RecordersCover, NotificationsHold, NothingIsMissed
<1> QED
  BY <1>1, NotInvariant, PTL

\* The cron job sends nothing for a kind of which the newest message was told.
THEOREM NothingIsRepeated == NotSpec => NoRepeat
<1>1. NotIInv /\ [NotNext]_notVars =>
        [SendNotification => notCron.has \cap notCron.known = {}]_notVars
  BY DEF NotIInv, RowIsNews, SendNotification, NoRow
<1> QED
  BY <1>1, NotInvariant, PTL DEF NotSpec, NoRepeat

-----------------------------------------------------------------------------
(* The four in one specification.                                              *)

LEMMA SvcSteps ==
  /\ SvcInit => VisInit /\ VstInit /\ ProInit /\ NotInit
  /\ [SvcNext]_<<part, visVars, vstVars, proVars, notVars>> =>
       [VisNext]_visVars /\ [VstNext]_vstVars /\ [ProNext]_proVars /\ [NotNext]_notVars
  BY DEF SvcInit, SvcNext

LEMMA SvcRefines == SvcSpec => VisSpec /\ VstSpec /\ ProSpec /\ NotSpec
  BY SvcSteps, PTL DEF SvcSpec, VisSpec, VstSpec, ProSpec, NotSpec

\* The variables of whichever runs keep their types.
THEOREM SvcTypeCorrect == SvcSpec => []SvcTypeOK
<1> DEFINE Parts == part \in {"visibility", "visits", "profile", "notifications"}
<1>1. SvcInit => Parts
  BY DEF SvcInit
<1>2. Parts /\ [SvcNext]_<<part, visVars, vstVars, proVars, notVars>> => Parts'
  BY DEF SvcNext
<1>3. Parts /\ VisTypeOK /\ VstIInv /\ ProTypeOK /\ NotIInv => SvcTypeOK
  BY DEF SvcTypeOK, NotIInv, VstIInv
<1> QED
  BY <1>1, <1>2, <1>3, SvcRefines, VisTypeCorrect, VstInvariant, ProTypeCorrect, NotInvariant,
     PTL DEF SvcSpec
=============================================================================
