------------------------------ MODULE ChatProofs ------------------------------
(***************************************************************************)
(* Machine-checked proofs about the chat service's parts: the path of a     *)
(* message (for any finite set of messages, any connections and workers,    *)
(* and any limits), the cache of query results (for any arguments, calls,   *)
(* sizes and lifetimes), and their composition with MessageStore.           *)
(***************************************************************************)
EXTENDS MCChat, MessageStoreProofs

-----------------------------------------------------------------------------
(* The path of a message.                                                   *)

\* Where a message can be once it is stored, which it never leaves.
Kept == {"stored", "settled"}

\* Who opened a conversation, or may still do so, was let through.
OpenersPassed ==
  /\ chOpened \subseteq ChPairs
  /\ \A x \in chOpened : \E m \in chPassed : Pair(m) = x /\ chPc[m] \in Kept
  /\ \A m \in ChMsgs : chPc[m] = "queued" /\ Back(m) \notin chMessaged => m \in chPassed

\* Every hash, stored or queued, is that of an intro that was let through.
HashesPassed ==
  /\ \A t \in chHash : \E n \in chPassed : ChText[n] = t
  /\ \A w \in ChWorkers : \A t \in chHashQueue[w] : \E n \in chPassed : ChText[n] = t
  /\ RefusalHasTwin

\* Until a doomed message is looked at, the skip is there, no cache denies it and
\* no answer that would is on its way to the cache.
DoomIsSeen == \A m \in chDoomed :
  /\ chPc[m] \in {"received", "looking-up", "skip-found", "refused", "blocked"}
  /\ chPc[m] \in {"received", "looking-up"} => SkipIsSettled(m)

\* The conversations a sender has opened or is about to open, and those of them
\* that may have been counted too late.
Going(s) == {x \in chOpened : x[1] = s} \cup
  {Pair(m) : m \in {n \in ChMsgs : ChFrom[n] = s /\
     (chPc[n] = "counted" \/ (chPc[n] = "queued" /\ Back(n) \notin chMessaged))}}
RacedPairs(s) == {Pair(m) : m \in {n \in chRaced : ChFrom[n] = s}}

GoingWithinLimit == \A s \in ChSenders :
  Cardinality(Going(s) \ RacedPairs(s)) <= ChLimit[s]

ChIInv == ChTypeOK /\ OpenersPassed /\ HashesPassed /\ DoomIsSeen /\ GoingWithinLimit

-----------------------------------------------------------------------------
(* Counting.                                                                   *)

LEMMA PairsAreFinite ==
  ASSUME NEW S \in SUBSET ChMsgs
  PROVE  LET I == {Pair(m) : m \in S} IN
         IsFiniteSet(I) /\ Cardinality(I) <= Cardinality(S) /\ Cardinality(S) \in Nat
<1> DEFINE I == {Pair(m) : m \in S}
<1> DEFINE f == [m \in S |-> Pair(m)]
<1>1. IsFiniteSet(S) /\ Cardinality(S) \in Nat
  BY ChAssumption, FS_Subset, FS_CardinalityType DEF ChAssumption
<1>2. f \in Surjection(S, I)
  BY DEF Surjection
<1>3. IsFiniteSet(I) /\ Cardinality(I) <= Cardinality(S)
  BY <1>1, <1>2, FS_Surjection
<1> QED
  BY <1>1, <1>3

LEMMA PairsOf ==
  ASSUME NEW P \in SUBSET ChPairs
  PROVE  IsFiniteSet(P) /\ Cardinality(P) \in Nat /\ Cardinality(P) <= Cardinality(ChMsgs)
         /\ Cardinality(ChMsgs) \in Nat
<1>1. IsFiniteSet(ChPairs) /\ Cardinality(ChPairs) <= Cardinality(ChMsgs)
      /\ Cardinality(ChMsgs) \in Nat
  BY PairsAreFinite DEF ChPairs
<1>2. IsFiniteSet(P) /\ Cardinality(P) <= Cardinality(ChPairs)
  BY <1>1, FS_Subset
<1>3. Cardinality(P) \in Nat /\ Cardinality(ChPairs) \in Nat
  BY <1>1, <1>2, FS_CardinalityType
<1> QED
  BY <1>1, <1>2, <1>3

\* Opened conversations are the opened ones of pairs.
LEMMA CountIsSmall ==
  ASSUME OpenersPassed, NEW s
  PROVE  DailyCount(s) \in 0 .. Cardinality(ChMsgs)
<1>1. {x \in chOpened : x[1] = s} \in SUBSET ChPairs
  BY DEF OpenersPassed
<1> QED
  BY <1>1, PairsOf DEF DailyCount

\* Whoever goes was let through.
LEMMA GoingWereLet ==
  ASSUME ChTypeOK, OpenersPassed, NEW s
  PROVE  Going(s) \subseteq LetThrough(s) /\ LetThrough(s) \subseteq ChPairs
<1>1. \A x \in chOpened : x[1] = s => x \in LetThrough(s)
  <2> SUFFICES ASSUME NEW x \in chOpened, x[1] = s PROVE x \in LetThrough(s)
    OBVIOUS
  <2>1. PICK m \in chPassed : Pair(m) = x /\ chPc[m] \in Kept
    BY DEF OpenersPassed
  <2>2. m \in ChMsgs /\ ChFrom[m] = s /\ chPc[m] # "lost"
    BY <2>1 DEF ChTypeOK, Pair, Kept
  <2> QED
    BY <2>1, <2>2 DEF LetThrough
<1>2. \A n \in ChMsgs : ChFrom[n] = s /\
        (chPc[n] = "counted" \/ (chPc[n] = "queued" /\ Back(n) \notin chMessaged))
        => Pair(n) \in LetThrough(s)
  BY DEF LetThrough, OpenersPassed
<1>3. LetThrough(s) \subseteq ChPairs
  BY DEF LetThrough, ChPairs
<1> QED
  BY <1>1, <1>2, <1>3 DEF Going

\* What the limit says follows.
LEMMA LimitHolds ==
  ASSUME ChTypeOK, OpenersPassed, GoingWithinLimit
  PROVE  IntrosWithinLimit
<1> SUFFICES ASSUME NEW s \in ChSenders
             PROVE  DailyCount(s) <= ChLimit[s] + Cardinality({m \in chRaced : ChFrom[m] = s})
  BY DEF IntrosWithinLimit
<1> DEFINE O == {x \in chOpened : x[1] = s}
           R == {m \in chRaced : ChFrom[m] = s}
           A == Going(s) \ RacedPairs(s)
<1>1. R \in SUBSET ChMsgs /\ O \in SUBSET ChPairs /\ A \in SUBSET ChPairs
  BY GoingWereLet DEF ChTypeOK, OpenersPassed
<1>2. /\ IsFiniteSet(RacedPairs(s)) /\ Cardinality(RacedPairs(s)) <= Cardinality(R)
      /\ Cardinality(R) \in Nat
  BY <1>1, PairsAreFinite DEF RacedPairs
<1>3. IsFiniteSet(A) /\ Cardinality(A) \in Nat /\ Cardinality(A) <= ChLimit[s]
  BY <1>1, PairsOf DEF GoingWithinLimit
<1>4. O \subseteq A \cup RacedPairs(s)
  BY DEF Going
<1>5. /\ IsFiniteSet(A \cup RacedPairs(s))
      /\ Cardinality(A \cup RacedPairs(s)) <= Cardinality(A) + Cardinality(RacedPairs(s))
  <2> HIDE DEF A
  <2>1. /\ IsFiniteSet(A \cup RacedPairs(s)) /\ IsFiniteSet(A \cap RacedPairs(s))
        /\ Cardinality(A \cup RacedPairs(s))
             = Cardinality(A) + Cardinality(RacedPairs(s)) - Cardinality(A \cap RacedPairs(s))
    BY <1>2, <1>3, FS_Union, FS_Intersection
  <2>2. Cardinality(A \cap RacedPairs(s)) \in Nat /\ Cardinality(RacedPairs(s)) \in Nat
    BY <1>2, <2>1, FS_CardinalityType
  <2> QED
    BY <1>3, <2>1, <2>2
<1>6. Cardinality(O) <= Cardinality(A \cup RacedPairs(s)) /\ Cardinality(O) \in Nat
  BY <1>1, <1>4, <1>5, FS_Subset, PairsOf
<1>7. ChLimit[s] \in Nat /\ Cardinality(RacedPairs(s)) \in Nat
      /\ Cardinality(A \cup RacedPairs(s)) \in Nat
  BY <1>2, <1>5, FS_CardinalityType, ChAssumption DEF ChAssumption
<1> HIDE DEF A, R
<1>8. Cardinality(O) <= ChLimit[s] + Cardinality(R)
  BY <1>2, <1>3, <1>5, <1>6, <1>7
<1> QED
  BY <1>8 DEF DailyCount, R

\* The limit holds on as long as nothing new goes.
LEMMA GoingShrinks ==
  ASSUME ChIInv, ChTypeOK', OpenersPassed', chRaced \subseteq chRaced',
         \A s \in ChSenders : Going(s)' \subseteq Going(s)
  PROVE  GoingWithinLimit'
<1> SUFFICES ASSUME NEW s \in ChSenders
             PROVE  Cardinality(Going(s)' \ RacedPairs(s)') <= ChLimit[s]
  BY DEF GoingWithinLimit
<1> DEFINE A == Going(s) \ RacedPairs(s)
           B == Going(s)' \ RacedPairs(s)'
<1>1. A \in SUBSET ChPairs
  BY GoingWereLet DEF ChIInv
<1>2. RacedPairs(s) \subseteq RacedPairs(s)'
  BY DEF RacedPairs
<1>3. B \in SUBSET A
  BY <1>2
<1>4. IsFiniteSet(A) /\ Cardinality(A) \in Nat /\ Cardinality(A) <= ChLimit[s]
  BY <1>1, PairsOf DEF ChIInv, GoingWithinLimit
<1>5. B \in SUBSET ChPairs
  BY <1>1, <1>3
<1>6. ChLimit[s] \in Nat
  BY ChAssumption DEF ChAssumption
<1> HIDE DEF A, B
<1>7. Cardinality(B) <= Cardinality(A) /\ Cardinality(B) \in Nat
  BY <1>3, <1>4, <1>5, FS_Subset, PairsOf
<1>8. Cardinality(B) <= ChLimit[s]
  BY <1>4, <1>6, <1>7
<1> QED
  BY <1>8 DEF B

\* A message that moves on within the checks, or out of them, opens nothing: what
\* is stored stays stored, and nothing is queued or counted that was not before.
LEMMA QuietMove ==
  ASSUME ChIInv, NEW m \in ChMsgs, NEW pc, Goto(m, pc), chPc[m] \notin Kept,
         pc \notin {"counted", "queued"}, UNCHANGED <<chMessaged, chOpened>>,
         chPassed \subseteq chPassed', chPassed' \subseteq ChMsgs
  PROVE  OpenersPassed' /\ \A s \in ChSenders : Going(s)' \subseteq Going(s)
<1>1. \A n \in ChMsgs : chPc'[n] = IF n = m THEN pc ELSE chPc[n]
  BY DEF Goto, ChIInv, ChTypeOK
<1>2. OpenersPassed'
  <2>1. \A x \in chOpened' : \E n \in chPassed' : Pair(n) = x /\ chPc'[n] \in Kept
    <3> SUFFICES ASSUME NEW x \in chOpened PROVE \E n \in chPassed' : Pair(n) = x /\ chPc'[n] \in Kept
      OBVIOUS
    <3>1. PICK n \in chPassed : Pair(n) = x /\ chPc[n] \in Kept
      BY DEF ChIInv, OpenersPassed
    <3> QED
      BY <1>1, <3>1
  <2> QED
    BY <1>1, <2>1 DEF ChIInv, OpenersPassed, Back
<1>3. ASSUME NEW s \in ChSenders PROVE Going(s)' \subseteq Going(s)
  BY <1>1 DEF Going, Pair, Back
<1> QED
  BY <1>2, <1>3

-----------------------------------------------------------------------------
(* The checks.                                                                 *)

\* Steps that move no message.
LEMMA OthersKeep ==
  ASSUME ChIInv, UNCHANGED <<chPc, chOpened, chPassed, chRaced>>,
         ChTypeOK', HashesPassed', DoomIsSeen', chMessaged \subseteq chMessaged'
  PROVE  ChIInv'
<1> USE DEF ChIInv
<1>1. OpenersPassed'
  BY DEF OpenersPassed, Back, Kept
<1>2. ASSUME NEW s \in ChSenders PROVE Going(s)' \subseteq Going(s)
  BY DEF Going, Pair, Back
<1>3. GoingWithinLimit'
  BY <1>1, <1>2, GoingShrinks
<1> QED
  BY <1>1, <1>3

\* A settled skip stays settled as long as it is there and nobody else is told
\* that there is none.
LEMMA SettledGoesOn ==
  ASSUME NEW m, SkipIsSettled(m), UNCHANGED <<chSkipped, chSkipCache>>,
         \A n \in ChMsgs : chPc'[n] = "no-skip-found" => chPc[n] = "no-skip-found"
  PROVE  SkipIsSettled(m)'
BY DEF SkipIsSettled, SkipKey, AreSkipped

LEMMA ReceiveKeeps ==
  ASSUME ChIInv, NEW m \in ChMsgs, Receive(m)
  PROVE  ChIInv'
<1> USE DEF ChIInv, Receive
<1> DEFINE pc == IF ChFrom[m] \in ChMustVerify THEN "refused" ELSE "received"
<1>1. Goto(m, pc) /\ chPc[m] \notin Kept /\ pc \in {"refused", "received"}
  BY DEF Kept
<1> HIDE DEF pc
<1>2. \A n \in ChMsgs : chPc'[n] = IF n = m THEN pc ELSE chPc[n]
  BY <1>1 DEF Goto, ChTypeOK
<1>3. ChTypeOK'
  BY <1>1, ZenonT(60) DEF ChTypeOK, Goto, InCheck, Outcomes
<1>4. OpenersPassed' /\ GoingWithinLimit'
  BY <1>1, <1>3, QuietMove, GoingShrinks DEF ChTypeOK
<1>5. HashesPassed'
  BY <1>1, <1>2 DEF HashesPassed, RefusalHasTwin
<1>6. DoomIsSeen'
  <2>1. \A n \in ChMsgs : SkipIsSettled(n) => SkipIsSettled(n)'
    BY <1>1, <1>2, SettledGoesOn
  <2> QED
    BY <1>1, <1>2, <2>1 DEF DoomIsSeen, ChTypeOK
<1> QED
  BY <1>3, <1>4, <1>5, <1>6

\* The query of fetch_is_skipped finds what is there for every message of the pair.
LEMMA LookUpKeeps ==
  ASSUME ChIInv, NEW m \in ChMsgs, MissSkip(m) \/ ReadSkip(m)
  PROVE  ChIInv'
<1> USE DEF ChIInv
<1>1. /\ chPc[m] \in {"received", "looking-up"}
      /\ UNCHANGED <<chMessaged, chOpened, chSkipped, chHash, chHashQueue, chSkipCache,
                     chRateCache, chCount, chPassed, chRaced, chDoomed>>
  BY DEF MissSkip, ReadSkip
<1>2. PICK pc \in {"looking-up", "skip-found", "no-skip-found"} :
        Goto(m, pc) /\ (pc = "no-skip-found" => ~AreSkipped(m))
  BY DEF MissSkip, ReadSkip
<1>3. \A n \in ChMsgs : chPc'[n] = IF n = m THEN pc ELSE chPc[n]
  BY <1>2 DEF Goto, ChTypeOK
<1>4. ChTypeOK'
  <2>1. chPc' \in [ChMsgs -> {"unsent", "queued", "stored"} \cup InCheck \cup Outcomes]
    BY <1>2 DEF ChTypeOK, Goto, InCheck, Outcomes
  <2> QED
    BY <1>1, <2>1 DEF ChTypeOK
<1>5. OpenersPassed' /\ GoingWithinLimit'
  <2>1. chPc[m] \notin Kept /\ pc \notin {"counted", "queued"} /\ chPassed \subseteq ChMsgs
    BY <1>1, <1>2 DEF Kept, ChTypeOK
  <2> QED
    BY <1>1, <1>2, <1>4, <2>1, QuietMove, GoingShrinks
<1>6. HashesPassed'
  BY <1>1, <1>2, <1>3 DEF HashesPassed, RefusalHasTwin
<1>7. \A n \in ChMsgs : SkipIsSettled(n) => SkipIsSettled(n)'
  <2> SUFFICES ASSUME NEW n \in ChMsgs, SkipIsSettled(n) PROVE SkipIsSettled(n)'
    OBVIOUS
  <2>1. SkipKey(n) = SkipKey(m) => AreSkipped(m)
    BY DEF SkipIsSettled, SkipKey, AreSkipped, Pair, Back
  <2>2. \A k \in ChMsgs : SkipKey(k) = SkipKey(n) => chPc'[k] # "no-skip-found"
    BY <1>2, <1>3, <2>1 DEF SkipIsSettled
  <2> QED
    BY <1>1, <2>2 DEF SkipIsSettled, AreSkipped, SkipKey
<1>8. DoomIsSeen'
  <2> SUFFICES ASSUME NEW n \in chDoomed
               PROVE  /\ chPc'[n] \in {"received", "looking-up", "skip-found", "refused", "blocked"}
                      /\ chPc'[n] \in {"received", "looking-up"} => SkipIsSettled(n)'
    BY <1>1 DEF DoomIsSeen
  <2>1. n \in ChMsgs /\ chPc[n] \in {"received", "looking-up", "skip-found", "refused", "blocked"}
        /\ (chPc[n] \in {"received", "looking-up"} => SkipIsSettled(n))
    BY DEF DoomIsSeen, ChTypeOK
  <2>2. CASE n = m
    <3>1. SkipIsSettled(m) /\ AreSkipped(m)
      BY <1>1, <2>1, <2>2 DEF SkipIsSettled
    <3> QED
      BY <1>2, <1>3, <1>7, <2>2, <3>1
  <2>3. CASE n # m
    BY <1>3, <1>7, <2>1, <2>3
  <2> QED
    BY <2>2, <2>3
<1> QED
  BY <1>4, <1>5, <1>6, <1>8

\* What is cached is what was read, and nothing is cached over a settled skip.
LEMMA CheckSkippedKeeps ==
  ASSUME ChIInv, NEW m \in ChMsgs, CheckSkipped(m)
  PROVE  ChIInv'
<1> USE DEF ChIInv
<1> DEFINE key == SkipKey(m)
<1>0. PICK skipped \in BOOLEAN :
        /\ \/ chPc[m] = "received" /\ chSkipCache[key] = skipped
           \/ chPc[m] = IF skipped THEN "skip-found" ELSE "no-skip-found"
        /\ chSkipCache' = [chSkipCache EXCEPT ![key] = skipped]
        /\ Goto(m, CASE skipped -> "blocked"
                     [] ~skipped /\ ChKind[m] = "typing" -> "typed"
                     [] ~skipped /\ ChKind[m] = "long" -> "refused"
                     [] OTHER -> "allowed")
        /\ UNCHANGED <<chMessaged, chOpened, chSkipped, chHash, chHashQueue,
                       chRateCache,
                       chCount, chPassed, chRaced, chDoomed>>
  BY DEF CheckSkipped
<1> DEFINE pc == CASE skipped -> "blocked"
                   [] ~skipped /\ ChKind[m] = "typing" -> "typed"
                   [] ~skipped /\ ChKind[m] = "long" -> "refused"
                   [] OTHER -> "allowed"
<1>1. /\ Goto(m, pc)
      /\ chSkipCache' = [chSkipCache EXCEPT ![key] = skipped]
      /\ UNCHANGED <<chMessaged, chOpened, chSkipped, chHash, chHashQueue, chRateCache,
                     chCount, chPassed, chRaced, chDoomed>>
  BY <1>0
<1>2. key \in ChWorkers \X ChPairs
  BY DEF ChWorkers, ChPairs, SkipKey
<1>3. chPc[m] \in {"received", "skip-found", "no-skip-found"}
  BY <1>0
<1>4. pc \in {"blocked", "typed", "refused", "allowed"} /\ (skipped => pc = "blocked")
  BY <1>0
<1>5. \A n \in ChMsgs : SkipIsSettled(n) /\ SkipKey(n) = key /\ chPc[m] # "skip-found"
        => skipped = TRUE
  BY <1>0 DEF SkipIsSettled
<1>6. \A n \in ChMsgs : SkipIsSettled(n) /\ SkipKey(n) = key => skipped = TRUE
  BY <1>0, <1>5
<1> HIDE DEF pc
<1>7. \A n \in ChMsgs : chPc'[n] = IF n = m THEN pc ELSE chPc[n]
  BY <1>1 DEF Goto, ChTypeOK
<1>8. ChTypeOK'
  <2>1. chSkipCache' \in [ChWorkers \X ChPairs -> BOOLEAN \cup {ChNone}]
    BY <1>1, <1>2 DEF ChTypeOK
  <2>2. chPc' \in [ChMsgs -> {"unsent", "queued", "stored"} \cup InCheck \cup Outcomes]
    BY <1>1, <1>4 DEF ChTypeOK, Goto, InCheck, Outcomes
  <2> QED
    BY <1>1, <2>1, <2>2 DEF ChTypeOK
<1>9. OpenersPassed' /\ GoingWithinLimit'
  <2>1. chPc[m] \notin Kept /\ pc \notin {"counted", "queued"} /\ chPassed \subseteq ChMsgs
    BY <1>3, <1>4 DEF Kept, ChTypeOK
  <2> QED
    BY <1>1, <2>1, <1>8, QuietMove, GoingShrinks
<1>10. HashesPassed'
  BY <1>1, <1>4, <1>7 DEF HashesPassed, RefusalHasTwin
<1>11. DoomIsSeen'
  <2> SUFFICES ASSUME NEW n \in chDoomed
               PROVE  /\ chPc'[n] \in {"received", "looking-up", "skip-found", "refused", "blocked"}
                      /\ chPc'[n] \in {"received", "looking-up"} => SkipIsSettled(n)'
    BY <1>1 DEF DoomIsSeen
  <2>1. n \in ChMsgs /\ chPc[n] \in {"received", "looking-up", "skip-found", "refused", "blocked"}
        /\ (chPc[n] \in {"received", "looking-up"} => SkipIsSettled(n))
    BY DEF DoomIsSeen, ChTypeOK
  <2>2. CASE n = m
    <3>1. skipped = TRUE
      BY <1>0, <1>3, <1>6, <2>1, <2>2
    <3> QED
      BY <1>4, <1>7, <2>2, <3>1
  <2>3. CASE n # m
    <3>1. AreSkipped(n)' = AreSkipped(n) /\ chPc'[n] = chPc[n] /\ SkipKey(n) \in ChWorkers \X ChPairs
      BY <1>1, <1>7, <2>1, <2>3 DEF AreSkipped, SkipKey, ChWorkers, ChPairs
    <3>2. SkipIsSettled(n) => chSkipCache'[SkipKey(n)] # FALSE
      <4>1. CASE SkipKey(n) = key
        <5>1. chSkipCache'[key] = skipped
          BY <1>1, <1>2 DEF ChTypeOK
        <5> QED
          BY <1>6, <2>1, <4>1, <5>1
      <4>2. CASE SkipKey(n) # key
        <5>1. chSkipCache'[SkipKey(n)] = chSkipCache[SkipKey(n)]
          BY <1>1, <3>1, <4>2 DEF ChTypeOK
        <5> QED
          BY <5>1 DEF SkipIsSettled
      <4> QED
        BY <4>1, <4>2
    <3>3. SkipIsSettled(n) => \A k \in ChMsgs : SkipKey(k) = SkipKey(n) => chPc'[k] # "no-skip-found"
      BY <1>4, <1>7 DEF SkipIsSettled
    <3>4. SkipIsSettled(n) => SkipIsSettled(n)'
      <4>1. SkipKey(n)' = SkipKey(n) /\ \A k \in ChMsgs : SkipKey(k)' = SkipKey(k)
        BY DEF SkipKey
      <4> QED
        BY <3>1, <3>2, <3>3, <4>1 DEF SkipIsSettled
    <3> QED
      BY <2>1, <3>1, <3>4
  <2> QED
    BY <2>2, <2>3
<1> QED
  BY <1>8, <1>9, <1>10, <1>11

\* What neither hides a skip nor brings a message back to the start leaves doom alone.
LEMMA DoomGoesOn ==
  ASSUME DoomIsSeen, chDoomed' \subseteq chDoomed,
         UNCHANGED <<chSkipped, chSkipCache>>,
         \A n \in chDoomed : chPc'[n] = chPc[n],
         \A n \in ChMsgs : chPc'[n] = "no-skip-found" => chPc[n] = "no-skip-found"
  PROVE  DoomIsSeen'
<1>1. \A n \in chDoomed : SkipIsSettled(n) => SkipIsSettled(n)'
  BY SettledGoesOn
<1> QED
  BY <1>1 DEF DoomIsSeen

LEMMA CheckIntroKeeps ==
  ASSUME ChIInv, NEW m \in ChMsgs, CheckIntro(m)
  PROVE  ChIInv'
<1> USE DEF ChIInv
<1>1. /\ chPc[m] = "allowed"
      /\ UNCHANGED <<chMessaged, chOpened, chSkipped, chHash, chHashQueue, chSkipCache,
                     chRateCache, chCount, chPassed, chRaced, chDoomed>>
      /\ \/ Goto(m, "queued") /\ Back(m) \in chMessaged
         \/ \E pc \in {"refused", "intro"} : Goto(m, pc)
  BY DEF CheckIntro
<1>2. PICK pc \in {"queued", "refused", "intro"} :
        Goto(m, pc) /\ (pc = "queued" => Back(m) \in chMessaged)
  BY <1>1
<1>3. \A n \in ChMsgs : chPc'[n] = IF n = m THEN pc ELSE chPc[n]
  BY <1>2 DEF Goto, ChTypeOK
<1>4. ChTypeOK'
  <2>1. chPc' \in [ChMsgs -> {"unsent", "queued", "stored"} \cup InCheck \cup Outcomes]
    BY <1>2 DEF ChTypeOK, Goto, InCheck, Outcomes
  <2> QED
    BY <1>1, <2>1 DEF ChTypeOK
<1>5. OpenersPassed' /\ \A s \in ChSenders : Going(s)' \subseteq Going(s)
  <2>1. CASE pc # "queued"
    <3>1. chPc[m] \notin Kept /\ pc \notin {"counted", "queued"} /\ chPassed \subseteq ChMsgs
      BY <1>1, <2>1 DEF Kept, ChTypeOK
    <3> QED
      BY <1>1, <1>2, <3>1, QuietMove
  <2>2. CASE pc = "queued"
    <3>1. \A x \in chOpened : \E n \in chPassed : Pair(n) = x /\ chPc'[n] \in Kept
      <4> SUFFICES ASSUME NEW x \in chOpened PROVE \E n \in chPassed : Pair(n) = x /\ chPc'[n] \in Kept
        OBVIOUS
      <4>1. PICK n \in chPassed : Pair(n) = x /\ chPc[n] \in Kept
        BY DEF OpenersPassed
      <4>2. n \in ChMsgs /\ n # m
        BY <1>1, <4>1 DEF ChTypeOK, Kept
      <4> QED
        BY <1>3, <4>1, <4>2
    <3>2. OpenersPassed'
      BY <1>1, <1>2, <1>3, <2>2, <3>1 DEF OpenersPassed, Back
    <3>3. ASSUME NEW s \in ChSenders PROVE Going(s)' \subseteq Going(s)
      BY <1>1, <1>2, <1>3, <2>2 DEF Going, Pair, Back
    <3> QED
      BY <3>2, <3>3
  <2> QED
    BY <2>1, <2>2
<1>6. GoingWithinLimit'
  BY <1>1, <1>4, <1>5, GoingShrinks
<1>7. HashesPassed'
  BY <1>1, <1>3 DEF HashesPassed, RefusalHasTwin
<1>8. DoomIsSeen'
  BY <1>1, <1>3, DoomGoesOn DEF DoomIsSeen, ChTypeOK
<1> QED
  BY <1>4, <1>5, <1>6, <1>7, <1>8

\* The sender's count is fresh, or the message is raced.
LEMMA CheckRateKeeps ==
  ASSUME ChIInv, NEW m \in ChMsgs, CheckRate(m)
  PROVE  ChIInv'
<1> USE DEF ChIInv
<1> DEFINE s == ChFrom[m]
           key == RateKey(m)
           count == CountOf(m)
           pc == IF count >= ChLimit[s] THEN "limited" ELSE "counted"
<1>1. /\ chPc[m] \in {"intro", "counting"} /\ Goto(m, pc) /\ count # ChNone
      /\ chRateCache' = [chRateCache EXCEPT ![key] = count]
      /\ chCount' = [chCount EXCEPT ![m] = ChNone]
      /\ chRaced' = IF count < Cardinality(LetThrough(s)) THEN chRaced \cup {m} ELSE chRaced
      /\ UNCHANGED <<chMessaged, chOpened, chSkipped, chHash, chHashQueue, chSkipCache,
                     chPassed, chDoomed>>
  BY DEF CheckRate
<1>2. key \in ChWorkers \X ChSenders /\ s \in ChSenders
  BY DEF ChWorkers, ChSenders, RateKey
<1>3. count \in 0 .. Cardinality(ChMsgs)
  <2>1. chRateCache[key] \in (0 .. Cardinality(ChMsgs)) \cup {ChNone}
        /\ chCount[m] \in (0 .. Cardinality(ChMsgs)) \cup {ChNone}
    BY <1>2 DEF ChTypeOK
  <2> QED
    BY <1>1, <2>1 DEF CountOf
<1>4. ChLimit[s] \in Nat /\ Cardinality(ChMsgs) \in Nat
  BY <1>2, ChAssumption, FS_CardinalityType DEF ChAssumption
<1>5. pc \in {"limited", "counted"} /\ (pc = "counted" => count < ChLimit[s])
  BY <1>3, <1>4
<1> HIDE DEF count, pc
<1>6. \A n \in ChMsgs : chPc'[n] = IF n = m THEN pc ELSE chPc[n]
  BY <1>1 DEF Goto, ChTypeOK
<1>7. ChTypeOK'
  <2>1. chPc' \in [ChMsgs -> {"unsent", "queued", "stored"} \cup InCheck \cup Outcomes]
    BY <1>1, <1>5 DEF ChTypeOK, Goto, InCheck, Outcomes
  <2>2. chRateCache' \in [ChWorkers \X ChSenders -> (0 .. Cardinality(ChMsgs)) \cup {ChNone}]
    BY <1>1, <1>2, <1>3 DEF ChTypeOK
  <2>3. chRaced' \subseteq ChMsgs
    BY <1>1 DEF ChTypeOK
  <2>4. chCount' \in [ChMsgs -> (0 .. Cardinality(ChMsgs)) \cup {ChNone}]
    BY <1>1 DEF ChTypeOK
  <2> QED
    BY <1>1, <2>1, <2>2, <2>3, <2>4 DEF ChTypeOK
<1>8. OpenersPassed'
  <2>1. \A x \in chOpened : \E n \in chPassed : Pair(n) = x /\ chPc'[n] \in Kept
    <3> SUFFICES ASSUME NEW x \in chOpened PROVE \E n \in chPassed : Pair(n) = x /\ chPc'[n] \in Kept
      OBVIOUS
    <3>1. PICK n \in chPassed : Pair(n) = x /\ chPc[n] \in Kept
      BY DEF OpenersPassed
    <3>2. n \in ChMsgs /\ n # m
      BY <1>1, <3>1 DEF ChTypeOK, Kept
    <3> QED
      BY <1>6, <3>1, <3>2
  <2> QED
    BY <1>1, <1>5, <1>6, <2>1 DEF OpenersPassed, Back
<1>9. GoingWithinLimit'
  <2> SUFFICES ASSUME NEW u \in ChSenders
               PROVE  Cardinality(Going(u)' \ RacedPairs(u)') <= ChLimit[u]
    BY DEF GoingWithinLimit
  <2> DEFINE A == Going(u) \ RacedPairs(u)
             B == Going(u)' \ RacedPairs(u)'
  <2>1. A \in SUBSET ChPairs /\ A \subseteq LetThrough(u) /\ LetThrough(u) \in SUBSET ChPairs
    BY GoingWereLet
  <2>2. /\ IsFiniteSet(A) /\ Cardinality(A) \in Nat /\ Cardinality(A) <= ChLimit[u]
        /\ IsFiniteSet(LetThrough(u)) /\ Cardinality(LetThrough(u)) \in Nat
    BY <2>1, PairsOf DEF GoingWithinLimit
  <2>3. chRaced \subseteq chRaced'
    BY <1>1
  <2>4. RacedPairs(u) \subseteq RacedPairs(u)'
    BY <2>3 DEF RacedPairs
  <2>5. Going(u)' \subseteq Going(u) \cup (IF u = s THEN {Pair(m)} ELSE {})
    BY <1>1, <1>6, ZenonT(60) DEF Going, Pair, Back
  <2>6. B \in SUBSET ChPairs
    BY <2>1, <2>4, <2>5 DEF ChPairs
  <2>7. ChLimit[u] \in Nat /\ Cardinality(B) \in Nat
    BY <2>6, PairsOf, ChAssumption DEF ChAssumption
  <2>8. CASE B \subseteq A
    <3> HIDE DEF A, B
    <3>1. Cardinality(B) <= Cardinality(A)
      BY <2>2, <2>8, FS_Subset
    <3>2. Cardinality(B) <= ChLimit[u]
      BY <2>2, <2>7, <3>1
    <3> QED
      BY <3>2 DEF B
  <2>9. CASE u # s
    BY <2>4, <2>5, <2>8, <2>9
  <2>10. CASE u = s /\ m \in chRaced'
    <3>1. Pair(m) \in RacedPairs(u)'
      BY <2>10 DEF RacedPairs, Pair
    <3>2. B \subseteq A
      BY <2>4, <2>5, <3>1
    <3> QED
      BY <2>8, <3>2
  <2>11. CASE u = s /\ pc = "limited"
    <3>1. Going(u)' \subseteq Going(u)
      BY <1>1, <1>6, <2>11 DEF Going, Pair, Back
    <3>2. B \subseteq A
      BY <2>4, <3>1
    <3> QED
      BY <2>8, <3>2
  <2>12. CASE u = s /\ m \notin chRaced' /\ pc = "counted"
    <3>1. Cardinality(LetThrough(u)) <= count /\ count < ChLimit[u]
      BY <1>1, <1>3, <1>4, <1>5, <2>2, <2>12
    <3>2. Cardinality(A) <= Cardinality(LetThrough(u))
      BY <2>1, <2>2, FS_Subset
    <3>3. B \subseteq A \cup {Pair(m)}
      BY <2>4, <2>5
    <3> HIDE DEF A, B
    <3>4. /\ IsFiniteSet(A \cup {Pair(m)})
          /\ Cardinality(A \cup {Pair(m)}) <= Cardinality(A) + 1
          /\ Cardinality(A \cup {Pair(m)}) \in Nat
      <4>1. /\ IsFiniteSet(A \cup {Pair(m)})
            /\ Cardinality(A \cup {Pair(m)})
                 = IF Pair(m) \in A THEN Cardinality(A) ELSE Cardinality(A) + 1
        BY <2>2, FS_AddElement
      <4> QED
        BY <2>2, <4>1
    <3>5. Cardinality(B) <= Cardinality(A \cup {Pair(m)})
      BY <3>3, <3>4, FS_Subset
    <3>6. Cardinality(B) <= ChLimit[u]
      BY <1>3, <1>4, <2>2, <2>7, <3>1, <3>2, <3>4, <3>5
    <3> QED
      BY <3>6 DEF B
  <2> QED
    BY <1>5, <2>9, <2>10, <2>11, <2>12
<1>10. HashesPassed'
  BY <1>1, <1>5, <1>6 DEF HashesPassed, RefusalHasTwin
<1>11. DoomIsSeen'
  BY <1>1, <1>5, <1>6, DoomGoesOn DEF DoomIsSeen, ChTypeOK
<1> QED
  BY <1>7, <1>8, <1>9, <1>10, <1>11

\* A count that is read is one of the table.
LEMMA CountingKeeps ==
  ASSUME ChIInv, NEW m \in ChMsgs, MissRate(m) \/ ReadRate(m)
  PROVE  ChIInv'
<1> USE DEF ChIInv
<1>1. CASE MissRate(m)
  <2>1. /\ chPc[m] = "intro" /\ Goto(m, "counting")
        /\ UNCHANGED <<chMessaged, chOpened, chSkipped, chHash, chHashQueue,
                       chSkipCache,
                       chRateCache, chCount, chPassed, chRaced, chDoomed>>
    BY <1>1 DEF MissRate
  <2>2. \A n \in ChMsgs : chPc'[n] = IF n = m THEN "counting" ELSE chPc[n]
    BY <2>1 DEF Goto, ChTypeOK
  <2>3. ChTypeOK'
    <3>1. chPc' \in [ChMsgs -> {"unsent", "queued", "stored"} \cup InCheck \cup Outcomes]
      BY <2>1 DEF ChTypeOK, Goto, InCheck
    <3> QED
      BY <2>1, <3>1 DEF ChTypeOK
  <2>4. OpenersPassed' /\ GoingWithinLimit'
    <3>1. chPc[m] \notin Kept /\ chPassed \subseteq ChMsgs
      BY <2>1 DEF Kept, ChTypeOK
    <3> QED
      BY <2>1, <2>3, <3>1, QuietMove, GoingShrinks
  <2>5. HashesPassed'
    BY <2>1, <2>2 DEF HashesPassed, RefusalHasTwin
  <2>6. DoomIsSeen'
    BY <2>1, <2>2, DoomGoesOn DEF DoomIsSeen, ChTypeOK
  <2> QED
    BY <2>3, <2>4, <2>5, <2>6
<1>2. CASE ReadRate(m)
  <2> USE <1>2 DEF ReadRate
  <2>1. DailyCount(ChFrom[m]) \in 0 .. Cardinality(ChMsgs)
    BY CountIsSmall
  <2>2. chCount' \in [ChMsgs -> (0 .. Cardinality(ChMsgs)) \cup {ChNone}]
    BY <2>1 DEF ChTypeOK
  <2>3. ChTypeOK'
    BY <2>2 DEF ChTypeOK
  <2>4. HashesPassed' /\ DoomIsSeen'
    BY DoomGoesOn DEF HashesPassed, RefusalHasTwin
  <2> QED
    BY <2>3, <2>4, OthersKeep
<1> QED
  BY <1>1, <1>2

LEMMA CheckUniqueKeeps ==
  ASSUME ChIInv, NEW m \in ChMsgs, CheckUnique(m)
  PROVE  ChIInv'
<1> USE DEF ChIInv
<1> DEFINE seen == ChKind[m] # "audio" /\ ChText[m] \in chHash
           pc == IF seen THEN "not-unique" ELSE "queued"
<1>1. /\ chPc[m] = "counted" /\ Goto(m, pc)
      /\ chHashQueue' = IF ChKind[m] = "audio" THEN chHashQueue
                        ELSE [chHashQueue EXCEPT ![At(m)] = @ \cup {ChText[m]}]
      /\ chPassed' = IF seen THEN chPassed ELSE chPassed \cup {m}
      /\ UNCHANGED <<chMessaged, chOpened, chSkipped, chHash, chSkipCache, chRateCache,
                     chCount, chRaced, chDoomed>>
  BY DEF CheckUnique
<1>2. pc \in {"not-unique", "queued"} /\ (pc = "queued" => m \in chPassed')
      /\ (pc = "not-unique" => ChText[m] \in chHash)
  BY <1>1
<1>3. chPassed \subseteq chPassed' /\ chPassed' \subseteq ChMsgs
  BY <1>1 DEF ChTypeOK
<1>4. \E n \in chPassed' : ChText[n] = ChText[m]
  BY <1>1 DEF HashesPassed
<1> HIDE DEF pc, seen
<1>5. \A n \in ChMsgs : chPc'[n] = IF n = m THEN pc ELSE chPc[n]
  BY <1>1 DEF Goto, ChTypeOK
<1>6. At(m) \in ChWorkers /\ ChText[m] \in {ChText[n] : n \in ChMsgs}
  BY DEF ChWorkers
<1>7. ChTypeOK'
  <2>1. chPc' \in [ChMsgs -> {"unsent", "queued", "stored"} \cup InCheck \cup Outcomes]
    BY <1>1, <1>2 DEF ChTypeOK, Goto, InCheck, Outcomes
  <2>2. chHashQueue' \in [ChWorkers -> SUBSET {ChText[n] : n \in ChMsgs}]
    BY <1>1, <1>6 DEF ChTypeOK
  <2> QED
    BY <1>1, <1>3, <2>1, <2>2 DEF ChTypeOK
<1>8. OpenersPassed'
  <2>1. \A x \in chOpened : \E n \in chPassed' : Pair(n) = x /\ chPc'[n] \in Kept
    <3> SUFFICES ASSUME NEW x \in chOpened PROVE \E n \in chPassed' : Pair(n) = x /\ chPc'[n] \in Kept
      OBVIOUS
    <3>1. PICK n \in chPassed : Pair(n) = x /\ chPc[n] \in Kept
      BY DEF OpenersPassed
    <3>2. n \in ChMsgs /\ n # m
      BY <1>1, <3>1 DEF ChTypeOK, Kept
    <3> QED
      BY <1>3, <1>5, <3>1, <3>2
  <2> QED
    BY <1>1, <1>2, <1>3, <1>5, <2>1 DEF OpenersPassed, Back
<1>9. GoingWithinLimit'
  <2>1. ASSUME NEW s \in ChSenders PROVE Going(s)' \subseteq Going(s)
    BY <1>1, <1>2, <1>5 DEF Going, Pair, Back
  <2> QED
    BY <1>1, <1>7, <1>8, <2>1, GoingShrinks
<1>10. HashesPassed'
  <2>1. \A t \in chHash' : \E n \in chPassed' : ChText[n] = t
    BY <1>1, <1>3 DEF HashesPassed
  <2>2. ASSUME NEW w \in ChWorkers, NEW t \in chHashQueue'[w]
        PROVE  \E n \in chPassed' : ChText[n] = t
    <3>1. t \in chHashQueue[w] \/ t = ChText[m]
      BY <1>1, <1>6 DEF ChTypeOK
    <3> QED
      BY <1>3, <1>4, <3>1 DEF HashesPassed
  <2>3. RefusalHasTwin'
    BY <1>2, <1>3, <1>4, <1>5 DEF HashesPassed, RefusalHasTwin
  <2> QED
    BY <2>1, <2>2, <2>3 DEF HashesPassed
<1>11. DoomIsSeen'
  BY <1>1, <1>2, <1>5, DoomGoesOn DEF DoomIsSeen, ChTypeOK
<1> QED
  BY <1>7, <1>8, <1>9, <1>10, <1>11

-----------------------------------------------------------------------------
(* The batchers, the callback and the others.                                  *)

\* A stored batch opens conversations only of messages that were going to.
LEMMA StoreBatchKeeps ==
  ASSUME ChIInv, NEW w \in ChWorkers, StoreBatch(w)
  PROVE  ChIInv'
<1> USE DEF ChIInv
<1>1. PICK ms \in SUBSET {m \in ChMsgs : chPc[m] = "queued" /\ At(m) = w} :
        \/ /\ chPc' = [m \in ChMsgs |-> IF m \in ms THEN "stored" ELSE chPc[m]]
           /\ chMessaged' = chMessaged \cup {Pair(m) : m \in ms}
           /\ chOpened' = chOpened \cup
                {Pair(m) : m \in {n \in ms : Pair(n) \notin chMessaged /\ Back(n) \notin chMessaged}}
        \/ /\ chPc' = [m \in ChMsgs |-> IF m \in ms THEN "lost" ELSE chPc[m]]
           /\ UNCHANGED <<chMessaged, chOpened>>
  BY DEF StoreBatch
<1>2. UNCHANGED <<chSkipped, chHash, chHashQueue, chSkipCache, chRateCache, chCount,
                  chPassed, chRaced, chDoomed>>
  BY DEF StoreBatch
<1>3. PICK pc \in {"stored", "lost"} :
        /\ chPc' = [m \in ChMsgs |-> IF m \in ms THEN pc ELSE chPc[m]]
        /\ \/ pc = "lost" /\ UNCHANGED <<chMessaged, chOpened>>
           \/ /\ pc = "stored"
              /\ chMessaged' = chMessaged \cup {Pair(m) : m \in ms}
              /\ chOpened' = chOpened \cup
                   {Pair(m) : m \in {n \in ms : Pair(n) \notin chMessaged /\ Back(n) \notin chMessaged}}
  BY <1>1
<1>4. \A m \in ms : m \in ChMsgs /\ chPc[m] = "queued"
  BY <1>1
<1>5. \A m \in ChMsgs : chPc'[m] = IF m \in ms THEN pc ELSE chPc[m]
  BY <1>3
<1>6. chMessaged \subseteq chMessaged' /\ chOpened \subseteq chOpened'
  BY <1>3
<1>7. \A x \in chOpened' : x \in chOpened \/
        \E n \in ms : x = Pair(n) /\ Back(n) \notin chMessaged /\ pc = "stored"
  BY <1>3
<1>8. ChTypeOK'
  <2>1. chPc' \in [ChMsgs -> {"unsent", "queued", "stored"} \cup InCheck \cup Outcomes]
    BY <1>3 DEF ChTypeOK, Outcomes
  <2>2. chOpened' \subseteq chMessaged'
    BY <1>3 DEF ChTypeOK
  <2>3. chMessaged' \subseteq ChPairs \cup {Back(m) : m \in ChMsgs}
    <3>1. {Pair(m) : m \in ms} \subseteq ChPairs
      BY <1>4 DEF ChPairs
    <3>2. chMessaged \subseteq ChPairs \cup {Back(m) : m \in ChMsgs}
      BY DEF ChTypeOK
    <3>3. chMessaged' \subseteq chMessaged \cup {Pair(m) : m \in ms}
      BY <1>3
    <3> QED
      BY <3>1, <3>2, <3>3, Zenon
  <2> QED
    BY <1>2, <2>1, <2>2, <2>3 DEF ChTypeOK
<1>9. OpenersPassed'
  <2>1. chOpened' \subseteq ChPairs
    BY <1>4, <1>7 DEF OpenersPassed, ChPairs
  <2>2. \A x \in chOpened' : \E n \in chPassed : Pair(n) = x /\ chPc'[n] \in Kept
    <3> SUFFICES ASSUME NEW x \in chOpened' PROVE \E n \in chPassed : Pair(n) = x /\ chPc'[n] \in Kept
      OBVIOUS
    <3>1. CASE x \in chOpened
      <4>1. PICK n \in chPassed : Pair(n) = x /\ chPc[n] \in Kept
        BY <3>1 DEF OpenersPassed
      <4>2. n \in ChMsgs /\ n \notin ms
        BY <1>4, <4>1 DEF ChTypeOK, Kept
      <4> QED
        BY <1>5, <4>1, <4>2
    <3>2. CASE x \notin chOpened
      <4>1. PICK n \in ms : x = Pair(n) /\ Back(n) \notin chMessaged /\ pc = "stored"
        BY <1>7, <3>2
      <4> QED
        BY <1>4, <1>5, <4>1 DEF OpenersPassed, Kept
    <3> QED
      BY <3>1, <3>2
  <2>3. \A m \in ChMsgs : chPc'[m] = "queued" /\ Back(m) \notin chMessaged' => m \in chPassed
    BY <1>5, <1>6 DEF OpenersPassed
  <2> QED
    BY <1>2, <2>1, <2>2, <2>3 DEF OpenersPassed, Back
<1>10. GoingWithinLimit'
  <2>1. ASSUME NEW s \in ChSenders PROVE Going(s)' \subseteq Going(s)
    <3>1. \A x \in chOpened' : x[1] = s => x \in Going(s)
      <4> SUFFICES ASSUME NEW x \in chOpened', x[1] = s PROVE x \in Going(s)
        OBVIOUS
      <4>1. CASE x \in chOpened
        BY <4>1 DEF Going
      <4>2. CASE x \notin chOpened
        <5>1. PICK n \in ms : x = Pair(n) /\ Back(n) \notin chMessaged
          BY <1>7, <4>2
        <5>2. n \in ChMsgs /\ chPc[n] = "queued" /\ ChFrom[n] = s
          BY <1>4, <5>1 DEF Pair
        <5> QED
          BY <5>1, <5>2 DEF Going
      <4> QED
        BY <4>1, <4>2
    <3>2. ASSUME NEW n \in ChMsgs, ChFrom[n] = s,
                 chPc'[n] = "counted" \/ (chPc'[n] = "queued" /\ Back(n) \notin chMessaged')
          PROVE  Pair(n) \in Going(s)
      BY <1>5, <1>6, <3>2 DEF Going
    <3> QED
      BY <3>1, <3>2 DEF Going, Pair, Back
  <2> QED
    BY <1>2, <1>8, <1>9, <2>1, GoingShrinks
<1>11. HashesPassed'
  BY <1>2, <1>5 DEF HashesPassed, RefusalHasTwin
<1>12. DoomIsSeen'
  BY <1>2, <1>4, <1>5, DoomGoesOn DEF DoomIsSeen, ChTypeOK
<1> QED
  BY <1>8, <1>9, <1>10, <1>11, <1>12

LEMMA TellResultKeeps ==
  ASSUME ChIInv, NEW m \in ChMsgs, TellResult(m)
  PROVE  ChIInv'
<1> USE DEF ChIInv
<1> DEFINE pc == "settled"
<1>1. Goto(m, pc)
  BY DEF TellResult
<1>2. /\ chPc[m] = "stored"
      /\ UNCHANGED <<chMessaged, chOpened, chSkipped, chHash, chHashQueue, chSkipCache,
                     chRateCache, chCount, chPassed, chRaced, chDoomed>>
  BY DEF TellResult, ChTypeOK
<1>3. \A n \in ChMsgs : chPc'[n] = IF n = m THEN pc ELSE chPc[n]
  BY <1>1 DEF Goto, ChTypeOK
<1>4. ChTypeOK'
  <2>1. chPc' \in [ChMsgs -> {"unsent", "queued", "stored"} \cup InCheck \cup Outcomes]
    BY <1>1 DEF ChTypeOK, Goto, InCheck, Outcomes
  <2> QED
    BY <1>2, <2>1 DEF ChTypeOK
<1>5. OpenersPassed'
  <2>1. \A n \in ChMsgs : chPc[n] \in Kept => chPc'[n] \in Kept
    BY <1>3 DEF Kept
  <2>2. \A x \in chOpened : \E n \in chPassed : Pair(n) = x /\ chPc'[n] \in Kept
    BY <2>1 DEF OpenersPassed, ChTypeOK
  <2> QED
    BY <1>2, <1>3, <2>2 DEF OpenersPassed, Back
<1>6. GoingWithinLimit'
  <2>1. ASSUME NEW s \in ChSenders PROVE Going(s)' \subseteq Going(s)
    BY <1>2, <1>3 DEF Going, Pair, Back
  <2> QED
    BY <1>2, <1>4, <1>5, <2>1, GoingShrinks
<1>7. HashesPassed'
  BY <1>2, <1>3 DEF HashesPassed, RefusalHasTwin
<1>8. DoomIsSeen'
  BY <1>2, <1>3, DoomGoesOn DEF DoomIsSeen, ChTypeOK
<1> QED
  BY <1>4, <1>5, <1>6, <1>7, <1>8

LEMMA FlushHashesKeeps ==
  ASSUME ChIInv, NEW w \in ChWorkers, FlushHashes(w)
  PROVE  ChIInv'
<1> USE DEF ChIInv
<1>0. PICK ts \in SUBSET chHashQueue[w] :
        /\ chHashQueue' = [chHashQueue EXCEPT ![w] = @ \ ts]
        /\ chHash' \in {chHash, chHash \cup ts}
        /\ UNCHANGED <<chPc, chMessaged, chOpened, chSkipped, chSkipCache, chRateCache,
                       chCount, chPassed, chRaced, chDoomed>>
  BY DEF FlushHashes
<1> USE <1>0
<1>1. chHash' \subseteq chHash \cup chHashQueue[w]
      /\ \A v \in ChWorkers : chHashQueue'[v] \subseteq chHashQueue[v]
  BY DEF ChTypeOK
<1>2. ChTypeOK'
  <2>1. chHash' \subseteq {ChText[m] : m \in ChMsgs}
    BY <1>1 DEF ChTypeOK
  <2>2. chHashQueue' \in [ChWorkers -> SUBSET {ChText[m] : m \in ChMsgs}]
    BY DEF ChTypeOK
  <2> QED
    BY <2>1, <2>2 DEF ChTypeOK
<1>3. HashesPassed'
  BY <1>1 DEF HashesPassed, RefusalHasTwin
<1>4. DoomIsSeen'
  BY DoomGoesOn
<1> QED
  BY <1>2, <1>3, <1>4, OthersKeep

LEMMA AnswerBackKeeps ==
  ASSUME ChIInv, NEW m \in ChMsgs, AnswerBack(m)
  PROVE  ChIInv'
<1> USE DEF ChIInv, AnswerBack
<1>1. ChTypeOK'
  BY DEF ChTypeOK
<1>2. HashesPassed' /\ DoomIsSeen'
  BY DoomGoesOn DEF HashesPassed, RefusalHasTwin
<1> QED
  BY <1>1, <1>2, OthersKeep

LEMMA SkipSenderKeeps ==
  ASSUME ChIInv, NEW m \in ChMsgs, SkipSender(m)
  PROVE  ChIInv'
<1> USE DEF ChIInv, SkipSender
<1>1. ChTypeOK'
  BY DEF ChTypeOK
<1>2. HashesPassed'
  BY DEF HashesPassed, RefusalHasTwin
<1>3. DoomIsSeen'
  BY DEF DoomIsSeen, SkipIsSettled, SkipKey, AreSkipped
<1> QED
  BY <1>1, <1>2, <1>3, OthersKeep

LEMMA TakeBackKeeps ==
  ASSUME ChIInv, NEW m \in ChMsgs, TakeBack(m)
  PROVE  ChIInv'
<1> USE DEF ChIInv, TakeBack
<1>1. ChTypeOK'
  BY DEF ChTypeOK
<1>2. HashesPassed'
  BY DEF HashesPassed, RefusalHasTwin
<1>3. DoomIsSeen'
  <2>1. \A n \in chDoomed' : n \in chDoomed /\ Pair(n) # Back(m) /\ Back(n) # Back(m)
    BY DEF Pair, Back
  <2> QED
    BY <2>1 DEF DoomIsSeen, SkipIsSettled, SkipKey, AreSkipped
<1> QED
  BY <1>1, <1>2, <1>3, OthersKeep

LEMMA ExpiriesKeep ==
  ASSUME ChIInv, \/ \E x \in DOMAIN chSkipCache : SkipExpires(x)
                 \/ \E x \in DOMAIN chRateCache : RateExpires(x)
  PROVE  ChIInv'
<1> USE DEF ChIInv
<1>1. CASE \E x \in DOMAIN chSkipCache : SkipExpires(x)
  <2>1. PICK x \in ChWorkers \X ChPairs : SkipExpires(x)
    BY <1>1 DEF ChTypeOK
  <2> USE <2>1 DEF SkipExpires
  <2>2. ChTypeOK'
    BY DEF ChTypeOK
  <2>3. HashesPassed'
    BY DEF HashesPassed, RefusalHasTwin
  <2>4. \A y \in ChWorkers \X ChPairs : chSkipCache[y] # FALSE => chSkipCache'[y] # FALSE
    BY ChAssumption DEF ChAssumption, ChTypeOK
  <2>5. \A n \in chDoomed : SkipKey(n) \in ChWorkers \X ChPairs
    BY DEF ChTypeOK, ChWorkers, ChPairs, SkipKey
  <2>6. \A n \in chDoomed : SkipIsSettled(n) => SkipIsSettled(n)'
    BY <2>4, <2>5 DEF SkipIsSettled, SkipKey, AreSkipped
  <2>7. DoomIsSeen'
    BY <2>6 DEF DoomIsSeen
  <2> QED
    BY <2>2, <2>3, <2>7, OthersKeep
<1>2. CASE \E x \in DOMAIN chRateCache : RateExpires(x)
  <2>1. PICK x \in ChWorkers \X ChSenders : RateExpires(x)
    BY <1>2 DEF ChTypeOK
  <2> USE <2>1 DEF RateExpires
  <2>2. ChTypeOK'
    BY DEF ChTypeOK
  <2>3. HashesPassed' /\ DoomIsSeen'
    BY DoomGoesOn DEF HashesPassed, RefusalHasTwin
  <2> QED
    BY <2>2, <2>3, OthersKeep
<1> QED
  BY <1>1, <1>2

-----------------------------------------------------------------------------
(* The theorems.                                                               *)

LEMMA ChInitOK == ChInit => ChIInv
<1> SUFFICES ASSUME ChInit PROVE ChIInv
  OBVIOUS
<1> USE DEF ChInit
<1>1. ChTypeOK
  BY DEF ChTypeOK
<1>2. OpenersPassed /\ HashesPassed /\ DoomIsSeen
  BY DEF OpenersPassed, HashesPassed, RefusalHasTwin, DoomIsSeen
<1>3. GoingWithinLimit
  <2> SUFFICES ASSUME NEW s \in ChSenders
               PROVE  Cardinality(Going(s) \ RacedPairs(s)) <= ChLimit[s]
    BY DEF GoingWithinLimit
  <2>1. Going(s) \ RacedPairs(s) = {}
    BY DEF Going
  <2>2. Cardinality({}) = 0 /\ ChLimit[s] \in Nat
    BY FS_EmptySet, ChAssumption DEF ChAssumption
  <2>3. Cardinality(Going(s) \ RacedPairs(s)) = Cardinality({})
    BY <2>1, Zenon
  <2>4. Cardinality({}) <= ChLimit[s]
    BY <2>2
  <2> QED
    BY <2>3, <2>4, Zenon
<1> QED
  BY <1>1, <1>2, <1>3 DEF ChIInv

LEMMA ChStepKeeps == ChIInv /\ [ChNext]_chVars => ChIInv'
<1> SUFFICES ASSUME ChIInv, [ChNext]_chVars PROVE ChIInv'
  OBVIOUS
<1>1. ASSUME NEW m \in ChMsgs,
             \/ Receive(m) \/ MissSkip(m) \/ ReadSkip(m) \/ CheckSkipped(m) \/ CheckIntro(m)
             \/ MissRate(m) \/ ReadRate(m) \/ CheckRate(m) \/ CheckUnique(m)
             \/ TellResult(m) \/ AnswerBack(m) \/ SkipSender(m) \/ TakeBack(m)
      PROVE  ChIInv'
  BY <1>1, ReceiveKeeps, LookUpKeeps, CheckSkippedKeeps, CheckIntroKeeps, CountingKeeps,
     CheckRateKeeps, CheckUniqueKeeps,
     TellResultKeeps, AnswerBackKeeps, SkipSenderKeeps, TakeBackKeeps
<1>2. ASSUME NEW w \in ChWorkers, StoreBatch(w) \/ FlushHashes(w) PROVE ChIInv'
  BY <1>2, StoreBatchKeeps, FlushHashesKeeps
<1>3. CASE UNCHANGED chVars
  <2> USE <1>3 DEF chVars, ChIInv
  <2>1. ChTypeOK' /\ HashesPassed' /\ DoomIsSeen'
    BY DoomGoesOn DEF ChTypeOK, HashesPassed, RefusalHasTwin
  <2> QED
    BY <2>1, OthersKeep
<1> QED
  BY <1>1, <1>2, <1>3, ExpiriesKeep DEF ChNext

\* Every message is in one of its stages, and counts and caches keep their types.
THEOREM ChTypeCorrect == ChSpec => []ChTypeOK
<1>1. ChIInv => ChTypeOK
  BY DEF ChIInv
<1> QED
  BY <1>1, ChInitOK, ChStepKeeps, PTL DEF ChSpec

\* The daily limit on introductions holds but for those that overlapped, and only
\* a copy of what was let through is refused as one: for any limit, any number of
\* messages and connections, and any loss of batches.
THEOREM IntroductionsKeepRules == ChSpec => []IntroRules
<1>1. ChIInv => IntroRules
  BY LimitHolds DEF ChIInv, IntroRules, HashesPassed
<1> QED
  BY <1>1, ChInitOK, ChStepKeeps, PTL DEF ChSpec

\* Who was skipped reaches nobody once no worker remembers otherwise.
THEOREM BlockedReachNobody == ChSpec => []BlockedStaysBlocked
<1>1. ChIInv => BlockedStaysBlocked
  BY DEF ChIInv, DoomIsSeen, BlockedStaysBlocked
<1> QED
  BY <1>1, ChInitOK, ChStepKeeps, PTL DEF ChSpec

-----------------------------------------------------------------------------
(* The cache: sequences of keys without duplicates.                         *)

\* A sequence without duplicates has as many entries as elements.
LEMMA NoDupCardinality ==
  ASSUME NEW S, NEW s \in Seq(S), NoDup(s)
  PROVE  Len(s) = Cardinality(ToSet(s))
<1>1. Len(s) \in Nat /\ DOMAIN s = 1..Len(s) /\ s \in [1..Len(s) -> S]
  BY LenProperties
<1>2. s \in [1..Len(s) -> ToSet(s)]
  BY <1>1 DEF ToSet
<1>3. s \in Bijection(1..Len(s), ToSet(s))
  BY <1>1, <1>2 DEF NoDup, ToSet, Bijection, Injection, Surjection, IsInjective
<1>4. ExistsBijection(1..Len(s), ToSet(s))
  BY <1>3 DEF ExistsBijection
<1> QED
  BY <1>1, <1>4, FS_CountingElements

\* Dropping the first element.
LEMMA NoDupTail ==
  ASSUME NEW S, NEW s \in Seq(S), NoDup(s), s # <<>>
  PROVE  /\ Tail(s) \in Seq(S) /\ NoDup(Tail(s)) /\ Len(Tail(s)) = Len(s) - 1
         /\ Head(s) \in S /\ ToSet(Tail(s)) = ToSet(s) \ {Head(s)}
<1>1. /\ Head(s) = s[1] /\ Head(s) \in S
      /\ Tail(s) \in Seq(S) /\ Len(Tail(s)) = Len(s) - 1
      /\ \A i \in 1..Len(Tail(s)) : Tail(s)[i] = s[i + 1]
      /\ Len(s) \in Nat \ {0}
  BY HeadTailProperties, EmptySeq, LenProperties
<1>2. DOMAIN s = 1..Len(s) /\ DOMAIN Tail(s) = 1..(Len(s) - 1)
  BY <1>1, LenProperties
<1>3. NoDup(Tail(s))
  BY <1>1, <1>2 DEF NoDup
<1>4. ASSUME NEW i \in DOMAIN s, s[i] # Head(s) PROVE s[i] \in ToSet(Tail(s))
  <2>1. i - 1 \in 1..Len(Tail(s)) /\ Tail(s)[i - 1] = s[i]
    BY <1>1, <1>2, <1>4
  <2> QED
    BY <2>1, <1>1, <1>2 DEF ToSet
<1>5. ASSUME NEW i \in DOMAIN Tail(s) PROVE Tail(s)[i] \in ToSet(s) \ {Head(s)}
  <2>1. i + 1 \in DOMAIN s /\ Tail(s)[i] = s[i + 1] /\ 1 \in DOMAIN s
    BY <1>1, <1>2
  <2>2. s[i + 1] # s[1]
    BY <2>1, <1>2 DEF NoDup
  <2> QED
    BY <1>1, <2>1, <2>2 DEF ToSet
<1>6. ToSet(Tail(s)) = ToSet(s) \ {Head(s)}
  BY <1>4, <1>5 DEF ToSet
<1> QED
  BY <1>1, <1>3, <1>6

\* Unlinking a key.
LEMMA WithoutKey ==
  ASSUME NEW S, NEW s \in Seq(S), NoDup(s), NEW k, NEW r, r = Without(s, k)
  PROVE  /\ r \in Seq(S) /\ NoDup(r) /\ ToSet(r) = ToSet(s) \ {k}
         /\ Len(r) = IF k \in ToSet(s) THEN Len(s) - 1 ELSE Len(s)
<1>1. CASE k \notin ToSet(s)
  BY <1>1 DEF Without
<1>2. CASE k \in ToSet(s)
  <2>1. PICK n \in DOMAIN s : s[n] = k /\ r = RemoveAt(s, n)
    BY <1>2 DEF Without, ToSet
  <2>2. /\ Len(s) \in Nat /\ DOMAIN s = 1..Len(s) /\ n \in 1..Len(s)
        /\ \A i \in 1..Len(s) : s[i] \in S
    BY <2>1, LenProperties, ElementOfSeq
  <2> DEFINE a == SubSeq(s, 1, n - 1)
             b == SubSeq(s, n + 1, Len(s))
  <2>3. /\ a \in Seq(S) /\ Len(a) = n - 1 /\ \A i \in 1..(n - 1) : a[i] = s[i]
    <3>1. \A i \in 1..(n - 1) : s[i] \in S
      BY <2>2
    <3>2. /\ a \in Seq(S) /\ Len(a) = IF 1 <= n - 1 THEN (n - 1) - 1 + 1 ELSE 0
          /\ \A i \in 1..((n - 1) - 1 + 1) : a[i] = s[1 + i - 1]
      BY <2>2, <3>1, SubSeqProperties
    <3> QED
      BY <2>2, <3>2
  <2>4. /\ b \in Seq(S) /\ Len(b) = Len(s) - n /\ \A i \in 1..(Len(s) - n) : b[i] = s[n + i]
    <3>1. \A i \in (n + 1)..Len(s) : s[i] \in S
      BY <2>2
    <3>2. /\ b \in Seq(S) /\ Len(b) = IF n + 1 <= Len(s) THEN Len(s) - (n + 1) + 1 ELSE 0
          /\ \A i \in 1..(Len(s) - (n + 1) + 1) : b[i] = s[(n + 1) + i - 1]
      BY <2>2, <3>1, SubSeqProperties
    <3> HIDE DEF b
    <3>3. Len(b) = Len(s) - n
      BY <2>2, <3>2
    <3>4. ASSUME NEW i \in 1..(Len(s) - n) PROVE b[i] = s[n + i]
      <4>1. i \in 1..(Len(s) - (n + 1) + 1) /\ (n + 1) + i - 1 = n + i
        BY <2>2
      <4> QED
        BY <3>2, <4>1
    <3> QED
      BY <3>2, <3>3, <3>4
  <2>5. r = a \o b
    BY <2>1 DEF RemoveAt
  <2> HIDE DEF a, b
  <2>6. /\ r \in Seq(S) /\ Len(r) = Len(s) - 1 /\ DOMAIN r = 1..(Len(s) - 1)
        /\ \A i \in 1..(Len(s) - 1) : r[i] = IF i < n THEN s[i] ELSE s[i + 1]
    <3>0. a \in Seq(S) /\ b \in Seq(S)
      BY <2>3, <2>4
    <3>1. /\ r \in Seq(S) /\ Len(r) = Len(a) + Len(b)
          /\ \A i \in 1..(Len(a) + Len(b)) : r[i] = IF i <= Len(a) THEN a[i] ELSE b[i - Len(a)]
      BY <3>0, <2>5, ConcatProperties
    <3>2. Len(r) = Len(s) - 1 /\ DOMAIN r = 1..(Len(s) - 1)
      BY <2>2, <2>3, <2>4, <3>1, LenProperties
    <3>3. ASSUME NEW i \in 1..(Len(s) - 1) PROVE r[i] = IF i < n THEN s[i] ELSE s[i + 1]
      <4>1. CASE i < n
        BY <4>1, <2>2, <2>3, <2>4, <3>1
      <4>2. CASE ~(i < n)
        <5>1. /\ i - (n - 1) \in 1..(Len(s) - n) /\ n + (i - (n - 1)) = i + 1
              /\ ~(i <= n - 1) /\ (n - 1) + (Len(s) - n) = Len(s) - 1
          BY <4>2, <2>2
        <5>2. r[i] = b[i - (n - 1)]
          BY <5>1, <2>3, <2>4, <3>1
        <5>3. b[i - (n - 1)] = s[i + 1]
          BY <5>1, <2>4
        <5> QED
          BY <4>2, <5>2, <5>3
      <4> QED
        BY <4>1, <4>2
    <3> QED
      BY <3>1, <3>2, <3>3
  <2>7. NoDup(r)
    <3> SUFFICES ASSUME NEW i \in DOMAIN r, NEW j \in DOMAIN r, r[i] = r[j] PROVE i = j
      BY DEF NoDup
    <3> DEFINE at(x) == IF x < n THEN x ELSE x + 1
    <3>1. i \in Nat /\ j \in Nat /\ at(i) \in DOMAIN s /\ at(j) \in DOMAIN s
      BY <2>2, <2>6
    <3>2. s[at(i)] = s[at(j)]
      BY <2>6
    <3>3. at(i) = at(j)
      BY <3>1, <3>2 DEF NoDup
    <3> QED
      BY <2>2, <3>1, <3>3
  <2>8. \A i \in DOMAIN r : r[i] \in ToSet(s) \ {k}
    <3> SUFFICES ASSUME NEW i \in DOMAIN r PROVE r[i] \in ToSet(s) \ {k}
      OBVIOUS
    <3> DEFINE j == IF i < n THEN i ELSE i + 1
    <3>1. j \in DOMAIN s /\ r[i] = s[j] /\ j # n
      BY <2>2, <2>6
    <3> QED
      BY <2>1, <3>1 DEF ToSet, NoDup
  <2>9. \A j \in DOMAIN s : s[j] # k => s[j] \in ToSet(r)
    <3> SUFFICES ASSUME NEW j \in DOMAIN s, s[j] # k PROVE s[j] \in ToSet(r)
      OBVIOUS
    <3>1. CASE j < n
      <4>1. j \in DOMAIN r /\ r[j] = s[j]
        BY <3>1, <2>2, <2>6
      <4> QED
        BY <4>1 DEF ToSet
    <3>2. CASE j > n
      <4>1. j - 1 \in DOMAIN r /\ r[j - 1] = s[j]
        BY <3>2, <2>2, <2>6
      <4> QED
        BY <4>1 DEF ToSet
    <3> QED
      BY <2>1, <2>2, <3>1, <3>2
  <2>10. ToSet(r) = ToSet(s) \ {k}
    BY <2>8, <2>9 DEF ToSet
  <2> QED
    BY <1>2, <2>6, <2>7, <2>10
<1> QED
  BY <1>1, <1>2

-----------------------------------------------------------------------------
(* The invariant.                                                           *)

\* A call that runs is not late, and what it read it read since it began.
CallsInTime == \A c \in Calls :
  /\ call[c].pc \in {"hit", "computing", "stored"} => call[c].key \in Keys
  /\ call[c].pc \in {"computing", "stored"} /\ call[c].result # -1 =>
       call[c].at <= call[c].result
  /\ call[c].pc \in {"computing", "stored"} => call[c].result <= now /\ call[c].at <= now
  /\ call[c].pc = "computing" => now <= call[c].at + MaxCompute
  /\ call[c].pc = "stored" => call[c].result # -1

\* An entry was stored by the call that its timer is named after.
EntriesAreStored == \A k \in Cached :
  LET c == entry[k].timer IN
  call[c].pc = "stored" /\ call[c].key = k /\ call[c].result = entry[k].result

\* A timer is not late, and due in time for what its call read.
TimersInTime == \A t \in timers :
  /\ Ttl # NoTtl /\ call[t.id].pc = "stored" /\ call[t.id].key = t.key
  /\ now <= t.due /\ t.due <= call[t.id].result + MaxCompute + Ttl

LruInv ==
  /\ LruTypeOK /\ NoDup(order) /\ Len(order) <= MaxSize
  /\ CallsInTime /\ EntriesAreStored /\ TimersInTime /\ EntriesExpire /\ HitsAreFresh

LEMMA InitLru == LruInit => LruInv
<1> SUFFICES ASSUME LruInit PROVE LruInv
  OBVIOUS
<1>1. Cached = {} /\ Len(order) = 0 /\ NoDup(order) /\ order \in Seq(Keys)
  BY EmptySeq DEF LruInit, Cached, ToSet, NoDup
<1>2. MaxSize \in Nat
  BY AsyncLruCacheAssumption DEF AsyncLruCacheAssumption
<1>3. LruTypeOK
  BY <1>1 DEF LruInit, LruTypeOK, NewCall
<1> QED
  BY <1>1, <1>2, <1>3 DEF LruInit, LruInv, NewCall, CallsInTime, EntriesAreStored, TimersInTime,
                     EntriesExpire, HitsAreFresh

\* An entry is no older than its timer allows.
LEMMA EntryIsFresh ==
  ASSUME LruInv, NEW k \in Cached, Ttl # NoTtl
  PROVE  now <= entry[k].result + Ttl + MaxCompute
<1>1. PICK t \in timers : t.id = entry[k].timer /\ t.key = k
  BY DEF LruInv, EntriesExpire
<1>2. call[t.id].result = entry[k].result
  BY <1>1 DEF LruInv, EntriesAreStored
<1>3. now <= t.due /\ t.due <= call[t.id].result + MaxCompute + Ttl
  BY DEF LruInv, TimersInTime
<1>4. now \in Nat /\ t.due \in Nat /\ entry[k].result \in Nat /\ Ttl \in Nat /\ MaxCompute \in Nat
  BY AsyncLruCacheAssumption DEF LruInv, LruTypeOK, AsyncLruCacheAssumption
<1> QED
  BY <1>2, <1>3, <1>4

-----------------------------------------------------------------------------
(* The steps.                                                               *)

LEMMA HitStep ==
  ASSUME LruInv, NEW c \in Calls, NEW k \in Keys, Hit(c, k)
  PROVE  LruInv'
<1> DEFINE o == Without(order, k)
<1>1. /\ order \in Seq(Keys) /\ NoDup(order) /\ Len(order) <= MaxSize /\ k \in ToSet(order)
      /\ call[c].pc = "new" /\ order' = Append(o, k) /\ UNCHANGED <<now, entry, timers>>
      /\ call' = [call EXCEPT ![c] = [pc |-> "hit", key |-> k, at |-> now,
                                      result |-> entry[k].result]]
  BY DEF Hit, LruInv, LruTypeOK, Cached
<1>2. o \in Seq(Keys) /\ NoDup(o) /\ ToSet(o) = ToSet(order) \ {k} /\ Len(o) = Len(order) - 1
  BY <1>1, WithoutKey
<1> HIDE DEF o
<1>3. /\ order' \in Seq(Keys) /\ NoDup(order') /\ Len(order') = Len(o) + 1
      /\ ToSet(order') = ToSet(o) \cup {k}
  <2>1. order' = Append(o, k) /\ k \notin ToSet(o)
    BY <1>1, <1>2
  <2>2. o \in Seq(Keys) /\ NoDup(o)
    BY <1>2
  <2>3. LET r == Append(o, k) IN
        r \in Seq(Keys) /\ NoDup(r) /\ Len(r) = Len(o) + 1 /\ ToSet(r) = ToSet(o) \cup {k}
    BY <2>1, <2>2, AppendOnce
  <2> QED
    BY <2>1, <2>3
<1>4. Cached' = Cached /\ NoDup(order)' /\ Len(order') = Len(order) /\ Len(order) \in Nat
  <2>1. Len(order) \in Nat
    BY <1>1, LenProperties
  <2> QED
    BY <1>1, <1>2, <1>3, <2>1 DEF Cached, NoDup
<1>5. LruTypeOK'
  <2>1. entry[k].result \in Nat
    BY <1>1 DEF LruInv, LruTypeOK, Cached
  <2> QED
    BY <1>1, <1>3, <1>4, <2>1 DEF LruInv, LruTypeOK
<1>6. /\ \A d \in Calls \ {c} : call'[d] = call[d]
      /\ call'[c] = [pc |-> "hit", key |-> k, at |-> now, result |-> entry[k].result]
  BY <1>1 DEF LruInv, LruTypeOK
<1>7. CallsInTime'
  BY <1>1, <1>6 DEF LruInv, CallsInTime
<1>8. EntriesAreStored' /\ TimersInTime' /\ EntriesExpire'
  <2>1. \A j \in Cached : entry[j].timer \in Calls \ {c}
    BY <1>1 DEF LruInv, LruTypeOK, EntriesAreStored
  <2>2. \A t \in timers : t.id \in Calls \ {c}
    BY <1>1 DEF LruInv, LruTypeOK, TimersInTime
  <2> QED
    BY <1>1, <1>4, <1>6, <2>1, <2>2 DEF LruInv, EntriesAreStored, TimersInTime, EntriesExpire
<1>9. HitsAreFresh'
  <2> SUFFICES ASSUME Ttl # NoTtl, NEW d \in Calls, call'[d].pc = "hit"
               PROVE  call'[d].result + Ttl + MaxCompute >= call'[d].at
    BY DEF HitsAreFresh
  <2>1. k \in Cached
    BY <1>1 DEF Cached
  <2>2. now <= entry[k].result + Ttl + MaxCompute
    BY <2>1, EntryIsFresh
  <2>3. now \in Nat /\ entry[k].result \in Nat /\ Ttl \in Nat /\ MaxCompute \in Nat
    BY <2>1, AsyncLruCacheAssumption DEF LruInv, LruTypeOK, AsyncLruCacheAssumption
  <2> QED
    BY <1>6, <2>2, <2>3 DEF LruInv, HitsAreFresh
<1> QED
  BY <1>1, <1>4, <1>5, <1>7, <1>8, <1>9 DEF LruInv

\* Steps of a call that leave the cache alone.
LEMMA CallStep ==
  ASSUME LruInv, NEW c \in Calls,
         \/ \E k \in Keys : Miss(c, k)
         \/ ReadSource(c) \/ ReturnUncached(c)
  PROVE  LruInv'
<1>0. now \in Nat /\ MaxCompute \in Nat
  BY AsyncLruCacheAssumption DEF LruInv, LruTypeOK, AsyncLruCacheAssumption
<1> DEFINE Rec == [pc : {"new", "hit", "computing", "uncached", "stored"},
                   key : Keys \cup {{}}, at : Nat, result : Nat \cup {-1}]
           old == call[c]
<1>a. call \in [Calls -> Rec] /\ old \in Rec
  BY DEF LruInv, LruTypeOK
<1>b. PICK r \in Rec :
        /\ call' = [call EXCEPT ![c] = r] /\ old.pc # "stored"
        /\ \/ /\ r.pc = "computing" /\ r.key \in Keys /\ r.at = now /\ r.result = -1
           \/ /\ old.pc = "computing" /\ r.pc = "computing" /\ r.key = old.key
              /\ r.at = old.at /\ r.result = now
           \/ r.pc = "uncached"
  <2>1. ASSUME NEW k \in Keys, Miss(c, k)
        PROVE  LET r == [pc |-> "computing", key |-> k, at |-> now, result |-> -1] IN
               call' = [call EXCEPT ![c] = r] /\ r \in Rec /\ old.pc # "stored"
    <3>2. call' = [call EXCEPT ![c] = [pc |-> "computing", key |-> k, at |-> now, result |-> -1]]
          /\ call[c].pc = "new"
      BY <2>1 DEF Miss
    <3>3. [pc |-> "computing", key |-> k, at |-> now, result |-> -1] \in Rec
      BY <1>0
    <3> HIDE DEF Rec
    <3> QED
      BY <3>2, <3>3
  <2>2. ASSUME ReadSource(c)
        PROVE  LET r == [old EXCEPT !.result = now] IN
               call' = [call EXCEPT ![c] = r] /\ r \in Rec /\ old.pc = "computing"
    BY <2>2, <1>0, <1>a DEF ReadSource
  <2>3. ASSUME ReturnUncached(c)
        PROVE  LET r == [old EXCEPT !.pc = "uncached"] IN
               call' = [call EXCEPT ![c] = r] /\ r \in Rec /\ old.pc = "computing"
    BY <2>3, <1>0, <1>a DEF ReturnUncached
  <2>4. ASSUME NEW k \in Keys, Miss(c, k)
        PROVE  \E r \in Rec :
                 /\ call' = [call EXCEPT ![c] = r] /\ old.pc # "stored"
                 /\ r.pc = "computing" /\ r.key \in Keys /\ r.at = now /\ r.result = -1
    <3> DEFINE n == [pc |-> "computing", key |-> k, at |-> now, result |-> -1]
    <3>1. call' = [call EXCEPT ![c] = n] /\ n \in Rec /\ old.pc # "stored"
      BY <2>1, <2>4
    <3>2. n.pc = "computing" /\ n.key \in Keys /\ n.at = now /\ n.result = -1
      OBVIOUS
    <3> HIDE DEF n, Rec
    <3> QED
      BY <3>1, <3>2
  <2>5. ASSUME ReadSource(c)
        PROVE  \E r \in Rec :
                 /\ call' = [call EXCEPT ![c] = r] /\ old.pc = "computing"
                 /\ r.pc = "computing" /\ r.key = old.key /\ r.at = old.at /\ r.result = now
    BY <2>2, <2>5, <1>a
  <2>6. ASSUME ReturnUncached(c)
        PROVE  \E r \in Rec :
                 call' = [call EXCEPT ![c] = r] /\ old.pc = "computing" /\ r.pc = "uncached"
    BY <2>3, <2>6, <1>a
  <2> QED
    BY <2>4, <2>5, <2>6
<1>1. /\ UNCHANGED <<now, order, entry, timers>> /\ call[c].pc # "stored"
      /\ \A d \in Calls \ {c} : call'[d] = call[d]
      /\ call'[c] = r
  BY <1>a, <1>b DEF Miss, ReadSource, ReturnUncached
<1>2. Cached' = Cached
  BY <1>1 DEF Cached
<1>3. LruTypeOK'
  <2>1. call' \in [Calls -> Rec]
    BY <1>a, <1>b
  <2> QED
    BY <1>1, <1>2, <2>1 DEF LruInv, LruTypeOK
<1>4. CallsInTime'
  BY <1>0, <1>1, <1>a, <1>b DEF LruInv, CallsInTime
<1>5. EntriesAreStored' /\ TimersInTime' /\ EntriesExpire'
  <2>1. \A j \in Cached : entry[j].timer \in Calls \ {c}
    BY <1>1 DEF LruInv, LruTypeOK, EntriesAreStored
  <2>2. \A t \in timers : t.id \in Calls \ {c}
    BY <1>1 DEF LruInv, LruTypeOK, TimersInTime
  <2> QED
    BY <1>1, <1>2, <2>1, <2>2 DEF LruInv, EntriesAreStored, TimersInTime, EntriesExpire
<1>6. HitsAreFresh'
  BY <1>b, <1>1 DEF LruInv, HitsAreFresh
<1> QED
  BY <1>1, <1>3, <1>4, <1>5, <1>6 DEF LruInv, NoDup

\* A timer runs: the key goes, whichever call's result is there by now.
LEMMA FireStep ==
  ASSUME LruInv, NEW t \in timers, Fire(t)
  PROVE  LruInv'
<1>1. /\ order \in Seq(Keys) /\ NoDup(order) /\ Len(order) <= MaxSize /\ MaxSize \in Nat
      /\ order' = Without(order, t.key) /\ UNCHANGED <<now, call>>
      /\ timers' = timers \ {t} /\ entry' = [k \in Cached \ {t.key} |-> entry[k]]
      /\ Len(order) \in Nat
  BY LenProperties, AsyncLruCacheAssumption DEF Fire, LruInv, LruTypeOK, AsyncLruCacheAssumption
<1>2. /\ order' \in Seq(Keys) /\ NoDup(order') /\ ToSet(order') = ToSet(order) \ {t.key}
      /\ Len(order') = IF t.key \in ToSet(order) THEN Len(order) - 1 ELSE Len(order)
  BY <1>1, WithoutKey
<1>3. /\ Cached' = Cached \ {t.key} /\ NoDup(order)' /\ Len(order') <= MaxSize
      /\ \A k \in Cached' : entry'[k] = entry[k]
  BY <1>1, <1>2 DEF Cached, NoDup
<1>4. LruTypeOK'
  BY <1>1, <1>2, <1>3 DEF LruInv, LruTypeOK
<1>5. CallsInTime' /\ HitsAreFresh' /\ TimersInTime' /\ EntriesAreStored'
  BY <1>1, <1>3 DEF LruInv, CallsInTime, HitsAreFresh, TimersInTime, EntriesAreStored
<1>6. EntriesExpire'
  BY <1>1, <1>3 DEF LruInv, EntriesExpire
<1> QED
  BY <1>3, <1>4, <1>5, <1>6 DEF LruInv

\* Time goes on when no timer is due and no computation is at its end.
LEMMA TickStep ==
  ASSUME LruInv, LruTick
  PROVE  LruInv'
<1>0. now \in Nat /\ MaxCompute \in Nat
  BY AsyncLruCacheAssumption DEF LruInv, LruTypeOK, AsyncLruCacheAssumption
<1>1. Cached' = Cached /\ UNCHANGED <<call, order, entry, timers>> /\ now' = now + 1
  BY DEF LruTick, Cached
<1>2. LruTypeOK'
  BY <1>0, <1>1 DEF LruInv, LruTypeOK
<1>3. CallsInTime'
  BY <1>0, <1>1 DEF LruTick, LruInv, LruTypeOK, CallsInTime
<1>4. TimersInTime'
  BY <1>0, <1>1 DEF LruTick, LruInv, LruTypeOK, TimersInTime
<1> QED
  BY <1>1, <1>2, <1>3, <1>4 DEF LruInv, NoDup, EntriesAreStored, EntriesExpire, HitsAreFresh

\* The order of the keys when a result is inserted.
LEMMA InsertedKeys ==
  ASSUME LruInv, NEW k \in Keys
  PROVE  /\ Inserted(k) \in Seq(Keys) /\ NoDup(Inserted(k)) /\ Inserted(k) # <<>>
         /\ ToSet(Inserted(k)) = Cached \cup {k} /\ Len(Inserted(k)) \in Nat
         /\ Len(Inserted(k)) <= MaxSize + 1
<1> DEFINE o == Inserted(k)
<1>1. order \in Seq(Keys) /\ NoDup(order) /\ Len(order) <= MaxSize /\ Len(order) \in Nat
      /\ MaxSize \in Nat
  BY LenProperties, AsyncLruCacheAssumption DEF LruInv, LruTypeOK, AsyncLruCacheAssumption
<1>2. CASE k \in Cached
  <2>1. o = order /\ k \in ToSet(order)
    BY <1>2 DEF Inserted, Cached
  <2>2. order # <<>>
    BY <2>1, EmptySeq DEF ToSet
  <2> QED
    BY <1>1, <2>1, <2>2 DEF Cached
<1>3. CASE k \notin Cached
  <2>1. o = Append(order, k) /\ k \notin ToSet(order)
    BY <1>3 DEF Inserted, Cached
  <2>2. LET r == Append(order, k) IN
        r \in Seq(Keys) /\ NoDup(r) /\ Len(r) = Len(order) + 1 /\ ToSet(r) = ToSet(order) \cup {k}
    BY <1>1, <2>1, AppendOnce
  <2> HIDE DEF o
  <2>3. o # <<>>
    BY <1>1, <2>1, <2>2, EmptySeq
  <2> QED
    BY <1>1, <2>1, <2>2, <2>3 DEF Cached, o
<1> QED
  BY <1>2, <1>3

\* What is stored, before anything is evicted.
LEMMA StoreStep ==
  ASSUME LruInv, NEW c \in Calls, Store(c)
  PROVE  LruInv'
<1> DEFINE k == call[c].key
           keys == Inserted(k)
           full == Set(k, call[c].result, c)
           armed == timers \cup TimerOf(c)
           old == call[c]
           new == [old EXCEPT !.pc = "stored"]
<1>0. now \in Nat /\ MaxCompute \in Nat /\ MaxSize \in Nat \ {0} /\ (Ttl # NoTtl => Ttl \in Nat)
  BY AsyncLruCacheAssumption DEF LruInv, LruTypeOK, AsyncLruCacheAssumption
<1>1. /\ old.pc = "computing" /\ old.result # -1 /\ k \in Keys
      /\ old.at <= old.result /\ old.result <= now /\ now <= old.at + MaxCompute
      /\ old.at \in Nat /\ old.result \in Nat
      /\ now' = now /\ call' = [call EXCEPT ![c] = new]
  BY DEF Store, HasResult, LruInv, LruTypeOK, CallsInTime
<1>2. /\ new.pc = "stored" /\ new.key = k /\ new.result = old.result /\ new.at = old.at
      /\ call'[c] = new /\ \A d \in Calls \ {c} : call'[d] = call[d]
      /\ call' \in [Calls -> [pc : {"new", "hit", "computing", "uncached", "stored"},
                              key : Keys \cup {{}}, at : Nat, result : Nat \cup {-1}]]
  <2> DEFINE Rec == [pc : {"new", "hit", "computing", "uncached", "stored"},
                     key : Keys \cup {{}}, at : Nat, result : Nat \cup {-1}]
  <2>1. call \in [Calls -> Rec] /\ old \in Rec
    BY DEF LruInv, LruTypeOK
  <2>2. new \in Rec /\ new.pc = "stored" /\ new.key = old.key /\ new.result = old.result
        /\ new.at = old.at
    BY <2>1
  <2> HIDE DEF new, old, Rec
  <2>3. /\ call' \in [Calls -> Rec] /\ call'[c] = new
        /\ \A d \in Calls \ {c} : call'[d] = call[d]
    BY <2>1, <2>2, <1>1
  <2> QED
    BY <2>2, <2>3 DEF Rec, old
<1>3. /\ keys \in Seq(Keys) /\ NoDup(keys) /\ keys # <<>> /\ Len(keys) \in Nat
      /\ ToSet(keys) = Cached \cup {k} /\ Len(keys) <= MaxSize + 1
  BY <1>1, InsertedKeys
\* The entries and the timers.
<1>4. /\ DOMAIN full = Cached \cup {k}
      /\ full[k] = [result |-> old.result, timer |-> c]
      /\ \A j \in Cached \ {k} : full[j] = entry[j]
  BY DEF Set
<1>5. \A j \in Cached \cup {k} :
        /\ full[j] \in [result : Nat, timer : Calls]
        /\ call'[full[j].timer].pc = "stored" /\ call'[full[j].timer].key = j
        /\ call'[full[j].timer].result = full[j].result
  <2> SUFFICES ASSUME NEW j \in Cached \cup {k}
               PROVE  /\ full[j] \in [result : Nat, timer : Calls]
                      /\ call'[full[j].timer].pc = "stored" /\ call'[full[j].timer].key = j
                      /\ call'[full[j].timer].result = full[j].result
    OBVIOUS
  <2>1. CASE j = k
    BY <2>1, <1>1, <1>2, <1>4
  <2>2. CASE j # k
    <3>1. /\ full[j] = entry[j] /\ entry[j] \in [result : Nat, timer : Calls]
          /\ call[entry[j].timer].pc = "stored" /\ call[entry[j].timer].key = j
          /\ call[entry[j].timer].result = entry[j].result
      BY <2>2, <1>4 DEF LruInv, LruTypeOK, EntriesAreStored
    <3>2. entry[j].timer # c
      BY <3>1, <1>1
    <3> QED
      BY <3>1, <3>2, <1>2
  <2> QED
    BY <2>1, <2>2
<1>6. armed \subseteq [id : Calls, key : Keys, due : Nat]
  BY <1>0, <1>1 DEF TimerOf, LruInv, LruTypeOK
<1>7. \A t \in armed :
        /\ Ttl # NoTtl /\ call'[t.id].pc = "stored" /\ call'[t.id].key = t.key
        /\ now <= t.due /\ t.due <= call'[t.id].result + MaxCompute + Ttl
  <2> SUFFICES ASSUME NEW t \in armed
               PROVE  /\ Ttl # NoTtl /\ call'[t.id].pc = "stored" /\ call'[t.id].key = t.key
                      /\ now <= t.due /\ t.due <= call'[t.id].result + MaxCompute + Ttl
    OBVIOUS
  <2>1. CASE t \in timers
    <3>1. t.id \in Calls \ {c}
      BY <2>1, <1>1 DEF LruInv, LruTypeOK, TimersInTime
    <3> QED
      BY <2>1, <3>1, <1>2 DEF LruInv, TimersInTime
  <2>2. CASE t \in TimerOf(c)
    <3>1. Ttl # NoTtl /\ t = [id |-> c, key |-> k, due |-> now + Ttl]
      BY <2>2 DEF TimerOf
    <3>2. Ttl # NoTtl /\ t.id = c /\ t.key = k /\ t.due = now + Ttl
      BY <3>1
    <3> QED
      BY <3>2, <1>0, <1>1, <1>2
  <2> QED
    BY <2>1, <2>2
<1>8. Ttl # NoTtl => \A j \in Cached \cup {k} :
        \E t \in armed : t.id = full[j].timer /\ t.key = j
  <2> SUFFICES ASSUME Ttl # NoTtl, NEW j \in Cached \cup {k}
               PROVE  \E t \in armed : t.id = full[j].timer /\ t.key = j
    OBVIOUS
  <2>1. CASE j = k
    <3> DEFINE t == [id |-> c, key |-> k, due |-> now + Ttl]
    <3>1. t \in armed /\ t.id = c /\ t.key = k
      BY DEF TimerOf
    <3>2. full[j].timer = c
      BY <2>1, <1>4
    <3> HIDE DEF t, full, armed
    <3> QED
      BY <2>1, <3>1, <3>2
  <2>2. CASE j # k
    BY <2>2, <1>4 DEF LruInv, EntriesExpire
  <2> QED
    BY <2>1, <2>2
<1>9. CallsInTime' /\ HitsAreFresh'
  <2>1. CallsInTime'
    <3> SUFFICES ASSUME NEW d \in Calls
                 PROVE  /\ call'[d].pc \in {"hit", "computing", "stored"} => call'[d].key \in Keys
                        /\ call'[d].pc \in {"computing", "stored"} /\ call'[d].result # -1 =>
                             call'[d].at <= call'[d].result
                        /\ call'[d].pc \in {"computing", "stored"} =>
                             call'[d].result <= now /\ call'[d].at <= now
                        /\ call'[d].pc = "computing" => now <= call'[d].at + MaxCompute
                        /\ call'[d].pc = "stored" => call'[d].result # -1
      BY <1>1 DEF CallsInTime
    <3>1. CASE d = c
      BY <3>1, <1>0, <1>1, <1>2
    <3>2. CASE d # c
      BY <3>2, <1>2 DEF LruInv, CallsInTime
    <3> QED
      BY <3>1, <3>2
  <2>2. HitsAreFresh'
    BY <1>2 DEF LruInv, HitsAreFresh
  <2> QED
    BY <2>1, <2>2
<1> HIDE DEF full, armed, keys, new
\* With room, and with an eviction.
<1>10. CASE ~Overfull(keys)
  <2>1. order' = keys /\ entry' = full /\ timers' = armed
    BY <1>10 DEF Store, full, armed, keys
  <2>2. Cached' = Cached \cup {k} /\ NoDup(order)' /\ Len(order') <= MaxSize
    BY <1>0, <1>3, <1>10, <2>1 DEF Cached, Overfull, NoDup
  <2>3. LruTypeOK'
    <3>1. entry' \in [Cached' -> [result : Nat, timer : Calls]]
      <4>1. full = [j \in Cached \cup {k} |-> full[j]]
        BY DEF full, Set
      <4> QED
        BY <2>1, <2>2, <1>5, <4>1
    <3> QED
      BY <1>0, <1>1, <1>2, <1>3, <1>6, <2>1, <3>1 DEF LruTypeOK
  <2>4. EntriesAreStored' /\ TimersInTime' /\ EntriesExpire'
    BY <2>1, <2>2, <1>1, <1>5, <1>7, <1>8 DEF EntriesAreStored, TimersInTime, EntriesExpire
  <2> QED
    BY <1>9, <2>2, <2>3, <2>4 DEF LruInv
<1>11. CASE Overfull(keys)
  <2> DEFINE oldest == Head(keys)
             kept == Tail(keys)
  <2>1. /\ order' = kept /\ entry' = [j \in ToSet(kept) |-> full[j]]
        /\ timers' = {t \in armed : t.id # full[oldest].timer}
    BY <1>11 DEF Store, full, armed, keys
  <2>2. /\ kept \in Seq(Keys) /\ NoDup(kept) /\ Len(kept) = Len(keys) - 1
        /\ oldest \in Keys /\ ToSet(kept) = (Cached \cup {k}) \ {oldest}
    BY <1>3, NoDupTail
  <2>3. oldest \in Cached \cup {k}
    BY <1>3, HeadTailProperties, ElementOfSeq, EmptySeq, LenProperties DEF ToSet
  <2> HIDE DEF oldest, kept
  <2>4. /\ Cached' = (Cached \cup {k}) \ {oldest} /\ NoDup(order)' /\ Len(order') <= MaxSize
        /\ \A j \in Cached' : entry'[j] = full[j]
    BY <1>0, <1>3, <2>1, <2>2 DEF Cached, NoDup
  <2>5. LruTypeOK'
    <3>1. entry' \in [Cached' -> [result : Nat, timer : Calls]]
      BY <2>1, <2>4, <1>5 DEF Cached
    <3> QED
      BY <1>0, <1>1, <1>2, <1>6, <2>1, <2>2, <3>1 DEF LruTypeOK
  <2>6. EntriesAreStored' /\ TimersInTime'
    BY <2>1, <2>4, <1>1, <1>5, <1>7 DEF EntriesAreStored, TimersInTime
  <2>7. EntriesExpire'
    <3> SUFFICES ASSUME Ttl # NoTtl, NEW j \in Cached'
                 PROVE  \E t \in timers' : t.id = entry'[j].timer /\ t.key = j
      BY DEF EntriesExpire
    <3>1. PICK t \in armed : t.id = full[j].timer /\ t.key = j
      BY <2>4, <1>8
    <3>2. full[j].timer # full[oldest].timer
      BY <2>3, <2>4, <1>5
    <3> QED
      BY <2>1, <2>4, <3>1, <3>2
  <2> QED
    BY <1>9, <2>4, <2>5, <2>6, <2>7 DEF LruInv
<1> QED
  BY <1>10, <1>11

LEMMA NextLru == LruInv /\ [LruNext]_lruVars => LruInv'
<1> SUFFICES ASSUME LruInv, [LruNext]_lruVars PROVE LruInv'
  OBVIOUS
<1>1. CASE UNCHANGED lruVars
  BY <1>1 DEF lruVars, LruInv, LruTypeOK, NoDup, Cached, CallsInTime, EntriesAreStored,
              TimersInTime, EntriesExpire, HitsAreFresh
<1> QED
  BY <1>1, HitStep, CallStep, StoreStep, FireStep, TickStep DEF LruNext

LEMMA LruHolds == LruSpec => []LruInv
  BY InitLru, NextLru, PTL DEF LruSpec

\* Every variable of the cache keeps its type; order and entry describe one
\* dictionary.
THEOREM LruTypeCorrect == LruSpec => []LruTypeOK
<1>1. LruInv => LruTypeOK
  BY DEF LruInv
<1> QED
  BY <1>1, LruHolds, PTL

\* However the calls of a cached function overlap, the cache keeps within its
\* size without a duplicate, every entry's own timer is armed, and no hit is
\* staler than the ttl and one computation.
THEOREM CacheStaysSound == LruSpec => []CacheIsSound
<1>1. LruInv => CacheIsSound
  BY NoDupCardinality DEF LruInv, LruTypeOK, CacheIsSound, SizeBounded, Cached
<1> QED
  BY <1>1, LruHolds, PTL

-----------------------------------------------------------------------------
(* The composition: one of the three parts runs, the others stand still.    *)

\* A behaviour of the composition is one of each of its parts.
LEMMA PartsBehave == ChatSpec => Spec /\ ChSpec /\ LruSpec
<1>1. ChatInit => Init /\ ChInit /\ LruInit
  BY DEF ChatInit
<1>2. [ChatNext]_<<part, vars, chVars, lruVars>> =>
        [Next]_vars /\ [ChNext]_chVars /\ [LruNext]_lruVars
  BY DEF ChatNext
<1> QED
  BY <1>1, <1>2, PTL DEF ChatSpec, Spec, ChSpec, LruSpec

\* The variables of the part that runs keep their types.
THEOREM ChatTypeCorrect == ChatSpec => []ChatTypeOK
<1>1. ChatInit => part \in {"pipeline", "store", "cache"}
  BY DEF ChatInit
<1>2. part \in {"pipeline", "store", "cache"} /\ [ChatNext]_<<part, vars, chVars, lruVars>>
        => (part \in {"pipeline", "store", "cache"})'
  BY DEF ChatNext
<1>3. part \in {"pipeline", "store", "cache"} /\ TypeOK /\ ChTypeOK /\ LruTypeOK => ChatTypeOK
  BY DEF ChatTypeOK
<1> QED
  BY <1>1, <1>2, <1>3, PartsBehave, StoreTypeCorrect, ChTypeCorrect, LruTypeCorrect, PTL
     DEF ChatSpec
=============================================================================
