---------------------------- MODULE MembersProofs ----------------------------
(* Machine-checked proofs about Clubs, Answers and BestDistance, and about       *)
(* MCMembers, which runs one of them or Accounts: for any people, clubs, quotas  *)
(* and workers; for any questions and vectors; for any target and crowd.         *)
EXTENDS MCMembers, AccountsProofs, FiniteSetTheorems, WellFoundedInduction, TLAPS

-----------------------------------------------------------------------------
(* Induction, with a set for the predicate.                                    *)

LEMMA SetInduction ==
  ASSUME NEW T \in SUBSET Nat, 0 \in T, \A n \in T : n + 1 \in T
  PROVE  T = Nat
<1> SUFFICES ASSUME Nat \ T # {} PROVE FALSE
  OBVIOUS
<1>1. IsWellFoundedOn(OpToRel(<, Nat), Nat)
  BY NatLessThanWellFounded
<1>2. PICK x \in Nat \ T : \A y \in Nat \ T : ~ (<<y, x>> \in OpToRel(<, Nat))
  BY <1>1, WFMin
<1>3. \A y \in Nat \ T : ~(y < x)
  BY <1>2 DEF OpToRel
<1> HIDE <1>1, <1>2
<1>4. x \in Nat /\ x \notin T
  OBVIOUS
<1>5. x # 0
  BY <1>4
<1>6. x - 1 \in Nat /\ x - 1 < x /\ (x - 1) + 1 = x
  BY <1>4, <1>5
<1>7. x - 1 \in T
  BY <1>3, <1>6
<1> QED
  BY <1>4, <1>6, <1>7

-----------------------------------------------------------------------------
(* Sums.                                                                       *)

\* The sum of f over S, as the library's fold takes it.
SumOf(f, S) == LET iter[s \in SUBSET S] ==
                     IF s = {} THEN 0
                     ELSE LET x == CHOOSE x \in s : TRUE IN f[x] + iter[s \ {x}]
               IN  iter[S]

LEMMA RemoveOne ==
  ASSUME NEW S, IsFiniteSet(S), NEW x \in S
  PROVE  IsFiniteSet(S \ {x}) /\ Cardinality(S \ {x}) = Cardinality(S) - 1
         /\ Cardinality(S) \in Nat \ {0}
<1>1. IsFiniteSet(S \ {x}) /\ Cardinality(S \ {x}) = Cardinality(S) - 1
  BY FS_RemoveElement
<1>2. Cardinality(S) \in Nat /\ Cardinality(S \ {x}) \in Nat
  BY <1>1, FS_CardinalityType
<1> QED
  BY <1>1, <1>2

\* g has the sums of f over the subsets of S.
Sums(g, f, S) ==
  /\ g[{}] = 0
  /\ \A s \in (SUBSET S) \ {{}} :
       \E x \in s : x = (CHOOSE y \in s : TRUE) /\ g[s] = f[x] + g[s \ {x}]

\* The recursion has a solution.
LEMMA SumSteps ==
  ASSUME NEW S, IsFiniteSet(S), NEW f
  PROVE  \E g : SumOf(f, S) = g[S] /\ Sums(g, f, S)
<1> DEFINE pick(s) == CHOOSE x \in s : TRUE
           next(g, s) == IF s = {} THEN 0 ELSE f[pick(s)] + g[s \ {pick(s)}]
           D(n) == {s \in SUBSET S : Cardinality(s) <= n}
           Fills(g, n) == g = [s \in D(n) |-> next(g, s)]
           T == {n \in Nat : \E g : Fills(g, n)}
           Full(g) == g = [s \in SUBSET S |-> next(g, s)]
           sum == CHOOSE g : Full(g)
<1>0. \A s \in SUBSET S : IsFiniteSet(s) /\ Cardinality(s) \in Nat
                          /\ Cardinality(s) <= Cardinality(S)
  BY FS_Subset, FS_CardinalityType
<1>1. SumOf(f, S) = sum[S]
  BY Zenon DEF SumOf
<1>2. 0 \in T
  <2>1. \A s \in D(0) : s = {}
    BY <1>0, FS_EmptySet
  <2> HIDE DEF D
  <2>2. Fills([s \in D(0) |-> 0], 0)
    BY <2>1
  <2> QED
    BY <2>2
<1>3. ASSUME NEW n \in T PROVE n + 1 \in T
  <2>1. PICK g : Fills(g, n)
    OBVIOUS
  <2> DEFINE h == [s \in D(n + 1) |-> IF s \in D(n) THEN g[s] ELSE next(g, s)]
  <2>2. n \in Nat /\ \A s \in D(n) : g[s] = next(g, s)
    BY <2>1
  <2>3. ASSUME NEW s \in D(n + 1) PROVE h[s] = next(h, s)
    <3>1. CASE s = {}
      <4>1. h[s] = 0
        BY <2>2, <3>1
      <4> HIDE DEF h
      <4> QED
        BY <3>1, <4>1
    <3>2. CASE s # {}
      <4>1. pick(s) \in s /\ s \in SUBSET S
        BY <3>2
      <4>2. s \ {pick(s)} \in D(n)
        <5>1. Cardinality(s \ {pick(s)}) = Cardinality(s) - 1
          BY <1>0, <4>1, RemoveOne
        <5> QED
          BY <1>0, <2>2, <4>1, <5>1
      <4>3. D(n) \subseteq D(n + 1)
        BY <1>0, <2>2
      <4>4. h[s \ {pick(s)}] = g[s \ {pick(s)}]
        <5> HIDE DEF D, next, pick
        <5> QED
          BY <4>2, <4>3
      <4>5. h[s] = next(g, s)
        <5> HIDE DEF D, next
        <5> QED
          BY <2>2
      <4> HIDE DEF h, pick, D
      <4> QED
        BY <4>4, <4>5
    <3> QED
      BY <3>1, <3>2
  <2>4. h = [s \in D(n + 1) |-> h[s]]
    OBVIOUS
  <2> HIDE DEF h
  <2>5. Fills(h, n + 1)
    <3> HIDE DEF next, D
    <3> QED
      BY <2>3, <2>4
  <2> HIDE DEF Fills
  <2> QED
    BY <2>2, <2>5
<1>4. \E g : Full(g)
  <2>1. T = Nat
    <3> HIDE DEF T
    <3>1. T \in SUBSET Nat
      BY DEF T
    <3> QED
      BY <1>2, <1>3, <3>1, SetInduction
  <2>2. PICK g : Fills(g, Cardinality(S))
    <3>1. Cardinality(S) \in T
      BY <2>1, FS_CardinalityType
    <3> QED
      BY <3>1
  <2>3. D(Cardinality(S)) = SUBSET S
    BY <1>0
  <2> HIDE DEF D, next
  <2> QED
    BY <2>2, <2>3
<1>5. Full(sum)
  <2> HIDE DEF Full
  <2> QED
    BY <1>4
<1>6. \A s \in SUBSET S : sum[s] = next(sum, s)
  <2> HIDE DEF next, sum
  <2> QED
    BY <1>5
<1> HIDE DEF sum
<1>7. ASSUME NEW s \in (SUBSET S) \ {{}}
      PROVE  \E x \in s : x = (CHOOSE y \in s : TRUE) /\ sum[s] = f[x] + sum[s \ {x}]
  <2>1. pick(s) \in s
    OBVIOUS
  <2>2. sum[s] = f[pick(s)] + sum[s \ {pick(s)}]
    <3> HIDE DEF pick
    <3> QED
      BY <1>6
  <2>3. pick(s) = (CHOOSE y \in s : TRUE)
    OBVIOUS
  <2> HIDE DEF pick
  <2> QED
    BY <2>1, <2>2, <2>3
<1>8. sum[{}] = 0
  BY <1>6
<1>9. Sums(sum, f, S)
  BY <1>7, <1>8 DEF Sums
<1> QED
  BY <1>1, <1>9

\* Changing one number changes the sum by the difference.
LEMMA SumChange ==
  ASSUME NEW S, IsFiniteSet(S), NEW f \in [S -> Int], NEW h \in [S -> Int], NEW q \in S,
         \A x \in S \ {q} : h[x] = f[x]
  PROVE  SumOf(f, S) \in Int /\ SumOf(h, S) = SumOf(f, S) + h[q] - f[q]
<1>0. \A s \in SUBSET S : IsFiniteSet(s) /\ Cardinality(s) \in Nat
  BY FS_Subset, FS_CardinalityType
<1>1. PICK a : SumOf(f, S) = a[S] /\ Sums(a, f, S)
  BY SumSteps
<1>2. PICK b : SumOf(h, S) = b[S] /\ Sums(b, h, S)
  BY SumSteps
<1> DEFINE Right(s) == a[s] \in Int /\ b[s] = a[s] + IF q \in s THEN h[q] - f[q] ELSE 0
           T == {n \in Nat : \A s \in SUBSET S : Cardinality(s) = n => Right(s)}
<1>3. 0 \in T
  <2>1. \A s \in SUBSET S : Cardinality(s) = 0 => s = {}
    BY <1>0, FS_EmptySet
  <2>2. Right({})
    BY <1>1, <1>2 DEF Sums
  <2> HIDE DEF Right
  <2> QED
    BY <2>1, <2>2
<1>4. ASSUME NEW n \in T PROVE n + 1 \in T
  <2> SUFFICES ASSUME NEW s \in SUBSET S, Cardinality(s) = n + 1 PROVE Right(s)
    OBVIOUS
  <2>1. n \in Nat /\ s # {}
    <3>1. n + 1 # 0 /\ n \in Nat
      OBVIOUS
    <3>2. s = {} => Cardinality(s) = 0
      BY FS_EmptySet, Zenon
    <3> QED
      BY <3>1, <3>2
  <2>2. PICK x \in s : x = (CHOOSE y \in s : TRUE) /\ a[s] = f[x] + a[s \ {x}]
    BY <1>1, <2>1 DEF Sums
  <2>3. b[s] = h[x] + b[s \ {x}]
    BY <1>2, <2>1, <2>2, ZenonT(60) DEF Sums
  <2>4. Cardinality(s \ {x}) = n /\ s \ {x} \in SUBSET S
    <3>1. Cardinality(s \ {x}) = (n + 1) - 1
      BY <1>0, RemoveOne
    <3> QED
      BY <2>1, <3>1
  <2>5. Right(s \ {x})
    BY <2>4
  <2>6. x \in S /\ f[x] \in Int /\ h[x] \in Int /\ h[q] \in Int /\ f[q] \in Int
    OBVIOUS
  <2>7. CASE x = q
    <3>1. a[s \ {x}] \in Int /\ b[s \ {x}] = a[s \ {x}]
      BY <2>5, <2>7
    <3> DEFINE u == a[s \ {x}]
    <3>2. u \in Int /\ a[s] = f[q] + u /\ b[s] = h[q] + u /\ q \in s
      BY <2>2, <2>3, <2>7, <3>1
    <3> HIDE DEF u
    <3> QED
      BY <2>6, <3>2
  <2>8. CASE x # q
    <3>1. h[x] = f[x] /\ (q \in s <=> q \in s \ {x})
      BY <2>6, <2>8
    <3> QED
      BY <2>2, <2>3, <2>5, <2>6, <3>1
  <2> QED
    BY <2>7, <2>8
<1>5. T = Nat
  <2> HIDE DEF T
  <2>1. T \in SUBSET Nat
    BY DEF T
  <2> QED
    BY <1>3, <1>4, <2>1, SetInduction
<1>6. Right(S)
  BY <1>0, <1>5
<1> QED
  BY <1>1, <1>2, <1>6

\* Nothing adds up to nothing.
LEMMA SumZero ==
  ASSUME NEW S, IsFiniteSet(S), NEW f, \A x \in S : f[x] = 0
  PROVE  SumOf(f, S) = 0
<1>0. \A s \in SUBSET S : IsFiniteSet(s) /\ Cardinality(s) \in Nat
  BY FS_Subset, FS_CardinalityType
<1>1. PICK a : SumOf(f, S) = a[S] /\ Sums(a, f, S)
  BY SumSteps
<1> DEFINE T == {n \in Nat : \A s \in SUBSET S : Cardinality(s) = n => a[s] = 0}
<1>2. 0 \in T
  <2>1. \A s \in SUBSET S : Cardinality(s) = 0 => s = {}
    BY <1>0, FS_EmptySet
  <2> QED
    BY <1>1, <2>1 DEF Sums
<1>3. ASSUME NEW n \in T PROVE n + 1 \in T
  <2> SUFFICES ASSUME NEW s \in SUBSET S, Cardinality(s) = n + 1 PROVE a[s] = 0
    OBVIOUS
  <2>1. n \in Nat /\ s # {}
    <3>1. n + 1 # 0 /\ n \in Nat
      OBVIOUS
    <3>2. s = {} => Cardinality(s) = 0
      BY FS_EmptySet, Zenon
    <3> QED
      BY <3>1, <3>2
  <2>2. PICK x \in s : a[s] = f[x] + a[s \ {x}]
    BY <1>1, <2>1 DEF Sums
  <2>3. Cardinality(s \ {x}) = n
    <3>1. Cardinality(s \ {x}) = (n + 1) - 1
      BY <1>0, RemoveOne
    <3> QED
      BY <2>1, <3>1
  <2> QED
    BY <2>2, <2>3
<1>4. T = Nat
  <2> HIDE DEF T
  <2>1. T \in SUBSET Nat
    BY DEF T
  <2> QED
    BY <1>2, <1>3, <2>1, SetInduction
<1>5. a[S] = 0
  BY <1>0, <1>4
<1> QED
  BY <1>1, <1>5

-----------------------------------------------------------------------------
(* Answers.                                                                    *)

\* What each answer of p's contributes to a sum; who holds an answer, and whose
\* open transaction will give it.
Presences(p, t) == [q \in AnsQuestions |-> Score(q, AnswerOf(ansRow[<<p, q>>]))[t].presence]
Absences(p, t) == [q \in AnsQuestions |-> Score(q, AnswerOf(ansRow[<<p, q>>]))[t].absence]
Answered(p) == {q \in AnsQuestions : AnswerOf(ansRow[<<p, q>>]) \in {"yes", "no"}}
Holders(q, a) == {p \in AnsPeople : AnswerOf(ansRow[<<p, q>>]) = a}
Pending(q, a) == {w \in AnsWorkers :
  ansTx[w].op = "answer" /\ ansTx[w].question = q /\ AnswerOf(ansTx[w].row) = a}

\* What an open transaction has read is as it was, unless one that overlaps it
\* was committed.
FreshReads == \A w \in AnsWorkers :
  LET x == ansTx[w] IN
  x.op = "answer" /\ ~x.stale =>
    /\ x.old = AnswerOf(ansRow[<<x.person, x.question>>])
    /\ x.sum = ansSum[x.person] /\ x.count = ansCount[x.person]

\* The tallies cover the answers that are stored and those that may be.
Covers(q) ==
  /\ ansYes[q] >= Cardinality(Holders(q, "yes")) + Cardinality(Pending(q, "yes"))
  /\ ansNo[q] >= Cardinality(Holders(q, "no")) + Cardinality(Pending(q, "no"))
TalliesCoverPending == \A q \in AnsQuestions : Covers(q)

\* The sums of one person.
SumsRight(p) ==
  /\ \A t \in AnsTraits :
        /\ ansSum[p][t].presence = SumOf(Presences(p, t), AnsQuestions)
        /\ ansSum[p][t].absence = SumOf(Absences(p, t), AnsQuestions)
  /\ ansCount[p] = Cardinality(Answered(p))

AnsIInv ==
  AnsTypeOK /\ FreshReads /\ TalliesCoverPending /\ \A p \in AnsPeople : SumsRight(p)

-----------------------------------------------------------------------------
\* A score is a pair of numbers, and nothing scores nothing.
LEMMA ScoreIs ==
  /\ \A q \in AnsQuestions : \A a : Score(q, a) \in [AnsTraits -> [presence : Int, absence : Int]]
  /\ \A q \in AnsQuestions, t \in AnsTraits : \A a : a \notin {"yes", "no"} =>
       Score(q, a)[t].presence = 0 /\ Score(q, a)[t].absence = 0
<1>1. ASSUME NEW q \in AnsQuestions, NEW a, NEW t \in AnsTraits
      PROVE  /\ Score(q, a)[t] \in [presence : Int, absence : Int]
             /\ a \notin {"yes", "no"} => Score(q, a)[t].presence = 0 /\ Score(q, a)[t].absence = 0
  <2>1. AnsVectors[q][t] \in [py : Int, pn : Int, ay : Int, an : Int]
    BY AnsAssumption DEF AnsAssumption
  <2> QED
    BY <2>1 DEF Score
<1>2. \A q \in AnsQuestions : \A a : Score(q, a) = [t \in AnsTraits |-> Score(q, a)[t]]
  BY DEF Score
<1>3. ASSUME NEW q \in AnsQuestions, NEW a
      PROVE  Score(q, a) \in [AnsTraits -> [presence : Int, absence : Int]]
  <2> DEFINE s == Score(q, a)
  <2>1. s = [t \in AnsTraits |-> s[t]]
    BY <1>2
  <2>2. \A t \in AnsTraits : s[t] \in [presence : Int, absence : Int]
    BY <1>1
  <2> HIDE DEF s
  <2>3. s \in [AnsTraits -> [presence : Int, absence : Int]]
    BY <2>1, <2>2
  <2> QED
    BY <2>3 DEF s
<1> QED
  BY <1>1, <1>3

\* The property's sums are these.
LEMMA SumsAre ==
  (\A p \in AnsPeople : SumsRight(p)) => ScoresAreSums
<1> SUFFICES ASSUME NEW p \in AnsPeople, SumsRight(p),
                    NEW score, score = [q \in AnsQuestions |-> Score(q, AnswerOf(ansRow[<<p, q>>]))]
             PROVE
      /\ \A t \in AnsTraits :
            /\ ansSum[p][t].presence = MapThenSumSet(LAMBDA q : score[q][t].presence, AnsQuestions)
            /\ ansSum[p][t].absence = MapThenSumSet(LAMBDA q : score[q][t].absence, AnsQuestions)
      /\ ansCount[p] = Cardinality({q \in AnsQuestions : AnswerOf(ansRow[<<p, q>>]) \in {"yes", "no"}})
  BY Zenon DEF ScoresAreSums
<1>1. ASSUME NEW t \in AnsTraits
      PROVE  /\ ansSum[p][t].presence = MapThenSumSet(LAMBDA q : score[q][t].presence, AnsQuestions)
             /\ ansSum[p][t].absence = MapThenSumSet(LAMBDA q : score[q][t].absence, AnsQuestions)
  <2>1. MapThenSumSet(LAMBDA q : score[q][t].presence, AnsQuestions)
          = SumOf([q \in AnsQuestions |-> score[q][t].presence], AnsQuestions)
    BY ZenonT(60) DEF MapThenSumSet, MapThenFoldSet, SumOf
  <2>2. MapThenSumSet(LAMBDA q : score[q][t].absence, AnsQuestions)
          = SumOf([q \in AnsQuestions |-> score[q][t].absence], AnsQuestions)
    BY ZenonT(60) DEF MapThenSumSet, MapThenFoldSet, SumOf
  <2>3. /\ [q \in AnsQuestions |-> score[q][t].presence] = Presences(p, t)
        /\ [q \in AnsQuestions |-> score[q][t].absence] = Absences(p, t)
    BY DEF Presences, Absences
  <2> QED
    BY <2>1, <2>2, <2>3 DEF SumsRight
<1> QED
  BY <1>1 DEF SumsRight, Answered

\* A set with an element more, and one less.
LEMMA OneMoreOneLess ==
  ASSUME NEW S, IsFiniteSet(S), NEW x
  PROVE  /\ IsFiniteSet(S \cup {x}) /\ Cardinality(S \cup {x}) \in Nat
         /\ Cardinality(S \cup {x}) <= Cardinality(S) + 1
         /\ IsFiniteSet(S \ {x}) /\ Cardinality(S \ {x}) \in Nat
         /\ Cardinality(S \ {x}) <= Cardinality(S) /\ Cardinality(S) \in Nat
<1>1. IsFiniteSet(S \cup {x})
      /\ Cardinality(S \cup {x}) = IF x \in S THEN Cardinality(S) ELSE Cardinality(S) + 1
  BY FS_AddElement
<1>2. Cardinality(S) \in Nat /\ Cardinality(S \cup {x}) \in Nat
  BY <1>1, FS_CardinalityType
<1>3. IsFiniteSet(S \ {x}) /\ Cardinality(S \ {x}) <= Cardinality(S)
  BY FS_Subset
<1>4. Cardinality(S \ {x}) \in Nat
  BY <1>3, FS_CardinalityType
<1> QED
  BY <1>1, <1>2, <1>3, <1>4

\* Counting: one moves from P to H at most; one is added to P.
LEMMA CountsMove ==
  ASSUME NEW H, NEW P, IsFiniteSet(H), IsFiniteSet(P), NEW n \in Nat,
         n >= Cardinality(H) + Cardinality(P), NEW w, NEW x, NEW G,
         (w \in P /\ G \subseteq H \cup {x}) \/ G \subseteq H
  PROVE  n >= Cardinality(G) + Cardinality(P \ {w})
<1>1. CASE w \in P /\ G \subseteq H \cup {x}
  <2>1. IsFiniteSet(H \cup {x}) /\ Cardinality(H \cup {x}) <= Cardinality(H) + 1
        /\ Cardinality(H \cup {x}) \in Nat /\ Cardinality(H) \in Nat
    BY OneMoreOneLess
  <2>2. Cardinality(G) \in Nat /\ Cardinality(G) <= Cardinality(H \cup {x})
    BY <1>1, <2>1, FS_Subset, FS_CardinalityType
  <2>3. Cardinality(P \ {w}) = Cardinality(P) - 1 /\ Cardinality(P) \in Nat
    BY <1>1, RemoveOne
  <2> QED
    BY <2>1, <2>2, <2>3
<1>2. CASE G \subseteq H
  <2>1. Cardinality(G) \in Nat /\ Cardinality(G) <= Cardinality(H) /\ Cardinality(H) \in Nat
    BY <1>2, FS_Subset, FS_CardinalityType
  <2>2. Cardinality(P \ {w}) \in Nat /\ Cardinality(P \ {w}) <= Cardinality(P)
        /\ Cardinality(P) \in Nat
    BY OneMoreOneLess
  <2> QED
    BY <2>1, <2>2
<1> QED
  BY <1>1, <1>2

LEMMA CountsGrow ==
  ASSUME NEW H, NEW P, IsFiniteSet(H), IsFiniteSet(P), NEW n \in Nat,
         n >= Cardinality(H) + Cardinality(P), NEW w
  PROVE  n + 1 >= Cardinality(H) + Cardinality(P \cup {w})
<1>1. Cardinality(P \cup {w}) \in Nat /\ Cardinality(P \cup {w}) <= Cardinality(P) + 1
      /\ Cardinality(P) \in Nat
  BY OneMoreOneLess
<1>2. Cardinality(H) \in Nat
  BY FS_CardinalityType
<1> QED
  BY <1>1, <1>2

LEMMA HoldersFinite ==
  \A q, a : IsFiniteSet(Holders(q, a)) /\ IsFiniteSet(Pending(q, a))
<1> SUFFICES ASSUME NEW q, NEW a
             PROVE  IsFiniteSet(Holders(q, a)) /\ IsFiniteSet(Pending(q, a))
  OBVIOUS
<1>1. Holders(q, a) \subseteq AnsPeople /\ Pending(q, a) \subseteq AnsWorkers
  BY DEF Holders, Pending
<1> QED
  BY <1>1, FS_Subset, AnsAssumption DEF AnsAssumption

LEMMA InitAnsIInv == AnsInit => AnsIInv
<1> SUFFICES ASSUME AnsInit PROVE AnsIInv
  OBVIOUS
<1>1. AnsTypeOK
  BY DEF AnsInit, AnsTypeOK, AnsSums
<1>2. FreshReads
  BY DEF AnsInit, FreshReads, AnsIdle
<1>3. \A p \in AnsPeople, q \in AnsQuestions : AnswerOf(ansRow[<<p, q>>]) = "none"
  BY DEF AnsInit, AnswerOf
<1>4. TalliesCoverPending
  <2> SUFFICES ASSUME NEW q \in AnsQuestions PROVE Covers(q)
    BY DEF TalliesCoverPending
  <2>1. /\ Holders(q, "yes") = {} /\ Holders(q, "no") = {}
        /\ Pending(q, "yes") = {} /\ Pending(q, "no") = {}
    BY <1>3 DEF AnsInit, Holders, Pending, AnsIdle
  <2> DEFINE n == Cardinality({})
  <2>2. n = 0
    BY FS_EmptySet
  <2>3. /\ Cardinality(Holders(q, "yes")) = n /\ Cardinality(Holders(q, "no")) = n
        /\ Cardinality(Pending(q, "yes")) = n /\ Cardinality(Pending(q, "no")) = n
    BY <2>1, Zenon
  <2> HIDE DEF n
  <2> QED
    BY <2>2, <2>3 DEF AnsInit, Covers
<1>5. ASSUME NEW p \in AnsPeople PROVE SumsRight(p)
  <2>1. ASSUME NEW t \in AnsTraits
        PROVE  SumOf(Presences(p, t), AnsQuestions) = 0 /\ SumOf(Absences(p, t), AnsQuestions) = 0
    <3>1. \A q \in AnsQuestions : Presences(p, t)[q] = 0 /\ Absences(p, t)[q] = 0
      <4>1. \A q \in AnsQuestions :
              /\ Presences(p, t)[q] = Score(q, "none")[t].presence
              /\ Absences(p, t)[q] = Score(q, "none")[t].absence
        BY <1>3 DEF Presences, Absences
      <4>2. \A q \in AnsQuestions :
              Score(q, "none")[t].presence = 0 /\ Score(q, "none")[t].absence = 0
        BY ScoreIs
      <4> QED
        BY <4>1, <4>2
    <3> QED
      BY <3>1, SumZero, AnsAssumption DEF AnsAssumption
  <2>2. Answered(p) = {}
    BY <1>3 DEF Answered
  <2>3. Cardinality(Answered(p)) = 0
    BY <2>2, FS_EmptySet, Zenon
  <2> QED
    BY <2>1, <2>3 DEF AnsInit, SumsRight
<1> QED
  BY <1>1, <1>2, <1>4, <1>5 DEF AnsIInv

\* A transaction begins: what it will write is counted already.
LEMMA BeginKeeps ==
  ASSUME AnsIInv, NEW w \in AnsWorkers, NEW p \in AnsPeople, NEW q \in AnsQuestions,
         NEW row \in AnsRows \cup {AnsNone},
         ~IsOpen(w), Read(w, p, q, row),
         ansYes' = [ansYes EXCEPT ![q] = @ + IF AnswerOf(row) = "yes" THEN 1 ELSE 0],
         ansNo' = [ansNo EXCEPT ![q] = @ + IF AnswerOf(row) = "no" THEN 1 ELSE 0],
         UNCHANGED <<ansPhase, ansRow, ansSum, ansCount>>
  PROVE  AnsIInv'
<1> DEFINE x == [op |-> "answer", person |-> p, question |-> q, row |-> row,
                 old |-> AnswerOf(ansRow[<<p, q>>]), sum |-> ansSum[p], count |-> ansCount[p],
                 stale |-> FALSE]
<1>1. AnswerOf(ansRow[<<p, q>>]) \in AnsValues \cup {"none"}
  BY DEF AnsIInv, AnsTypeOK, AnswerOf, AnsRows
<1>2. /\ x \in AnsOpen /\ x.op = "answer" /\ x.person = p /\ x.question = q /\ x.row = row
      /\ x.old = AnswerOf(ansRow[<<p, q>>]) /\ x.sum = ansSum[p] /\ x.count = ansCount[p]
  BY <1>1 DEF AnsIInv, AnsTypeOK, AnsOpen
<1>3. ansTx' = [ansTx EXCEPT ![w] = x]
  BY DEF Read
<1> HIDE DEF x
<1>4. ansTx' \in [AnsWorkers -> AnsOpen \cup {AnsIdle}]
  BY <1>2, <1>3 DEF AnsIInv, AnsTypeOK
<1>5. /\ ansYes' \in [AnsQuestions -> Nat] /\ ansNo' \in [AnsQuestions -> Nat]
  BY DEF AnsIInv, AnsTypeOK
<1>6. AnsTypeOK'
  BY <1>4, <1>5 DEF AnsIInv, AnsTypeOK
<1>7. FreshReads'
  BY <1>2, <1>3 DEF AnsIInv, AnsTypeOK, FreshReads
<1>8. \A r \in AnsPeople : SumsRight(r)'
  BY ZenonT(60) DEF AnsIInv, SumsRight, Presences, Absences, Answered
<1>9. TalliesCoverPending'
  <2> SUFFICES ASSUME NEW r \in AnsQuestions PROVE Covers(r)'
    BY DEF TalliesCoverPending
  <2>1. \A a : Holders(r, a)' = Holders(r, a)
    BY DEF Holders
  <2>2. w \notin Pending(r, "yes") /\ w \notin Pending(r, "no")
    BY DEF Pending, IsOpen
  <2>3. \A a : Pending(r, a)' = IF r = q /\ AnswerOf(row) = a THEN Pending(r, a) \cup {w}
                                ELSE Pending(r, a) \ {w}
    BY <1>2, <1>3 DEF Pending, AnsIInv, AnsTypeOK
  <2>4. Pending(r, "yes") \ {w} = Pending(r, "yes") /\ Pending(r, "no") \ {w} = Pending(r, "no")
    BY <2>2
  <2>5. Covers(r) /\ ansYes[r] \in Nat /\ ansNo[r] \in Nat
    BY DEF AnsIInv, TalliesCoverPending, AnsTypeOK
  <2>6. ansYes'[r] >= Cardinality(Holders(r, "yes")') + Cardinality(Pending(r, "yes")')
    <3>1. CASE r = q /\ AnswerOf(row) = "yes"
      <4>1. ansYes'[r] = ansYes[r] + 1 /\ Pending(r, "yes")' = Pending(r, "yes") \cup {w}
        BY <2>3, <3>1 DEF AnsIInv, AnsTypeOK
      <4>2. ansYes[r] + 1 >= Cardinality(Holders(r, "yes")) + Cardinality(Pending(r, "yes") \cup {w})
        BY <2>5, HoldersFinite, CountsGrow DEF Covers
      <4> QED
        BY <2>1, <4>1, <4>2
    <3>2. CASE ~(r = q /\ AnswerOf(row) = "yes")
      <4>1. ansYes'[r] = ansYes[r]
        BY <2>5, <3>2 DEF AnsIInv, AnsTypeOK
      <4>2. Pending(r, "yes")' = Pending(r, "yes")
        BY <2>3, <2>4, <3>2
      <4> QED
        BY <2>1, <2>5, <4>1, <4>2 DEF Covers
    <3> QED
      BY <3>1, <3>2
  <2>7. ansNo'[r] >= Cardinality(Holders(r, "no")') + Cardinality(Pending(r, "no")')
    <3>1. CASE r = q /\ AnswerOf(row) = "no"
      <4>1. ansNo'[r] = ansNo[r] + 1 /\ Pending(r, "no")' = Pending(r, "no") \cup {w}
        BY <2>3, <3>1 DEF AnsIInv, AnsTypeOK
      <4>2. ansNo[r] + 1 >= Cardinality(Holders(r, "no")) + Cardinality(Pending(r, "no") \cup {w})
        BY <2>5, HoldersFinite, CountsGrow DEF Covers
      <4> QED
        BY <2>1, <4>1, <4>2
    <3>2. CASE ~(r = q /\ AnswerOf(row) = "no")
      <4>1. ansNo'[r] = ansNo[r]
        BY <2>5, <3>2 DEF AnsIInv, AnsTypeOK
      <4>2. Pending(r, "no")' = Pending(r, "no")
        BY <2>3, <2>4, <3>2
      <4> QED
        BY <2>1, <2>5, <4>1, <4>2 DEF Covers
    <3> QED
      BY <3>1, <3>2
  <2> QED
    BY <2>6, <2>7 DEF Covers
<1> QED
  BY <1>6, <1>7, <1>8, <1>9 DEF AnsIInv

\* What is written moves the sums by what the answer changes.
LEMMA MovedIs ==
  ASSUME NEW cur \in AnsSums, NEW q \in AnsQuestions, NEW new, NEW old
  PROVE  /\ Moved(cur, q, new, old) \in AnsSums
         /\ \A t \in AnsTraits :
              /\ Moved(cur, q, new, old)[t].presence
                   = cur[t].presence + Score(q, new)[t].presence - Score(q, old)[t].presence
              /\ Moved(cur, q, new, old)[t].absence
                   = cur[t].absence + Score(q, new)[t].absence - Score(q, old)[t].absence
<1> DEFINE m == Moved(cur, q, new, old)
<1>1. ASSUME NEW t \in AnsTraits
      PROVE  /\ m[t] \in [presence : Int, absence : Int]
             /\ m[t].presence = cur[t].presence + Score(q, new)[t].presence - Score(q, old)[t].presence
             /\ m[t].absence = cur[t].absence + Score(q, new)[t].absence - Score(q, old)[t].absence
  <2> DEFINE a == cur[t].presence + Score(q, new)[t].presence - Score(q, old)[t].presence
             b == cur[t].absence + Score(q, new)[t].absence - Score(q, old)[t].absence
  <2>1. /\ cur[t] \in [presence : Int, absence : Int]
        /\ Score(q, new)[t] \in [presence : Int, absence : Int]
        /\ Score(q, old)[t] \in [presence : Int, absence : Int]
    BY ScoreIs DEF AnsSums
  <2>2. a \in Int /\ b \in Int
    BY <2>1
  <2>3. m[t] = [presence |-> a, absence |-> b]
    BY DEF Moved
  <2> HIDE DEF m, a, b
  <2>4. m[t] \in [presence : Int, absence : Int] /\ m[t].presence = a /\ m[t].absence = b
    BY <2>2, <2>3
  <2> QED
    BY <2>4 DEF a, b
<1>2. m = [t \in AnsTraits |-> m[t]]
  BY DEF Moved
<1> HIDE DEF m
<1>3. m \in AnsSums
  BY <1>1, <1>2 DEF AnsSums
<1> QED
  BY <1>1, <1>3 DEF m

\* A transaction that overlaps a committed one is stale, and otherwise the same.
LEMMA StaleIs ==
  ASSUME NEW y \in AnsOpen
  PROVE  LET z == [y EXCEPT !.stale = TRUE] IN
         /\ z \in AnsOpen /\ z.op = y.op /\ z.question = y.question /\ z.row = y.row
         /\ z.person = y.person /\ z.stale
  BY DEF AnsOpen

LEMMA CommitKeeps ==
  ASSUME AnsIInv, NEW w \in AnsWorkers, CommitAnswer(w)
  PROVE  AnsIInv'
<1> USE DEF AnsIInv
<1>1. PICK x \in AnsOpen : x = ansTx[w] /\ x.op = "answer" /\ ~x.stale
  BY DEF CommitAnswer, AnsTypeOK, AnsIdle
<1> DEFINE p == x.person
           q == x.question
           new == AnswerOf(x.row)
           old == x.old
<1>2. /\ p \in AnsPeople /\ q \in AnsQuestions /\ x.row \in AnsRows \cup {AnsNone}
      /\ x.count \in Int
  BY <1>1 DEF AnsOpen
<1>3. old = AnswerOf(ansRow[<<p, q>>]) /\ x.sum = ansSum[p] /\ x.count = ansCount[p]
  BY <1>1 DEF FreshReads
<1>4. /\ ansRow' = [ansRow EXCEPT ![<<p, q>>] = x.row]
      /\ ansSum' = [ansSum EXCEPT ![p] = Moved(ansSum[p], q, new, old)]
      /\ ansCount' = [ansCount EXCEPT ![p] = ansCount[p] + Counts(new) - Counts(old)]
      /\ ansTx' = [v \in AnsWorkers |->
            IF v = w THEN AnsIdle
            ELSE IF ansTx[v].op = "answer" /\ ansTx[v].person = p
                 THEN [ansTx[v] EXCEPT !.stale = TRUE] ELSE ansTx[v]]
      /\ UNCHANGED <<ansPhase, ansYes, ansNo>>
  BY <1>1, <1>3 DEF CommitAnswer
<1>5. \A v \in AnsWorkers \ {w} :
        \/ ansTx'[v] = ansTx[v] /\ ~(ansTx[v].op = "answer" /\ ansTx[v].person = p)
        \/ /\ ansTx'[v] \in AnsOpen /\ ansTx[v] \in AnsOpen
           /\ ansTx'[v].stale /\ ansTx'[v].op = ansTx[v].op
           /\ ansTx'[v].question = ansTx[v].question /\ ansTx'[v].row = ansTx[v].row
  <2> SUFFICES ASSUME NEW v \in AnsWorkers \ {w}, ansTx[v].op = "answer", ansTx[v].person = p
               PROVE  /\ ansTx'[v] \in AnsOpen /\ ansTx[v] \in AnsOpen
                      /\ ansTx'[v].stale /\ ansTx'[v].op = ansTx[v].op
                      /\ ansTx'[v].question = ansTx[v].question /\ ansTx'[v].row = ansTx[v].row
    BY <1>4
  <2>1. ansTx[v] \in AnsOpen
    BY DEF AnsTypeOK, AnsIdle
  <2>2. ansTx'[v] = [ansTx[v] EXCEPT !.stale = TRUE]
    BY <1>4
  <2> QED
    BY <2>1, <2>2, StaleIs
<1>6. ansTx'[w] = AnsIdle
  BY <1>4
<1> HIDE DEF p, q, new, old
<1>7. /\ ansRow'[<<p, q>>] = x.row
      /\ \A r \in AnsPeople, s \in AnsQuestions : r # p \/ s # q =>
            ansRow'[<<r, s>>] = ansRow[<<r, s>>]
      /\ \A r \in AnsPeople \ {p} : ansSum'[r] = ansSum[r] /\ ansCount'[r] = ansCount[r]
  BY <1>2, <1>4 DEF AnsTypeOK
<1>8. AnsTypeOK'
  <2>1. ansRow' \in [AnsPeople \X AnsQuestions -> AnsRows \cup {AnsNone}]
    BY <1>2, <1>4 DEF AnsTypeOK
  <2>2. Moved(ansSum[p], q, new, old) \in AnsSums
    BY <1>2, MovedIs DEF AnsTypeOK
  <2>3. ansSum' \in [AnsPeople -> AnsSums]
    BY <1>2, <1>4, <2>2 DEF AnsTypeOK
  <2>4. ansCount' \in [AnsPeople -> Int]
    <3>1. ansCount[p] + Counts(new) - Counts(old) \in Int
      BY <1>2 DEF AnsTypeOK, Counts
    <3> QED
      BY <1>2, <1>4, <3>1 DEF AnsTypeOK
  <2>5. ansTx' \in [AnsWorkers -> AnsOpen \cup {AnsIdle}]
    <3>1. \A v \in AnsWorkers : ansTx'[v] \in AnsOpen \cup {AnsIdle}
      BY <1>5, <1>6 DEF AnsTypeOK
    <3>2. ansTx' = [v \in AnsWorkers |-> ansTx'[v]]
      BY <1>4
    <3> QED
      BY <3>1, <3>2
  <2> QED
    BY <1>4, <2>1, <2>3, <2>4, <2>5 DEF AnsTypeOK
<1>9. FreshReads'
  <2> SUFFICES ASSUME NEW v \in AnsWorkers, ansTx'[v].op = "answer", ~ansTx'[v].stale
               PROVE  /\ ansTx'[v].old = AnswerOf(ansRow'[<<ansTx'[v].person, ansTx'[v].question>>])
                      /\ ansTx'[v].sum = ansSum'[ansTx'[v].person]
                      /\ ansTx'[v].count = ansCount'[ansTx'[v].person]
    BY DEF FreshReads, AnswerOf
  <2>1. v # w
    BY <1>6 DEF AnsIdle
  <2>2. ansTx'[v] = ansTx[v] /\ ansTx[v].person # p
    BY <1>5, <2>1
  <2>3. ansTx[v] \in AnsOpen
    BY <2>2 DEF AnsTypeOK, AnsIdle
  <2>4. ansTx[v].person \in AnsPeople /\ ansTx[v].question \in AnsQuestions
    BY <2>3 DEF AnsOpen
  <2> QED
    BY <1>7, <2>2, <2>4 DEF FreshReads
<1>10. TalliesCoverPending'
  <2> SUFFICES ASSUME NEW s \in AnsQuestions PROVE Covers(s)'
    BY DEF TalliesCoverPending
  <2>1. \A a \in {"yes", "no"} : Pending(s, a)' = Pending(s, a) \ {w}
    BY <1>5, <1>6 DEF Pending, AnsIdle
  <2>2. \A a \in {"yes", "no"} :
          \/ s = q /\ new = a /\ w \in Pending(s, a) /\ Holders(s, a)' \subseteq Holders(s, a) \cup {p}
          \/ Holders(s, a)' \subseteq Holders(s, a)
    <3> SUFFICES ASSUME NEW a \in {"yes", "no"}, ~(Holders(s, a)' \subseteq Holders(s, a))
                 PROVE  /\ s = q /\ new = a /\ w \in Pending(s, a)
                        /\ Holders(s, a)' \subseteq Holders(s, a) \cup {p}
      OBVIOUS
    <3>1. \A r \in AnsPeople : r # p \/ s # q => AnswerOf(ansRow'[<<r, s>>]) = AnswerOf(ansRow[<<r, s>>])
      BY <1>7
    <3>2. \A r : r \in Holders(s, a)' <=> r \in AnsPeople /\ AnswerOf(ansRow'[<<r, s>>]) = a
      BY DEF Holders, AnswerOf
    <3>3. s = q /\ AnswerOf(ansRow'[<<p, q>>]) = a
      BY <3>1, <3>2 DEF Holders
    <3>4. new = a
      BY <1>7, <3>3 DEF new
    <3>5. w \in Pending(s, a)
      BY <1>1, <3>3, <3>4 DEF Pending, new, q
    <3>6. Holders(s, a)' \subseteq Holders(s, a) \cup {p}
      BY <3>1, <3>2 DEF Holders
    <3> QED
      BY <3>3, <3>4, <3>5, <3>6
  <2>3. Covers(s) /\ ansYes[s] \in Nat /\ ansNo[s] \in Nat
    BY DEF TalliesCoverPending, AnsTypeOK
  <2>4. ansYes[s] >= Cardinality(Holders(s, "yes")') + Cardinality(Pending(s, "yes") \ {w})
    <3> DEFINE H == Holders(s, "yes")
               P == Pending(s, "yes")
               G == Holders(s, "yes")'
    <3>1. IsFiniteSet(H) /\ IsFiniteSet(P) /\ ansYes[s] >= Cardinality(H) + Cardinality(P)
      BY <2>3, HoldersFinite DEF Covers
    <3>2. (w \in P /\ G \subseteq H \cup {p}) \/ G \subseteq H
      BY <2>2
    <3>3. ansYes[s] \in Nat
      BY <2>3
    <3> HIDE DEF H, P, G
    <3>4. PICK n, h, k, g : n = ansYes[s] /\ h = H /\ k = P /\ g = G
      OBVIOUS
    <3>5. /\ IsFiniteSet(h) /\ IsFiniteSet(k) /\ n >= Cardinality(h) + Cardinality(k) /\ n \in Nat
          /\ (w \in k /\ g \subseteq h \cup {p}) \/ g \subseteq h
      BY <3>1, <3>2, <3>3, <3>4
    <3>6. PICK z : z = p
      OBVIOUS
    <3>7. n >= Cardinality(g) + Cardinality(k \ {w})
      <4> HIDE <3>4
      <4> QED
        BY <3>5, <3>6, CountsMove, ZenonT(60)
    <3> QED
      BY <3>4, <3>7 DEF H, P, G
  <2>5. ansNo[s] >= Cardinality(Holders(s, "no")') + Cardinality(Pending(s, "no") \ {w})
    <3> DEFINE H == Holders(s, "no")
               P == Pending(s, "no")
               G == Holders(s, "no")'
    <3>1. IsFiniteSet(H) /\ IsFiniteSet(P) /\ ansNo[s] >= Cardinality(H) + Cardinality(P)
      BY <2>3, HoldersFinite DEF Covers
    <3>2. (w \in P /\ G \subseteq H \cup {p}) \/ G \subseteq H
      BY <2>2
    <3>3. ansNo[s] \in Nat
      BY <2>3
    <3> HIDE DEF H, P, G
    <3>4. PICK n, h, k, g : n = ansNo[s] /\ h = H /\ k = P /\ g = G
      OBVIOUS
    <3>5. /\ IsFiniteSet(h) /\ IsFiniteSet(k) /\ n >= Cardinality(h) + Cardinality(k) /\ n \in Nat
          /\ (w \in k /\ g \subseteq h \cup {p}) \/ g \subseteq h
      BY <3>1, <3>2, <3>3, <3>4
    <3>6. PICK z : z = p
      OBVIOUS
    <3>7. n >= Cardinality(g) + Cardinality(k \ {w})
      <4> HIDE <3>4
      <4> QED
        BY <3>5, <3>6, CountsMove, ZenonT(60)
    <3> QED
      BY <3>4, <3>7 DEF H, P, G
  <2> QED
    BY <1>4, <2>1, <2>4, <2>5 DEF Covers
<1>11. ASSUME NEW r \in AnsPeople, r # p PROVE SumsRight(r)'
  <2>1. \A s \in AnsQuestions : AnswerOf(ansRow'[<<r, s>>]) = AnswerOf(ansRow[<<r, s>>])
    BY <1>7, <1>11
  <2>2. \A t : Presences(r, t)' = Presences(r, t) /\ Absences(r, t)' = Absences(r, t)
    BY <2>1 DEF Presences, Absences, AnswerOf
  <2>3. Answered(r)' = Answered(r)
    BY <2>1 DEF Answered, AnswerOf
  <2> QED
    BY <1>7, <1>11, <2>2, <2>3 DEF SumsRight
<1>12. SumsRight(p)'
  <2>1. /\ \A s \in AnsQuestions \ {q} : AnswerOf(ansRow'[<<p, s>>]) = AnswerOf(ansRow[<<p, s>>])
        /\ AnswerOf(ansRow'[<<p, q>>]) = new
    BY <1>2, <1>7 DEF new
  <2>2. SumsRight(p) /\ IsFiniteSet(AnsQuestions)
    BY <1>2, AnsAssumption DEF AnsAssumption
  <2>3. ansSum'[p] = Moved(ansSum[p], q, new, old) /\ ansSum[p] \in AnsSums
    BY <1>2, <1>4 DEF AnsTypeOK
  <2>4. ASSUME NEW t \in AnsTraits
        PROVE  /\ ansSum'[p][t].presence = SumOf(Presences(p, t)', AnsQuestions)
               /\ ansSum'[p][t].absence = SumOf(Absences(p, t)', AnsQuestions)
    <3> DEFINE f == Presences(p, t)
               h == [s \in AnsQuestions |-> Score(s, AnswerOf(ansRow'[<<p, s>>]))[t].presence]
               f2 == Absences(p, t)
               h2 == [s \in AnsQuestions |-> Score(s, AnswerOf(ansRow'[<<p, s>>]))[t].absence]
    <3>1. h = Presences(p, t)' /\ h2 = Absences(p, t)'
      BY DEF Presences, Absences, Score, AnswerOf
    <3>2. \A s \in AnsQuestions : \A a : Score(s, a)[t].presence \in Int /\ Score(s, a)[t].absence \in Int
      BY ScoreIs
    <3>3. /\ f \in [AnsQuestions -> Int] /\ h \in [AnsQuestions -> Int]
          /\ f2 \in [AnsQuestions -> Int] /\ h2 \in [AnsQuestions -> Int]
      BY <3>2 DEF Presences, Absences
    <3>4. /\ \A s \in AnsQuestions \ {q} : h[s] = f[s] /\ h2[s] = f2[s]
          /\ h[q] = Score(q, new)[t].presence /\ f[q] = Score(q, old)[t].presence
          /\ h2[q] = Score(q, new)[t].absence /\ f2[q] = Score(q, old)[t].absence
      BY <1>2, <1>3, <2>1 DEF Presences, Absences
    <3> HIDE DEF f, h, f2, h2
    <3>5. /\ SumOf(f, AnsQuestions) \in Int
          /\ SumOf(h, AnsQuestions) = SumOf(f, AnsQuestions) + h[q] - f[q]
      BY <1>2, <2>2, <3>3, <3>4, SumChange
    <3>6. /\ SumOf(f2, AnsQuestions) \in Int
          /\ SumOf(h2, AnsQuestions) = SumOf(f2, AnsQuestions) + h2[q] - f2[q]
      BY <1>2, <2>2, <3>3, <3>4, SumChange
    <3>7. /\ ansSum[p][t].presence = SumOf(f, AnsQuestions)
          /\ ansSum[p][t].absence = SumOf(f2, AnsQuestions)
      BY <2>2 DEF SumsRight, f, f2
    <3>8. /\ ansSum'[p][t].presence
               = ansSum[p][t].presence + Score(q, new)[t].presence - Score(q, old)[t].presence
          /\ ansSum'[p][t].absence
               = ansSum[p][t].absence + Score(q, new)[t].absence - Score(q, old)[t].absence
      BY <1>2, <2>3, MovedIs
    <3>9. /\ ansSum'[p][t].presence = SumOf(h, AnsQuestions)
          /\ ansSum'[p][t].absence = SumOf(h2, AnsQuestions)
      BY <3>4, <3>5, <3>6, <3>7, <3>8
    <3> QED
      BY <3>1, <3>9
  <2>5. ansCount'[p] = Cardinality(Answered(p)')
    <3>0. Answered(p)' = {s \in AnsQuestions : AnswerOf(ansRow'[<<p, s>>]) \in {"yes", "no"}}
      BY DEF Answered, AnswerOf
    <3>1. IsFiniteSet(Answered(p)) /\ Cardinality(Answered(p)) \in Nat
      <4>1. Answered(p) \subseteq AnsQuestions
        BY DEF Answered
      <4> QED
        BY <2>2, <4>1, FS_Subset, FS_CardinalityType
    <3>2. ansCount'[p] = Cardinality(Answered(p)) + Counts(new) - Counts(old)
      BY <1>2, <1>4, <2>2 DEF AnsTypeOK, SumsRight
    <3>3. q \in Answered(p) <=> old \in {"yes", "no"}
      BY <1>2, <1>3 DEF Answered
    <3>4. Answered(p)' = IF new \in {"yes", "no"} THEN Answered(p) \cup {q} ELSE Answered(p) \ {q}
      BY <1>2, <2>1, <3>0 DEF Answered
    <3>5. CASE new \in {"yes", "no"}
      <4>1. Cardinality(Answered(p) \cup {q})
              = IF q \in Answered(p) THEN Cardinality(Answered(p)) ELSE Cardinality(Answered(p)) + 1
        BY <3>1, FS_AddElement
      <4>2. Cardinality(Answered(p) \cup {q}) = Cardinality(Answered(p)) + Counts(new) - Counts(old)
        BY <3>1, <3>3, <3>5, <4>1 DEF Counts
      <4> QED
        BY <3>2, <3>4, <3>5, <4>2
    <3>6. CASE new \notin {"yes", "no"}
      <4>1. Cardinality(Answered(p) \ {q})
              = IF q \in Answered(p) THEN Cardinality(Answered(p)) - 1 ELSE Cardinality(Answered(p))
        BY <3>1, FS_RemoveElement
      <4>2. Cardinality(Answered(p) \ {q}) = Cardinality(Answered(p)) + Counts(new) - Counts(old)
        BY <3>1, <3>3, <3>6, <4>1 DEF Counts
      <4> QED
        BY <3>2, <3>4, <3>6, <4>2
    <3> QED
      BY <3>5, <3>6
  <2> QED
    BY <2>4, <2>5 DEF SumsRight
<1> QED
  BY <1>8, <1>9, <1>10, <1>11, <1>12

\* What is dropped is neither written nor counted again.
LEMMA FailKeeps ==
  ASSUME AnsIInv, NEW w \in AnsWorkers, TxFails(w)
  PROVE  AnsIInv'
<1> USE DEF AnsIInv
<1>1. ansTx' = [ansTx EXCEPT ![w] = AnsIdle]
      /\ UNCHANGED <<ansPhase, ansRow, ansSum, ansCount, ansYes, ansNo>>
  BY DEF TxFails
<1>2. ansTx'[w] = AnsIdle /\ \A v \in AnsWorkers \ {w} : ansTx'[v] = ansTx[v]
  BY <1>1 DEF AnsTypeOK
<1>3. AnsTypeOK'
  BY <1>1 DEF AnsTypeOK
<1>4. FreshReads'
  <2> SUFFICES ASSUME NEW v \in AnsWorkers, ansTx'[v].op = "answer", ~ansTx'[v].stale
               PROVE  /\ ansTx'[v].old = AnswerOf(ansRow'[<<ansTx'[v].person, ansTx'[v].question>>])
                      /\ ansTx'[v].sum = ansSum'[ansTx'[v].person]
                      /\ ansTx'[v].count = ansCount'[ansTx'[v].person]
    BY DEF FreshReads, AnswerOf
  <2>1. v # w
    BY <1>2 DEF AnsIdle
  <2> QED
    BY <1>1, <1>2, <2>1 DEF FreshReads
<1>5. TalliesCoverPending'
  <2> SUFFICES ASSUME NEW s \in AnsQuestions PROVE Covers(s)'
    BY DEF TalliesCoverPending
  <2>1. \A a : Pending(s, a)' \subseteq Pending(s, a) /\ Holders(s, a)' = Holders(s, a)
    BY <1>1, <1>2 DEF Pending, Holders, AnsIdle
  <2>2. \A a : Cardinality(Holders(s, a)) \in Nat /\ Cardinality(Pending(s, a)) \in Nat
    BY HoldersFinite, FS_CardinalityType
  <2>3. \A a : Cardinality(Pending(s, a)') \in Nat
               /\ Cardinality(Pending(s, a)') <= Cardinality(Pending(s, a))
    BY <2>1, HoldersFinite, FS_Subset, FS_CardinalityType
  <2>4. Covers(s) /\ ansYes[s] \in Nat /\ ansNo[s] \in Nat
    BY DEF TalliesCoverPending, AnsTypeOK
  <2>5. ansYes[s] >= Cardinality(Holders(s, "yes")) + Cardinality(Pending(s, "yes")')
    BY <2>2, <2>3, <2>4 DEF Covers
  <2>6. ansNo[s] >= Cardinality(Holders(s, "no")) + Cardinality(Pending(s, "no")')
    BY <2>2, <2>3, <2>4 DEF Covers
  <2>7. ansYes'[s] = ansYes[s] /\ ansNo'[s] = ansNo[s]
    BY <1>1
  <2> QED
    BY <2>1, <2>5, <2>6, <2>7 DEF Covers
<1>6. \A r \in AnsPeople : SumsRight(r)'
  BY <1>1 DEF SumsRight, Presences, Absences, Answered
<1> QED
  BY <1>3, <1>4, <1>5, <1>6

\* A step that reads or loads the questions leaves everything as it is.
LEMMA NextAnsIInv == AnsIInv /\ [AnsNext]_ansVars => AnsIInv'
<1> SUFFICES ASSUME AnsIInv, [AnsNext]_ansVars PROVE AnsIInv'
  OBVIOUS
<1>1. CASE /\ UNCHANGED <<ansRow, ansSum, ansCount, ansYes, ansNo, ansTx>>
           /\ ansPhase' \in {"empty", "texts", "ready"}
  <2>1. AnsTypeOK' /\ FreshReads'
    BY <1>1 DEF AnsIInv, AnsTypeOK, FreshReads, AnswerOf
  <2>2. TalliesCoverPending'
    BY <1>1 DEF AnsIInv, TalliesCoverPending, Covers, Holders, Pending
  <2>3. \A r \in AnsPeople : SumsRight(r)'
    BY <1>1 DEF AnsIInv, SumsRight, Presences, Absences, Answered
  <2> QED
    BY <2>1, <2>2, <2>3 DEF AnsIInv
<1>2. ASSUME NEW w \in AnsWorkers, NEW p \in AnsPeople, NEW q \in AnsQuestions,
             NEW row \in AnsRows, PostAnswer(w, p, q, row)
      PROVE  AnsIInv'
  <2>1. AnswerOf(row) = row.answer
    BY AnsAssumption DEF AnsAssumption, AnswerOf
  <2> QED
    BY <1>2, <2>1, BeginKeeps DEF PostAnswer
<1>3. ASSUME NEW w \in AnsWorkers, NEW p \in AnsPeople, NEW q \in AnsQuestions,
             DeleteAnswer(w, p, q)
      PROVE  AnsIInv'
  <2>1. AnswerOf(AnsNone) = "none"
    BY DEF AnswerOf
  <2>2. /\ ansYes = [ansYes EXCEPT ![q] = @ + 0]
        /\ ansNo = [ansNo EXCEPT ![q] = @ + 0]
    BY DEF AnsIInv, AnsTypeOK
  <2>3. /\ ansYes' = [ansYes EXCEPT ![q] = @ + IF AnswerOf(AnsNone) = "yes" THEN 1 ELSE 0]
        /\ ansNo' = [ansNo EXCEPT ![q] = @ + IF AnswerOf(AnsNone) = "no" THEN 1 ELSE 0]
    BY <1>3, <2>1, <2>2 DEF DeleteAnswer
  <2>4. AnsNone \in AnsRows \cup {AnsNone}
    OBVIOUS
  <2> QED
    BY <1>3, <2>3, <2>4, BeginKeeps DEF DeleteAnswer
<1>4. CASE LoadTexts \/ LoadVectors \/ UNCHANGED ansVars
  BY <1>1, <1>4 DEF LoadTexts, LoadVectors, ansVars, AnsIInv, AnsTypeOK
<1> QED
  BY <1>2, <1>3, <1>4, CommitKeeps, FailKeeps DEF AnsNext

LEMMA AnsInvariant == AnsSpec => []AnsIInv
  BY InitAnsIInv, NextAnsIInv, PTL DEF AnsSpec

\* The tallies cover what is stored.
LEMMA StoredAreCovered == AnsIInv => TalliesCoverAnswers
<1> SUFFICES ASSUME AnsIInv, NEW q \in AnsQuestions
             PROVE  /\ ansYes[q] >= Cardinality(Holders(q, "yes"))
                    /\ ansNo[q] >= Cardinality(Holders(q, "no"))
  BY DEF TalliesCoverAnswers, Holders
<1>1. Covers(q) /\ ansYes[q] \in Nat /\ ansNo[q] \in Nat
  BY DEF AnsIInv, TalliesCoverPending, AnsTypeOK
<1>2. \A a : Cardinality(Holders(q, a)) \in Nat /\ Cardinality(Pending(q, a)) \in Nat
  BY HoldersFinite, FS_CardinalityType
<1> QED
  BY <1>1, <1>2 DEF Covers

\* The three pages share out the list.
LEMMA PagesPartition == ComparisonsPartition
<1> SUFFICES ASSUME NEW p \in AnsPeople, NEW r \in AnsPeople
             PROVE  /\ Compared(p, r, "All") = Compared(p, r, "Agree") \cup Compared(p, r, "Disagree")
                                               \cup Compared(p, r, "Unanswered")
                    /\ Compared(p, r, "Agree") \cap Compared(p, r, "Disagree") = {}
                    /\ Compared(p, r, "Unanswered")
                         \cap (Compared(p, r, "Agree") \cup Compared(p, r, "Disagree")) = {}
  BY DEF ComparisonsPartition
<1>1. \A q : AnswerOf(ansRow[<<r, q>>]) \in {"yes", "no"} =>
              ansRow[<<r, q>>].answer = AnswerOf(ansRow[<<r, q>>])
  BY DEF AnswerOf
<1> QED
  BY <1>1 DEF Compared

\* What the answers add up to: the running sums and the count of every person
\* are those of the answers stored, the tallies of every question cover them,
\* and the pages of a comparison share them out (Q_UPDATE_ANSWER and
\* Q_ANSWER_COMPARISON).
THEOREM AnswersRight == AnsSpec => [](ScoresAreSums /\ TalliesCoverAnswers /\ ComparisonsPartition)
<1>1. AnsIInv => ScoresAreSums /\ TalliesCoverAnswers /\ ComparisonsPartition
  BY SumsAre, StoredAreCovered, PagesPartition DEF AnsIInv
<1> QED
  BY <1>1, AnsInvariant, PTL

-----------------------------------------------------------------------------
(* Clubs.                                                                      *)

PersonRows == [activated : BOOLEAN, gold : BOOLEAN]
Ops == {"register", "signin", "join", "leave", "deactivate", "delete", "gold"}
Plans ==
  [op : Ops, who : People, me : SUBSET PersonRows, add : SUBSET Clubs, drop : SUBSET Clubs,
   mark : SUBSET Clubs, up : SUBSET Clubs, down : SUBSET Clubs, copy : BOOLEAN,
   seen : SUBSET Clubs, raced : BOOLEAN]

\* The memberships whose rows a transaction writes.
Touched(t) == IF t.op = "delete" THEN Clubs ELSE t.add \cup t.drop \cup t.mark

\* What the plan of each operation looks like, whatever the snapshot.
Shape(t) ==
  /\ \A c, d \in t.add : c = d
  /\ t.me # {} \/ Touched(t) # {}
  /\ t.op = "register" =>
       /\ t.me = {[activated |-> TRUE, gold |-> FALSE]} /\ t.up = t.add /\ t.copy
       /\ t.drop = {} /\ t.mark = {} /\ t.down = {}
  /\ t.op = "signin" =>
       /\ t.up = t.add \cup t.mark /\ t.seen = t.mark /\ t.copy
       /\ t.drop = {} /\ t.down = {}
  /\ t.op = "join" =>
       t.me = {} /\ t.up = t.add /\ t.drop = {} /\ t.mark = {} /\ t.down = {}
  /\ t.op = "leave" =>
       t.me = {} /\ t.down = t.drop /\ t.add = {} /\ t.mark = {} /\ t.up = {}
  /\ t.op = "deactivate" =>
       /\ t.down = t.mark /\ t.seen = t.mark /\ ~t.copy
       /\ t.add = {} /\ t.drop = {} /\ t.up = {}
  /\ t.op = "delete" => t.add = {} /\ t.mark = {} /\ t.up = {}
  /\ t.op = "gold" => t.down = t.drop /\ t.add = {} /\ t.mark = {} /\ t.up = {}

\* What it has read of the person's row is still so: whoever writes that row
\* conflicts with those that depend on it.
RowFits(t) ==
  /\ t.op = "register" <=> t.who \notin DOMAIN person
  /\ t.op = "signin" =>
       /\ t.me = {[activated |-> TRUE, gold |-> person[t.who].gold]}
       /\ person[t.who].activated => t.mark = {}
  /\ t.op = "deactivate" =>
       /\ t.me = {[activated |-> FALSE, gold |-> person[t.who].gold]}
       /\ person[t.who].activated
  /\ t.op = "delete" =>
       t.me = {person[t.who]} /\ t.down = IF person[t.who].activated THEN t.drop ELSE {}
  /\ t.op = "gold" =>
       \E g \in BOOLEAN : t.me = {[activated |-> person[t.who].activated, gold |-> g]}

\* The memberships that it writes are as it has read them.
MembersFit(t) ==
  /\ t.drop \cup t.mark \subseteq ClubsOf(t.who)
  /\ t.add \cap ClubsOf(t.who) = {}
  /\ t.op = "delete" => t.drop = ClubsOf(t.who)

\* The quota it has checked holds, unless another one counted meanwhile.
GoldOf(t) == IF t.op = "register" THEN FALSE ELSE person[t.who].gold
QuotaFits(t) ==
  ~t.raced =>
    /\ t.add # {} => Cardinality(ClubsOf(t.who)) < Quota(GoldOf(t))
    /\ t.op = "gold" => \A m \in t.me : Cardinality(ClubsOf(t.who) \ t.drop) <= Quota(m.gold)

PlanFits(t) == t \in Plans /\ Shape(t) /\ RowFits(t) /\ MembersFit(t) /\ QuotaFits(t)
PlansFit == \A w \in DOMAIN tx : \E t \in {tx[w]} : PlanFits(t)

\* The cron job's transaction too: whom it saw awake still is, and the memberships
\* that it saw are there.
PassFits == \A s \in pass :
  /\ s.asleep \subseteq DOMAIN person /\ \A p \in s.asleep : person[p].activated
  /\ s.seen \subseteq DOMAIN member /\ \A m \in s.seen : m[1] \in s.asleep

ClubsIInv ==
  ClubsTypeOK /\ PlansFit /\ PassFits /\ CountsAreExact /\ CopiesAgree /\ QuotaHolds

-----------------------------------------------------------------------------
\* A plan that is made fits, and what is open stays as it is.
LEMMA OpenKeeps ==
  ASSUME ClubsIInv, NEW w \in Workers, NEW t, PlanFits(t), Begin(w, t)
  PROVE  ClubsIInv'
<1>1. /\ DOMAIN tx' = DOMAIN tx \cup {w} /\ tx'[w] = t
      /\ \A v \in DOMAIN tx : tx'[v] = tx[v]
      /\ UNCHANGED <<person, member, count, pass, drift, skewed, raced>>
  BY DEF Begin, tables, history
<1>2. ClubsTypeOK' /\ PassFits'
  BY <1>1 DEF ClubsIInv, ClubsTypeOK, PassFits
<1>3. CountsAreExact' /\ CopiesAgree' /\ QuotaHolds'
  BY <1>1 DEF ClubsIInv, CountsAreExact, Active, CopiesAgree, Stale, QuotaHolds, Exceeds, ClubsOf
<1>4. ASSUME NEW u, PlanFits(u) PROVE PlanFits(u)'
  BY <1>1, <1>4, ZenonT(60) DEF PlanFits, RowFits, MembersFit, QuotaFits, ClubsOf, GoldOf
<1>5. PlansFit'
  BY <1>1, <1>4 DEF ClubsIInv, PlansFit
<1> QED
  BY <1>2, <1>3, <1>5 DEF ClubsIInv

LEMMA ActivatedIs ==
  ASSUME NEW x \in PersonRows, NEW b \in BOOLEAN
  PROVE  {[x EXCEPT !.activated = b]} = {[activated |-> b, gold |-> x.gold]}
  BY DEF PersonRows

\* A club is joined only when it is none of the member's and there is room.
LEMMA JoinedIs ==
  ASSUME NEW c, NEW mine, NEW gold \in BOOLEAN
  PROVE  LET j == Joined(c, mine, gold) IN
         /\ j \in SUBSET Clubs /\ j \cap mine = {} /\ \A a, b \in j : a = b
         /\ j # {} => Cardinality(mine) < Quota(gold)
  BY DEF Joined

LEMMA ClubsOfIs ==
  \A p : ClubsOf(p) \in SUBSET Clubs /\ IsFiniteSet(ClubsOf(p)) /\ Cardinality(ClubsOf(p)) \in Nat
<1>1. \A p : ClubsOf(p) \in SUBSET Clubs
  BY DEF ClubsOf
<1> QED
  BY <1>1, FS_Subset, FS_CardinalityType, ClubsAssumption DEF ClubsAssumption

\* Each operation makes a plan that fits.
LEMMA RegisterFits ==
  ASSUME ClubsIInv, NEW w \in Workers, NEW p \in People, NEW c, FinishOnboarding(w, p, c)
  PROVE  ClubsIInv'
<1> DEFINE m == {[activated |-> TRUE, gold |-> FALSE]}
           j == Joined(c, {}, FALSE)
           r == [Reading("register", p) EXCEPT !.me = m, !.add = j, !.up = j, !.copy = TRUE]
<1>1. p \notin DOMAIN person /\ Begin(w, r)
  BY DEF FinishOnboarding
<1>2. /\ j \in SUBSET Clubs /\ \A a, b \in j : a = b
      /\ j # {} => Cardinality({}) < Quota(FALSE)
  BY JoinedIs
<1>3. m \in SUBSET PersonRows /\ m = {[activated |-> TRUE, gold |-> FALSE]}
  BY DEF PersonRows
<1> HIDE DEF j, m
<1>4. /\ r \in Plans /\ r.op = "register" /\ r.who = p
      /\ r.me = m /\ r.add = j /\ r.drop = {} /\ r.mark = {}
      /\ r.up = j /\ r.down = {} /\ r.copy = TRUE /\ r.seen = {} /\ r.raced = FALSE
  BY <1>2, <1>3 DEF Reading, Plans, Ops
<1> HIDE DEF r
<1>5. ClubsOf(p) = {}
  BY <1>1 DEF ClubsIInv, ClubsTypeOK, ClubsOf
<1>6. Shape(r) /\ RowFits(r) /\ MembersFit(r)
  BY <1>1, <1>2, <1>3, <1>4, <1>5 DEF Shape, RowFits, MembersFit
<1>7. QuotaFits(r)
  BY <1>2, <1>4, <1>5, Zenon DEF QuotaFits, GoldOf
<1> QED
  BY <1>1, <1>4, <1>6, <1>7, OpenKeeps DEF PlanFits

LEMMA SigninFits ==
  ASSUME ClubsIInv, NEW w \in Workers, NEW p \in People, NEW c, CheckOtp(w, p, c)
  PROVE  ClubsIInv'
<1> DEFINE m == {[person[p] EXCEPT !.activated = TRUE]}
           j == Joined(c, ClubsOf(p), person[p].gold)
           k == IF person[p].activated THEN {} ELSE ClubsOf(p)
           r == [Reading("signin", p) EXCEPT !.me = m, !.add = j, !.mark = k, !.up = j \cup k,
                                              !.copy = TRUE, !.seen = k]
<1>1. p \in DOMAIN person /\ Begin(w, r)
  BY DEF CheckOtp
<1>2. person[p] \in PersonRows
  BY <1>1 DEF ClubsIInv, ClubsTypeOK, PersonRows
<1>3. /\ j \in SUBSET Clubs /\ j \cap ClubsOf(p) = {} /\ \A a, b \in j : a = b
      /\ j # {} => Cardinality(ClubsOf(p)) < Quota(person[p].gold)
  BY <1>2, JoinedIs DEF PersonRows
<1>4. k \in SUBSET Clubs /\ k \subseteq ClubsOf(p) /\ (person[p].activated => k = {})
  BY ClubsOfIs
<1>5. m \in SUBSET PersonRows /\ m = {[activated |-> TRUE, gold |-> person[p].gold]}
  <2>1. m = {[activated |-> TRUE, gold |-> person[p].gold]}
    BY <1>2, ActivatedIs
  <2> QED
    BY <1>2, <2>1 DEF PersonRows
<1> HIDE DEF j, k, m
<1>6. /\ r \in Plans /\ r.op = "signin" /\ r.who = p
      /\ r.me = m /\ r.add = j /\ r.drop = {} /\ r.mark = k
      /\ r.up = j \cup k /\ r.down = {} /\ r.copy = TRUE /\ r.seen = k /\ r.raced = FALSE
  <2>1. j \cup k \in SUBSET Clubs
    BY <1>3, <1>4
  <2> QED
    BY <1>3, <1>4, <1>5, <2>1 DEF Reading, Plans, Ops
<1> HIDE DEF r
<1>7. Shape(r) /\ RowFits(r) /\ MembersFit(r)
  BY <1>1, <1>3, <1>4, <1>5, <1>6 DEF Shape, RowFits, MembersFit
<1>8. QuotaFits(r)
  BY <1>3, <1>6 DEF QuotaFits, GoldOf
<1> QED
  BY <1>1, <1>6, <1>7, <1>8, OpenKeeps DEF PlanFits

LEMMA JoinFits ==
  ASSUME ClubsIInv, NEW w \in Workers, NEW p \in People, NEW c, JoinClub(w, p, c)
  PROVE  ClubsIInv'
<1> DEFINE j == Joined(c, ClubsOf(p), person[p].gold)
           b == person[p].activated
           r == [Reading("join", p) EXCEPT !.add = j, !.up = j, !.copy = b]
<1>1. p \in DOMAIN person /\ Begin(w, r)
  BY DEF JoinClub
<1>2. person[p].gold \in BOOLEAN /\ b \in BOOLEAN
  BY <1>1 DEF ClubsIInv, ClubsTypeOK
<1>3. /\ j \in SUBSET Clubs /\ j \cap ClubsOf(p) = {} /\ \A x, y \in j : x = y
      /\ j # {} => Cardinality(ClubsOf(p)) < Quota(person[p].gold)
  BY <1>2, JoinedIs
<1> HIDE DEF j, b
<1>4. /\ r \in Plans /\ r.op = "join" /\ r.who = p
      /\ r.me = {} /\ r.add = j /\ r.drop = {} /\ r.mark = {}
      /\ r.up = j /\ r.down = {} /\ r.copy = b /\ r.seen = {} /\ r.raced = FALSE
  BY <1>2, <1>3 DEF Reading, Plans, Ops
<1> HIDE DEF r
<1>5. j # {}
  BY <1>1, <1>4 DEF Begin, Written
<1>6. Shape(r) /\ RowFits(r) /\ MembersFit(r)
  BY <1>1, <1>3, <1>4, <1>5 DEF Shape, RowFits, MembersFit, Touched
<1>7. QuotaFits(r)
  BY <1>3, <1>4 DEF QuotaFits, GoldOf
<1> QED
  BY <1>1, <1>4, <1>6, <1>7, OpenKeeps DEF PlanFits

LEMMA LeaveFits ==
  ASSUME ClubsIInv, NEW w \in Workers, NEW p \in People, NEW c, LeaveClub(w, p, c)
  PROVE  ClubsIInv'
<1> DEFINE j == {c} \cap ClubsOf(p)
           r == [Reading("leave", p) EXCEPT !.drop = j, !.down = j]
<1>1. p \in DOMAIN person /\ Begin(w, r)
  BY DEF LeaveClub
<1>2. j \in SUBSET Clubs /\ j \subseteq ClubsOf(p)
  BY ClubsOfIs
<1> HIDE DEF j
<1>3. /\ r \in Plans /\ r.op = "leave" /\ r.who = p
      /\ r.me = {} /\ r.add = {} /\ r.drop = j /\ r.mark = {}
      /\ r.up = {} /\ r.down = j /\ r.copy = FALSE /\ r.seen = {} /\ r.raced = FALSE
  BY <1>2 DEF Reading, Plans, Ops
<1> HIDE DEF r
<1>4. j # {}
  BY <1>1, <1>3 DEF Begin, Written
<1>5. Shape(r) /\ RowFits(r) /\ MembersFit(r) /\ QuotaFits(r)
  BY <1>1, <1>2, <1>3, <1>4 DEF Shape, RowFits, MembersFit, QuotaFits, Touched
<1> QED
  BY <1>1, <1>3, <1>5, OpenKeeps DEF PlanFits

LEMMA DeactivateFits ==
  ASSUME ClubsIInv, NEW w \in Workers, NEW p \in People, Deactivate(w, p)
  PROVE  ClubsIInv'
<1> DEFINE m == {[person[p] EXCEPT !.activated = FALSE]}
           k == ClubsOf(p)
           r == [Reading("deactivate", p) EXCEPT !.me = m, !.mark = k, !.down = k, !.seen = k]
<1>1. p \in DOMAIN person /\ person[p].activated /\ Begin(w, r)
  BY DEF Deactivate
<1>2. person[p] \in PersonRows
  BY <1>1 DEF ClubsIInv, ClubsTypeOK, PersonRows
<1>3. m \in SUBSET PersonRows /\ m = {[activated |-> FALSE, gold |-> person[p].gold]}
  <2>1. m = {[activated |-> FALSE, gold |-> person[p].gold]}
    BY <1>2, ActivatedIs
  <2> QED
    BY <1>2, <2>1 DEF PersonRows
<1>4. k \in SUBSET Clubs /\ k \subseteq ClubsOf(p)
  BY ClubsOfIs
<1> HIDE DEF k, m
<1>5. /\ r \in Plans /\ r.op = "deactivate" /\ r.who = p
      /\ r.me = m /\ r.add = {} /\ r.drop = {} /\ r.mark = k
      /\ r.up = {} /\ r.down = k /\ r.copy = FALSE /\ r.seen = k /\ r.raced = FALSE
  BY <1>3, <1>4 DEF Reading, Plans, Ops
<1> HIDE DEF r
<1>6. Shape(r) /\ RowFits(r) /\ MembersFit(r) /\ QuotaFits(r)
  BY <1>1, <1>3, <1>4, <1>5 DEF Shape, RowFits, MembersFit, QuotaFits
<1> QED
  BY <1>1, <1>5, <1>6, OpenKeeps DEF PlanFits

LEMMA DeleteFits ==
  ASSUME ClubsIInv, NEW w \in Workers, NEW p \in People, DeleteAccount(w, p)
  PROVE  ClubsIInv'
<1> DEFINE m == {person[p]}
           j == ClubsOf(p)
           k == IF person[p].activated THEN ClubsOf(p) ELSE {}
           r == [Reading("delete", p) EXCEPT !.me = m, !.drop = j, !.down = k]
<1>1. p \in DOMAIN person /\ Begin(w, r)
  BY DEF DeleteAccount
<1>2. m \in SUBSET PersonRows
  BY <1>1 DEF ClubsIInv, ClubsTypeOK, PersonRows
<1>3. /\ j \in SUBSET Clubs /\ j = ClubsOf(p) /\ k \in SUBSET Clubs
      /\ k = IF person[p].activated THEN j ELSE {}
  BY ClubsOfIs
<1>4. m = {person[p]}
  OBVIOUS
<1> HIDE DEF j, k, m
<1>5. /\ r \in Plans /\ r.op = "delete" /\ r.who = p
      /\ r.me = m /\ r.add = {} /\ r.drop = j /\ r.mark = {}
      /\ r.up = {} /\ r.down = k /\ r.copy = FALSE /\ r.seen = {} /\ r.raced = FALSE
  BY <1>2, <1>3 DEF Reading, Plans, Ops
<1> HIDE DEF r
<1>6. Shape(r) /\ RowFits(r) /\ MembersFit(r) /\ QuotaFits(r)
  BY <1>1, <1>3, <1>4, <1>5 DEF Shape, RowFits, MembersFit, QuotaFits
<1> QED
  BY <1>1, <1>5, <1>6, OpenKeeps DEF PlanFits

LEMMA GoldFits ==
  ASSUME ClubsIInv, NEW w \in Workers, NEW p \in People, NEW gold \in BOOLEAN,
         UpdateGold(w, p, gold)
  PROVE  ClubsIInv'
<1>1. PICK K \in Kept(p, gold) :
        Begin(w, [Reading("gold", p) EXCEPT
                   !.me = {[person[p] EXCEPT !.gold = gold]},
                   !.drop = ClubsOf(p) \ K, !.down = ClubsOf(p) \ K])
  BY DEF UpdateGold
<1> DEFINE m == {[person[p] EXCEPT !.gold = gold]}
           j == ClubsOf(p) \ K
           r == [Reading("gold", p) EXCEPT !.me = m, !.drop = j, !.down = j]
<1>2. p \in DOMAIN person /\ Begin(w, r)
  BY <1>1 DEF UpdateGold
<1>3. person[p] \in PersonRows
  BY <1>2 DEF ClubsIInv, ClubsTypeOK, PersonRows
<1>4. m \in SUBSET PersonRows /\ m = {[activated |-> person[p].activated, gold |-> gold]}
  BY <1>3 DEF PersonRows
<1>5. j \in SUBSET Clubs /\ j \subseteq ClubsOf(p)
  BY ClubsOfIs
<1>6. Cardinality(ClubsOf(p) \ j) <= Quota(gold)
  <2>1. ClubsOf(p) \ j = K
    BY DEF Kept
  <2>2. Cardinality(K) <= Quota(gold)
    BY ClubsAssumption DEF ClubsAssumption, Kept, Quota
  <2> QED
    BY <2>1, <2>2
<1> HIDE DEF j, m
<1>7. /\ r \in Plans /\ r.op = "gold" /\ r.who = p
      /\ r.me = m /\ r.add = {} /\ r.drop = j /\ r.mark = {}
      /\ r.up = {} /\ r.down = j /\ r.copy = FALSE /\ r.seen = {} /\ r.raced = FALSE
  BY <1>4, <1>5 DEF Reading, Plans, Ops
<1> HIDE DEF r
<1>8. Shape(r) /\ RowFits(r) /\ MembersFit(r)
  BY <1>2, <1>4, <1>5, <1>7 DEF Shape, RowFits, MembersFit
<1>9. QuotaFits(r)
  BY <1>4, <1>6, <1>7 DEF QuotaFits
<1> QED
  BY <1>2, <1>7, <1>8, <1>9, OpenKeeps DEF PlanFits

-----------------------------------------------------------------------------
\* What is given up leaves nothing behind.
LEMMA AbortLeaves ==
  ASSUME ClubsIInv, NEW w \in DOMAIN tx, Abort(w)
  PROVE  ClubsIInv'
<1>1. /\ DOMAIN tx' \subseteq DOMAIN tx
      /\ \A v \in DOMAIN tx' : tx'[v] = tx[v]
      /\ UNCHANGED <<person, member, count, pass, drift, skewed, raced>>
  BY DEF Abort, Restrict, tables, history
<1>2. ClubsTypeOK' /\ PassFits'
  BY <1>1 DEF ClubsIInv, ClubsTypeOK, PassFits
<1>3. CountsAreExact' /\ CopiesAgree' /\ QuotaHolds'
  BY <1>1 DEF ClubsIInv, CountsAreExact, Active, CopiesAgree, Stale, QuotaHolds, Exceeds, ClubsOf
<1>4. ASSUME NEW u, PlanFits(u) PROVE PlanFits(u)'
  BY <1>1, <1>4 DEF PlanFits, RowFits, MembersFit, QuotaFits, ClubsOf, GoldOf
<1>5. PlansFit'
  BY <1>1, <1>4 DEF ClubsIInv, PlansFit
<1> QED
  BY <1>2, <1>3, <1>5 DEF ClubsIInv

\* What the commit of t makes of the tables.
After(t) ==
  /\ DOMAIN person' = IF t.op = "delete" THEN DOMAIN person \ {t.who} ELSE DOMAIN person \cup {t.who}
  /\ \A q \in DOMAIN person' \ {t.who} : person'[q] = person[q]
  /\ t.op # "delete" /\ t.me = {} => person'[t.who] = person[t.who]
  /\ t.op # "delete" /\ t.me # {} => t.me = {person'[t.who]}
  /\ DOMAIN member' = (DOMAIN member \ ({t.who} \X t.drop)) \cup ({t.who} \X t.add)
  /\ \A m \in DOMAIN member' : member'[m] =
       IF m \in ({t.who} \X t.add) \cup ({t.who} \X t.mark) THEN t.copy ELSE member[m]
  /\ DOMAIN count' = DOMAIN count \cup t.up
  /\ \A c \in DOMAIN count' : count'[c] = NewCount(t, c)
  /\ \A c \in Unseen(t) \cup Uncounted(t) : drift[c] < MaxDrift
  /\ drift' = [c \in Clubs |-> IF c \in Unseen(t) \cup Uncounted(t) THEN drift[c] + 1 ELSE drift[c]]
  /\ raced' = {p \in raced \cup IF t.raced THEN {t.who} ELSE {} : p \in DOMAIN person' /\ Exceeds(p)'}
  /\ skewed' = {m \in skewed \cup ({t.who} \X (Unseen(t) \cup Crossed(t))) :
                  m \in DOMAIN member' /\ Stale(m)'}

LEMMA CommitIs ==
  ASSUME NEW w, NEW t, t = tx[w], PlanFits(t), Commit(w)
  PROVE  After(t)
<1>1. person' = PersonAfter(t)
  BY DEF Commit
<1>2. t.op # "register" => t.who \in DOMAIN person
  BY DEF PlanFits, RowFits
<1>3. t.me # {} => \E m : t.me = {m}
  BY DEF PlanFits, Plans, Ops, Shape, RowFits
<1>4. CASE t.op = "delete"
  BY <1>1, <1>4 DEF PersonAfter, Restrict, Commit, After
<1>5. CASE t.op # "delete" /\ t.me = {}
  <2>1. t.who \in DOMAIN person
    BY <1>2, <1>5 DEF PlanFits, Shape
  <2>2. person' = [p \in DOMAIN person |-> person[p]]
    BY <1>1, <1>5 DEF PersonAfter
  <2> QED
    BY <1>5, <2>1, <2>2 DEF Commit, After
<1>6. CASE t.op # "delete" /\ t.me # {}
  <2>1. PICK x : t.me = {x}
    BY <1>3, <1>6
  <2>2. (CHOOSE m \in t.me : TRUE) = x
    BY <2>1
  <2>3. person' = [p \in DOMAIN person \cup {t.who} |-> IF p = t.who THEN x ELSE person[p]]
    BY <1>1, <1>6, <2>1, <2>2 DEF PersonAfter
  <2> QED
    BY <1>6, <2>1, <2>3 DEF Commit, After
<1> QED
  BY <1>4, <1>5, <1>6

\* Whose clubs change, and how.
LEMMA ClubsAfter ==
  ASSUME NEW t, PlanFits(t), After(t)
  PROVE  /\ ClubsOf(t.who)' = (ClubsOf(t.who) \ t.drop) \cup t.add
         /\ \A q : q # t.who => ClubsOf(q)' = ClubsOf(q)
<1>1. t.add \subseteq Clubs
  BY DEF PlanFits, Plans
<1>2. \A q, c : <<q, c>> \in DOMAIN member' <=>
         \/ <<q, c>> \in DOMAIN member /\ ~(q = t.who /\ c \in t.drop)
         \/ q = t.who /\ c \in t.add
  BY DEF After
<1> QED
  BY <1>1, <1>2 DEF ClubsOf

LEMMA TypesAfter ==
  ASSUME ClubsIInv, NEW w \in DOMAIN tx, NEW t, t = tx[w], PlanFits(t), Commit(w), After(t)
  PROVE  ClubsTypeOK'
<1> USE DEF ClubsIInv
<1>1. t.who \in People /\ t.me \in SUBSET PersonRows /\ t.copy \in BOOLEAN
      /\ t.add \in SUBSET Clubs /\ t.up \in SUBSET Clubs
  BY DEF PlanFits, Plans
<1>2. DOMAIN person' \subseteq People
  BY <1>1 DEF After, ClubsTypeOK
<1>3. ASSUME NEW q \in DOMAIN person' PROVE person'[q] \in [activated : BOOLEAN, gold : BOOLEAN]
  <2>1. CASE q # t.who
    BY <2>1 DEF After, ClubsTypeOK
  <2>2. CASE q = t.who /\ t.me = {}
    BY <2>2 DEF After, ClubsTypeOK, PlanFits, RowFits, Shape
  <2>3. CASE q = t.who /\ t.me # {}
    BY <1>1, <2>3 DEF After, ClubsTypeOK, PersonRows
  <2> QED
    BY <2>1, <2>2, <2>3
<1>4. t.add \subseteq t.up
  BY DEF PlanFits, Plans, Ops, Shape
<1>5. DOMAIN member' \subseteq (DOMAIN person') \X (DOMAIN count')
  <2>1. ASSUME NEW m \in DOMAIN member' PROVE m \in (DOMAIN person') \X (DOMAIN count')
    <3>1. CASE m \in {t.who} \X t.add
      <4>1. t.op # "delete"
        BY <3>1 DEF PlanFits, Shape
      <4> QED
        BY <1>4, <3>1, <4>1 DEF After
    <3>2. CASE m \in DOMAIN member \ ({t.who} \X t.drop)
      <4>1. PICK q \in DOMAIN person, c \in DOMAIN count : m = <<q, c>>
        BY <3>2 DEF ClubsTypeOK
      <4>2. c \in Clubs
        BY DEF ClubsTypeOK
      <4>3. t.op = "delete" => q # t.who
        BY <3>2, <4>1, <4>2 DEF PlanFits, MembersFit, ClubsOf
      <4> QED
        BY <4>1, <4>3 DEF After
    <3> QED
      BY <3>1, <3>2 DEF After
  <2> QED
    BY <2>1
<1>6. \A m \in DOMAIN member' : member'[m] \in BOOLEAN
  BY <1>1 DEF After, ClubsTypeOK
<1>7. ASSUME NEW c \in DOMAIN count' PROVE c \in Clubs /\ count'[c] \in Int
  BY <1>1 DEF After, ClubsTypeOK, NewCount
<1>8. /\ DOMAIN tx' \subseteq Workers
      /\ pass' \subseteq [asleep : SUBSET People, seen : SUBSET (People \X Clubs)]
  BY DEF Commit, ClubsTypeOK
<1>9. drift' \in [Clubs -> 0..MaxDrift]
  <2>1. \A c \in Clubs : drift[c] \in 0..MaxDrift
    BY DEF ClubsTypeOK
  <2>2. MaxDrift \in Nat
    BY ClubsAssumption DEF ClubsAssumption
  <2>3. \A c \in Clubs : (IF c \in Unseen(t) \cup Uncounted(t) THEN drift[c] + 1 ELSE drift[c])
                           \in 0..MaxDrift
    BY <2>1, <2>2 DEF After
  <2> QED
    BY <2>3 DEF After
<1>10. skewed' \subseteq People \X Clubs
  <2>1. Unseen(t) \cup Crossed(t) \subseteq Clubs
    BY <1>1, ClubsOfIs DEF Unseen, Crossed
  <2> QED
    BY <1>1, <2>1 DEF After, ClubsTypeOK
<1> QED
  BY <1>2, <1>3, <1>5, <1>6, <1>7, <1>8, <1>9, <1>10 DEF ClubsTypeOK

\* Of two that both commit, one at most writes the person's row, and they write
\* different memberships.
LEMMA Apart ==
  ASSUME NEW t, NEW u, PlanFits(t), PlanFits(u), ~Conflict(t, u), t.who = u.who
  PROVE  (t.me = {} \/ u.me = {}) /\ Touched(t) \cap Touched(u) = {}
<1>1. \A m \in t.me, n \in u.me : <<t.who>> \in Written(t) \cap Written(u)
  BY DEF Written
<1>2. \A c \in Touched(t) \cap Touched(u) : <<t.who, c>> \in Written(t) \cap Written(u)
  BY DEF Written, Touched
<1> QED
  BY <1>1, <1>2 DEF Conflict

\* What another transaction has read of its rows is still so after a commit that
\* does not conflict with it; what it has counted may not be, but then it knows.
LEMMA StillFits ==
  ASSUME ClubsIInv, NEW t, NEW u, PlanFits(t), PlanFits(u), ~Conflict(t, u), After(t),
         NEW z, z = IF Races(t, u) THEN [u EXCEPT !.raced = TRUE] ELSE u
  PROVE  PlanFits(z)'
<1>1. /\ z \in Plans /\ z.op = u.op /\ z.who = u.who /\ z.me = u.me /\ z.add = u.add
      /\ z.drop = u.drop /\ z.mark = u.mark /\ z.up = u.up /\ z.down = u.down
      /\ z.copy = u.copy /\ z.seen = u.seen
      /\ (~z.raced => ~u.raced /\ ~Races(t, u))
  <2>1. u \in Plans
    BY DEF PlanFits
  <2>2. CASE ~Races(t, u)
    BY <2>1, <2>2
  <2>3. CASE Races(t, u)
    <3>1. z = [u EXCEPT !.raced = TRUE]
      BY <2>3
    <3>2. z \in Plans
      BY <2>1, <3>1 DEF Plans
    <3>3. z.raced
      BY <2>1, <3>1 DEF Plans
    <3> QED
      BY <2>1, <3>1, <3>2, <3>3 DEF Plans
  <2> QED
    BY <2>2, <2>3
<1> DEFINE p == u.who
           mine == ClubsOf(p)'
<1>2. p \in People /\ t.who \in People
  BY DEF PlanFits, Plans
<1>3. Shape(z)
  BY <1>1 DEF PlanFits, Shape, Touched
<1>4. CASE t.who # p
  <2>1. ClubsOf(p)' = ClubsOf(p)
    BY <1>4, ClubsAfter
  <2>2. (p \in DOMAIN person' <=> p \in DOMAIN person)
        /\ (p \in DOMAIN person => person'[p] = person[p])
    BY <1>4 DEF After
  <2>3. RowFits(z)'
    BY <1>1, <2>2 DEF PlanFits, RowFits
  <2>4. MembersFit(z)'
    BY <1>1, <2>1 DEF PlanFits, MembersFit
  <2>5. QuotaFits(z)'
    <3>1. u.op # "register" => p \in DOMAIN person
      BY DEF PlanFits, RowFits
    <3> QED
      BY <1>1, <2>1, <2>2, <3>1 DEF PlanFits, QuotaFits, GoldOf
  <2> QED
    BY <1>1, <1>3, <2>3, <2>4, <2>5 DEF PlanFits, Shape
<1>5. CASE t.who = p
  <2>1. (t.me = {} \/ u.me = {}) /\ Touched(t) \cap Touched(u) = {}
    BY <1>5, Apart
  <2>2. t.op # "delete" /\ u.op # "delete"
    <3>1. t.me # {} \/ Touched(t) # {}
      BY DEF PlanFits, Shape
    <3>2. u.me # {} \/ Touched(u) # {}
      BY DEF PlanFits, Shape
    <3>3. t.op = "delete" => t.me # {}
      BY DEF PlanFits, RowFits
    <3>4. u.op = "delete" => u.me # {}
      BY DEF PlanFits, RowFits
    <3>5. Touched(t) \subseteq Clubs /\ Touched(u) \subseteq Clubs
      BY DEF PlanFits, Plans, Touched
    <3>6. t.op = "delete" => Touched(t) = Clubs
      BY DEF Touched
    <3>7. u.op = "delete" => Touched(u) = Clubs
      BY DEF Touched
    <3> QED
      BY <2>1, <3>1, <3>2, <3>3, <3>4, <3>5, <3>6, <3>7
  <2>3. t.op # "register" /\ u.op # "register" /\ p \in DOMAIN person
    BY <1>5, <2>1 DEF PlanFits, RowFits, Shape
  <2>4. /\ ClubsOf(p)' = (ClubsOf(p) \ t.drop) \cup t.add
        /\ t.drop \cap (u.add \cup u.drop \cup u.mark) = {}
        /\ t.add \cap (u.add \cup u.drop \cup u.mark) = {}
    BY <1>5, <2>1, <2>2, ClubsAfter DEF Touched
  <2>5. MembersFit(z)'
    BY <1>1, <2>2, <2>4 DEF PlanFits, MembersFit
  <2>6. p \in DOMAIN person' /\ (t.me = {} => person'[p] = person[p])
    BY <1>5, <2>2 DEF After
  <2>7. t.me # {} => u.op \in {"join", "leave"}
    BY <2>1, <2>2, <2>3 DEF PlanFits, RowFits, Plans, Ops
  <2>8. RowFits(z)'
    BY <1>1, <2>2, <2>3, <2>6, <2>7 DEF PlanFits, RowFits
  <2>9. QuotaFits(z)'
    <3> SUFFICES ASSUME ~z.raced
                 PROVE  /\ u.add # {} => Cardinality(ClubsOf(p)') < Quota(person'[p].gold)
                        /\ u.op = "gold" => \A m \in u.me : Cardinality(ClubsOf(p)' \ u.drop) <= Quota(m.gold)
      BY <1>1, <2>3 DEF QuotaFits, GoldOf, Quota
    <3>1. SUFFICES ASSUME OnQuota(u)
                   PROVE  /\ u.add # {} => Cardinality(ClubsOf(p)') < Quota(person'[p].gold)
                          /\ u.op = "gold" => \A m \in u.me : Cardinality(ClubsOf(p)' \ u.drop) <= Quota(m.gold)
      BY DEF OnQuota
    <3>2. ~u.raced /\ ~OnQuota(t)
      BY <1>1, <1>5, <3>1 DEF Races
    <3>3. t.add = {} /\ t.op # "gold"
      BY <3>2 DEF OnQuota
    <3>4. ClubsOf(p)' \subseteq ClubsOf(p)
      BY <2>4, <3>3
    <3>5. person'[p].gold = person[p].gold
      <4>1. CASE t.me = {}
        BY <2>6, <4>1
      <4>2. CASE t.me # {}
        <5>1. t.me = {person'[p]}
          BY <1>5, <2>2, <4>2 DEF After
        <5>2. t.op \in {"signin", "deactivate"}
          BY <2>2, <2>3, <3>3, <4>2 DEF PlanFits, Plans, Ops, Shape
        <5>3. \E b \in BOOLEAN : t.me = {[activated |-> b, gold |-> person[p].gold]}
          BY <1>5, <5>2 DEF PlanFits, RowFits
        <5>4. PICK b \in BOOLEAN : person'[p] = [activated |-> b, gold |-> person[p].gold]
          BY <5>1, <5>3
        <5> QED
          BY <5>4
      <4> QED
        BY <4>1, <4>2
    <3>6. ASSUME NEW m \in u.me, u.op = "gold"
          PROVE  Cardinality(ClubsOf(p)' \ u.drop) <= Quota(m.gold)
      <4>1. /\ Cardinality(ClubsOf(p) \ u.drop) <= Quota(m.gold)
            /\ m.gold \in BOOLEAN
        BY <3>2, <3>6 DEF PlanFits, Plans, PersonRows, QuotaFits
      <4>2. IsFiniteSet(ClubsOf(p) \ u.drop)
        BY ClubsOfIs, FS_Subset
      <4>3. ClubsOf(p)' \ u.drop \subseteq ClubsOf(p) \ u.drop
        BY <3>4
      <4>4. /\ Cardinality(ClubsOf(p)' \ u.drop) <= Cardinality(ClubsOf(p) \ u.drop)
            /\ Cardinality(ClubsOf(p) \ u.drop) \in Nat /\ Cardinality(ClubsOf(p)' \ u.drop) \in Nat
        BY <4>2, <4>3, FS_Subset, FS_CardinalityType
      <4>5. Quota(m.gold) \in Nat
        BY <4>1, ClubsAssumption DEF ClubsAssumption, Quota
      <4> QED
        BY <4>1, <4>4, <4>5
    <3>7. ASSUME u.add # {} PROVE Cardinality(ClubsOf(p)') < Quota(person'[p].gold)
      <4>1. Cardinality(ClubsOf(p)) < Quota(person[p].gold)
        BY <2>3, <3>2, <3>7 DEF PlanFits, QuotaFits, GoldOf
      <4>2. /\ Cardinality(ClubsOf(p)') <= Cardinality(ClubsOf(p))
            /\ Cardinality(ClubsOf(p)') \in Nat /\ Cardinality(ClubsOf(p)) \in Nat
        BY <3>4, ClubsOfIs, FS_Subset, FS_CardinalityType
      <4>3. Quota(person[p].gold) \in Nat
        BY ClubsAssumption DEF ClubsAssumption, Quota
      <4> QED
        BY <3>5, <4>1, <4>2, <4>3
    <3> QED
      BY <3>6, <3>7
  <2> QED
    BY <1>1, <1>3, <2>5, <2>8, <2>9 DEF PlanFits, Shape
<1> QED
  BY <1>4, <1>5

-----------------------------------------------------------------------------
\* Nor has the cron job's.
LEMMA PassStillFits ==
  ASSUME ClubsIInv, NEW t, PlanFits(t), After(t), NEW s \in pass, ~Disturbs(t, s)
  PROVE  /\ s.asleep \subseteq DOMAIN person' /\ \A p \in s.asleep : person'[p].activated
         /\ s.seen \subseteq DOMAIN member'
<1>1. /\ s.asleep \subseteq DOMAIN person /\ \A p \in s.asleep : person[p].activated
      /\ s.seen \subseteq DOMAIN member /\ s.seen \subseteq People \X Clubs
  BY DEF ClubsIInv, PassFits, ClubsTypeOK
<1>2. t.me # {} => t.who \notin s.asleep
  BY DEF Disturbs, Written
<1>3. \A c \in t.drop : <<t.who, c>> \notin s.seen
  <2>1. \A c \in t.drop : <<t.who, c>> \in Written(t)
    BY DEF Written, PlanFits, Plans
  <2> QED
    BY <2>1 DEF Disturbs
<1>4. t.op = "delete" => t.me # {}
  BY DEF PlanFits, RowFits
<1>5. ASSUME NEW p \in s.asleep PROVE p \in DOMAIN person' /\ person'[p].activated
  <2>1. CASE p # t.who
    BY <1>1, <1>5, <2>1 DEF After
  <2>2. CASE p = t.who
    BY <1>1, <1>2, <1>4, <1>5, <2>2 DEF After
  <2> QED
    BY <2>1, <2>2
<1>6. s.seen \subseteq DOMAIN member'
  BY <1>1, <1>3 DEF After
<1> QED
  BY <1>5, <1>6

\* Whether the person is activated after the commit.
LEMMA ActivatedAfter ==
  ASSUME ClubsIInv, NEW t, PlanFits(t), After(t), NEW p, p = t.who
  PROVE  /\ t.op # "delete" <=> p \in DOMAIN person'
         /\ t.op # "register" <=> p \in DOMAIN person
         /\ t.op \in {"register", "signin"} => person'[p].activated = TRUE /\ t.copy = TRUE
         /\ t.op = "deactivate" => person'[p].activated = FALSE /\ t.copy = FALSE
         /\ t.op \in {"join", "leave", "gold"} => person'[p].activated = person[p].activated
<1>1. (t.op # "delete" <=> p \in DOMAIN person') /\ (t.op # "register" <=> p \in DOMAIN person)
  BY DEF After, PlanFits, RowFits
<1>2. t.op \in {"register", "signin"} => t.copy = TRUE
  BY DEF PlanFits, Plans, Shape
<1>3. t.op = "deactivate" => t.copy = FALSE
  BY DEF PlanFits, Plans, Shape
<1>4. ASSUME t.op = "register" PROVE person'[p].activated = TRUE
  <2>1. person'[p] = [activated |-> TRUE, gold |-> FALSE]
    BY <1>4 DEF PlanFits, Shape, After
  <2> QED
    BY <2>1
<1>5. ASSUME t.op = "signin" PROVE person'[p].activated = TRUE
  <2>1. t.me = {person'[p]}
    BY <1>5 DEF PlanFits, RowFits, After
  <2>2. \E g : person'[p] = [activated |-> TRUE, gold |-> g]
    BY <1>5, <2>1, ZenonT(60) DEF PlanFits, RowFits
  <2> QED
    BY <2>2
<1>6. ASSUME t.op = "deactivate" PROVE person'[p].activated = FALSE
  <2>1. t.me = {person'[p]}
    BY <1>6 DEF PlanFits, RowFits, After
  <2>2. t.me = {[activated |-> FALSE, gold |-> person[p].gold]}
    BY <1>6 DEF PlanFits, RowFits
  <2>3. PICK x : x = person'[p]
    OBVIOUS
  <2>4. x = [activated |-> FALSE, gold |-> person[p].gold]
    BY <2>1, <2>2, <2>3
  <2> QED
    BY <2>3, <2>4
<1>7. ASSUME t.op = "gold" PROVE person'[p].activated = person[p].activated
  <2>1. t.me = {person'[p]}
    BY <1>7 DEF PlanFits, RowFits, After
  <2>2. \E g : person'[p] = [activated |-> person[p].activated, gold |-> g]
    BY <1>7, <2>1 DEF PlanFits, RowFits
  <2> QED
    BY <2>2
<1>8. ASSUME t.op \in {"join", "leave"} PROVE person'[p].activated = person[p].activated
  BY <1>8 DEF PlanFits, Shape, After
<1> QED
  BY <1>1, <1>2, <1>3, <1>4, <1>5, <1>6, <1>7, <1>8

\* The copies.
LEMMA CopiesAfter ==
  ASSUME ClubsIInv, ClubsTypeOK', NEW t, PlanFits(t), After(t)
  PROVE  CopiesAgree'
<1> DEFINE p == t.who
<1> SUFFICES ASSUME NEW m \in DOMAIN member', m \notin skewed'
             PROVE  member'[m] = person'[m[1]].activated
  BY DEF CopiesAgree, Stale
<1>1. PICK q \in DOMAIN person', c \in Clubs : m = <<q, c>>
  BY DEF ClubsTypeOK
<1>2. SUFFICES ASSUME m \notin skewed, q = p => c \notin Unseen(t) \cup Crossed(t)
               PROVE  member'[m] = person'[q].activated
  BY <1>1 DEF After, Stale
<1>3. m \in DOMAIN member /\ m \notin skewed => q \in DOMAIN person /\ member[m] = person[q].activated
  BY <1>1 DEF ClubsIInv, ClubsTypeOK, CopiesAgree, Stale
<1>4. CASE q # p
  <2>1. m \in DOMAIN member /\ member'[m] = member[m]
    BY <1>1, <1>4 DEF After
  <2> QED
    BY <1>2, <1>3, <1>4, <2>1 DEF After
<1>5. CASE q = p
  <2>1. t.op # "delete"
    BY <1>1, <1>5 DEF After
  <2>2. c \in t.add \cup t.mark => member'[m] = t.copy
    BY <1>1, <1>5 DEF After
  <2>3. c \notin t.add \cup t.mark => m \in DOMAIN member /\ member'[m] = member[m] /\ c \in ClubsOf(p)
    BY <1>1, <1>5 DEF After, ClubsOf
  <2>4. CASE t.op = "register"
    <3>1. ClubsOf(p) = {}
      BY <2>4 DEF PlanFits, RowFits, ClubsOf, ClubsIInv, ClubsTypeOK
    <3>2. c \in t.add \cup t.mark
      BY <2>3, <3>1
    <3> QED
      BY <1>5, <2>2, <2>4, <3>2, ActivatedAfter
  <2>5. CASE t.op \in {"signin", "deactivate"}
    <3>1. person'[p].activated = t.copy
      BY <2>5, ActivatedAfter
    <3>2. CASE c \in t.add \cup t.mark
      BY <1>5, <2>2, <3>1, <3>2
    <3>3. CASE c \notin t.add \cup t.mark
      <4>1. t.seen = t.mark
        BY <2>5 DEF PlanFits, Shape
      <4>2. person[p].activated = t.copy
        BY <1>2, <1>5, <2>3, <2>5, <3>3, <4>1 DEF Unseen, Sets
      <4> QED
        BY <1>2, <1>3, <1>5, <2>3, <3>1, <3>3, <4>2
    <3> QED
      BY <3>2, <3>3
  <2>6. CASE t.op \in {"join", "leave", "gold"}
    <3>1. person'[p].activated = person[p].activated /\ p \in DOMAIN person
      BY <2>6, ActivatedAfter
    <3>2. t.mark = {} /\ (t.add # {} => t.op = "join")
      BY <2>6 DEF PlanFits, Shape
    <3>3. CASE c \in t.add
      BY <1>2, <1>5, <2>2, <3>1, <3>2, <3>3 DEF Crossed
    <3>4. CASE c \notin t.add
      BY <1>2, <1>3, <1>5, <2>3, <3>1, <3>2, <3>4
    <3> QED
      BY <3>3, <3>4
  <2> QED
    BY <2>1, <2>4, <2>5, <2>6 DEF PlanFits, Plans, Ops
<1> QED
  BY <1>4, <1>5

\* The quota.
LEMMA QuotaAfter ==
  ASSUME ClubsIInv, ClubsTypeOK', NEW t, PlanFits(t), After(t)
  PROVE  QuotaHolds'
<1> DEFINE p == t.who
<1> SUFFICES ASSUME NEW q \in DOMAIN person', q \notin raced'
             PROVE  Cardinality(ClubsOf(q)') <= Quota(person'[q].gold)
  <2>1. \A q : Cardinality(ClubsOf(q)') \in Nat
    <3>1. \A q : ClubsOf(q)' \subseteq Clubs
      BY DEF ClubsOf
    <3> QED
      BY <3>1, FS_Subset, FS_CardinalityType, ClubsAssumption DEF ClubsAssumption
  <2>2. \A g : Quota(g) \in Nat
    BY ClubsAssumption DEF ClubsAssumption, Quota
  <2>3. \A q : Exceeds(q)' <=> Cardinality(ClubsOf(q)') > Quota(person'[q].gold)
    BY DEF Exceeds, Quota
  <2> QED
    BY <2>1, <2>2, <2>3 DEF QuotaHolds
<1>1. /\ \A r : Cardinality(ClubsOf(r)) \in Nat /\ IsFiniteSet(ClubsOf(r))
      /\ \A g : Quota(g) \in Nat
  BY ClubsOfIs, ClubsAssumption DEF ClubsAssumption, Quota
<1>2. SUFFICES ASSUME q \notin raced, q = p => ~t.raced
               PROVE  Cardinality(ClubsOf(q)') <= Quota(person'[q].gold)
  <2>1. Exceeds(q)' <=> Cardinality(ClubsOf(q)') > Quota(person'[q].gold)
    BY DEF Exceeds, Quota
  <2>2. Cardinality(ClubsOf(q)') \in Nat
    <3>1. ClubsOf(q)' \subseteq Clubs
      BY DEF ClubsOf
    <3> QED
      BY <3>1, FS_Subset, FS_CardinalityType, ClubsAssumption DEF ClubsAssumption
  <2>3. q \notin raced \cup (IF t.raced THEN {t.who} ELSE {}) \/ ~Exceeds(q)'
    BY DEF After
  <2> QED
    BY <1>1, <2>1, <2>2, <2>3
<1>3. q \in DOMAIN person => Cardinality(ClubsOf(q)) <= Quota(person[q].gold)
  BY <1>1, <1>2 DEF ClubsIInv, QuotaHolds, Exceeds
<1>4. CASE q # p
  <2>1. ClubsOf(q)' = ClubsOf(q) /\ q \in DOMAIN person /\ person'[q] = person[q]
    BY <1>4, ClubsAfter DEF After
  <2> QED
    BY <1>3, <2>1
<1>5. CASE q = p
  <2>1. t.op # "delete" /\ ~t.raced /\ QuotaFits(t)
    BY <1>2, <1>5 DEF After, PlanFits
  <2>2. ClubsOf(p)' = (ClubsOf(p) \ t.drop) \cup t.add
    BY ClubsAfter
  <2>3. CASE t.op = "gold"
    <3>1. t.me = {person'[p]} /\ t.add = {}
      BY <2>3 DEF PlanFits, Shape, RowFits, After
    <3>2. Cardinality(ClubsOf(p) \ t.drop) <= Quota(person'[p].gold)
      BY <2>1, <2>3, <3>1 DEF QuotaFits
    <3>3. ClubsOf(p)' = ClubsOf(p) \ t.drop
      BY <2>2, <3>1
    <3> QED
      BY <1>5, <3>2, <3>3
  <2>4. CASE t.op # "gold"
    <3>1. t.op # "register" => p \in DOMAIN person /\ person'[p].gold = person[p].gold
      <4> SUFFICES ASSUME t.op # "register"
                   PROVE  p \in DOMAIN person /\ person'[p].gold = person[p].gold
        OBVIOUS
      <4>1. p \in DOMAIN person
        BY DEF PlanFits, RowFits
      <4>2. CASE t.me = {}
        <5>1. person'[p] = person[p]
          BY <2>1, <4>2 DEF After
        <5> QED
          BY <4>1, <5>1
      <4>3. CASE t.me # {}
        <5>1. t.me = {person'[p]}
          BY <2>1, <4>3 DEF After
        <5>2. t.op \in {"signin", "deactivate"}
          BY <2>1, <2>4, <4>3 DEF PlanFits, Plans, Ops, Shape
        <5>3. \E b \in BOOLEAN : person'[p] = [activated |-> b, gold |-> person[p].gold]
          BY <5>1, <5>2 DEF PlanFits, RowFits
        <5> QED
          BY <4>1, <5>3
      <4> QED
        BY <4>1, <4>2, <4>3
    <3>2. t.op = "register" => ClubsOf(p) = {} /\ person'[p].gold = FALSE
      <4> SUFFICES ASSUME t.op = "register"
                   PROVE  ClubsOf(p) = {} /\ person'[p].gold = FALSE
        OBVIOUS
      <4>1. ClubsOf(p) = {}
        BY DEF PlanFits, RowFits, ClubsOf, ClubsIInv, ClubsTypeOK
      <4>2. person'[p] = [activated |-> TRUE, gold |-> FALSE]
        BY DEF PlanFits, Shape, After
      <4> QED
        BY <4>1, <4>2
    <3>3. CASE t.add = {}
      <4>1. ClubsOf(p)' \subseteq ClubsOf(p)
        BY <2>2, <3>3
      <4>2. Cardinality(ClubsOf(p)') <= Cardinality(ClubsOf(p)) /\ Cardinality(ClubsOf(p)') \in Nat
        BY <1>1, <4>1, FS_Subset, FS_CardinalityType
      <4>3. CASE t.op # "register"
        BY <1>1, <1>3, <1>5, <3>1, <4>2, <4>3
      <4>4. CASE t.op = "register"
        <5>1. Cardinality(ClubsOf(p)) = 0
          BY <3>2, <4>4, FS_EmptySet, Zenon
        <5> QED
          BY <1>1, <1>5, <4>2, <5>1
      <4> QED
        BY <4>3, <4>4
    <3>4. CASE t.add # {}
      <4>1. Cardinality(ClubsOf(p)) < Quota(person'[p].gold)
        <5>1. Cardinality(ClubsOf(p)) < Quota(GoldOf(t))
          BY <2>1, <3>4 DEF QuotaFits
        <5>2. GoldOf(t) = person'[p].gold
          BY <3>1, <3>2 DEF GoldOf
        <5> QED
          BY <5>1, <5>2
      <4>2. PICK c : t.add = {c}
        BY <3>4 DEF PlanFits, Shape
      <4>3. IsFiniteSet(ClubsOf(p) \cup {c})
            /\ Cardinality(ClubsOf(p) \cup {c}) <= Cardinality(ClubsOf(p)) + 1
            /\ Cardinality(ClubsOf(p) \cup {c}) \in Nat
        BY <1>1, OneMoreOneLess
      <4>4. ClubsOf(p)' \subseteq ClubsOf(p) \cup {c}
        BY <2>2, <4>2
      <4>5. Cardinality(ClubsOf(p)') <= Cardinality(ClubsOf(p) \cup {c}) /\ Cardinality(ClubsOf(p)') \in Nat
        BY <4>3, <4>4, FS_Subset, FS_CardinalityType
      <4> QED
        BY <1>1, <1>5, <4>1, <4>3, <4>5
    <3> QED
      BY <3>3, <3>4
  <2> QED
    BY <2>3, <2>4
<1> QED
  BY <1>4, <1>5

\* The counts.
LEMMA SwapOne ==
  ASSUME NEW A, NEW B, IsFiniteSet(A), IsFiniteSet(B), NEW p, A \ {p} = B \ {p}
  PROVE  /\ Cardinality(A) \in Nat /\ Cardinality(B) \in Nat
         /\ Cardinality(B) = Cardinality(A) + (IF p \in B THEN 1 ELSE 0) - (IF p \in A THEN 1 ELSE 0)
<1>1. Cardinality(A \ {p}) = IF p \in A THEN Cardinality(A) - 1 ELSE Cardinality(A)
  BY FS_RemoveElement
<1>2. Cardinality(B \ {p}) = IF p \in B THEN Cardinality(B) - 1 ELSE Cardinality(B)
  BY FS_RemoveElement
<1>3. Cardinality(A) \in Nat /\ Cardinality(B) \in Nat
  BY FS_CardinalityType
<1>4. Cardinality(A \ {p}) = Cardinality(B \ {p})
  OBVIOUS
<1> QED
  BY <1>1, <1>2, <1>3, <1>4

\* How the counts move beside the members who count, b before and d after: together,
\* unless it is known.
Moves(t, c, b, d) ==
  LET known == c \in Unseen(t) \cup Uncounted(t) IN
  \/ c \in t.up /\ c \notin t.down /\ ~b /\ (d \/ known)
  \/ c \notin t.up /\ c \in t.down /\ ~d /\ (b \/ known)
  \/ c \notin t.up /\ c \notin t.down /\ ((b <=> d) \/ known)

LEMMA MovesAre ==
  ASSUME ClubsIInv, NEW t, PlanFits(t), After(t), NEW c \in Clubs,
         NEW b \in BOOLEAN, b <=> t.who \in Active(c),
         NEW d \in BOOLEAN, d <=> t.who \in Active(c)'
  PROVE  Moves(t, c, b, d)
<1> DEFINE p == t.who
<1>1. b <=> p \in DOMAIN person /\ c \in ClubsOf(p) /\ person[p].activated
  BY DEF Active, ClubsOf
<1>2. d <=> p \in DOMAIN person' /\ c \in (ClubsOf(p) \ t.drop) \cup t.add /\ person'[p].activated
  <2>1. d <=> p \in DOMAIN person' /\ c \in ClubsOf(p)' /\ person'[p].activated
    BY DEF Active, ClubsOf
  <2> QED
    BY <2>1, ClubsAfter
<1>3. /\ t.drop \cup t.mark \subseteq ClubsOf(p) /\ t.add \cap ClubsOf(p) = {}
  BY DEF PlanFits, MembersFit
<1>4. CASE t.op = "register"
  <2>1. ClubsOf(p) = {}
    BY <1>4 DEF PlanFits, RowFits, ClubsOf, ClubsIInv, ClubsTypeOK
  <2>2. t.up = t.add /\ t.down = {} /\ t.drop = {}
    BY <1>4 DEF PlanFits, Shape
  <2> QED
    BY <1>1, <1>2, <1>4, <2>1, <2>2, ActivatedAfter DEF Moves
<1>5. CASE t.op = "signin"
  <2>1. t.up = t.add \cup t.mark /\ t.down = {} /\ t.drop = {} /\ t.seen = t.mark
    BY <1>5 DEF PlanFits, Shape
  <2>2. person[p].activated => t.mark = {}
    BY <1>5 DEF PlanFits, RowFits
  <2>3. p \in DOMAIN person /\ p \in DOMAIN person' /\ person'[p].activated /\ t.copy = TRUE
    BY <1>5, ActivatedAfter
  <2>4. CASE person[p].activated
    BY <1>1, <1>2, <1>3, <2>1, <2>2, <2>3, <2>4 DEF Moves
  <2>5. CASE ~person[p].activated
    <3>1. Unseen(t) = ClubsOf(p) \ t.mark
      BY <1>5, <2>1, <2>3, <2>5 DEF Unseen, Sets
    <3> QED
      BY <1>1, <1>2, <1>3, <2>1, <2>3, <2>5, <3>1 DEF Moves
  <2> QED
    BY <2>4, <2>5
<1>6. CASE t.op = "deactivate"
  <2>1. t.down = t.mark /\ t.up = {} /\ t.add = {} /\ t.drop = {} /\ t.seen = t.mark
    BY <1>6 DEF PlanFits, Shape
  <2>2. person[p].activated
    BY <1>6 DEF PlanFits, RowFits
  <2>3. p \in DOMAIN person /\ p \in DOMAIN person' /\ ~person'[p].activated /\ t.copy = FALSE
    BY <1>6, ActivatedAfter
  <2>4. Unseen(t) = ClubsOf(p) \ t.mark
    BY <1>6, <2>1, <2>2, <2>3 DEF Unseen, Sets
  <2> QED
    BY <1>1, <1>2, <1>3, <2>1, <2>2, <2>3, <2>4 DEF Moves
<1>7. CASE t.op = "delete"
  <2>1. t.up = {} /\ t.add = {} /\ t.mark = {} /\ t.drop = ClubsOf(p)
    BY <1>7 DEF PlanFits, Shape, MembersFit
  <2>2. t.down = IF person[p].activated THEN t.drop ELSE {}
    BY <1>7 DEF PlanFits, RowFits
  <2>3. p \in DOMAIN person /\ p \notin DOMAIN person'
    BY <1>7, ActivatedAfter
  <2> QED
    BY <1>1, <1>2, <2>1, <2>2, <2>3 DEF Moves
<1>8. CASE t.op \in {"join", "leave", "gold"}
  <2>1. p \in DOMAIN person /\ p \in DOMAIN person' /\ person'[p].activated = person[p].activated
    BY <1>8, ActivatedAfter
  <2>2. /\ t.mark = {} /\ t.up = t.add /\ t.down = t.drop
        /\ t.add = {} \/ t.drop = {}
    BY <1>8 DEF PlanFits, Shape
  <2>3. ~person[p].activated => Uncounted(t) = t.up \cup t.down
    BY <1>8 DEF Uncounted
  <2> QED
    BY <1>1, <1>2, <1>3, <2>1, <2>2, <2>3 DEF Moves
<1> QED
  BY <1>4, <1>5, <1>6, <1>7, <1>8 DEF PlanFits, Plans, Ops

LEMMA CountsAfter ==
  ASSUME ClubsIInv, ClubsTypeOK', NEW t, PlanFits(t), After(t)
  PROVE  CountsAreExact'
<1> SUFFICES ASSUME NEW c \in DOMAIN count'
             PROVE  count'[c] - Cardinality(Active(c)') \in -drift'[c]..drift'[c]
  BY DEF CountsAreExact
<1> DEFINE known == c \in Unseen(t) \cup Uncounted(t)
           k == IF c \in DOMAIN count THEN count[c] ELSE 0
<1>1. PICK A, B : A = Active(c) /\ B = Active(c)'
  OBVIOUS
<1>2. PICK b \in BOOLEAN, d \in BOOLEAN : (b <=> t.who \in A) /\ (d <=> t.who \in B)
  OBVIOUS
<1>3. c \in Clubs
  BY DEF ClubsTypeOK
<1>4. Moves(t, c, b, d)
  BY <1>1, <1>2, <1>3, MovesAre
<1>5. A \ {t.who} = B \ {t.who} /\ IsFiniteSet(A) /\ IsFiniteSet(B)
  <2>1. A \subseteq People /\ B \subseteq People
    BY <1>1 DEF ClubsIInv, ClubsTypeOK, Active
  <2>2. ASSUME NEW q, q # t.who PROVE q \in A <=> q \in B
    <3>1. <<q, c>> \in DOMAIN member <=> <<q, c>> \in DOMAIN member'
      BY <2>2 DEF After
    <3>2. q \in DOMAIN person <=> q \in DOMAIN person'
      BY <2>2 DEF After
    <3>3. q \in DOMAIN person' => person'[q] = person[q]
      BY <2>2 DEF After
    <3> QED
      BY <1>1, <3>1, <3>2, <3>3 DEF Active
  <2> QED
    BY <2>1, <2>2, FS_Subset, ClubsAssumption DEF ClubsAssumption
<1>6. /\ Cardinality(A) \in Nat /\ Cardinality(B) \in Nat
      /\ Cardinality(B) = Cardinality(A) + (IF d THEN 1 ELSE 0) - (IF b THEN 1 ELSE 0)
  BY <1>2, <1>5, SwapOne
<1>7. k \in Int /\ drift[c] \in Nat /\ k - Cardinality(A) \in -drift[c]..drift[c]
  <2>1. drift[c] \in Nat
    BY <1>3, ClubsAssumption DEF ClubsAssumption, ClubsIInv, ClubsTypeOK
  <2>2. CASE c \in DOMAIN count
    BY <1>1, <2>1, <2>2 DEF ClubsIInv, ClubsTypeOK, CountsAreExact
  <2>3. CASE c \notin DOMAIN count
    <3>1. A = {}
      BY <1>1, <2>3 DEF Active, ClubsIInv, ClubsTypeOK
    <3>2. Cardinality(A) = 0
      BY <3>1, FS_EmptySet, Zenon
    <3>3. k = 0
      BY <2>3
    <3> QED
      BY <2>1, <3>2, <3>3
  <2> QED
    BY <2>2, <2>3
<1>8. drift'[c] = IF known THEN drift[c] + 1 ELSE drift[c]
  BY <1>3 DEF After
<1>9. count'[c] = IF c \in t.up THEN k + 1
                  ELSE IF c \notin t.down THEN k
                  ELSE IF k > 0 \/ t.op = "gold" THEN k - 1 ELSE 0
  BY DEF After, NewCount
<1> HIDE DEF k, known
<1>10. count'[c] - Cardinality(B) \in -drift'[c]..drift'[c]
  <2>1. CASE c \in t.up /\ c \notin t.down /\ ~b /\ (d \/ known)
    BY <1>6, <1>7, <1>8, <1>9, <2>1
  <2>2. CASE c \notin t.up /\ c \in t.down /\ ~d /\ (b \/ known)
    BY <1>6, <1>7, <1>8, <1>9, <2>2
  <2>3. CASE c \notin t.up /\ c \notin t.down /\ ((b <=> d) \/ known)
    BY <1>6, <1>7, <1>8, <1>9, <2>3
  <2> QED
    BY <1>4, <2>1, <2>2, <2>3 DEF Moves, known
<1> QED
  BY <1>1, <1>10

-----------------------------------------------------------------------------
LEMMA CommitClubsKeeps ==
  ASSUME ClubsIInv, NEW w \in DOMAIN tx, Commit(w)
  PROVE  ClubsIInv'
<1>1. PICK t : t = tx[w] /\ PlanFits(t)
  BY DEF ClubsIInv, PlansFit
<1>2. After(t)
  BY <1>1, CommitIs
<1>3. ClubsTypeOK'
  BY <1>1, <1>2, TypesAfter
<1>4. PlansFit'
  <2> SUFFICES ASSUME NEW v \in DOMAIN tx' PROVE \E z \in {tx'[v]} : PlanFits(z)'
    BY DEF PlansFit
  <2>1. /\ v \in DOMAIN tx /\ ~Conflict(t, tx[v])
        /\ tx'[v] = IF Races(t, tx[v]) THEN [tx[v] EXCEPT !.raced = TRUE] ELSE tx[v]
    BY <1>1 DEF Commit
  <2>2. PICK u : u = tx[v] /\ PlanFits(u)
    BY <2>1 DEF ClubsIInv, PlansFit
  <2>3. PICK z : z = tx'[v]
    OBVIOUS
  <2>4. ~Conflict(t, u) /\ z = IF Races(t, u) THEN [u EXCEPT !.raced = TRUE] ELSE u
    BY <2>1, <2>2, <2>3
  <2>5. PlanFits(z)'
    BY <1>1, <1>2, <2>2, <2>4, StillFits
  <2> QED
    BY <2>3, <2>5
<1>5. CopiesAgree' /\ QuotaHolds' /\ CountsAreExact'
  BY <1>1, <1>2, <1>3, CopiesAfter, QuotaAfter, CountsAfter
<1>6. PassFits'
  <2>1. pass' = {s \in pass : ~Disturbs(t, s)}
    BY <1>1 DEF Commit
  <2>2. \A s \in pass : \A m \in s.seen : m[1] \in s.asleep
    BY DEF ClubsIInv, PassFits
  <2> QED
    BY <1>1, <1>2, <2>1, <2>2, PassStillFits DEF PassFits
<1> QED
  BY <1>3, <1>4, <1>5, <1>6 DEF ClubsIInv

-----------------------------------------------------------------------------
\* The cron job.
LEMMA BeginPassKeeps ==
  ASSUME ClubsIInv, NEW P \in SUBSET People, BeginPass(P)
  PROVE  ClubsIInv'
<1>1. UNCHANGED <<person, member, count, tx, drift, skewed, raced>>
  BY DEF BeginPass, tables, history
<1>2. /\ pass' = {[asleep |-> P, seen |-> {m \in DOMAIN member : m[1] \in P}]}
      /\ P \subseteq DOMAIN person /\ \A p \in P : person[p].activated
  BY DEF BeginPass
<1>3. DOMAIN member \subseteq People \X Clubs
  BY DEF ClubsIInv, ClubsTypeOK
<1>4. ClubsTypeOK'
  BY <1>1, <1>2, <1>3 DEF ClubsIInv, ClubsTypeOK
<1>5. PassFits'
  BY <1>1, <1>2 DEF PassFits
<1>6. PlansFit'
  <2>1. ASSUME NEW u, PlanFits(u) PROVE PlanFits(u)'
    BY <1>1, <2>1, ZenonT(60) DEF PlanFits, RowFits, MembersFit, QuotaFits, ClubsOf, GoldOf
  <2> QED
    BY <1>1, <2>1 DEF ClubsIInv, PlansFit
<1>7. CountsAreExact' /\ CopiesAgree' /\ QuotaHolds'
  BY <1>1 DEF ClubsIInv, CountsAreExact, Active, CopiesAgree, Stale, QuotaHolds, Exceeds, ClubsOf
<1> QED
  BY <1>4, <1>5, <1>6, <1>7 DEF ClubsIInv

LEMMA AbortPassKeeps ==
  ASSUME ClubsIInv, AbortPass
  PROVE  ClubsIInv'
<1>1. pass' = {} /\ UNCHANGED <<person, member, count, tx, drift, skewed, raced>>
  BY DEF AbortPass, tables, history
<1>2. ClubsTypeOK' /\ PassFits'
  BY <1>1 DEF ClubsIInv, ClubsTypeOK, PassFits
<1>3. PlansFit'
  <2>1. ASSUME NEW u, PlanFits(u) PROVE PlanFits(u)'
    BY <1>1, <2>1, ZenonT(60) DEF PlanFits, RowFits, MembersFit, QuotaFits, ClubsOf, GoldOf
  <2> QED
    BY <1>1, <2>1 DEF ClubsIInv, PlansFit
<1>4. CountsAreExact' /\ CopiesAgree' /\ QuotaHolds'
  BY <1>1 DEF ClubsIInv, CountsAreExact, Active, CopiesAgree, Stale, QuotaHolds, Exceeds, ClubsOf
<1> QED
  BY <1>2, <1>3, <1>4 DEF ClubsIInv

\* What its commit makes of the tables.
PassIs(s) ==
  /\ DOMAIN person' = DOMAIN person
  /\ \A p \in DOMAIN person :
       person'[p] = IF p \in s.asleep THEN [activated |-> FALSE, gold |-> person[p].gold]
                    ELSE person[p]
  /\ DOMAIN member' = DOMAIN member
  /\ \A m \in DOMAIN member : member'[m] = (m \notin s.seen /\ member[m])
  /\ \A p : ClubsOf(p)' = ClubsOf(p)
  /\ s.asleep \in SUBSET People /\ IsFiniteSet(s.asleep)
  /\ s.asleep \subseteq DOMAIN person /\ \A p \in s.asleep : person[p].activated
  /\ s.seen \subseteq DOMAIN member /\ s.seen \subseteq People \X Clubs
  /\ \A m \in s.seen : m[1] \in s.asleep

LEMMA CommitPassIs ==
  ASSUME ClubsIInv, NEW s \in pass, CommitPass(s)
  PROVE  PassIs(s)
<1>1. \A p \in DOMAIN person : person[p] \in PersonRows
  BY DEF ClubsIInv, ClubsTypeOK, PersonRows
<1>2. \A p \in DOMAIN person : [person[p] EXCEPT !.activated = FALSE]
                                  = [activated |-> FALSE, gold |-> person[p].gold]
  <2> SUFFICES ASSUME NEW p \in DOMAIN person
               PROVE  [person[p] EXCEPT !.activated = FALSE]
                        = [activated |-> FALSE, gold |-> person[p].gold]
    OBVIOUS
  <2>1. {[person[p] EXCEPT !.activated = FALSE]} = {[activated |-> FALSE, gold |-> person[p].gold]}
    BY <1>1, ActivatedIs
  <2> QED
    BY <2>1, Zenon
<1>3. /\ DOMAIN person' = DOMAIN person
      /\ \A p \in DOMAIN person :
           person'[p] = IF p \in s.asleep THEN [activated |-> FALSE, gold |-> person[p].gold]
                        ELSE person[p]
  BY <1>2 DEF CommitPass
<1>4. /\ DOMAIN member' = DOMAIN member
      /\ \A m \in DOMAIN member : member'[m] = (m \notin s.seen /\ member[m])
  BY DEF CommitPass
<1>5. \A p : ClubsOf(p)' = ClubsOf(p)
  BY <1>4 DEF ClubsOf
<1>6. s.asleep \in SUBSET People /\ s.seen \subseteq People \X Clubs
  BY DEF ClubsIInv, ClubsTypeOK
<1>7. IsFiniteSet(s.asleep)
  BY <1>6, FS_Subset, ClubsAssumption DEF ClubsAssumption
<1> QED
  BY <1>3, <1>4, <1>5, <1>6, <1>7 DEF PassIs, ClubsIInv, PassFits

\* Those who fall asleep are all members who counted; one of them is decremented.
LEMMA OverlookedIs ==
  ASSUME ClubsIInv, NEW s \in pass, PassIs(s), NEW c \in Clubs
  PROVE  /\ IsFiniteSet(Sleepers(s, c)) /\ Cardinality(Sleepers(s, c)) \in Nat
         /\ Sleepers(s, c) \subseteq Active(c) /\ Active(c)' = Active(c) \ Sleepers(s, c)
         /\ Overlooked(s, c) \in Nat
<1>1. Sleepers(s, c) \subseteq s.asleep
  BY DEF Sleepers
<1>2. IsFiniteSet(Sleepers(s, c)) /\ Cardinality(Sleepers(s, c)) \in Nat
  BY <1>1, FS_Subset, FS_CardinalityType DEF PassIs
<1>3. Sleepers(s, c) \subseteq Active(c)
  BY DEF Sleepers, Active, PassIs
<1>4. Active(c)' = Active(c) \ Sleepers(s, c)
  <2>1. ASSUME NEW p PROVE p \in Active(c)' <=> p \in Active(c) \ Sleepers(s, c)
    <3>1. CASE p \in s.asleep
      <4>1. person'[p].activated = FALSE
        BY <3>1 DEF PassIs
      <4> QED
        BY <3>1, <4>1 DEF Active, Sleepers, PassIs
    <3>2. CASE p \notin s.asleep
      BY <3>2 DEF Active, Sleepers, PassIs
    <3> QED
      BY <3>1, <3>2
  <2> QED
    BY <2>1
<1>5. c \in SeenClubs(s) => Cardinality(Sleepers(s, c)) # 0
  <2> SUFFICES ASSUME c \in SeenClubs(s) PROVE Cardinality(Sleepers(s, c)) # 0
    OBVIOUS
  <2>1. PICK m \in s.seen : m[2] = c
    BY DEF SeenClubs
  <2>2. m = <<m[1], c>> /\ m[1] \in s.asleep /\ m \in DOMAIN member
    BY <2>1 DEF PassIs
  <2>3. m[1] \in Sleepers(s, c)
    BY <2>2 DEF Sleepers
  <2> QED
    BY <1>2, <2>3, FS_EmptySet
<1>6. Overlooked(s, c) \in Nat
  BY <1>2, <1>5 DEF Overlooked
<1> QED
  BY <1>2, <1>3, <1>4, <1>6

LEMMA PassCounts ==
  ASSUME ClubsIInv, NEW s \in pass, CommitPass(s), PassIs(s)
  PROVE  CountsAreExact'
<1> SUFFICES ASSUME NEW c \in DOMAIN count'
             PROVE  count'[c] - Cardinality(Active(c)') \in -drift'[c]..drift'[c]
  BY DEF CountsAreExact
<1>1. c \in DOMAIN count /\ c \in Clubs /\ count[c] \in Int
  BY DEF CommitPass, ClubsIInv, ClubsTypeOK
<1> DEFINE n == Cardinality(Sleepers(s, c))
           a == Cardinality(Active(c))
<1>2. IsFiniteSet(Active(c))
  <2>1. Active(c) \subseteq People
    BY DEF Active, ClubsIInv, ClubsTypeOK
  <2> QED
    BY <2>1, FS_Subset, ClubsAssumption DEF ClubsAssumption
<1>3. /\ n \in Nat /\ Sleepers(s, c) \subseteq Active(c)
      /\ Active(c)' = Active(c) \ Sleepers(s, c) /\ Overlooked(s, c) \in Nat
  BY <1>1, OverlookedIs
<1>4. Cardinality(Active(c)') = a - n /\ a \in Nat /\ n <= a
  <2>1. Active(c) \cap Sleepers(s, c) = Sleepers(s, c)
    BY <1>3
  <2> QED
    BY <1>2, <1>3, <2>1, FS_Difference, FS_Subset, FS_CardinalityType
<1>5. count[c] - a \in -drift[c]..drift[c] /\ drift[c] \in Nat
  BY <1>1, ClubsAssumption DEF ClubsAssumption, ClubsIInv, ClubsTypeOK, CountsAreExact
<1>6. drift'[c] = drift[c] + n - IF c \in SeenClubs(s) THEN 1 ELSE 0
  <2>1. drift'[c] = drift[c] + Overlooked(s, c)
    BY <1>1 DEF CommitPass
  <2> QED
    BY <1>3, <1>5, <2>1 DEF Overlooked
<1>7. count'[c] = IF c \notin SeenClubs(s) THEN count[c]
                  ELSE IF count[c] > 0 THEN count[c] - 1 ELSE 0
  BY <1>1 DEF CommitPass
<1>8. c \in SeenClubs(s) => n >= 1
  BY <1>3 DEF Overlooked
<1> HIDE DEF n, a
<1>9. CASE c \notin SeenClubs(s)
  BY <1>1, <1>3, <1>4, <1>5, <1>6, <1>7, <1>9
<1>10. CASE c \in SeenClubs(s) /\ count[c] > 0
  BY <1>1, <1>3, <1>4, <1>5, <1>6, <1>7, <1>8, <1>10
<1>11. CASE c \in SeenClubs(s) /\ ~(count[c] > 0)
  BY <1>1, <1>3, <1>4, <1>5, <1>6, <1>7, <1>8, <1>11
<1> QED
  BY <1>9, <1>10, <1>11

\* What others have read is still so.
LEMMA PassLeavesPlans ==
  ASSUME ClubsIInv, NEW s \in pass, PassIs(s), NEW u, PlanFits(u), ~Disturbs(u, s)
  PROVE  PlanFits(u)'
<1>1. u.me # {} => u.who \notin s.asleep
  BY DEF Disturbs, Written
<1>2. u.who \in DOMAIN person => person'[u.who].gold = person[u.who].gold
  BY DEF PassIs
<1>3. RowFits(u)'
  <2>1. CASE u.who \in s.asleep
    <3>1. u.me = {} /\ u.who \in DOMAIN person /\ u.who \in DOMAIN person'
      BY <1>1, <2>1 DEF PassIs
    <3>2. u.op \in {"join", "leave"}
      BY <3>1 DEF PlanFits, RowFits, Plans, Ops
    <3> QED
      BY <3>1, <3>2 DEF RowFits
  <2>2. CASE u.who \notin s.asleep
    <3>1. /\ u.who \in DOMAIN person' <=> u.who \in DOMAIN person
          /\ u.who \in DOMAIN person => person'[u.who] = person[u.who]
      BY <2>2 DEF PassIs
    <3> QED
      BY <3>1 DEF PlanFits, RowFits
  <2> QED
    BY <2>1, <2>2
<1>4. MembersFit(u)'
  BY DEF PlanFits, MembersFit, PassIs
<1>5. QuotaFits(u)'
  <2>1. u.op # "register" => u.who \in DOMAIN person
    BY DEF PlanFits, RowFits
  <2>2. ClubsOf(u.who)' = ClubsOf(u.who)
    BY DEF PassIs
  <2> QED
    BY <1>2, <2>1, <2>2 DEF PlanFits, QuotaFits, GoldOf
<1> QED
  BY <1>3, <1>4, <1>5 DEF PlanFits, Shape

LEMMA CommitPassKeeps ==
  ASSUME ClubsIInv, NEW s \in pass, CommitPass(s)
  PROVE  ClubsIInv'
<1>1. PassIs(s)
  BY CommitPassIs
<1>2. ClubsTypeOK'
  <2>1. ASSUME NEW p \in DOMAIN person'
        PROVE  person'[p] \in [activated : BOOLEAN, gold : BOOLEAN]
    <3>1. p \in DOMAIN person /\ person[p] \in [activated : BOOLEAN, gold : BOOLEAN]
      BY <1>1 DEF PassIs, ClubsIInv, ClubsTypeOK
    <3>2. CASE p \in s.asleep
      <4>1. person'[p] = [activated |-> FALSE, gold |-> person[p].gold]
        BY <1>1, <3>1, <3>2 DEF PassIs
      <4>2. person[p].gold \in BOOLEAN
        BY <3>1
      <4> QED
        BY <4>1, <4>2
    <3>3. CASE p \notin s.asleep
      <4>1. person'[p] = person[p]
        BY <1>1, <3>1, <3>3 DEF PassIs
      <4> QED
        BY <3>1, <4>1
    <3> QED
      BY <3>2, <3>3
  <2>2. /\ DOMAIN count' = DOMAIN count
        /\ \A c \in DOMAIN count' : count'[c] \in Int
    BY DEF CommitPass, ClubsIInv, ClubsTypeOK
  <2>3. drift' \in [Clubs -> 0..MaxDrift]
    <3>1. \A c \in Clubs : drift[c] \in Nat /\ Overlooked(s, c) \in Nat
                             /\ drift[c] + Overlooked(s, c) <= MaxDrift
      BY <1>1, OverlookedIs, ClubsAssumption
         DEF ClubsAssumption, CommitPass, ClubsIInv, ClubsTypeOK
    <3>2. \A c \in Clubs : drift[c] + Overlooked(s, c) \in 0..MaxDrift
      BY <3>1, ClubsAssumption DEF ClubsAssumption
    <3> QED
      BY <3>2 DEF CommitPass
  <2>4. skewed' \subseteq People \X Clubs
    <3>1. DOMAIN member \subseteq People \X Clubs
      BY DEF ClubsIInv, ClubsTypeOK
    <3> QED
      BY <3>1 DEF CommitPass, ClubsIInv, ClubsTypeOK
  <2>5. DOMAIN tx' \subseteq Workers /\ pass' = {}
    BY DEF CommitPass, Restrict, ClubsIInv, ClubsTypeOK
  <2>6. /\ DOMAIN person' = DOMAIN person /\ DOMAIN member' = DOMAIN member
        /\ \A m \in DOMAIN member' : member'[m] \in BOOLEAN
    BY <1>1 DEF PassIs, ClubsIInv, ClubsTypeOK
  <2> QED
    BY <2>1, <2>2, <2>3, <2>4, <2>5, <2>6 DEF ClubsIInv, ClubsTypeOK
<1>3. PassFits'
  BY DEF CommitPass, PassFits
<1>4. PlansFit'
  <2>1. /\ DOMAIN tx' \subseteq DOMAIN tx
        /\ \A v \in DOMAIN tx' : tx'[v] = tx[v] /\ ~Disturbs(tx[v], s)
    BY DEF CommitPass, Restrict
  <2>2. \A v \in DOMAIN tx : PlanFits(tx[v])
    BY DEF ClubsIInv, PlansFit
  <2> SUFFICES ASSUME NEW v \in DOMAIN tx' PROVE \E z \in {tx'[v]} : PlanFits(z)'
    BY DEF PlansFit
  <2>3. PICK u : u = tx[v]
    OBVIOUS
  <2>4. PlanFits(u) /\ ~Disturbs(u, s) /\ u = tx'[v]
    BY <2>1, <2>2, <2>3
  <2>5. PlanFits(u)'
    BY <1>1, <2>4, PassLeavesPlans
  <2> QED
    BY <2>4, <2>5
<1>5. CopiesAgree'
  <2> SUFFICES ASSUME NEW m \in DOMAIN member', m \notin skewed'
               PROVE  member'[m] = person'[m[1]].activated
    BY DEF CopiesAgree, Stale
  <2>1. m \in DOMAIN member /\ m[1] \in DOMAIN person /\ member[m] \in BOOLEAN
    BY <1>1 DEF PassIs, ClubsIInv, ClubsTypeOK
  <2>2. CASE m \in s.seen
    <3>1. member'[m] = FALSE /\ m[1] \in s.asleep
      BY <1>1, <2>1, <2>2 DEF PassIs
    <3>2. person'[m[1]].activated = FALSE
      BY <1>1, <2>1, <3>1 DEF PassIs
    <3> QED
      BY <3>1, <3>2
  <2>3. CASE m \notin s.seen /\ m[1] \in s.asleep
    <3>1. ~Stale(m)'
      BY <2>1, <2>3 DEF CommitPass
    <3> QED
      BY <3>1 DEF Stale
  <2>4. CASE m \notin s.seen /\ m[1] \notin s.asleep
    <3>1. m \notin skewed \/ ~Stale(m)'
      BY DEF CommitPass
    <3>2. CASE m \notin skewed
      <4>1. member[m] = person[m[1]].activated
        BY <2>1, <3>2 DEF ClubsIInv, CopiesAgree, Stale
      <4>2. person'[m[1]] = person[m[1]] /\ member'[m] = member[m]
        BY <1>1, <2>1, <2>4 DEF PassIs
      <4> QED
        BY <4>1, <4>2
    <3> QED
      BY <3>1, <3>2 DEF Stale
  <2> QED
    BY <2>2, <2>3, <2>4
<1>6. QuotaHolds'
  <2>1. \A p \in DOMAIN person : Exceeds(p)' <=> Exceeds(p)
    <3>1. \A p \in DOMAIN person : person'[p].gold = person[p].gold /\ ClubsOf(p)' = ClubsOf(p)
      BY <1>1 DEF PassIs
    <3> QED
      BY <3>1 DEF Exceeds
  <2>2. DOMAIN person' = DOMAIN person /\ raced' = raced
    BY <1>1 DEF PassIs, CommitPass
  <2> QED
    BY <2>1, <2>2 DEF ClubsIInv, QuotaHolds
<1>7. CountsAreExact'
  BY <1>1, PassCounts
<1> QED
  BY <1>2, <1>3, <1>4, <1>5, <1>6, <1>7 DEF ClubsIInv

LEMMA InitClubsIInv == ClubsInit => ClubsIInv
<1> SUFFICES ASSUME ClubsInit PROVE ClubsIInv
  OBVIOUS
<1>1. /\ DOMAIN person = {} /\ DOMAIN member = {} /\ DOMAIN count = {} /\ DOMAIN tx = {}
      /\ pass = {}
  BY DEF ClubsInit
<1>2. ClubsTypeOK
  BY <1>1, ClubsAssumption DEF ClubsAssumption, ClubsInit, ClubsTypeOK
<1> QED
  BY <1>1, <1>2 DEF ClubsIInv, PlansFit, PassFits, CountsAreExact, CopiesAgree, QuotaHolds

LEMMA NextClubsIInv == ClubsIInv /\ [ClubsNext]_clubsVars => ClubsIInv'
<1> SUFFICES ASSUME ClubsIInv, [ClubsNext]_clubsVars PROVE ClubsIInv'
  OBVIOUS
<1>1. ASSUME NEW w \in Workers, NEW p \in People, Deactivate(w, p) \/ DeleteAccount(w, p)
      PROVE  ClubsIInv'
  BY <1>1, DeactivateFits, DeleteFits
<1>2. ASSUME NEW w \in Workers, NEW p \in People, NEW gold \in BOOLEAN, UpdateGold(w, p, gold)
      PROVE  ClubsIInv'
  BY <1>2, GoldFits
<1>3. ASSUME NEW w \in Workers, NEW p \in People, NEW c,
             \/ JoinClub(w, p, c) \/ LeaveClub(w, p, c)
             \/ FinishOnboarding(w, p, c) \/ CheckOtp(w, p, c)
      PROVE  ClubsIInv'
  BY <1>3, JoinFits, LeaveFits, RegisterFits, SigninFits
<1>4. ASSUME NEW w \in DOMAIN tx, Commit(w) \/ Abort(w) PROVE ClubsIInv'
  BY <1>4, CommitClubsKeeps, AbortLeaves
<1>6. ASSUME NEW P \in SUBSET People, BeginPass(P) PROVE ClubsIInv'
  BY <1>6, BeginPassKeeps
<1>7. ASSUME NEW s \in pass, CommitPass(s) PROVE ClubsIInv'
  BY <1>7, CommitPassKeeps
<1>8. CASE AbortPass
  BY <1>8, AbortPassKeeps
<1>5. CASE UNCHANGED clubsVars
  <2>1. UNCHANGED <<person, member, count, tx, pass, drift, skewed, raced>>
    BY <1>5 DEF clubsVars, tables, history
  <2>2. ASSUME NEW u, PlanFits(u) PROVE PlanFits(u)'
    BY <2>1, <2>2 DEF PlanFits, RowFits, MembersFit, QuotaFits, ClubsOf, GoldOf
  <2>3. PlansFit'
    BY <2>1, <2>2 DEF ClubsIInv, PlansFit
  <2>4. ClubsTypeOK' /\ PassFits' /\ CountsAreExact' /\ CopiesAgree' /\ QuotaHolds'
    BY <2>1 DEF ClubsIInv, ClubsTypeOK, PassFits, CountsAreExact, Active, CopiesAgree, Stale, QuotaHolds,
                Exceeds, ClubsOf
  <2> QED
    BY <2>3, <2>4 DEF ClubsIInv
<1> QED
  BY <1>1, <1>2, <1>3, <1>4, <1>5, <1>6, <1>7, <1>8 DEF ClubsNext

LEMMA ClubsInvariant == ClubsSpec => []ClubsIInv
  BY InitClubsIInv, NextClubsIInv, PTL DEF ClubsSpec

\* Every variable keeps its type; every membership has its person and its club.
THEOREM ClubsTypeCorrect == ClubsSpec => []ClubsTypeOK
  BY ClubsInvariant, PTL DEF ClubsIInv

\* A club counts its activated members, but for the drift that is known
\* (Q_JOIN_CLUB, Q_LEAVE_CLUB, Q_DELETE_ACCOUNT and the other statements that
\* move count_members, of which the cron job's decrements each club once for all
\* who fall asleep in one pass).
THEOREM CountsStayExact == ClubsSpec => []CountsAreExact
  BY ClubsInvariant, PTL DEF ClubsIInv

\* The copies of `activated` and the quota of clubs hold, but for the races that
\* are known.
THEOREM MembershipsStay == ClubsSpec => []MembershipsHold
  BY ClubsInvariant, PTL DEF ClubsIInv, MembershipsHold

-----------------------------------------------------------------------------
(* The distance preference.                                                    *)

\* How many people live within a distance.
LEMMA WithinIs ==
  ASSUME bdPeople \subseteq 1 .. BdMax + 1
  PROVE  /\ \A d \in Int : Within(d) \in 0 .. BdMax + 1
         /\ \A d, e \in Int : d <= e => Within(d) <= Within(e)
         /\ Within(0) = 0
<1> DEFINE near(d) == {p \in bdPeople : p <= d}
<1>0. BdMax + 1 = 33 /\ \A p \in bdPeople : p \in 1 .. 33
  BY DEF BdMax
<1>1. IsFiniteSet(1 .. BdMax + 1) /\ Cardinality(1 .. BdMax + 1) = BdMax + 1
  <2>1. 1 \in Int /\ 33 \in Int /\ ~(1 > 33) /\ 33 - 1 + 1 = 33
    OBVIOUS
  <2>2. IsFiniteSet(1 .. 33) /\ Cardinality(1 .. 33) = IF 1 > 33 THEN 0 ELSE 33 - 1 + 1
    BY <2>1, FS_Interval, Zenon
  <2>3. IsFiniteSet(1 .. 33) /\ Cardinality(1 .. 33) = 33
    BY <2>1, <2>2
  <2> QED
    BY <1>0, <2>3, Zenon
<1>2. ASSUME NEW d \in Int
      PROVE  IsFiniteSet(near(d)) /\ Cardinality(near(d)) \in 0 .. BdMax + 1
  <2>1. near(d) \subseteq 1 .. BdMax + 1
    OBVIOUS
  <2> HIDE DEF near
  <2>2. IsFiniteSet(near(d)) /\ Cardinality(near(d)) <= Cardinality(1 .. BdMax + 1)
    BY <1>1, <2>1, FS_Subset
  <2>3. Cardinality(near(d)) \in Nat
    BY <2>2, FS_CardinalityType
  <2> QED
    BY <1>1, <2>2, <2>3 DEF BdMax
<1>3. ASSUME NEW d \in Int, NEW e \in Int, d <= e
      PROVE  Cardinality(near(d)) <= Cardinality(near(e))
  <2>1. near(d) \subseteq near(e)
    <3>1. \A p \in bdPeople : p <= d => p <= e
      BY <1>0, <1>3
    <3> QED
      BY <3>1
  <2> HIDE DEF near
  <2> QED
    BY <1>2, <2>1, FS_Subset
<1>4. Cardinality(near(0)) = 0
  <2>1. near(0) = {}
    <3>1. \A p \in bdPeople : ~(p <= 0)
      BY <1>0
    <3> QED
      BY <3>1
  <2> HIDE DEF near
  <2> QED
    BY <2>1, FS_EmptySet
<1> QED
  BY <1>2, <1>3, <1>4 DEF Within

\* Two elements and three.
LEMMA PairHas ==
  ASSUME NEW a, NEW b, a # b
  PROVE  IsFiniteSet({a, b}) /\ Cardinality({a, b}) = 2
<1>1. {a, b} = {a} \cup {b} /\ b \notin {a}
  OBVIOUS
<1>2. IsFiniteSet({a}) /\ Cardinality({a}) = 1
  BY FS_Singleton
<1>3. IsFiniteSet({a} \cup {b}) /\ Cardinality({a} \cup {b}) = Cardinality({a}) + 1
  BY <1>1, <1>2, FS_AddElement
<1> QED
  BY <1>1, <1>2, <1>3

LEMMA TripleHas ==
  ASSUME NEW a, NEW b, NEW c, a # b, b # c, a # c
  PROVE  Cardinality({a, b, c}) = 3
<1>1. {a, b, c} = {a, b} \cup {c} /\ c \notin {a, b}
  OBVIOUS
<1>2. IsFiniteSet({a, b}) /\ Cardinality({a, b}) = 2
  BY PairHas
<1>3. Cardinality({a, b} \cup {c}) = Cardinality({a, b}) + 1
  BY <1>1, <1>2, FS_AddElement
<1> QED
  BY <1>1, <1>2, <1>3

\* A row has the count of its distance; only the row that the search begins
\* with, at 10000 km, has none.
PointOK(r) ==
  /\ r \in [dist : 0 .. BdMax, cnt : 0 .. Sentinel]
  /\ r.dist = BdMax \/ r.cnt = Counted(r.dist)

\* Two rows, or three, of different distances.
PointsOK ==
  \E a, b, c \in bdPoints :
    /\ a.dist < b.dist /\ (c = b \/ b.dist < c.dist)
    /\ bdPoints = {a, b, c}

BdIInv ==
  /\ bdPeople \subseteq 1 .. BdMax + 1 /\ bdIters \in 0 .. 5
  /\ \A r \in bdPoints : PointOK(r)
  /\ PointsOK

LEMMA InitBdIInv == BdInit => BdIInv
<1> SUFFICES ASSUME BdInit PROVE BdIInv
  OBVIOUS
<1> DEFINE a == [dist |-> 0, cnt |-> 0]
           b == [dist |-> BdMax, cnt |-> Sentinel]
<1>1. bdPeople \subseteq 1 .. BdMax + 1
  <2>1. PICK f \in [1 .. BdCrowd -> 0 .. BdMax + 1] : bdPeople = {f[i] : i \in 1 .. BdCrowd} \ {0}
    BY DEF BdInit
  <2> QED
    <3>0. BdMax + 1 = 33
      BY DEF BdMax
    <3>1. \A i \in 1 .. BdCrowd : f[i] \in 0 .. 33
      <4>1. f \in [1 .. BdCrowd -> 0 .. 33]
        BY <3>0
      <4> QED
        BY <4>1
    <3>2. \A n \in 0 .. 33 : n # 0 => n \in 1 .. BdMax + 1
      BY DEF BdMax
    <3> QED
      BY <2>1, <3>1, <3>2
<1>2. Counted(0) = 0
  BY <1>1, WithinIs, BestDistanceAssumption DEF BestDistanceAssumption, Counted
<1>3. PointOK(a) /\ PointOK(b) /\ a.dist < b.dist
  BY <1>2 DEF PointOK, BdMax, Sentinel
<1>4. bdPoints = {a, b}
  BY DEF BdInit
<1> HIDE DEF a, b
<1>5. PointsOK
  BY <1>3, <1>4 DEF PointsOK
<1> QED
  BY <1>1, <1>3, <1>4, <1>5 DEF BdIInv, BdInit

\* The two closest rows are two.
LEMMA ClosestAreTwo ==
  ASSUME BdIInv
  PROVE  \E r, q \in bdPoints : r.dist < q.dist /\ TwoClosest = {r, q}
<1>1. \A r \in bdPoints : Off(r.cnt) \in Nat /\ r.dist \in Nat
  <2>1. \A r \in bdPoints : r.cnt \in Nat /\ r.dist \in Nat
    BY DEF BdIInv, PointOK, Sentinel, BdMax
  <2>2. \A n \in Nat : Off(n) \in Nat
    BY BestDistanceAssumption DEF BestDistanceAssumption, Off
  <2> QED
    BY <2>1, <2>2
<1>2. PICK a, b, c \in bdPoints :
        /\ a.dist < b.dist /\ (c = b \/ b.dist < c.dist)
        /\ bdPoints = {a, b, c}
  BY DEF BdIInv, PointsOK
<1> DEFINE before(r) == {q \in bdPoints : Before(q, r)}
<1>3. \A r, q, s \in bdPoints :
        /\ ~Before(r, r) /\ ~(Before(r, q) /\ Before(q, r))
        /\ r.dist # q.dist => Before(r, q) \/ Before(q, r)
        /\ Before(r, q) /\ Before(q, s) => Before(r, s)
  BY <1>1 DEF Before
<1>4. \A r \in bdPoints : r \in TwoClosest <=> Cardinality(before(r)) < 2
  BY DEF TwoClosest
<1>5. TwoClosest \subseteq bdPoints
  BY DEF TwoClosest
<1>6. CASE c = b
  <2>1. a # b /\ bdPoints = {a, b}
    BY <1>1, <1>2, <1>6
  <2>2. \A r \in bdPoints : before(r) = {} \/ \E x : before(r) = {x}
    BY <1>3, <2>1
  <2> HIDE DEF before
  <2>3. \A r \in bdPoints : Cardinality(before(r)) < 2
    <3> SUFFICES ASSUME NEW r \in bdPoints PROVE Cardinality(before(r)) < 2
      OBVIOUS
    <3>1. CASE before(r) = {}
      <4>1. Cardinality(before(r)) = 0
        BY <3>1, FS_EmptySet, Zenon
      <4> QED
        BY <4>1
    <3>2. CASE \E x : before(r) = {x}
      <4>1. PICK x : before(r) = {x}
        BY <3>2
      <4>2. Cardinality({x}) = 1
        BY FS_Singleton
      <4> QED
        BY <4>1, <4>2
    <3> QED
      BY <2>2, <3>1, <3>2
  <2>4. TwoClosest = {a, b}
    BY <1>4, <1>5, <2>1, <2>3
  <2> QED
    BY <1>2, <2>4
<1>7. CASE c # b
  <2>1. a.dist # b.dist /\ b.dist # c.dist /\ a.dist # c.dist
    BY <1>1, <1>2, <1>7
  <2>2. PICK x, y, z \in bdPoints :
          /\ bdPoints = {x, y, z} /\ x.dist # y.dist /\ y # z /\ x # z
          /\ Before(x, y) /\ Before(y, z) /\ Before(x, z)
    <3>0. (Before(a, b) \/ Before(b, a)) /\ (Before(b, c) \/ Before(c, b))
          /\ (Before(a, c) \/ Before(c, a))
      BY <1>3, <2>1
    <3>1. CASE Before(a, b) /\ Before(b, c)
      BY <1>2, <1>3, <2>1, <3>1
    <3>2. CASE Before(a, c) /\ Before(c, b)
      BY <1>2, <1>3, <2>1, <3>2
    <3>3. CASE Before(b, a) /\ Before(a, c)
      BY <1>2, <1>3, <2>1, <3>3
    <3>4. CASE Before(b, c) /\ Before(c, a)
      BY <1>2, <1>3, <2>1, <3>4
    <3>5. CASE Before(c, a) /\ Before(a, b)
      BY <1>2, <1>3, <2>1, <3>5
    <3>6. CASE Before(c, b) /\ Before(b, a)
      BY <1>2, <1>3, <2>1, <3>6
    <3> QED
      BY <3>0, <3>1, <3>2, <3>3, <3>4, <3>5, <3>6
  <2>3. before(x) = {} /\ before(y) = {x} /\ before(z) = {x, y}
    BY <1>3, <2>2
  <2>4. x # y
    BY <2>2
  <2> HIDE DEF before
  <2>5. Cardinality(before(x)) = 0 /\ Cardinality(before(y)) = 1 /\ Cardinality(before(z)) = 2
    <3>1. Cardinality(before(x)) = 0
      BY <2>3, FS_EmptySet, Zenon
    <3>2. Cardinality(before(y)) = 1
      BY <2>3, FS_Singleton
    <3>3. Cardinality(before(z)) = 2
      <4>1. Cardinality({x, y}) = 2
        BY <2>4, PairHas
      <4> QED
        BY <2>3, <4>1
    <3> QED
      BY <3>1, <3>2, <3>3
  <2>6. TwoClosest = {x, y}
    BY <1>4, <1>5, <2>2, <2>5
  <2>7. x.dist < y.dist \/ y.dist < x.dist
    BY <1>1, <2>2
  <2>8. {x, y} = {y, x}
    OBVIOUS
  <2> QED
    BY <2>6, <2>7, <2>8
<1> QED
  BY <1>6, <1>7

LEMMA NextBdIInv == BdIInv /\ [BdNext]_bdVars => BdIInv'
<1> SUFFICES ASSUME BdIInv, [BdNext]_bdVars PROVE BdIInv'
  OBVIOUS
<1>1. CASE Halve
  <2>1. PICK r, q \in bdPoints : r.dist < q.dist /\ TwoClosest = {r, q}
    BY ClosestAreTwo
  <2>2. PointOK(r) /\ PointOK(q) /\ r.dist \in 0 .. BdMax /\ q.dist \in 0 .. BdMax /\ r # q
    BY <2>1 DEF BdIInv, PointOK, BdMax
  <2> DEFINE mid == (r.dist + q.dist) \div 2
             m == [dist |-> mid, cnt |-> Counted(mid)]
  <2>3. Midpoint = mid
    <3>1. \/ (CHOOSE x \in TwoClosest : TRUE) = r
          \/ (CHOOSE x \in TwoClosest : TRUE) = q
      BY <2>1
    <3>2. (CHOOSE x \in TwoClosest : x # r) = q /\ (CHOOSE x \in TwoClosest : x # q) = r
      BY <2>1, <2>2
    <3>3. Midpoint \in {(r.dist + q.dist) \div 2, (q.dist + r.dist) \div 2}
      BY <3>1, <3>2 DEF Midpoint
    <3>4. r.dist + q.dist = q.dist + r.dist
      BY <2>2
    <3> QED
      BY <3>3, <3>4
  <2>4. mid \in Nat /\ r.dist <= mid /\ mid < q.dist
    <3>1. \A x, y \in Nat : x < y => /\ (x + y) \div 2 \in Nat
                                    /\ x <= (x + y) \div 2 /\ (x + y) \div 2 < y
      OBVIOUS
    <3>2. r.dist \in Nat /\ q.dist \in Nat
      BY <2>2
    <3> QED
      BY <2>1, <3>1, <3>2
  <2>5. mid \in 0 .. BdMax /\ mid # BdMax
    BY <2>2, <2>4 DEF BdMax
  <2> HIDE DEF mid
  <2>6. Counted(mid) \in 0 .. Sentinel
    <3>1. Within(mid) \in 0 .. BdMax + 1
      BY <2>4, WithinIs DEF BdIInv
    <3> QED
      BY <3>1, BestDistanceAssumption DEF BestDistanceAssumption, Counted, BdMax, Sentinel
  <2>7. PointOK(m) /\ m.dist = mid
    BY <2>5, <2>6 DEF PointOK
  <2>8. r.dist = mid => r = m
    BY <2>2, <2>5 DEF PointOK
  <2>9. bdPoints' = {r, q} \/ bdPoints' = {r, q, m}
    BY <1>1, <2>1, <2>3 DEF Halve, NewPoints
  <2> HIDE DEF m
  <2>10. \A d : Counted(d)' = Counted(d)
    BY <1>1 DEF Halve, Counted, Within
  <2>11. \A x \in bdPoints' : PointOK(x)'
    BY <2>2, <2>7, <2>9, <2>10 DEF PointOK
  <2>12. PointsOK'
    <3>1. CASE bdPoints' = {r, q}
      BY <2>1, <3>1 DEF PointsOK
    <3>2. CASE bdPoints' = {r, q, m} /\ r.dist = mid
      BY <2>1, <2>8, <3>2 DEF PointsOK
    <3>3. CASE bdPoints' = {r, q, m} /\ r.dist # mid
      <4>1. r.dist < m.dist /\ m.dist < q.dist
        BY <2>2, <2>4, <2>7, <3>3 DEF BdMax
      <4>2. bdPoints' = {r, m, q}
        BY <3>3
      <4> QED
        BY <4>1, <4>2 DEF PointsOK
    <3> QED
      BY <2>9, <3>1, <3>2, <3>3
  <2> QED
    BY <1>1, <2>11, <2>12 DEF BdIInv, Halve
<1>2. CASE UNCHANGED bdVars
  BY <1>2 DEF bdVars, BdIInv, PointsOK, PointOK, Counted, Within
<1> QED
  BY <1>1, <1>2 DEF BdNext

LEMMA BdInvariant == BdSpec => []BdIInv
  BY InitBdIInv, NextBdIInv, PTL DEF BdSpec

\* The rows of an iteration are two or three, and each is of the types above.
LEMMA BdTypes == BdIInv => BdTypeOK
<1> SUFFICES ASSUME BdIInv PROVE BdTypeOK
  OBVIOUS
<1>1. PICK a, b, c \in bdPoints :
        /\ a.dist < b.dist /\ (c = b \/ b.dist < c.dist)
        /\ bdPoints = {a, b, c}
  BY DEF BdIInv, PointsOK
<1>2. \A r \in bdPoints : r.dist \in Nat
  BY DEF BdIInv, PointOK, BdMax
<1>3. a # b /\ (c # b => b # c /\ a # c)
  BY <1>1, <1>2
<1>4. Cardinality(bdPoints) \in {2, 3}
  <2>1. CASE c = b
    <3>1. bdPoints = {a, b}
      BY <1>1, <2>1
    <3> QED
      BY <1>3, <3>1, PairHas
  <2>2. CASE c # b
    <3>1. Cardinality({a, b, c}) = 3
      BY <1>3, <2>2, TripleHas
    <3> QED
      BY <1>1, <3>1
  <2> QED
    BY <2>1, <2>2
<1> QED
  BY <1>4 DEF BdTypeOK, BdIInv, PointOK

\* However many people live where: the limit that is stored, if one is, leaves
\* enough of them, or there are not as many within 9000 km.
LEMMA EnoughFound == BdIInv => EnoughAreFound
<1> SUFFICES ASSUME BdIInv, 4 * Within(28) >= BdTarget
             PROVE  4 * Within(Preference) >= BdTarget
  BY DEF EnoughAreFound
<1>1. PICK a, b, c \in bdPoints :
        /\ a.dist < b.dist /\ (c = b \/ b.dist < c.dist)
        /\ bdPoints = {a, b, c}
  BY DEF BdIInv, PointsOK
<1>2. \A r \in bdPoints : PointOK(r) /\ r.dist \in Nat
  BY DEF BdIInv, PointOK, BdMax
<1>3. {q \in bdPoints : q.dist < b.dist} = {a}
  BY <1>1, <1>2
<1>4. Best \in bdPoints
  <2>1. Cardinality({q \in bdPoints : q.dist < b.dist}) = 1
    BY <1>3, FS_Singleton
  <2> QED
    BY <2>1 DEF Best
<1>5. /\ Best.dist \in 0 .. BdMax /\ Best.cnt \in Nat
      /\ Best.dist = BdMax \/ Best.cnt = Counted(Best.dist)
  BY <1>2, <1>4, SMTT(40) DEF PointOK, Sentinel
<1>6. Within(NoLimit) \in Nat /\ Within(28) \in Nat /\ Within(28) <= Within(NoLimit)
  BY WithinIs DEF BdIInv, NoLimit, BdMax
<1>7. Within(Best.dist) \in Nat
  BY <1>5, WithinIs DEF BdIInv, BdMax
<1>8. CASE 4 * Best.cnt < BdTarget
  BY <1>6, <1>8, BestDistanceAssumption DEF BestDistanceAssumption, Preference
<1>9. CASE 4 * Best.cnt >= BdTarget /\ Best.dist > 28
  <2>1. ~(4 * Best.cnt < BdTarget)
    BY <1>5, <1>9, BestDistanceAssumption DEF BestDistanceAssumption
  <2> QED
    BY <1>9, <2>1 DEF Preference
<1>10. CASE 4 * Best.cnt >= BdTarget /\ ~(Best.dist > 28)
  <2>1. ~(4 * Best.cnt < BdTarget)
    BY <1>5, <1>10, BestDistanceAssumption DEF BestDistanceAssumption
  <2>2. Preference = Best.dist
    BY <1>10, <2>1 DEF Preference
  <2>3. Best.cnt = Counted(Best.dist)
    BY <1>5, <1>10 DEF BdMax
  <2>4. Best.cnt <= Within(Best.dist)
    BY <1>7, <2>3, BestDistanceAssumption DEF BestDistanceAssumption, Counted
  <2> QED
    BY <1>5, <1>7, <1>10, <2>2, <2>4, BestDistanceAssumption DEF BestDistanceAssumption
<1> QED
  BY <1>5, <1>8, <1>9, <1>10, BestDistanceAssumption DEF BestDistanceAssumption

\* Every variable keeps its type, and a limit that is stored leaves enough people.
THEOREM DistanceRight == BdSpec => [](BdTypeOK /\ EnoughAreFound)
<1>1. BdIInv => BdTypeOK /\ EnoughAreFound
  BY BdTypes, EnoughFound
<1> QED
  BY <1>1, BdInvariant, PTL

-----------------------------------------------------------------------------
(* All together.                                                               *)

MembersVars == <<part, accVars, clubsVars, ansVars, bdVars>>

LEMMA MembersSteps ==
  /\ MembersInit => AccInit /\ ClubsInit /\ AnsInit /\ BdInit
  /\ [MembersNext]_MembersVars =>
       [AccNext]_accVars /\ [ClubsNext]_clubsVars /\ [AnsNext]_ansVars /\ [BdNext]_bdVars
  BY DEF MembersInit, MembersNext, MembersVars

LEMMA MembersRefine == MembersSpec => AccSpec /\ ClubsSpec /\ AnsSpec /\ BdSpec
<1>1. MembersSpec => MembersInit /\ [][MembersNext]_MembersVars
  BY DEF MembersSpec, MembersVars
<1> QED
  BY <1>1, MembersSteps, PTL DEF AccSpec, ClubsSpec, AnsSpec, BdSpec

Parts == {"accounts", "clubs", "answers", "distance"}

\* The variables of whichever runs keep their types.
THEOREM MembersTypeCorrect == MembersSpec => []MembersTypeOK
<1>1. MembersSpec => MembersInit /\ [][MembersNext]_MembersVars
  BY DEF MembersSpec, MembersVars
<1>2. MembersInit => part \in Parts
  BY DEF MembersInit, Parts
<1>3. part \in Parts /\ [MembersNext]_MembersVars => (part \in Parts)'
  BY DEF MembersNext, MembersVars
<1>4. part \in Parts /\ AccTypeOK /\ ClubsTypeOK /\ AnsIInv /\ BdTypeOK => MembersTypeOK
  BY DEF MembersTypeOK, AnsIInv, Parts
<1>5. BdIInv => BdTypeOK
  BY BdTypes
<1> QED
  BY <1>1, <1>2, <1>3, <1>4, <1>5, MembersRefine, AccTypeCorrect, ClubsTypeCorrect, AnsInvariant,
     BdInvariant, PTL

\* The answers add up in every run of the four (Q_UPDATE_ANSWER, Q_ANSWER_COMPARISON
\* and the tallies of post_answer).
THEOREM AnswersStayRight == MembersSpec => []AnswersAddUp
<1>1. ScoresAreSums /\ TalliesCoverAnswers /\ ComparisonsPartition => AnswersAddUp
  BY DEF AnswersAddUp
<1> QED
  BY <1>1, MembersRefine, AnswersRight, PTL
=============================================================================
