-------------------------- MODULE MessageStoreProofs --------------------------
(***************************************************************************)
(* Machine-checked proofs about MessageStore, for any workers, accounts,    *)
(* messages and markers, any batch size and any number of crashes.          *)
(***************************************************************************)
EXTENDS MessageStore, SequenceTheorems, FiniteSetTheorems, WellFoundedInduction, TLAPS

(* Induction over the jobs of a batch.                                       *)

\* Induction, for a set of numbers.
LEMMA SetInduction ==
  ASSUME NEW T \in SUBSET Nat, 0 \in T, \A n \in T : n + 1 \in T
  PROVE  T = Nat
<1> SUFFICES ASSUME Nat \ T # {} PROVE FALSE
  OBVIOUS
<1>1. IsWellFoundedOn(OpToRel(<, Nat), Nat)
  BY NatLessThanWellFounded
<1>2. PICK x \in Nat \ T : \A y \in Nat \ T : ~ (<<y, x>> \in OpToRel(<, Nat))
  BY <1>1, WFMin
<1>3. \A y \in Nat \ T : ~(y < x)
  BY <1>2 DEF OpToRel
<1> HIDE <1>1, <1>2
<1>4. x \in Nat /\ x \notin T
  OBVIOUS
<1>5. x # 0
  BY <1>4
<1>6. x - 1 \in Nat /\ x - 1 < x /\ (x - 1) + 1 = x
  BY <1>4, <1>5
<1>7. x - 1 \in T
  BY <1>3, <1>6
<1>8. (x - 1) + 1 \in T
  BY <1>7
<1> QED
  BY <1>4, <1>6, <1>8

\* The upserts of a batch go through states of the table, one per job.
LEMMA UpsertAllSteps ==
  ASSUME NEW rows, NEW jobs, Len(jobs) \in Nat
  PROVE  \E f : /\ f[0] = rows
                /\ \A i \in 1..Len(jobs) : f[i] = Upsert(f[i - 1], jobs[i])
                /\ UpsertAll(rows, jobs) = f[Len(jobs)]
<1> DEFINE next(g, i) == IF i = 0 THEN rows ELSE Upsert(g[i - 1], jobs[i])
           Fills(g, n) == g = [i \in 0..n |-> next(g, i)]
           T == {n \in Nat : \E g : Fills(g, n)}
           after == CHOOSE g : Fills(g, Len(jobs))
<1>1. UpsertAll(rows, jobs) = after[Len(jobs)]
  BY Zenon DEF UpsertAll
<1>2. 0 \in T
  <2>1. Fills([i \in 0..0 |-> rows], 0)
    OBVIOUS
  <2> QED
    BY <2>1
<1>3. ASSUME NEW n \in T PROVE n + 1 \in T
  <2>1. PICK g : Fills(g, n)
    OBVIOUS
  <2> DEFINE h == [i \in 0..(n + 1) |-> IF i = n + 1 THEN Upsert(g[n], jobs[n + 1]) ELSE g[i]]
  <2>2. n \in Nat /\ \A i \in 0..n : g[i] = next(g, i)
    BY <2>1
  <2>3. ASSUME NEW i \in 0..(n + 1) PROVE h[i] = next(h, i)
    <3>1. CASE i = n + 1
      <4>1. i # 0 /\ i - 1 = n /\ h[n] = g[n] /\ h[i] = Upsert(g[n], jobs[i])
        BY <2>2, <3>1
      <4> HIDE DEF h
      <4> QED
        BY <4>1
    <3>2. CASE i = 0
      <4>1. h[i] = g[i] /\ g[i] = rows
        BY <2>2, <3>2
      <4> HIDE DEF h
      <4> QED
        BY <3>2, <4>1
    <3>3. CASE i # 0 /\ i # n + 1
      <4>1. i \in 0..n /\ i - 1 \in 0..(n + 1) /\ i - 1 # n + 1
        BY <2>2, <3>3
      <4>2. h[i] = g[i] /\ h[i - 1] = g[i - 1]
        BY <4>1
      <4> HIDE DEF h
      <4>3. g[i] = Upsert(g[i - 1], jobs[i])
        BY <2>2, <3>3, <4>1
      <4> QED
        BY <3>3, <4>2, <4>3
    <3> QED
      BY <3>1, <3>2, <3>3
  <2>4. h = [i \in 0..(n + 1) |-> h[i]]
    OBVIOUS
  <2> HIDE DEF h
  <2>5. Fills(h, n + 1)
    <3> HIDE DEF next
    <3> QED
      BY <2>3, <2>4
  <2> QED
    BY <2>2, <2>5
<1>4. \E g : Fills(g, Len(jobs))
  <2>1. T = Nat
    <3> HIDE DEF T
    <3>1. T \in SUBSET Nat
      BY DEF T
    <3> QED
      BY <1>2, <1>3, <3>1, SetInduction
  <2> HIDE DEF Fills
  <2> QED
    BY <2>1
<1>5. Fills(after, Len(jobs))
  <2> HIDE DEF Fills
  <2> QED
    BY <1>4
<1> HIDE DEF after
<1>6. \A i \in 0..Len(jobs) : after[i] = next(after, i)
  BY <1>5
<1>7. after[0] = rows
  BY <1>6
<1>8. \A i \in 1..Len(jobs) : after[i] = Upsert(after[i - 1], jobs[i])
  BY <1>6
<1> HIDE DEF next, Fills
<1> QED
  BY <1>1, <1>7, <1>8

\* No job is there twice.
NoDup(s) == \A i, j \in DOMAIN s : s[i] = s[j] => i = j

-----------------------------------------------------------------------------
(* The tables that a batch writes, as functions of their contents.           *)

FromPeer(archive, k) ==
  {r \in archive : r[1] = k[1] /\ SenderRow(r[2]) = <<k[2], k[1]>>}

Agree(rows, p) == \A u, v \in p : <<u, v>> \in DOMAIN rows =>
  <<v, u>> \in DOMAIN rows /\ rows[<<v, u>>].last = rows[<<u, v>>].last
Owned(rows, archive, p) ==
  (\A k \in DOMAIN rows : k[1] \in p) /\ \A r \in archive : r[1] \in p
Counted(rows, archive) == \A k \in DOMAIN rows : rows[k].unread > 0 =>
  /\ Sender[rows[k].last] = k[2]
  /\ rows[k].unread <= Cardinality(FromPeer(archive, k))
Unanswered(rows, wrote) == \A k \in DOMAIN rows : rows[k].box = "inbox" => k \notin wrote

TablesTyped(rows, archive, wrote) ==
  /\ DOMAIN rows \subseteq Users \X Users /\ \A k \in DOMAIN rows : rows[k] \in Row
  /\ archive \subseteq Users \X Msgs /\ IsFiniteSet(archive)
  /\ wrote \subseteq DOMAIN rows

TablesRight(rows, archive, wrote, p) ==
  /\ TablesTyped(rows, archive, wrote) /\ Agree(rows, p) /\ Owned(rows, archive, p)
  /\ Counted(rows, archive) /\ Unanswered(rows, wrote)

ChatsKept(rows, later) == \A k \in DOMAIN rows :
  k \in DOMAIN later /\ (rows[k].box = "chats" => later[k].box = "chats")

\* The archive rows of a message.
Copies(m) == {<<Sender[m], m>>, <<Recipient[m], m>>}

\* A new message adds one to what came from the peer, and takes nothing away.
LEMMA FromPeerGrows ==
  ASSUME NEW archive, IsFiniteSet(archive), NEW k,
         NEW more, archive \subseteq more, IsFiniteSet(more)
  PROVE  /\ Cardinality(FromPeer(archive, k)) \in Nat
         /\ Cardinality(FromPeer(more, k)) \in Nat
         /\ Cardinality(FromPeer(archive, k)) <= Cardinality(FromPeer(more, k))
         /\ \A r \in more \ archive : r \in FromPeer(more, k) =>
              Cardinality(FromPeer(archive, k)) + 1 <= Cardinality(FromPeer(more, k))
<1> DEFINE a == FromPeer(archive, k)
           b == FromPeer(more, k)
<1>1. a \subseteq archive /\ b \subseteq more /\ a \subseteq b
  BY DEF FromPeer
<1>2. IsFiniteSet(a) /\ IsFiniteSet(b)
  BY <1>1, FS_Subset
<1>3. Cardinality(a) \in Nat /\ Cardinality(b) \in Nat /\ Cardinality(a) <= Cardinality(b)
  BY <1>1, <1>2, FS_Subset, FS_CardinalityType
<1>4. ASSUME NEW r \in more \ archive, r \in b PROVE Cardinality(a) + 1 <= Cardinality(b)
  <2>1. r \notin a /\ a \cup {r} \subseteq b
    BY <1>1, <1>4
  <2>2. IsFiniteSet(a \cup {r}) /\ Cardinality(a \cup {r}) = Cardinality(a) + 1
    BY <1>2, <2>1, FS_AddElement
  <2>3. Cardinality(a \cup {r}) <= Cardinality(b)
    BY <1>2, <2>1, FS_Subset
  <2> QED
    BY <2>2, <2>3
<1> QED
  BY <1>3, <1>4

\* What an upsert writes.
LEMMA Upserted ==
  ASSUME NEW rows, NEW m \in Msgs, Sender[m] # Recipient[m]
  PROVE  LET s == SenderRow(m)
             r == RecipientRow(m)
             later == Upsert(rows, m)
         IN /\ s # r /\ DOMAIN later = DOMAIN rows \cup {s, r}
            /\ later[s] = [last |-> m, box |-> "chats", unread |-> 0]
            /\ r \in DOMAIN rows =>
                 later[r] = [last |-> m, box |-> "chats", unread |-> rows[r].unread + 1]
            /\ r \notin DOMAIN rows => later[r] = [last |-> m, box |-> "inbox", unread |-> 1]
            /\ \A k \in DOMAIN rows \ {s, r} : later[k] = rows[k]
<1>2. SenderRow(m) # RecipientRow(m)
  BY DEF SenderRow, RecipientRow
<1> DEFINE s == SenderRow(m)
           r == RecipientRow(m)
           later == Upsert(rows, m)
<1> HIDE DEF s, r
<1>3. s # r
  BY <1>2 DEF s, r
<1>4. /\ DOMAIN later = DOMAIN rows \cup {s, r}
      /\ later[s] = [last |-> m, box |-> "chats", unread |-> 0]
      /\ r \in DOMAIN rows =>
           later[r] = [last |-> m, box |-> "chats", unread |-> rows[r].unread + 1]
      /\ r \notin DOMAIN rows => later[r] = [last |-> m, box |-> "inbox", unread |-> 1]
      /\ \A k \in DOMAIN rows \ {s, r} : later[k] = rows[k]
  BY <1>3 DEF Upsert, s, r
<1> QED
  BY <1>3, <1>4 DEF s, r

\* One upsert keeps the tables right, with the message's archive rows and its
\* place in `messaged`.
LEMMA UpsertKeepsTables ==
  ASSUME NEW p \in SUBSET Users, NEW rows, NEW archive, NEW wrote, NEW m \in Msgs,
         TablesRight(rows, archive, wrote, p), People(m) \subseteq p, Sender[m] # Recipient[m],
         \A x \in archive : x[2] # m
  PROVE  /\ TablesRight(Upsert(rows, m), archive \cup Copies(m),
                        wrote \cup {SenderRow(m)}, p)
         /\ ChatsKept(rows, Upsert(rows, m))
<1> DEFINE s == SenderRow(m)
           r == RecipientRow(m)
           later == Upsert(rows, m)
           more == archive \cup Copies(m)
           written == wrote \cup {s}
<1> USE DEF TablesRight
<1>1. /\ s # r /\ DOMAIN later = DOMAIN rows \cup {s, r}
      /\ later[s] = [last |-> m, box |-> "chats", unread |-> 0]
      /\ r \in DOMAIN rows =>
           later[r] = [last |-> m, box |-> "chats", unread |-> rows[r].unread + 1]
      /\ r \notin DOMAIN rows => later[r] = [last |-> m, box |-> "inbox", unread |-> 1]
      /\ \A k \in DOMAIN rows \ {s, r} : later[k] = rows[k]
  BY Upserted
<1>2. /\ Sender[m] \in p /\ Recipient[m] \in p /\ Sender[m] # Recipient[m]
      /\ s = <<Sender[m], Recipient[m]>> /\ r = <<Recipient[m], Sender[m]>>
      /\ s \in Users \X Users /\ r \in Users \X Users
  BY MessageStoreAssumption DEF MessageStoreAssumption, People, SenderRow, RecipientRow
<1> HIDE DEF s, r, later
<1>3. TablesTyped(later, more, written)
  <2>1. \A k \in DOMAIN later : later[k] \in Row
    <3> SUFFICES ASSUME NEW k \in DOMAIN later PROVE later[k] \in Row
      OBVIOUS
    <3>1. CASE k = s
      BY <3>1, <1>1 DEF Row
    <3>2. CASE k = r /\ r \in DOMAIN rows
      <4>1. rows[r].unread \in Nat
        BY <3>2 DEF TablesTyped, Row
      <4> QED
        BY <3>2, <4>1, <1>1 DEF Row
    <3>3. CASE k = r /\ r \notin DOMAIN rows
      BY <3>3, <1>1 DEF Row
    <3>4. CASE k \notin {s, r}
      BY <3>4, <1>1 DEF TablesTyped
    <3> QED
      BY <3>1, <3>2, <3>3, <3>4
  <2>2. IsFiniteSet(more)
    <3>1. IsFiniteSet(archive \cup {<<Sender[m], m>>})
      BY FS_AddElement DEF TablesTyped
    <3>2. IsFiniteSet((archive \cup {<<Sender[m], m>>}) \cup {<<Recipient[m], m>>})
      BY <3>1, FS_AddElement
    <3>3. more = (archive \cup {<<Sender[m], m>>}) \cup {<<Recipient[m], m>>}
      BY DEF Copies
    <3> QED
      BY <3>2, <3>3
  <2>3. more \subseteq Users \X Msgs
    BY <1>2 DEF TablesTyped, Copies
  <2> QED
    BY <1>1, <1>2, <2>1, <2>2, <2>3 DEF TablesTyped
<1>4. Agree(later, p)
  <2> SUFFICES ASSUME NEW u \in p, NEW v \in p, <<u, v>> \in DOMAIN later
               PROVE  <<v, u>> \in DOMAIN later /\ later[<<v, u>>].last = later[<<u, v>>].last
    BY DEF Agree
  <2>1. (<<u, v>> = s <=> <<v, u>> = r) /\ (<<u, v>> = r <=> <<v, u>> = s)
    BY <1>2
  <2>2. later[s].last = m /\ later[r].last = m
    BY <1>1
  <2> QED
    BY <1>1, <2>1, <2>2 DEF Agree
<1>5. Owned(later, more, p)
  BY <1>1, <1>2 DEF Owned, Copies
<1>6. Counted(later, more)
  <2> SUFFICES ASSUME NEW k \in DOMAIN later, later[k].unread > 0
               PROVE  /\ Sender[later[k].last] = k[2]
                      /\ later[k].unread <= Cardinality(FromPeer(more, k))
    BY DEF Counted
  <2>1. /\ Cardinality(FromPeer(archive, k)) \in Nat /\ Cardinality(FromPeer(more, k)) \in Nat
        /\ Cardinality(FromPeer(archive, k)) <= Cardinality(FromPeer(more, k))
        /\ \A x \in more \ archive : x \in FromPeer(more, k) =>
             Cardinality(FromPeer(archive, k)) + 1 <= Cardinality(FromPeer(more, k))
    <3>1. archive \subseteq more /\ IsFiniteSet(archive) /\ IsFiniteSet(more)
      BY <1>3 DEF TablesTyped
    <3> QED
      BY <3>1, FromPeerGrows
  <2>2. CASE k = r
    <3>1. /\ <<Recipient[m], m>> \in more \ archive
          /\ <<Recipient[m], m>> \in FromPeer(more, k)
      BY <2>2, <1>2 DEF Copies, FromPeer, SenderRow
    <3>2. Cardinality(FromPeer(archive, k)) + 1 <= Cardinality(FromPeer(more, k))
      BY <2>1, <3>1
    <3>3. r \in DOMAIN rows =>
            /\ rows[r].unread \in Nat
            /\ rows[r].unread > 0 => rows[r].unread <= Cardinality(FromPeer(archive, r))
      BY DEF TablesTyped, Row, Counted
    <3>4. Sender[later[k].last] = k[2]
      BY <2>2, <1>1, <1>2
    <3>5. CASE r \in DOMAIN rows
      <4>1. later[k].unread = rows[r].unread + 1
        BY <2>2, <3>5, <1>1
      <4> QED
        BY <2>1, <2>2, <3>2, <3>3, <3>4, <3>5, <4>1
    <3>6. CASE r \notin DOMAIN rows
      <4>1. later[k].unread = 1
        BY <2>2, <3>6, <1>1
      <4> QED
        BY <2>1, <3>2, <3>4, <4>1
    <3> QED
      BY <3>5, <3>6
  <2>3. CASE k = s
    BY <2>3, <1>1
  <2>4. CASE k \notin {s, r}
    <3>1. /\ k \in DOMAIN rows /\ later[k] = rows[k] /\ rows[k].unread \in Nat
          /\ Sender[rows[k].last] = k[2]
          /\ rows[k].unread <= Cardinality(FromPeer(archive, k))
      BY <2>4, <1>1 DEF TablesTyped, Row, Counted
    <3> QED
      BY <2>1, <3>1
  <2> QED
    BY <2>2, <2>3, <2>4
<1>7. Unanswered(later, written) /\ ChatsKept(rows, later)
  <2>1. ASSUME NEW k \in DOMAIN later, later[k].box = "inbox" PROVE k \notin written
    <3>1. k # s
      BY <1>1, <2>1
    <3>2. CASE k = r
      <4>1. r \notin DOMAIN rows
        BY <3>2, <2>1, <1>1
      <4> QED
        BY <3>1, <3>2, <4>1 DEF TablesTyped
    <3>3. CASE k # r
      BY <3>1, <3>3, <2>1, <1>1 DEF Unanswered
    <3> QED
      BY <3>2, <3>3
  <2>2. ASSUME NEW k \in DOMAIN rows
        PROVE  k \in DOMAIN later /\ (rows[k].box = "chats" => later[k].box = "chats")
    BY <1>1
  <2> QED
    BY <2>1, <2>2 DEF Unanswered, ChatsKept
<1> QED
  BY <1>3, <1>4, <1>5, <1>6, <1>7 DEF later, s

\* The archive and `messaged` when the first n jobs of a batch have been written.
ArchiveAfter(archive, jobs, n) ==
  archive \cup {x \in Users \X ToSet(jobs) :
                  \E i \in 1..n : x[2] = jobs[i] /\ x[1] \in People(x[2])}
WroteAfter(wrote, jobs, n) == wrote \cup {SenderRow(jobs[i]) : i \in 1..n}

\* A batch keeps the tables right.
LEMMA BatchKeepsTables ==
  ASSUME NEW p \in SUBSET Users, NEW rows, NEW archive, NEW wrote, NEW jobs \in Seq(Msgs),
         NoDup(jobs), TablesRight(rows, archive, wrote, p),
         \A m \in ToSet(jobs) : People(m) \subseteq p /\ Sender[m] # Recipient[m],
         \A x \in archive : x[2] \notin ToSet(jobs)
  PROVE  /\ TablesRight(UpsertAll(rows, jobs),
                        archive \cup {x \in Users \X ToSet(jobs) : x[1] \in People(x[2])},
                        wrote \cup {SenderRow(m) : m \in ToSet(jobs)}, p)
         /\ ChatsKept(rows, UpsertAll(rows, jobs))
<1>1. Len(jobs) \in Nat /\ DOMAIN jobs = 1..Len(jobs) /\ \A i \in 1..Len(jobs) : jobs[i] \in Msgs
  BY LenProperties, ElementOfSeq
<1>2. PICK f : /\ f[0] = rows
               /\ \A i \in 1..Len(jobs) : f[i] = Upsert(f[i - 1], jobs[i])
               /\ UpsertAll(rows, jobs) = f[Len(jobs)]
  BY <1>1, UpsertAllSteps, ZenonT(60)
<1> DEFINE A(n) == ArchiveAfter(archive, jobs, n)
           W(n) == WroteAfter(wrote, jobs, n)
           T == {n \in Nat : n <= Len(jobs) =>
                   TablesRight(f[n], A(n), W(n), p) /\ ChatsKept(rows, f[n])}
<1>3. 0 \in T
  <2>1. A(0) = archive /\ W(0) = wrote
    BY DEF ArchiveAfter, WroteAfter
  <2>2. ChatsKept(rows, rows)
    BY DEF ChatsKept
  <2> HIDE DEF A, W
  <2> QED
    BY <1>2, <2>1, <2>2
<1>4. ASSUME NEW n \in T PROVE n + 1 \in T
  <2> SUFFICES ASSUME n + 1 <= Len(jobs)
               PROVE  TablesRight(f[n + 1], A(n + 1), W(n + 1), p) /\ ChatsKept(rows, f[n + 1])
    BY <1>1
  <2> DEFINE m == jobs[n + 1]
  <2>1. /\ n \in Nat /\ n + 1 \in 1..Len(jobs) /\ m \in Msgs /\ (n + 1) - 1 = n
        /\ TablesRight(f[n], A(n), W(n), p) /\ ChatsKept(rows, f[n])
    BY <1>1
  <2>2. f[n + 1] = Upsert(f[n], m)
    BY <1>2, <2>1
  <2>3. m \in ToSet(jobs)
    BY <1>1, <2>1 DEF ToSet
  <2>4. People(m) \subseteq p /\ Sender[m] # Recipient[m]
    BY <2>3
  <2>5. \A x \in A(n) : x[2] # m
    <3> SUFFICES ASSUME NEW x \in A(n), x[2] = m PROVE FALSE
      OBVIOUS
    <3>1. x \notin archive
      BY <2>3
    <3>2. PICK i \in 1..n : jobs[i] = m
      BY <3>1 DEF ArchiveAfter
    <3>3. i \in DOMAIN jobs /\ n + 1 \in DOMAIN jobs /\ i # n + 1
      BY <1>1, <2>1
    <3> QED
      BY <3>2, <3>3 DEF NoDup
  <2>6. A(n + 1) = A(n) \cup Copies(m)
    <3>0. /\ 1..(n + 1) = (1..n) \cup {n + 1} /\ m = jobs[n + 1]
          /\ Sender[m] \in Users /\ Recipient[m] \in Users
      BY <2>1, MessageStoreAssumption DEF MessageStoreAssumption
    <3>1. ASSUME NEW x \in A(n + 1) PROVE x \in A(n) \cup Copies(m)
      <4>1. CASE x \in A(n)
        BY <4>1
      <4>2. CASE x \notin A(n)
        <5>1. /\ x \in Users \X ToSet(jobs) /\ x[1] \in People(x[2])
              /\ \E i \in 1..(n + 1) : x[2] = jobs[i]
              /\ ~ \E i \in 1..n : x[2] = jobs[i]
          BY <4>2, <3>1 DEF ArchiveAfter
        <5>2. x[2] = m
          BY <5>1, <3>0
        <5>3. x = <<x[1], x[2]>>
          BY <5>1
        <5> QED
          BY <5>1, <5>2, <5>3 DEF Copies, People
      <4> QED
        BY <4>1, <4>2
    <3>2. A(n) \subseteq A(n + 1)
      BY <3>0 DEF ArchiveAfter
    <3>3. Copies(m) \subseteq A(n + 1)
      <4>1. n + 1 \in 1..(n + 1)
        BY <2>1
      <4>2. \A u \in Users : u \in People(m) => <<u, m>> \in A(n + 1)
        BY <2>3, <4>1 DEF ArchiveAfter
      <4> QED
        BY <3>0, <4>2 DEF Copies, People
    <3> QED
      BY <3>1, <3>2, <3>3
  <2>7. W(n + 1) = W(n) \cup {SenderRow(m)}
    <3>1. 1..(n + 1) = (1..n) \cup {n + 1}
      BY <2>1
    <3> QED
      BY <3>1 DEF WroteAfter
  <2> HIDE DEF A, W, m
  <2>8. TablesRight(f[n + 1], A(n + 1), W(n + 1), p) /\ ChatsKept(f[n], f[n + 1])
    <3>1. /\ TablesRight(Upsert(f[n], m), A(n) \cup Copies(m), W(n) \cup {SenderRow(m)}, p)
          /\ ChatsKept(f[n], Upsert(f[n], m))
      BY <2>1, <2>4, <2>5, UpsertKeepsTables
    <3> QED
      BY <2>2, <2>6, <2>7, <3>1
  <2>9. ChatsKept(rows, f[n + 1])
    BY <2>1, <2>8 DEF ChatsKept
  <2> QED
    BY <2>8, <2>9
<1>5. T = Nat
  <2> HIDE DEF T
  <2>1. T \in SUBSET Nat
    BY DEF T
  <2> QED
    BY <1>3, <1>4, <2>1, SetInduction
<1>6. /\ TablesRight(f[Len(jobs)], A(Len(jobs)), W(Len(jobs)), p)
      /\ ChatsKept(rows, f[Len(jobs)])
  <2> HIDE DEF A, W
  <2> QED
    BY <1>1, <1>5
<1>7. A(Len(jobs)) = archive \cup {x \in Users \X ToSet(jobs) : x[1] \in People(x[2])}
  BY <1>1 DEF ArchiveAfter, ToSet
<1>8. W(Len(jobs)) = wrote \cup {SenderRow(m) : m \in ToSet(jobs)}
  BY <1>1 DEF WroteAfter, ToSet
<1> HIDE DEF A, W
<1> QED
  BY <1>2, <1>6, <1>7, <1>8

\* Reading a conversation keeps the tables right.
LEMMA MarkKeepsTables ==
  ASSUME NEW p, NEW rows, NEW archive, NEW wrote, NEW read,
         TablesRight(rows, archive, wrote, p)
  PROVE  /\ TablesRight(MarkDisplayed(rows, read), archive, wrote, p)
         /\ ChatsKept(rows, MarkDisplayed(rows, read))
<1> DEFINE later == MarkDisplayed(rows, read)
<1>1. /\ DOMAIN later = DOMAIN rows
      /\ \A k \in DOMAIN rows : \/ later[k] = rows[k]
                                \/ later[k] = [rows[k] EXCEPT !.unread = 0]
  BY DEF MarkDisplayed
<1> HIDE DEF later
<1>2. \A k \in DOMAIN rows : rows[k] \in Row
  BY DEF TablesRight, TablesTyped
<1>3. ASSUME NEW k \in DOMAIN rows
      PROVE  /\ later[k] \in Row /\ later[k].last = rows[k].last /\ later[k].box = rows[k].box
             /\ later[k].unread > 0 => later[k].unread = rows[k].unread
  BY <1>1, <1>2 DEF Row
<1>4. TablesRight(later, archive, wrote, p)
  <2> USE DEF TablesRight
  <2>1. TablesTyped(later, archive, wrote)
    BY <1>1, <1>3 DEF TablesTyped
  <2>2. Agree(later, p) /\ Owned(later, archive, p)
    BY <1>1, <1>3 DEF Agree, Owned
  <2>3. Counted(later, archive) /\ Unanswered(later, wrote)
    BY <1>1, <1>3 DEF Counted, Unanswered
  <2> QED
    BY <2>1, <2>2, <2>3
<1>5. ChatsKept(rows, later)
  BY <1>1, <1>3 DEF ChatsKept
<1> QED
  BY <1>4, <1>5 DEF later

\* The deletion of an account keeps the tables right.
LEMMA DeletionKeepsTables ==
  ASSUME NEW p, NEW rows, NEW archive, NEW wrote, NEW u, NEW later, NEW left, NEW written,
         TablesRight(rows, archive, wrote, p),
         later = [k \in {k \in DOMAIN rows : k[1] # u} |-> rows[k]],
         left = {r \in archive : r[1] # u},
         written = {r \in wrote : u \notin {r[1], r[2]}}
  PROVE  /\ TablesRight(later, left, written, p \ {u})
         /\ \A k \in DOMAIN later : k \in DOMAIN rows /\ later[k] = rows[k]
<1>1. /\ DOMAIN later = {k \in DOMAIN rows : k[1] # u}
      /\ \A k \in DOMAIN later : k \in DOMAIN rows /\ later[k] = rows[k]
  OBVIOUS
<1>2. TablesTyped(later, left, written)
  <2>1. IsFiniteSet(left)
    BY FS_Subset DEF TablesRight, TablesTyped
  <2> QED
    BY <1>1, <2>1 DEF TablesRight, TablesTyped
<1>3. Agree(later, p \ {u}) /\ Owned(later, left, p \ {u})
  BY <1>1 DEF TablesRight, Agree, Owned
<1>4. Counted(later, left)
  <2>1. \A k \in DOMAIN later : FromPeer(left, k) = FromPeer(archive, k)
    BY <1>1 DEF FromPeer
  <2> QED
    BY <1>1, <2>1 DEF TablesRight, Counted
<1>5. Unanswered(later, written)
  BY <1>1 DEF TablesRight, Unanswered
<1> QED
  BY <1>1, <1>2, <1>3, <1>4, <1>5 DEF TablesRight

-----------------------------------------------------------------------------
(* Jobs without duplicates.                                                  *)

LEMMA AppendOnce ==
  ASSUME NEW S, NEW q \in Seq(S), NoDup(q), NEW m \in S, m \notin ToSet(q)
  PROVE  LET r == Append(q, m) IN
         r \in Seq(S) /\ NoDup(r) /\ Len(r) = Len(q) + 1 /\ ToSet(r) = ToSet(q) \cup {m}
<1> DEFINE r == Append(q, m)
<1>1. /\ Len(q) \in Nat /\ DOMAIN q = 1..Len(q)
      /\ r \in Seq(S) /\ Len(r) = Len(q) + 1 /\ DOMAIN r = 1..(Len(q) + 1)
      /\ \A i \in 1..Len(q) : r[i] = q[i]
      /\ r[Len(q) + 1] = m
  BY LenProperties, AppendProperties
<1> HIDE DEF r
<1>2. \A i \in 1..Len(q) : q[i] # m
  BY <1>1 DEF ToSet
<1>3. NoDup(r)
  <2> SUFFICES ASSUME NEW i \in 1..(Len(q) + 1), NEW j \in 1..(Len(q) + 1), r[i] = r[j]
               PROVE  i = j
    BY <1>1 DEF NoDup
  <2>1. CASE i \in 1..Len(q) /\ j \in 1..Len(q)
    BY <2>1, <1>1 DEF NoDup
  <2>2. CASE i = Len(q) + 1 \/ j = Len(q) + 1
    BY <2>2, <1>1, <1>2
  <2> QED
    BY <2>1, <2>2, <1>1
<1>4. ToSet(r) = ToSet(q) \cup {m}
  BY <1>1 DEF ToSet
<1> QED
  BY <1>1, <1>3, <1>4 DEF r

\* Taking the first n jobs of a queue.
LEMMA Taken ==
  ASSUME NEW S, NEW q \in Seq(S), NEW n \in 1..Len(q)
  PROVE  /\ SubSeq(q, 1, n) \in Seq(S)
         /\ SubSeq(q, n + 1, Len(q)) \in Seq(S)
<1>1. n \in Nat /\ 1 <= n /\ n <= Len(q) /\ Len(q) \in Nat
  BY LenProperties
<1>2. \A i \in 1..n : q[i] \in S
  BY <1>1, ElementOfSeq
<1>3. \A i \in (n + 1)..Len(q) : q[i] \in S
  BY <1>1, ElementOfSeq
<1> QED
  BY <1>1, <1>2, <1>3, SubSeqProperties

\* Taking the first n of a queue of distinct jobs parts them.
LEMMA TakenOnce ==
  ASSUME NEW S, NEW q \in Seq(S), NoDup(q), NEW n \in 1..Len(q)
  PROVE  LET a == SubSeq(q, 1, n)
             b == SubSeq(q, n + 1, Len(q))
         IN /\ NoDup(a) /\ NoDup(b)
            /\ ToSet(a) \cap ToSet(b) = {} /\ ToSet(a) \cup ToSet(b) \subseteq ToSet(q)
<1> DEFINE a == SubSeq(q, 1, n)
           b == SubSeq(q, n + 1, Len(q))
<1>1. /\ Len(q) \in Nat /\ DOMAIN q = 1..Len(q) /\ n \in Nat /\ 1 <= n /\ n <= Len(q)
      /\ \A i \in 1..Len(q) : q[i] \in S
  BY LenProperties, ElementOfSeq
<1>2. DOMAIN a = 1..n /\ \A i \in 1..n : a[i] = q[i]
  <2>1. \A i \in 1..n : q[i] \in S
    BY <1>1
  <2>2. /\ a \in Seq(S) /\ Len(a) = IF 1 <= n THEN n - 1 + 1 ELSE 0
        /\ \A i \in 1..(n - 1 + 1) : a[i] = q[1 + i - 1]
    BY <1>1, <2>1, SubSeqProperties
  <2> HIDE DEF a
  <2>3. Len(a) = n
    BY <1>1, <2>2
  <2>4. DOMAIN a = 1..Len(a)
    BY <2>2, LenProperties
  <2>5. ASSUME NEW i \in 1..n PROVE a[i] = q[i]
    <3>1. i \in 1..(n - 1 + 1) /\ 1 + i - 1 = i
      BY <1>1
    <3> QED
      BY <2>2, <3>1
  <2> QED
    BY <2>3, <2>4, <2>5
<1>3. DOMAIN b = 1..(Len(q) - n) /\ \A i \in 1..(Len(q) - n) : b[i] = q[n + i]
  <2>1. \A i \in (n + 1)..Len(q) : q[i] \in S
    BY <1>1
  <2>2. /\ b \in Seq(S) /\ Len(b) = IF n + 1 <= Len(q) THEN Len(q) - (n + 1) + 1 ELSE 0
        /\ \A i \in 1..(Len(q) - (n + 1) + 1) : b[i] = q[(n + 1) + i - 1]
    BY <1>1, <2>1, SubSeqProperties
  <2> HIDE DEF b
  <2>3. Len(b) = Len(q) - n
    <3>1. Len(b) = IF n + 1 <= Len(q) THEN Len(q) - (n + 1) + 1 ELSE 0
      BY <2>2
    <3> HIDE <2>2
    <3>2. CASE n + 1 <= Len(q)
      BY <1>1, <3>1, <3>2
    <3>3. CASE n = Len(q)
      BY <1>1, <3>1, <3>3
    <3>4. Len(q) \in Nat /\ n \in Nat /\ n <= Len(q)
      BY <1>1
    <3>5. n + 1 <= Len(q) \/ n = Len(q)
      BY <3>4
    <3> QED
      BY <3>2, <3>3, <3>5
  <2>4. DOMAIN b = 1..Len(b)
    BY <2>2, LenProperties
  <2>5. ASSUME NEW i \in 1..(Len(q) - n) PROVE b[i] = q[n + i]
    <3>1. i \in 1..(Len(q) - (n + 1) + 1) /\ (n + 1) + i - 1 = n + i
      BY <1>1
    <3> QED
      BY <2>2, <3>1
  <2> QED
    BY <2>3, <2>4, <2>5
<1> HIDE DEF a, b
<1>4. NoDup(a)
  BY <1>1, <1>2 DEF NoDup
<1>5. NoDup(b)
  <2> SUFFICES ASSUME NEW i \in 1..(Len(q) - n), NEW j \in 1..(Len(q) - n), b[i] = b[j]
               PROVE  i = j
    BY <1>3 DEF NoDup
  <2>1. n + i \in DOMAIN q /\ n + j \in DOMAIN q /\ q[n + i] = q[n + j]
    BY <1>1, <1>3
  <2>2. n + i = n + j
    BY <2>1 DEF NoDup
  <2> QED
    BY <1>1, <2>2
<1>6. ASSUME NEW i \in 1..n, NEW j \in 1..(Len(q) - n) PROVE a[i] # b[j]
  <2>1. i \in DOMAIN q /\ n + j \in DOMAIN q /\ i # n + j
    BY <1>1
  <2>2. q[i] # q[n + j]
    BY <2>1 DEF NoDup
  <2> QED
    BY <1>2, <1>3, <2>2
<1>7. ToSet(a) \cap ToSet(b) = {}
  BY <1>2, <1>3, <1>6 DEF ToSet
<1>8. ToSet(a) \subseteq ToSet(q)
  BY <1>1, <1>2 DEF ToSet
<1>9. ToSet(b) \subseteq ToSet(q)
  <2> SUFFICES ASSUME NEW i \in 1..(Len(q) - n) PROVE b[i] \in ToSet(q)
    BY <1>3 DEF ToSet
  <2>1. n + i \in DOMAIN q /\ b[i] = q[n + i]
    BY <1>1, <1>3
  <2> QED
    BY <2>1 DEF ToSet
<1> QED
  BY <1>4, <1>5, <1>7, <1>8, <1>9 DEF a, b

-----------------------------------------------------------------------------
(* The invariant of the inbox.                                               *)

Waiting(w) == ToSet(storeQ[w])
InBatch(w) == Jobs(w, "store")

\* An open batch holds on to the accounts that it writes for.
BatchHoldsPeople == \A w \in Workers : \A m \in Jobs(w, "store") : Storable(m)

\* A message is a job of one worker, once, and not any more when it is archived.
JobsOnce ==
  /\ \A w \in Workers : NoDup(storeQ[w]) /\ (tx[w].kind = "store" => NoDup(tx[w].jobs))
  /\ \A w \in Workers : Waiting(w) \cup InBatch(w) \subseteq sent
  /\ \A v, w \in Workers : Waiting(v) \cap InBatch(w) = {}
  /\ \A v, w \in Workers : v # w => Waiting(v) \cap Waiting(w) = {}
                                    /\ InBatch(v) \cap InBatch(w) = {}
  /\ \A r \in mam : r[2] \in sent /\ \A w \in Workers : r[2] \notin Waiting(w) \cup InBatch(w)

InboxInv ==
  /\ TypeOK /\ JobsOnce /\ BatchHoldsPeople
  /\ TablesRight(inbox, mam, messaged, person)

LEMMA InboxInvIsRight == InboxInv => InboxIsRight
  BY DEF InboxInv, TablesRight, Agree, Owned, Counted, Unanswered, FromPeer,
         InboxIsRight, SidesAgree, RowsHaveOwners, UnreadIsFromPeer, IntroBoxIsUnanswered

LEMMA InitInbox == Init => InboxInv
<1> SUFFICES ASSUME Init PROVE InboxInv
  OBVIOUS
<1>1. /\ DOMAIN inbox = {} /\ mam = {} /\ messaged = {} /\ person = Users
      /\ \A w \in Workers : tx[w] = Idle /\ storeQ[w] = <<>> /\ markQ[w] = <<>>
  BY DEF Init
<1>2. /\ <<>> \in Seq(Msgs) /\ <<>> \in Seq(Marks) /\ <<>> \in Seq(Msgs \cup Marks)
      /\ NoDup(<<>>) /\ ToSet(<<>>) = {}
  BY EmptySeq DEF NoDup, ToSet
<1>3. TypeOK
  <2>1. Idle \in [kind : {"idle", "store", "mark"}, jobs : Seq(Msgs \cup Marks),
                  pos : Nat \ {0}, held : SUBSET (Users \X Users)]
    BY <1>2 DEF Idle
  <2>2. tx \in [Workers -> [kind : {"idle", "store", "mark"}, jobs : Seq(Msgs \cup Marks),
                            pos : Nat \ {0}, held : SUBSET (Users \X Users)]]
    BY <2>1 DEF Init
  <2>3. \A w \in Workers : tx[w].jobs \in Seq(IF tx[w].kind = "store" THEN Msgs ELSE Marks)
    <3>1. Idle.kind # "store" /\ Idle.jobs = <<>>
      BY DEF Idle
    <3> QED
      BY <1>1, <1>2, <3>1
  <2>4. crashes \in 0..MaxCrashes
    BY MessageStoreAssumption DEF MessageStoreAssumption, Init
  <2> QED
    BY <1>1, <1>2, <2>2, <2>3, <2>4 DEF Init, TypeOK
<1>4. JobsOnce /\ BatchHoldsPeople
  BY <1>1, <1>2 DEF JobsOnce, BatchHoldsPeople, Jobs, Idle, Waiting, InBatch
<1>5. IsFiniteSet(mam)
  BY <1>1, FS_EmptySet
<1>6. TablesRight(inbox, mam, messaged, person)
  BY <1>1, <1>5 DEF TablesRight, TablesTyped, Agree, Owned, Counted, Unanswered
<1> QED
  BY <1>3, <1>4, <1>6 DEF InboxInv

-----------------------------------------------------------------------------
(* The steps.                                                                *)

TxTypes == [kind : {"idle", "store", "mark"}, jobs : Seq(Msgs \cup Marks),
            pos : Nat \ {0}, held : SUBSET (Users \X Users)]
JobsTyped(t) == t \in TxTypes /\ t.jobs \in Seq(IF t.kind = "store" THEN Msgs ELSE Marks)

\* The types of what is not a table or a transaction.
RestTyped ==
  /\ storeQ \in [Workers -> Seq(Msgs)] /\ markQ \in [Workers -> Seq(Marks)]
  /\ callbacks \in [Workers -> SUBSET Msgs]
  /\ sent \subseteq Msgs \cup Marks /\ shown \subseteq Msgs
  /\ told \in [Msgs -> {"nothing", "delivered", "server_error", "silence"}]
  /\ gone \subseteq Msgs /\ crashes \in 0..MaxCrashes

LEMMA TypesInParts ==
  TypeOK <=>
    /\ person \subseteq Users /\ mam \subseteq Users \X Msgs /\ messaged \subseteq Users \X Users
    /\ DOMAIN inbox \subseteq Users \X Users /\ \A k \in DOMAIN inbox : inbox[k] \in Row
    /\ RestTyped
    /\ tx \in [Workers -> TxTypes] /\ \A w \in Workers : JobsTyped(tx[w])
  BY DEF TypeOK, RestTyped, JobsTyped, TxTypes

LEMMA IdleTyped ==
  JobsTyped(Idle) /\ Idle.kind = "idle"
<1>1. <<>> \in Seq(Msgs \cup Marks) /\ <<>> \in Seq(Marks)
  BY EmptySeq
<1> QED
  BY <1>1 DEF Idle, JobsTyped, TxTypes

\* A step that leaves the tables alone.
LEMMA TypesStep ==
  ASSUME TypeOK, UNCHANGED tables, RestTyped',
         tx' \in [Workers -> TxTypes], \A w \in Workers : JobsTyped(tx'[w])
  PROVE  TypeOK'
<1>1. /\ person' \subseteq Users /\ mam' \subseteq Users \X Msgs
      /\ messaged' \subseteq Users \X Users
      /\ DOMAIN inbox' \subseteq Users \X Users /\ \A k \in DOMAIN inbox' : inbox'[k] \in Row
  BY DEF TypeOK, tables, Row
<1> QED
  BY <1>1 DEF TypeOK, RestTyped, JobsTyped, TxTypes, Row

\* A transaction that starts, goes on or ends.
LEMMA TxStep ==
  ASSUME TypeOK, NEW w \in Workers, NEW t, JobsTyped(t), tx' = [tx EXCEPT ![w] = t]
  PROVE  /\ tx' \in [Workers -> TxTypes] /\ \A v \in Workers : JobsTyped(tx'[v])
         /\ tx'[w] = t /\ \A v \in Workers \ {w} : tx'[v] = tx[v]
<1>1. tx \in [Workers -> TxTypes] /\ \A v \in Workers : JobsTyped(tx[v])
  BY TypesInParts
<1>2. t \in TxTypes
  BY DEF JobsTyped
<1> QED
  BY <1>1, <1>2

LEMMA InBatchTyped ==
  ASSUME TypeOK, NEW w \in Workers
  PROVE  InBatch(w) \subseteq Msgs /\ Waiting(w) \subseteq Msgs
<1>1. tx[w].kind = "store" => tx[w].jobs \in Seq(Msgs)
  BY DEF TypeOK
<1>2. storeQ[w] \in Seq(Msgs)
  BY DEF TypeOK
<1> QED
  BY <1>1, <1>2, LenProperties, ElementOfSeq DEF InBatch, Waiting, Jobs, ToSet

\* A row that is locked.
LEMMA RowsAreRows ==
  ASSUME TypeOK, NEW w \in Workers, tx[w].kind # "idle", tx[w].pos <= Len(RowsOf(tx[w]))
  PROVE  RowsOf(tx[w])[tx[w].pos] \in Users \X Users
<1> DEFINE t == tx[w]
           n == Len(t.jobs)
<1>1. /\ t.jobs \in Seq(IF t.kind = "store" THEN Msgs ELSE Marks)
      /\ t.kind \in {"idle", "store", "mark"} /\ t.pos \in Nat \ {0}
      /\ n \in Nat /\ \A i \in 1..n : t.jobs[i] \in IF t.kind = "store" THEN Msgs ELSE Marks
  BY LenProperties, ElementOfSeq, TypesInParts DEF JobsTyped, TxTypes
<1>2. RowsOf(t) \in Seq(Users \X Users)
  <2>1. CASE t.kind = "store"
    <3> DEFINE f == [i \in 1..(2 * n) |->
                       LET m == t.jobs[(i + 1) \div 2]
                       IN IF i % 2 = 1 THEN SenderRow(m) ELSE RecipientRow(m)]
    <3>1. RowsOf(t) = f
      BY <2>1 DEF RowsOf
    <3>2. ASSUME NEW i \in 1..(2 * n) PROVE f[i] \in Users \X Users
      <4>1. (i + 1) \div 2 \in 1..n
        BY <1>1
      <4>2. t.jobs[(i + 1) \div 2] \in Msgs
        BY <1>1, <2>1, <4>1
      <4> QED
        BY <4>2, MessageStoreAssumption DEF MessageStoreAssumption, SenderRow, RecipientRow
    <3>3. f \in [1..(2 * n) -> Users \X Users]
      <4>1. DOMAIN f = 1..(2 * n) /\ f = [i \in 1..(2 * n) |-> f[i]]
        OBVIOUS
      <4> HIDE DEF f
      <4> QED
        BY <3>2, <4>1
    <3> HIDE DEF f
    <3>4. 2 * n \in Nat
      BY <1>1
    <3> QED
      BY <3>1, <3>3, <3>4, SeqDef
  <2>2. CASE t.kind = "mark"
    <3> DEFINE f == [i \in 1..n |-> <<Reader[t.jobs[i]], Peer[t.jobs[i]]>>]
    <3>1. RowsOf(t) = f
      BY <2>2 DEF RowsOf
    <3>2. f \in [1..n -> Users \X Users]
      BY <1>1, <2>2, MessageStoreAssumption DEF MessageStoreAssumption
    <3> HIDE DEF f
    <3> QED
      BY <1>1, <3>1, <3>2, SeqDef
  <2> QED
    BY <1>1, <2>1, <2>2
<1> HIDE DEF t
<1>3. Len(RowsOf(t)) \in Nat
  BY <1>2, LenProperties
<1>4. t.pos \in 1..Len(RowsOf(t))
  BY <1>1, <1>3 DEF t
<1>5. RowsOf(t)[t.pos] \in Users \X Users
  BY <1>2, <1>4, ElementOfSeq
<1> QED
  BY <1>5 DEF t

\* A step that brings no new job and no new archive row.
LEMMA JobsShrink ==
  ASSUME JobsOnce, sent \subseteq sent', mam' \subseteq mam,
         \A w \in Workers :
           /\ NoDup(storeQ'[w]) /\ Waiting(w)' \subseteq Waiting(w)
           /\ tx'[w].kind = "store" => NoDup(tx'[w].jobs)
           /\ InBatch(w)' \subseteq InBatch(w)
  PROVE  JobsOnce'
<1>1. \A w \in Workers : NoDup(storeQ[w])' /\ (tx[w].kind = "store" => NoDup(tx[w].jobs))'
  BY DEF NoDup
<1>2. \A w \in Workers : (Waiting(w) \cup InBatch(w))' \subseteq sent'
  BY DEF JobsOnce
<1>3. \A v, w \in Workers :
        /\ (Waiting(v) \cap InBatch(w))' = {}
        /\ v # w => (Waiting(v) \cap Waiting(w))' = {} /\ (InBatch(v) \cap InBatch(w))' = {}
  BY DEF JobsOnce
<1>4. \A r \in mam' : r[2] \in sent' /\ \A w \in Workers : r[2] \notin (Waiting(w) \cup InBatch(w))'
  BY DEF JobsOnce
<1> QED
  BY <1>1, <1>2, <1>3, <1>4 DEF JobsOnce

\* A step that leaves the tables and the jobs alone.
LEMMA QuietStep ==
  ASSUME InboxInv, UNCHANGED <<tables, storeQ, tx>>, sent \subseteq sent', TypeOK'
  PROVE  InboxInv'
<1>1. JobsOnce'
  <2>1. \A w \in Workers : Waiting(w)' = Waiting(w) /\ InBatch(w)' = InBatch(w)
    BY DEF Waiting, InBatch, Jobs
  <2> QED
    BY <2>1, JobsShrink DEF InboxInv, JobsOnce, tables
<1>2. BatchHoldsPeople' /\ TablesRight(inbox, mam, messaged, person)'
  BY DEF InboxInv, BatchHoldsPeople, Storable, Jobs, tables, TablesRight, TablesTyped, Agree, Owned,
         Counted, Unanswered
<1> QED
  BY <1>1, <1>2 DEF InboxInv

\* A client's message becomes a job.
LEMMA StoreMessageStep ==
  ASSUME InboxInv, NEW w \in Workers, NEW m \in Msgs, StoreMessage(w, m)
  PROVE  InboxInv'
<1>1. /\ m \notin sent /\ sent' = sent \cup {m} /\ storeQ' = [storeQ EXCEPT ![w] = Append(@, m)]
      /\ UNCHANGED <<tables, markQ, tx, callbacks, told, shown, gone, crashes>>
      /\ storeQ \in [Workers -> Seq(Msgs)] /\ NoDup(storeQ[w]) /\ m \notin ToSet(storeQ[w])
  BY DEF StoreMessage, InboxInv, TypeOK, JobsOnce, replies, Waiting
<1>2. LET r == Append(storeQ[w], m) IN
      r \in Seq(Msgs) /\ NoDup(r) /\ Len(r) = Len(storeQ[w]) + 1
      /\ ToSet(r) = ToSet(storeQ[w]) \cup {m}
  BY <1>1, AppendOnce
<1>3. /\ storeQ' \in [Workers -> Seq(Msgs)] /\ NoDup(storeQ'[w])
      /\ ToSet(storeQ'[w]) = ToSet(storeQ[w]) \cup {m}
      /\ \A v \in Workers \ {w} : storeQ'[v] = storeQ[v]
  BY <1>1, <1>2
<1>4. TypeOK'
  <2>1. RestTyped'
    BY <1>1, <1>3, TypesInParts DEF InboxInv, RestTyped
  <2> QED
    BY <1>1, <2>1, TypesInParts, TypesStep DEF InboxInv
<1>5. JobsOnce'
  <2>1. /\ \A v \in Workers : InBatch(v)' = InBatch(v)
        /\ Waiting(w)' = Waiting(w) \cup {m} /\ \A v \in Workers \ {w} : Waiting(v)' = Waiting(v)
    BY <1>1, <1>3 DEF InBatch, Jobs, Waiting
  <2>2. m \in sent' /\ m \notin sent /\ sent \subseteq sent' /\ mam' = mam
    BY <1>1 DEF tables
  <2>3. \A v \in Workers : NoDup(storeQ[v])' /\ (tx[v].kind = "store" => NoDup(tx[v].jobs))'
    BY <1>1, <1>3 DEF InboxInv, JobsOnce, NoDup
  <2>4. /\ \A v \in Workers : (Waiting(v) \cup InBatch(v))' \subseteq sent'
        /\ \A u, v \in Workers : (Waiting(u) \cap InBatch(v))' = {}
    BY <2>1, <2>2 DEF InboxInv, JobsOnce
  <2>5. \A u, v \in Workers : u # v => (Waiting(u) \cap Waiting(v))' = {}
                                       /\ (InBatch(u) \cap InBatch(v))' = {}
    BY <2>1, <2>2 DEF InboxInv, JobsOnce
  <2>6. \A r \in mam' : r[2] \in sent' /\ \A v \in Workers :
          r[2] \notin (Waiting(v) \cup InBatch(v))'
    BY <2>1, <2>2 DEF InboxInv, JobsOnce
  <2> QED
    BY <2>3, <2>4, <2>5, <2>6 DEF JobsOnce
<1>6. BatchHoldsPeople' /\ TablesRight(inbox, mam, messaged, person)'
  BY <1>1
  DEF InboxInv, BatchHoldsPeople, Storable, Jobs, tables, TablesRight, TablesTyped, Agree, Owned,
              Counted, Unanswered
<1> QED
  BY <1>4, <1>5, <1>6 DEF InboxInv

\* A batch starts, for accounts that exist, or is dropped.
LEMMA BeginStoreStep ==
  ASSUME InboxInv, NEW w \in Workers, NEW n \in 1..MaxBatch, BeginStore(w, n)
  PROVE  InboxInv'
<1> DEFINE a == SubSeq(storeQ[w], 1, n)
           b == SubSeq(storeQ[w], n + 1, Len(storeQ[w]))
           t == [kind |-> "store", jobs |-> a, pos |-> 1, held |-> {}]
<1>1. /\ tx[w] = Idle /\ n \in 1..Len(storeQ[w]) /\ storeQ' = [storeQ EXCEPT ![w] = b]
      /\ UNCHANGED <<tables, markQ, callbacks, sent, told, shown, crashes>>
      /\ \/ /\ \A m \in ToSet(a) : Storable(m)
            /\ tx' = [tx EXCEPT ![w] = t] /\ gone' = gone
         \/ tx' = tx /\ gone' = gone \cup ToSet(a)
      /\ storeQ \in [Workers -> Seq(Msgs)] /\ NoDup(storeQ[w]) /\ tx \in [Workers -> TxTypes]
  BY TypesInParts DEF BeginStore, InboxInv, TypeOK, JobsOnce, replies
<1>2. /\ NoDup(a) /\ NoDup(b) /\ ToSet(a) \cap ToSet(b) = {}
      /\ ToSet(a) \cup ToSet(b) \subseteq ToSet(storeQ[w])
  BY <1>1, TakenOnce
<1>3. a \in Seq(Msgs) /\ b \in Seq(Msgs)
  BY <1>1, Taken
<1> HIDE DEF a, b
<1>4. /\ storeQ' \in [Workers -> Seq(Msgs)] /\ storeQ'[w] = b
      /\ \A v \in Workers \ {w} : storeQ'[v] = storeQ[v]
  BY <1>1, <1>3
<1>5. JobsTyped(t)
  <2>1. a \in Seq(Msgs \cup Marks)
    BY <1>3, SeqMonotonic
  <2> QED
    BY <1>3, <2>1 DEF JobsTyped, TxTypes
<1>6. ToSet(a) \subseteq Msgs
  BY <1>2, InBatchTyped DEF InboxInv, Waiting
<1>7. TypeOK'
  <2>1. RestTyped'
    BY <1>1, <1>4, <1>6, TypesInParts DEF InboxInv, RestTyped
  <2>2. tx' \in [Workers -> TxTypes] /\ \A v \in Workers : JobsTyped(tx'[v])
    BY <1>1, <1>5, TxStep, TypesInParts DEF InboxInv
  <2> QED
    BY <1>1, <2>1, <2>2, TypesStep DEF InboxInv
<1>8. /\ Waiting(w)' = ToSet(b) /\ \A v \in Workers \ {w} : Waiting(v)' = Waiting(v)
      /\ InBatch(w) = {} /\ ToSet(a) \subseteq Waiting(w) /\ ToSet(b) \subseteq Waiting(w)
      /\ \A v \in Workers \ {w} : InBatch(v)' = InBatch(v) /\ tx'[v] = tx[v]
      /\ \A v \in Workers : NoDup(storeQ'[v])
  <2>1. Idle.kind # "store"
    BY DEF Idle
  <2>2. \A v \in Workers \ {w} : tx'[v] = tx[v]
    BY <1>1
  <2> QED
    BY <1>1, <1>2, <1>4, <2>1, <2>2 DEF Waiting, InBatch, Jobs, InboxInv, JobsOnce
<1>9. CASE tx' = tx
  <2>1. JobsOnce'
    <3>1. \A v \in Workers : InBatch(v)' = InBatch(v)
      BY <1>9 DEF InBatch, Jobs
    <3>2. mam' = mam /\ sent' = sent
      BY <1>1 DEF tables
    <3> QED
      BY <1>8, <1>9, <3>1, <3>2, JobsShrink DEF InboxInv, JobsOnce
  <2>2. BatchHoldsPeople' /\ TablesRight(inbox, mam, messaged, person)'
    BY <1>1, <1>9
    DEF InboxInv, BatchHoldsPeople, Storable, Jobs, tables, TablesRight, TablesTyped, Agree,
                      Owned, Counted, Unanswered
  <2> QED
    BY <1>7, <2>1, <2>2 DEF InboxInv
<1>10. CASE tx' = [tx EXCEPT ![w] = t] /\ \A m \in ToSet(a) : Storable(m)
  <2>1. tx'[w] = t /\ t.kind = "store" /\ t.jobs = a
    BY <1>1, <1>10
  <2> HIDE DEF t
  <2>2. InBatch(w)' = ToSet(a) /\ mam' = mam /\ sent' = sent
    BY <1>1, <2>1 DEF InBatch, Jobs, tables
  <2>3. JobsOnce'
    <3>1. \A v \in Workers : NoDup(storeQ[v])' /\ (tx[v].kind = "store" => NoDup(tx[v].jobs))'
      BY <1>2, <1>8, <2>1 DEF InboxInv, JobsOnce, NoDup
    <3>2. \A v \in Workers : (Waiting(v) \cup InBatch(v))' \subseteq sent'
      BY <1>8, <2>2 DEF InboxInv, JobsOnce
    <3>3. \A u, v \in Workers : (Waiting(u) \cap InBatch(v))' = {}
      <4> SUFFICES ASSUME NEW u \in Workers, NEW v \in Workers
                   PROVE  (Waiting(u) \cap InBatch(v))' = {}
        OBVIOUS
      <4>1. CASE u = w /\ v = w
        BY <1>2, <1>8, <2>2, <4>1
      <4>2. CASE u # w /\ v = w
        BY <1>8, <2>2, <4>2 DEF InboxInv, JobsOnce
      <4>3. CASE v # w
        BY <1>8, <4>3 DEF InboxInv, JobsOnce
      <4> QED
        BY <4>1, <4>2, <4>3
    <3>4. \A u, v \in Workers : u # v => (Waiting(u) \cap Waiting(v))' = {}
                                         /\ (InBatch(u) \cap InBatch(v))' = {}
      <4> SUFFICES ASSUME NEW u \in Workers, NEW v \in Workers, u # v
                   PROVE  (Waiting(u) \cap Waiting(v))' = {} /\ (InBatch(u) \cap InBatch(v))' = {}
        OBVIOUS
      <4>1. Waiting(u)' \subseteq Waiting(u) /\ Waiting(v)' \subseteq Waiting(v)
        BY <1>8
      <4>2. (InBatch(u) \cap InBatch(v))' = {}
        BY <1>8, <2>2 DEF InboxInv, JobsOnce
      <4> QED
        BY <4>1, <4>2 DEF InboxInv, JobsOnce
    <3>5. \A r \in mam' : r[2] \in sent' /\ \A v \in Workers :
            r[2] \notin (Waiting(v) \cup InBatch(v))'
      BY <1>8, <2>2 DEF InboxInv, JobsOnce
    <3> QED
      BY <3>1, <3>2, <3>3, <3>4, <3>5 DEF JobsOnce
  <2>4. BatchHoldsPeople'
    BY <1>1, <1>8, <1>10, <2>2 DEF InboxInv, BatchHoldsPeople, Storable, InBatch, tables, People
  <2>5. TablesRight(inbox, mam, messaged, person)'
    BY <1>1 DEF InboxInv, tables, TablesRight, TablesTyped, Agree, Owned, Counted, Unanswered
  <2> QED
    BY <1>7, <2>3, <2>4, <2>5 DEF InboxInv
<1> QED
  BY <1>1, <1>9, <1>10

\* A step of a transaction that writes nothing: it takes markers, locks a row,
\* fails, or is lost with its worker.
LEMMA TransactionStep ==
  ASSUME InboxInv, NEW w \in Workers, NEW t, JobsTyped(t), UNCHANGED tables,
         tx' = [tx EXCEPT ![w] = t],
         t.kind = "store" => tx[w].kind = "store" /\ t.jobs = tx[w].jobs,
         \/ storeQ' = storeQ
         \/ storeQ' = [storeQ EXCEPT ![w] = <<>>],
         markQ' \in [Workers -> Seq(Marks)],
         callbacks' \in [Workers -> SUBSET Msgs], gone' \subseteq Msgs,
         crashes' \in 0..MaxCrashes, UNCHANGED <<sent, told, shown>>
  PROVE  InboxInv'
<1>1. /\ tx' \in [Workers -> TxTypes] /\ \A v \in Workers : JobsTyped(tx'[v])
      /\ tx'[w] = t /\ \A v \in Workers \ {w} : tx'[v] = tx[v]
  BY TxStep DEF InboxInv
<1>2. /\ storeQ \in [Workers -> Seq(Msgs)] /\ storeQ' \in [Workers -> Seq(Msgs)]
      /\ \A v \in Workers : storeQ'[v] = storeQ[v] \/ storeQ'[v] = <<>>
  <2>1. <<>> \in Seq(Msgs)
    BY EmptySeq
  <2> QED
    BY <2>1, ZenonT(60) DEF InboxInv, TypeOK
<1>3. TypeOK'
  <2>1. RestTyped'
    BY <1>2, TypesInParts DEF InboxInv, RestTyped
  <2> QED
    BY <1>1, <2>1, TypesStep DEF InboxInv
<1>4. \A v \in Workers : NoDup(storeQ'[v]) /\ Waiting(v)' \subseteq Waiting(v)
  <2>1. NoDup(<<>>) /\ ToSet(<<>>) = {}
    BY DEF NoDup, ToSet
  <2> QED
    BY <1>2, <2>1 DEF InboxInv, JobsOnce, Waiting
<1>5. \A v \in Workers : /\ tx'[v].kind = "store" => NoDup(tx'[v].jobs)
                         /\ InBatch(v)' \subseteq InBatch(v)
  BY <1>1 DEF InboxInv, JobsOnce, InBatch, Jobs
<1>6. JobsOnce'
  BY <1>4, <1>5, JobsShrink DEF InboxInv, tables
<1>7. BatchHoldsPeople'
  BY <1>5 DEF InboxInv, BatchHoldsPeople, Storable, InBatch, tables, People
<1>8. TablesRight(inbox, mam, messaged, person)'
  BY DEF InboxInv, tables, TablesRight, TablesTyped, Agree, Owned, Counted, Unanswered
<1> QED
  BY <1>3, <1>6, <1>7, <1>8 DEF InboxInv

\* What the tables are after a commit.
LEMMA CommitTables ==
  ASSUME InboxInv, NEW w \in Workers, Commit(w)
  PROVE  /\ TablesRight(inbox', mam', messaged', person)
         /\ ChatsKept(inbox, inbox') /\ mam \subseteq mam'
         /\ \A r \in mam' : r \in mam \/ r[2] \in InBatch(w)
<1>1. CASE tx[w].kind = "store"
  <2> DEFINE jobs == tx[w].jobs
  <2>1. /\ inbox' = UpsertAll(inbox, jobs)
        /\ mam' = mam \cup {r \in Users \X ToSet(jobs) : r[1] \in People(r[2])}
        /\ messaged' = messaged \cup {SenderRow(m) : m \in ToSet(jobs)}
    BY <1>1 DEF Commit
  <2>2. /\ jobs \in Seq(Msgs) /\ NoDup(jobs) /\ InBatch(w) = ToSet(jobs)
        /\ person \in SUBSET Users
        /\ \A m \in ToSet(jobs) : People(m) \subseteq person /\ Sender[m] # Recipient[m]
        /\ \A r \in mam : r[2] \notin ToSet(jobs)
        /\ TablesRight(inbox, mam, messaged, person)
    BY <1>1 DEF InboxInv, TypeOK, JobsOnce, BatchHoldsPeople, Storable, InBatch, Jobs
  <2> HIDE DEF jobs
  <2>3. /\ TablesRight(inbox', mam', messaged', person) /\ ChatsKept(inbox, inbox')
    BY <2>1, <2>2, BatchKeepsTables
  <2> QED
    BY <2>1, <2>2, <2>3
<1>2. CASE tx[w].kind # "store"
  <2>1. PICK read : inbox' = MarkDisplayed(inbox, read) /\ mam' = mam /\ messaged' = messaged
    BY <1>2 DEF Commit
  <2> QED
    BY <2>1, MarkKeepsTables DEF InboxInv
<1> QED
  BY <1>1, <1>2

LEMMA TypesFromTables ==
  ASSUME NEW rows, NEW archive, NEW wrote, NEW p, TablesRight(rows, archive, wrote, p)
  PROVE  /\ archive \subseteq Users \X Msgs /\ wrote \subseteq Users \X Users
         /\ DOMAIN rows \subseteq Users \X Users /\ \A k \in DOMAIN rows : rows[k] \in Row
  BY DEF TablesRight, TablesTyped

LEMMA CommitKeepsInbox ==
  ASSUME InboxInv, NEW w \in Workers, Commit(w)
  PROVE  InboxInv'
<1>1. /\ UNCHANGED <<person, storeQ, markQ, sent, told, shown, gone, crashes>>
      /\ callbacks' = [callbacks EXCEPT ![w] = @ \cup InBatch(w)]
      /\ tx' = [tx EXCEPT ![w] = Idle]
  BY DEF Commit, queues, replies, InBatch
<1>2. /\ TablesRight(inbox', mam', messaged', person)
      /\ \A r \in mam' : r \in mam \/ r[2] \in InBatch(w)
  BY CommitTables
<1>3. /\ tx' \in [Workers -> TxTypes] /\ \A v \in Workers : JobsTyped(tx'[v])
      /\ tx'[w] = Idle /\ \A v \in Workers \ {w} : tx'[v] = tx[v]
  BY <1>1, IdleTyped, TxStep DEF InboxInv
<1>4. TypeOK'
  <2>1. /\ mam' \subseteq Users \X Msgs /\ messaged' \subseteq Users \X Users
        /\ DOMAIN inbox' \subseteq Users \X Users /\ \A k \in DOMAIN inbox' : inbox'[k] \in Row
    BY <1>2, TypesFromTables
  <2>2. RestTyped'
    BY <1>1, InBatchTyped, TypesInParts DEF InboxInv, RestTyped
  <2>3. person' \subseteq Users
    BY <1>1 DEF InboxInv, TypeOK
  <2> QED
    BY <1>3, <2>1, <2>2, <2>3 DEF TypeOK, RestTyped, JobsTyped, TxTypes, Row
<1>5. /\ InBatch(w)' = {} /\ \A v \in Workers \ {w} : InBatch(v)' = InBatch(v)
      /\ \A v \in Workers : Waiting(v)' = Waiting(v)
  BY <1>1, <1>3, IdleTyped DEF InBatch, Jobs, Waiting
<1>6. JobsOnce'
  <2>1. \A v \in Workers : NoDup(storeQ[v])' /\ (tx[v].kind = "store" => NoDup(tx[v].jobs))'
    BY <1>1, <1>3, IdleTyped DEF InboxInv, JobsOnce, NoDup
  <2>2. /\ \A v \in Workers : (Waiting(v) \cup InBatch(v))' \subseteq sent'
        /\ \A u, v \in Workers : (Waiting(u) \cap InBatch(v))' = {}
        /\ \A u, v \in Workers : u # v => (Waiting(u) \cap Waiting(v))' = {}
                                          /\ (InBatch(u) \cap InBatch(v))' = {}
    BY <1>1, <1>5 DEF InboxInv, JobsOnce
  <2>3. ASSUME NEW r \in mam'
        PROVE  r[2] \in sent' /\ \A v \in Workers : r[2] \notin (Waiting(v) \cup InBatch(v))'
    <3>1. CASE r \in mam
      BY <1>1, <1>5, <3>1 DEF InboxInv, JobsOnce
    <3>2. CASE r[2] \in InBatch(w)
      <4>1. r[2] \in sent' /\ \A v \in Workers : r[2] \notin Waiting(v)'
        BY <1>1, <1>5, <3>2 DEF InboxInv, JobsOnce
      <4>2. \A v \in Workers : r[2] \notin InBatch(v)'
        BY <1>5, <3>2 DEF InboxInv, JobsOnce
      <4> QED
        BY <4>1, <4>2
    <3> QED
      BY <1>2, <3>1, <3>2
  <2> QED
    BY <2>1, <2>2, <2>3 DEF JobsOnce
<1>7. BatchHoldsPeople'
  BY <1>1, <1>5 DEF InboxInv, BatchHoldsPeople, Storable, InBatch, People
<1>8. TablesRight(inbox, mam, messaged, person)'
  BY <1>1, <1>2 DEF TablesRight, TablesTyped, Agree, Owned, Counted, Unanswered
<1> QED
  BY <1>4, <1>6, <1>7, <1>8 DEF InboxInv

LEMMA DeletionKeepsInbox ==
  ASSUME InboxInv, NEW u \in Users, DeleteAccount(u)
  PROVE  /\ InboxInv'
         /\ \A r \in mam \ mam' : r[1] \notin person'
         /\ \A k \in DOMAIN inbox \cap DOMAIN inbox' : inbox'[k] = inbox[k]
<1>1. /\ UNCHANGED <<storeQ, markQ, tx, callbacks, sent, told, shown, gone, crashes>>
      /\ person' = person \ {u}
      /\ inbox' = [k \in {k \in DOMAIN inbox : k[1] # u} |-> inbox[k]]
      /\ mam' = {r \in mam : r[1] # u}
      /\ messaged' = {r \in messaged : u \notin {r[1], r[2]}}
      /\ \A w \in Workers : \A m \in InBatch(w) : u \notin People(m)
  BY DEF DeleteAccount, queues, replies, InBatch
<1>2. /\ TablesRight(inbox', mam', messaged', person \ {u})
      /\ \A k \in DOMAIN inbox' : k \in DOMAIN inbox /\ inbox'[k] = inbox[k]
  BY <1>1, DeletionKeepsTables DEF InboxInv
<1>3. TypeOK'
  <2>1. /\ mam' \subseteq Users \X Msgs /\ messaged' \subseteq Users \X Users
        /\ DOMAIN inbox' \subseteq Users \X Users /\ \A k \in DOMAIN inbox' : inbox'[k] \in Row
    BY <1>2, TypesFromTables
  <2>2. person' \subseteq Users
    BY <1>1 DEF InboxInv, TypeOK
  <2> QED
    BY <1>1, <2>1, <2>2 DEF InboxInv, TypeOK, Row
<1>4. JobsOnce'
  <2>1. \A w \in Workers : Waiting(w)' = Waiting(w) /\ InBatch(w)' = InBatch(w)
    BY <1>1 DEF Waiting, InBatch, Jobs
  <2> QED
    BY <1>1, <2>1, JobsShrink DEF InboxInv, JobsOnce
<1>5. BatchHoldsPeople'
  BY <1>1 DEF InboxInv, BatchHoldsPeople, Storable, InBatch, Jobs, People
<1>6. TablesRight(inbox, mam, messaged, person)'
  BY <1>1, <1>2 DEF TablesRight, TablesTyped, Agree, Owned, Counted, Unanswered
<1> QED
  BY <1>1, <1>2, <1>3, <1>4, <1>5, <1>6 DEF InboxInv

LEMMA BatchesKeepInbox ==
  ASSUME InboxInv, NEW w \in Workers, Batches(w) \/ Crash(w), ~Commit(w)
  PROVE  InboxInv' /\ UNCHANGED tables
<1> USE DEF queues, replies
<1>1. ASSUME NEW n \in 1..MaxBatch, BeginStore(w, n) PROVE InboxInv' /\ UNCHANGED tables
  BY <1>1, BeginStoreStep DEF BeginStore
<1>2. ASSUME NEW n \in 1..MaxBatch, BeginMark(w, n) PROVE InboxInv' /\ UNCHANGED tables
  <2> DEFINE a == SubSeq(markQ[w], 1, n)
             b == SubSeq(markQ[w], n + 1, Len(markQ[w]))
             t == [kind |-> "mark", jobs |-> a, pos |-> 1, held |-> {}]
  <2>1. /\ UNCHANGED <<tables, storeQ, callbacks, sent, told, shown, gone, crashes>>
        /\ tx' = [tx EXCEPT ![w] = t] /\ markQ' = [markQ EXCEPT ![w] = b]
        /\ markQ \in [Workers -> Seq(Marks)] /\ n \in 1..Len(markQ[w])
    BY <1>2 DEF BeginMark, InboxInv, TypeOK
  <2>2. a \in Seq(Marks) /\ b \in Seq(Marks)
    BY <2>1, Taken
  <2> HIDE DEF a, b
  <2>3. JobsTyped(t) /\ t.kind # "store"
    <3>1. a \in Seq(Msgs \cup Marks)
      BY <2>2, SeqMonotonic
    <3> QED
      BY <2>2, <3>1 DEF JobsTyped, TxTypes
  <2>4. markQ' \in [Workers -> Seq(Marks)]
    BY <2>1, <2>2
  <2>5. /\ callbacks' \in [Workers -> SUBSET Msgs] /\ gone' \subseteq Msgs
        /\ crashes' \in 0..MaxCrashes
    BY <2>1 DEF InboxInv, TypeOK
  <2> HIDE DEF t
  <2> QED
    BY <2>1, <2>3, <2>4, <2>5, TransactionStep
<1>3. CASE LockRow(w)
  <2> DEFINE row == RowsOf(tx[w])[tx[w].pos]
             plain == [tx[w] EXCEPT !.pos = @ + 1]
             locked == [tx[w] EXCEPT !.pos = @ + 1, !.held = @ \cup {row}]
  <2>1. /\ UNCHANGED <<tables, storeQ, markQ, callbacks, sent, told, shown, gone, crashes>>
        /\ tx' = [tx EXCEPT ![w] = plain] \/ tx' = [tx EXCEPT ![w] = locked]
        /\ tx[w].kind # "idle" /\ tx[w].pos <= Len(RowsOf(tx[w]))
    BY <1>3 DEF LockRow
  <2>2. row \in Users \X Users
    BY <2>1, RowsAreRows DEF InboxInv
  <2> HIDE DEF row
  <2>3. JobsTyped(tx[w]) /\ tx \in [Workers -> TxTypes]
    BY TypesInParts DEF InboxInv
  <2>4. tx[w] \in TxTypes /\ tx[w].jobs \in Seq(IF tx[w].kind = "store" THEN Msgs ELSE Marks)
    BY <2>3 DEF JobsTyped
  <2>5. plain \in TxTypes /\ plain.kind = tx[w].kind /\ plain.jobs = tx[w].jobs
    BY <2>4 DEF TxTypes
  <2>6. locked \in TxTypes /\ locked.kind = tx[w].kind /\ locked.jobs = tx[w].jobs
    <3> DEFINE t == tx[w]
               p == t.pos + 1
               h == t.held \cup {row}
    <3>1. locked = [t EXCEPT !.pos = p, !.held = h]
      OBVIOUS
    <3>2. t \in TxTypes /\ p \in Nat \ {0} /\ h \in SUBSET (Users \X Users)
      BY <2>2, <2>4 DEF TxTypes
    <3> HIDE DEF t, p, h, locked
    <3>3. locked \in TxTypes /\ locked.kind = t.kind /\ locked.jobs = t.jobs
      BY <3>1, <3>2 DEF TxTypes
    <3> QED
      BY <3>3 DEF t
  <2> HIDE DEF plain, locked
  <2>7. JobsTyped(plain) /\ plain.kind = tx[w].kind /\ plain.jobs = tx[w].jobs
    BY <2>4, <2>5 DEF JobsTyped
  <2>8. JobsTyped(locked) /\ locked.kind = tx[w].kind /\ locked.jobs = tx[w].jobs
    BY <2>4, <2>6 DEF JobsTyped
  <2>9. /\ callbacks' \in [Workers -> SUBSET Msgs] /\ gone' \subseteq Msgs
        /\ crashes' \in 0..MaxCrashes /\ markQ' \in [Workers -> Seq(Marks)]
    BY <2>1 DEF InboxInv, TypeOK
  <2> QED
    BY <2>1, <2>7, <2>8, <2>9, TransactionStep
<1>4. CASE StatementFails(w) \/ CommitFails(w) \/ Crash(w)
  <2>1. /\ UNCHANGED <<tables, sent, told, shown>> /\ tx' = [tx EXCEPT ![w] = Idle]
        /\ storeQ' = storeQ \/ storeQ' = [storeQ EXCEPT ![w] = <<>>]
    BY <1>4 DEF StatementFails, CommitFails, Crash
  <2>2. /\ InBatch(w) \subseteq Msgs /\ Waiting(w) \subseteq Msgs
    BY InBatchTyped DEF InboxInv
  <2>3. <<>> \in Seq(Marks)
    BY EmptySeq
  <2>4. /\ markQ \in [Workers -> Seq(Marks)] /\ callbacks \in [Workers -> SUBSET Msgs]
        /\ gone \subseteq Msgs /\ crashes \in 0..MaxCrashes /\ MaxCrashes \in Nat
    BY MessageStoreAssumption DEF InboxInv, TypeOK, MessageStoreAssumption
  <2>5. /\ markQ' \in [Workers -> Seq(Marks)] /\ callbacks' \in [Workers -> SUBSET Msgs]
        /\ gone' \subseteq Msgs /\ crashes' \in 0..MaxCrashes
    <3>1. CASE StatementFails(w)
      BY <3>1, <2>2, <2>4 DEF StatementFails, InBatch
    <3>2. CASE CommitFails(w)
      BY <3>2, <2>2, <2>4 DEF CommitFails, InBatch
    <3>3. CASE Crash(w)
      BY <3>3, <2>2, <2>3, <2>4 DEF Crash, InBatch, Waiting
    <3> QED
      BY <1>4, <3>1, <3>2, <3>3
  <2>6. JobsTyped(Idle) /\ Idle.kind # "store"
    BY IdleTyped
  <2> QED
    BY <2>1, <2>5, <2>6, TransactionStep
<1> QED
  BY <1>1, <1>2, <1>3, <1>4 DEF Batches

\* Steps that only bring markers or report on messages.
LEMMA OtherStepsKeepInbox ==
  ASSUME InboxInv,
         \/ \E w \in Workers, k \in Marks : MaybeMarkDisplayed(w, k)
         \/ \E w \in Workers : Callbacks(w)
         \/ UNCHANGED vars
  PROVE  InboxInv' /\ UNCHANGED tables
<1> USE DEF queues, replies
<1>1. ASSUME NEW w \in Workers, NEW k \in Marks, MaybeMarkDisplayed(w, k)
      PROVE  TypeOK' /\ UNCHANGED <<tables, storeQ, tx>> /\ sent \subseteq sent'
  <2>1. /\ UNCHANGED <<tables, storeQ, tx, callbacks, told, shown, gone, crashes>>
        /\ sent' = sent \cup {k} /\ markQ' = [markQ EXCEPT ![w] = Append(@, k)]
        /\ markQ \in [Workers -> Seq(Marks)]
    BY <1>1 DEF MaybeMarkDisplayed, InboxInv, TypeOK
  <2>2. Append(markQ[w], k) \in Seq(Marks)
    BY <2>1, AppendProperties
  <2>3. RestTyped'
    BY <2>1, <2>2, TypesInParts DEF InboxInv, RestTyped
  <2> QED
    BY <2>1, <2>3, TypesStep, TypesInParts DEF InboxInv
<1>2. ASSUME NEW w \in Workers, Callbacks(w)
      PROVE  TypeOK' /\ UNCHANGED <<tables, storeQ, tx>> /\ sent \subseteq sent'
  <2>1. PICK m \in Msgs : Notify(w, m) \/ AudioFails(w, m) \/ NotifyFails(w, m)
    BY <1>2 DEF Callbacks
  <2>2. UNCHANGED <<tables, storeQ, markQ, tx, sent, gone, crashes>>
    BY <2>1 DEF Notify, AudioFails, NotifyFails
  <2>3. RestTyped'
    <3>1. CASE Notify(w, m)
      BY <3>1, TypesInParts DEF Notify, InboxInv, RestTyped
    <3>2. CASE AudioFails(w, m)
      BY <3>2, TypesInParts DEF AudioFails, InboxInv, RestTyped
    <3>3. CASE NotifyFails(w, m)
      BY <3>3, TypesInParts DEF NotifyFails, InboxInv, RestTyped
    <3> QED
      BY <2>1, <3>1, <3>2, <3>3
  <2> QED
    BY <2>2, <2>3, TypesStep, TypesInParts DEF InboxInv
<1>3. CASE UNCHANGED vars
  <2>1. UNCHANGED <<tables, storeQ, tx, sent>> /\ RestTyped'
    BY <1>3, TypesInParts DEF vars, InboxInv, RestTyped
  <2>2. TypeOK'
    BY <2>1, TypesStep, TypesInParts DEF InboxInv
  <2> QED
    BY <2>1, <2>2, QuietStep
<1> QED
  BY <1>1, <1>2, <1>3, QuietStep

\* Only a commit or a deletion touches the tables.
LEMMA NextInbox == InboxInv /\ [Next]_vars => InboxInv'
<1> SUFFICES ASSUME InboxInv, [Next]_vars PROVE InboxInv'
  OBVIOUS
<1> QED
  BY StoreMessageStep, CommitKeepsInbox, DeletionKeepsInbox, BatchesKeepInbox,
     OtherStepsKeepInbox DEF Next

LEMMA InboxHolds == Spec => []InboxInv
  BY InitInbox, NextInbox, PTL DEF Spec

-----------------------------------------------------------------------------
\* Every variable keeps its type.
THEOREM StoreTypeCorrect == Spec => []TypeOK
<1>1. InboxInv => TypeOK
  BY DEF InboxInv
<1> QED
  BY <1>1, InboxHolds, PTL

\* However batches of several workers, deletions and crashes interleave, both
\* sides of a conversation agree, no row outlives its owner, unread messages are
\* the peer's, and an intro is one that its owner has not answered.
THEOREM InboxStaysRight == Spec => []InboxIsRight
  BY InboxInvIsRight, InboxHolds, PTL

\* A row of the archive goes with its owner's account only, and a conversation
\* never falls back from a chat to an intro.
THEOREM ArchiveStays == Spec => ArchiveIsKept
<1> DEFINE Kept ==
      /\ \A r \in mam \ mam' : r[1] \notin person'
      /\ \A k \in DOMAIN inbox \cap DOMAIN inbox' :
           inbox[k].box = "chats" => inbox'[k].box = "chats"
<1>1. InboxInv /\ [Next]_vars => [Kept]_vars
  <2> SUFFICES ASSUME InboxInv, Next PROVE Kept
    OBVIOUS
  <2>1. CASE UNCHANGED tables
    BY <2>1 DEF tables
  <2>2. ASSUME NEW w \in Workers, Commit(w) PROVE Kept
    BY <2>2, CommitTables DEF ChatsKept
  <2>3. ASSUME NEW u \in Users, DeleteAccount(u) PROVE Kept
    BY <2>3, DeletionKeepsInbox
  <2>4. ASSUME NEW w \in Workers, NEW m \in Msgs, StoreMessage(w, m) PROVE UNCHANGED tables
    BY <2>4 DEF StoreMessage
  <2> QED
    BY <2>1, <2>2, <2>3, <2>4, BatchesKeepInbox, OtherStepsKeepInbox DEF Next
<1> QED
  BY <1>1, InboxHolds, PTL DEF Spec, ArchiveIsKept

-----------------------------------------------------------------------------
(* Delivery.                                                                 *)

\* A callback is scheduled for what is stored only.
CallbacksAreStored == \A w \in Workers : \A m \in callbacks[w] : Stored(m)

DeliveryInv == InboxInv /\ CallbacksAreStored /\ DeliveredMeansStored

\* What is stored stays stored: archive rows go with their owner only.
LEMMA StoredStays ==
  ASSUME NEW m \in Msgs, Stored(m), person' \subseteq person,
         \A u \in person' : <<u, m>> \in mam => <<u, m>> \in mam',
         People(m) \subseteq person' =>
           (SenderRow(m) \in messaged => SenderRow(m) \in messaged')
  PROVE  Stored(m)'
  BY DEF Stored, People, SenderRow

\* A step that leaves the tables alone.
LEMMA TablesKept ==
  ASSUME NEW m, UNCHANGED <<person, mam, messaged>>
  PROVE  Stored(m)' <=> Stored(m)
  BY DEF Stored, People, SenderRow

LEMMA InitDelivery == Init => DeliveryInv
<1> SUFFICES ASSUME Init PROVE DeliveryInv
  OBVIOUS
<1> QED
  BY InitInbox DEF Init, DeliveryInv, CallbacksAreStored, DeliveredMeansStored

\* Outside a commit nothing is scheduled, and what is reported was scheduled.
LEMMA ReportStep ==
  ASSUME DeliveryInv, InboxInv', UNCHANGED tables,
         \A w \in Workers : callbacks'[w] \subseteq callbacks[w],
         \A m \in Msgs : (told'[m] # "nothing" \/ m \in shown') =>
            told[m] # "nothing" \/ m \in shown \/ \E w \in Workers : m \in callbacks[w]
  PROVE  DeliveryInv'
<1> USE DEF DeliveryInv
<1>1. \A m \in Msgs : Stored(m)' <=> Stored(m)
  BY TablesKept DEF tables
<1>2. CallbacksAreStored'
  BY <1>1 DEF CallbacksAreStored, InboxInv, TypeOK
<1>3. DeliveredMeansStored'
  BY <1>1 DEF CallbacksAreStored, DeliveredMeansStored
<1> QED
  BY <1>2, <1>3

\* The commit of a batch of messages stores them.
LEMMA CommitStep ==
  ASSUME DeliveryInv, InboxInv', NEW w \in Workers, Commit(w)
  PROVE  DeliveryInv'
<1> USE DEF DeliveryInv
<1>1. /\ person' = person /\ UNCHANGED <<told, shown>>
      /\ callbacks' = [callbacks EXCEPT ![w] = @ \cup Jobs(w, "store")]
  BY DEF Commit, replies
<1>2. /\ mam \subseteq mam' /\ messaged \subseteq messaged'
      /\ \A m \in Jobs(w, "store") :
           SenderRow(m) \in messaged' /\ \A u \in Users \cap People(m) : <<u, m>> \in mam'
  <2>1. CASE tx[w].kind = "store"
    <3>1. /\ mam' = mam \cup {r \in Users \X ToSet(tx[w].jobs) : r[1] \in People(r[2])}
          /\ messaged' = messaged \cup {SenderRow(m) : m \in ToSet(tx[w].jobs)}
      BY <2>1 DEF Commit
    <3> QED
      BY <2>1, <3>1 DEF Jobs
  <2>2. CASE tx[w].kind # "store"
    BY <2>2 DEF Commit, Jobs
  <2> QED
    BY <2>1, <2>2
<1>3. \A m \in Msgs : Stored(m) => Stored(m)'
  BY <1>1, <1>2 DEF Stored, People, SenderRow
<1>4. \A m \in Jobs(w, "store") : Stored(m)'
  <2> SUFFICES ASSUME NEW m \in Jobs(w, "store") PROVE Stored(m)'
    OBVIOUS
  <2>1. People(m) \subseteq Users /\ m \in Msgs
    BY InBatchTyped, MessageStoreAssumption DEF MessageStoreAssumption, People, InboxInv, InBatch
  <2> QED
    BY <1>1, <1>2, <2>1 DEF Stored, People, SenderRow
<1>5. CallbacksAreStored'
  BY <1>1, <1>3, <1>4 DEF CallbacksAreStored, InboxInv, TypeOK
<1>6. DeliveredMeansStored'
  BY <1>1, <1>3 DEF DeliveredMeansStored
<1> QED
  BY <1>5, <1>6

\* A deletion takes rows of the deleted account only.
LEMMA DeletionStep ==
  ASSUME DeliveryInv, InboxInv', NEW u \in Users, DeleteAccount(u)
  PROVE  DeliveryInv'
<1> USE DEF DeliveryInv
<1>1. /\ UNCHANGED <<callbacks, told, shown>> /\ person' = person \ {u}
      /\ mam' = {r \in mam : r[1] # u}
      /\ messaged' = {r \in messaged : u \notin {r[1], r[2]}}
  BY DEF DeleteAccount, replies
<1>2. \A m \in Msgs : Stored(m) => Stored(m)'
  <2> SUFFICES ASSUME NEW m \in Msgs, Stored(m) PROVE Stored(m)'
    OBVIOUS
  <2>1. \A v \in person' : <<v, m>> \in mam => <<v, m>> \in mam'
    BY <1>1
  <2>2. People(m) \subseteq person' => (SenderRow(m) \in messaged => SenderRow(m) \in messaged')
    BY <1>1 DEF People, SenderRow
  <2> QED
    BY <1>1, <2>1, <2>2, StoredStays
<1>3. CallbacksAreStored' /\ DeliveredMeansStored'
  BY <1>1, <1>2 DEF CallbacksAreStored, DeliveredMeansStored, InboxInv, TypeOK
<1> QED
  BY <1>3

LEMMA NextDelivery == ~CommitMayFail /\ DeliveryInv /\ [Next]_vars => DeliveryInv'
<1> SUFFICES ASSUME ~CommitMayFail, DeliveryInv, [Next]_vars PROVE DeliveryInv'
  OBVIOUS
<1> USE DEF DeliveryInv, replies
<1>0. InboxInv'
  BY NextInbox
<1>1. ASSUME NEW w \in Workers, NEW m \in Msgs, StoreMessage(w, m) PROVE DeliveryInv'
  BY <1>0, <1>1, ReportStep DEF StoreMessage
<1>2. ASSUME NEW w \in Workers, Batches(w) \/ Crash(w), ~Commit(w) PROVE DeliveryInv'
  <2>1. UNCHANGED <<tables, told, shown>>
    BY <1>2, BatchesKeepInbox DEF Batches, BeginStore, BeginMark, LockRow, StatementFails,
                                  CommitFails, Crash
  <2>2. \A v \in Workers : callbacks'[v] \subseteq callbacks[v]
    BY <1>2 DEF Batches, BeginStore, BeginMark, LockRow, StatementFails, CommitFails, Crash,
                InboxInv, TypeOK
  <2> QED
    BY <1>0, <2>1, <2>2, ReportStep
<1>3. ASSUME NEW w \in Workers, Callbacks(w) PROVE DeliveryInv'
  <2>1. PICK m \in Msgs : Notify(w, m) \/ AudioFails(w, m) \/ NotifyFails(w, m)
    BY <1>3 DEF Callbacks
  <2>2. UNCHANGED tables
    BY <2>1 DEF Notify, AudioFails, NotifyFails
  <2>3. /\ m \in callbacks[w] /\ \A v \in Workers : callbacks'[v] \subseteq callbacks[v]
        /\ \A n \in Msgs \ {m} : told'[n] = told[n] /\ (n \in shown' => n \in shown)
    <3>1. CASE Notify(w, m)
      BY <3>1 DEF Notify, InboxInv, TypeOK
    <3>2. CASE AudioFails(w, m)
      BY <3>2 DEF AudioFails, InboxInv, TypeOK
    <3>3. CASE NotifyFails(w, m)
      BY <3>3 DEF NotifyFails, InboxInv, TypeOK
    <3> QED
      BY <2>1, <3>1, <3>2, <3>3
  <2> QED
    BY <1>0, <2>2, <2>3, ReportStep
<1>4. ASSUME \/ \E w \in Workers, k \in Marks : MaybeMarkDisplayed(w, k)
             \/ UNCHANGED vars
      PROVE  DeliveryInv'
  <2>1. UNCHANGED <<tables, callbacks, told, shown>>
    BY <1>4 DEF MaybeMarkDisplayed, vars
  <2> QED
    BY <1>0, <2>1, ReportStep
<1> QED
  BY <1>0, <1>1, <1>2, <1>3, <1>4, CommitStep, DeletionStep DEF Next

\* Nobody hears of a message before it is durable, whatever batches of any
\* workers overlap, deletions race them and processes die, as long as COMMIT
\* itself does not fail (api_tx swallows that).
THEOREM Delivery == ASSUME ~CommitMayFail PROVE Spec => []DeliveredMeansStored
<1>1. DeliveryInv /\ [Next]_vars => DeliveryInv'
  BY NextDelivery
<1>2. DeliveryInv => DeliveredMeansStored
  BY DEF DeliveryInv
<1> QED
  BY <1>1, <1>2, InitDelivery, PTL DEF Spec
=============================================================================
