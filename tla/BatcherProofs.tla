---------------------------- MODULE BatcherProofs ----------------------------
(***************************************************************************)
(* Machine-checked proofs about Batcher, for every value of its constants:  *)
(* any set of items, any batch bounds, any number of failures.              *)
(***************************************************************************)
EXTENDS Batcher, SequenceTheorems, TLAPS

-----------------------------------------------------------------------------
(* Facts about sequences.                                                   *)

\* Taking the first element of q to the end of b leaves b \o q as it is.
LEMMA MoveHead ==
  ASSUME NEW S, NEW b \in Seq(S), NEW q \in Seq(S), q # <<>>,
         NEW x, NEW y, x = Append(b, Head(q)), y = Tail(q)
  PROVE  x \in Seq(S) /\ y \in Seq(S) /\ x \o y = b \o q
<1> DEFINE l == Append(b, Head(q)) \o Tail(q)
           r == b \o q
<1>1. /\ Head(q) \in S /\ Tail(q) \in Seq(S) /\ Len(Tail(q)) = Len(q) - 1
      /\ \A i \in 1..Len(Tail(q)) : Tail(q)[i] = q[i + 1]
      /\ Len(q) \in Nat \ {0} /\ Len(b) \in Nat /\ Head(q) = q[1]
  BY HeadTailProperties, EmptySeq, LenProperties
<1>2. /\ Append(b, Head(q)) \in Seq(S) /\ Len(Append(b, Head(q))) = Len(b) + 1
      /\ \A i \in 1..Len(b) : Append(b, Head(q))[i] = b[i]
      /\ Append(b, Head(q))[Len(b) + 1] = Head(q)
  BY <1>1, AppendProperties
<1>3. /\ l \in Seq(S) /\ Len(l) = Len(b) + Len(q)
      /\ \A i \in 1..(Len(b) + Len(q)) :
           l[i] = IF i <= Len(b) + 1 THEN Append(b, Head(q))[i] ELSE Tail(q)[i - (Len(b) + 1)]
  <2>1. /\ l \in Seq(S) /\ Len(l) = Len(Append(b, Head(q))) + Len(Tail(q))
        /\ \A i \in 1..(Len(Append(b, Head(q))) + Len(Tail(q))) :
             l[i] = IF i <= Len(Append(b, Head(q))) THEN Append(b, Head(q))[i]
                    ELSE Tail(q)[i - Len(Append(b, Head(q)))]
    BY <1>1, <1>2, ConcatProperties
  <2> QED
    BY <2>1, <1>1, <1>2
<1>4. /\ r \in Seq(S) /\ Len(r) = Len(b) + Len(q)
      /\ \A i \in 1..(Len(b) + Len(q)) : r[i] = IF i <= Len(b) THEN b[i] ELSE q[i - Len(b)]
  BY ConcatProperties
<1>5. ASSUME NEW i \in 1..Len(l) PROVE l[i] = r[i]
  <2>1. CASE i <= Len(b)
    BY <2>1, <1>1, <1>2, <1>3, <1>4
  <2>2. CASE i = Len(b) + 1
    BY <2>2, <1>1, <1>2, <1>3, <1>4
  <2>3. CASE i > Len(b) + 1
    <3>1. i - (Len(b) + 1) \in 1..Len(Tail(q))
      BY <2>3, <1>1, <1>3
    <3>2. l[i] = q[i - (Len(b) + 1) + 1]
      BY <2>3, <3>1, <1>1, <1>3
    <3> QED
      BY <2>3, <3>2, <1>1, <1>3, <1>4
  <2> QED
    BY <2>1, <2>2, <2>3, <1>1
<1> HIDE DEF l, r
<1>6. l = r
  BY <1>3, <1>4, <1>5, SeqEqual
<1> QED
  BY <1>1, <1>2, <1>6 DEF l, r

\* Appending to the last of three sequences appends to their concatenation.
LEMMA AppendToThird ==
  ASSUME NEW S, NEW a \in Seq(S), NEW b \in Seq(S), NEW q \in Seq(S), NEW e \in S
  PROVE  (a \o b) \o Append(q, e) = Append((a \o b) \o q, e)
<1>1. <<e>> \in Seq(S) /\ a \o b \in Seq(S) /\ (a \o b) \o q \in Seq(S)
  BY ConcatProperties
<1>2. Append(q, e) = q \o <<e>> /\ Append((a \o b) \o q, e) = ((a \o b) \o q) \o <<e>>
  BY <1>1, AppendIsConcat
<1> QED
  BY <1>1, <1>2, ConcatAssociative

-----------------------------------------------------------------------------
(* The inductive invariant.  TypeOK is not inductive: the position of the    *)
(* callback loop must be tied to the batch, and a thread that waits for an   *)
(* item must have room for it.                                              *)

BoundsInv ==
  /\ pc \in {"callbacks", "reput"} => next <= Len(batch) + 1
  /\ pc = "get" => Len(batch) < MaxBatch
  /\ pc = "reput" => Retry

TypeInv == TypeOK /\ BoundsInv

\* The callbacks that are run belong to a batch process_fn has returned from.
CallbackInv ==
  /\ called \subseteq done
  /\ pc = "callbacks" => ToSet(batch) \subseteq done

LEMMA InitTypeInv == Init => TypeInv
<1> USE BatcherAssumption DEF BatcherAssumption
<1>1. <<>> \in Seq(Items) /\ Len(<<>>) = 0
  BY EmptySeq
<1>2. ASSUME Init PROVE TypeOK
  <2>1. /\ queue \in Seq(Items) /\ enq \in Seq(Items) /\ handed \in Seq(Items)
        /\ batch \in Seq(Items) /\ Len(batch) <= MaxBatch
    BY <1>1, <1>2 DEF Init
  <2>2. /\ next \in 1..(MaxBatch + 1) /\ failures \in 0..MaxFailures
    BY <1>2 DEF Init
  <2>3. /\ stopped \in BOOLEAN /\ expired \in BOOLEAN /\ blocking \in BOOLEAN
        /\ pc \in PCs /\ done \subseteq Items /\ called \subseteq Items
    BY <1>2 DEF Init, PCs
  <2> QED
    BY <2>1, <2>2, <2>3 DEF TypeOK
<1>3. Init => BoundsInv
  BY DEF Init, BoundsInv
<1> QED
  BY <1>2, <1>3 DEF TypeInv

LEMMA NextTypeInv == TypeInv /\ [Next]_vars => TypeInv'
<1> SUFFICES ASSUME TypeInv, [Next]_vars PROVE TypeInv'
  OBVIOUS
<1> USE BatcherAssumption
    DEF BatcherAssumption, TypeInv, TypeOK, BoundsInv, PCs, worker, history
<1>0. Len(batch) \in Nat
  BY LenProperties
<1>1. ASSUME NEW i \in Items, Enqueue(i) PROVE TypeInv'
  BY <1>1, AppendProperties DEF Enqueue
<1>2. CASE Stop
  BY <1>2 DEF Stop
<1>3. CASE DeadlinePasses
  BY <1>3 DEF DeadlinePasses
<1>4. CASE StartBatch
  <2>1. <<>> \in Seq(Items) /\ Len(<<>>) = 0
    BY EmptySeq
  <2>2. /\ queue' = queue /\ enq' = enq /\ handed' = handed /\ batch' = <<>>
        /\ stopped' = stopped /\ blocking' = blocking /\ expired' = FALSE
        /\ pc' = "check" /\ next' = next
        /\ done' = done /\ called' = called /\ failures' = failures
    BY <1>4 DEF StartBatch
  <2>3. batch' \in Seq(Items) /\ Len(batch') <= MaxBatch
    BY <2>1, <2>2
  <2>4. stopped' \in BOOLEAN /\ expired' \in BOOLEAN /\ blocking' \in BOOLEAN
    BY <2>2
  <2> QED
    BY <2>2, <2>3, <2>4
<1>5. CASE Exit
  BY <1>5 DEF Exit
<1>6. CASE FinishFilling
  BY <1>6 DEF FinishFilling
<1>7. CASE CallGet
  BY <1>0, <1>7 DEF CallGet, BatchReady
<1>8. CASE GetItem
  BY <1>0, <1>8, AppendProperties, HeadTailProperties DEF GetItem
<1>9. CASE GetTimesOut
  BY <1>9 DEF GetTimesOut
<1>10. CASE ProcessOk
  <2>1. handed \o batch \in Seq(Items)
    BY ConcatProperties
  <2>2. ToSet(batch) \subseteq Items
    BY LenProperties DEF ToSet
  <2> QED
    BY <1>0, <1>10, <2>1, <2>2 DEF ProcessOk
<1>11. CASE ProcessRaises
  <2>1. handed \o batch \in Seq(Items)
    BY ConcatProperties
  <2> QED
    BY <1>0, <1>11, <2>1 DEF ProcessRaises, AfterException
<1>12. CASE RunCallback
  <2>1. batch[next] \in Items
    BY <1>12, ElementOfSeq, <1>0 DEF RunCallback
  <2> QED
    BY <1>0, <1>12, <2>1, SMTT(60) DEF RunCallback, AfterException
<1>13. CASE CallbacksDone
  BY <1>13 DEF CallbacksDone
<1>14. CASE Reput
  <2>1. batch[next] \in Items
    BY <1>14, ElementOfSeq, <1>0 DEF Reput
  <2> QED
    BY <1>0, <1>14, <2>1, AppendProperties DEF Reput
<1>15. CASE ReputDone
  BY <1>15 DEF ReputDone
<1>16. CASE UNCHANGED vars
  BY <1>16 DEF vars
<1> QED
  BY <1>1, <1>2, <1>3, <1>4, <1>5, <1>6, <1>7, <1>8, <1>9, <1>10, <1>11, <1>12,
     <1>13, <1>14, <1>15, <1>16 DEF Next, Thread

LEMMA TypeInvariant == Spec => []TypeInv
  BY InitTypeInv, NextTypeInv, PTL DEF Spec

\* Every variable keeps its type and no batch outgrows max_batch_size, whatever
\* the producers do and whatever process_fn and the callbacks raise.
THEOREM TypeCorrect == Spec => []TypeOK
<1>1. TypeInv => TypeOK
  BY DEF TypeInv
<1> QED
  BY TypeInvariant, <1>1, PTL

-----------------------------------------------------------------------------
(* Callbacks run after the batch was processed.                             *)

LEMMA InitCallbackInv == Init => CallbackInv
  BY DEF Init, CallbackInv

LEMMA NextCallbackInv == TypeInv /\ CallbackInv /\ [Next]_vars => CallbackInv'
<1> SUFFICES ASSUME TypeInv, CallbackInv, [Next]_vars PROVE CallbackInv'
  OBVIOUS
<1> USE DEF CallbackInv, worker, history
<1>1. ASSUME NEW i \in Items, Enqueue(i) PROVE CallbackInv'
  BY <1>1 DEF Enqueue
<1>2. CASE Stop \/ DeadlinePasses \/ UNCHANGED vars
  BY <1>2 DEF Stop, DeadlinePasses, vars
<1>3. CASE StartBatch \/ Exit \/ FinishFilling \/ CallGet
  BY <1>3 DEF StartBatch, Exit, FinishFilling, CallGet
<1>4. CASE GetItem \/ GetTimesOut
  BY <1>4 DEF GetItem, GetTimesOut
<1>5. CASE ProcessOk
  BY <1>5 DEF ProcessOk
<1>6. CASE ProcessRaises
  BY <1>6 DEF ProcessRaises, AfterException
<1>7. CASE RunCallback
  <2>1. batch[next] \in ToSet(batch)
    <3>1. batch \in Seq(Items) /\ next \in 1..(MaxBatch + 1) /\ next <= Len(batch)
      BY <1>7 DEF RunCallback, TypeInv, TypeOK
    <3>2. next \in DOMAIN batch
      BY <3>1, LenProperties, BatcherAssumption DEF BatcherAssumption
    <3> QED
      BY <3>2 DEF ToSet
  <2>2. called' \subseteq done
    BY <1>7, <2>1 DEF RunCallback
  <2> QED
    BY <1>7, <2>2 DEF RunCallback, AfterException
<1>8. CASE CallbacksDone \/ Reput \/ ReputDone
  BY <1>8 DEF CallbacksDone, Reput, ReputDone
<1> QED
  BY <1>1, <1>2, <1>3, <1>4, <1>5, <1>6, <1>7, <1>8 DEF Next, Thread

\* No callback runs before process_fn has returned from its item's batch: what a
\* callback announces (a stored message, say) has happened.
THEOREM CallbacksFollowProcessing == Spec => []CallbackAfterProcessing
<1>1. CallbackInv => CallbackAfterProcessing
  BY DEF CallbackInv, CallbackAfterProcessing
<1> QED
  BY TypeInvariant, InitCallbackInv, NextCallbackInv, <1>1, PTL DEF Spec

-----------------------------------------------------------------------------
(* Without retry, a batcher is FIFO and hands every item over once.         *)

\* The items that left the queue and were not handed over yet stay in order.
LEMMA NextFifo == TypeInv /\ FifoHandOff /\ [Next]_vars => FifoHandOff'
<1> SUFFICES ASSUME TypeInv, FifoHandOff, [Next]_vars, ~Retry
             PROVE  (handed \o Unhanded \o queue)' = enq'
  BY DEF FifoHandOff
<1> USE DEF worker, history
<1>0. /\ pc # "reput" /\ (handed \o Unhanded) \o queue = enq
  BY DEF TypeInv, BoundsInv, FifoHandOff
<1>a. queue \in Seq(Items) /\ handed \in Seq(Items) /\ batch \in Seq(Items)
  BY DEF TypeInv, TypeOK
<1>b. Unhanded \in Seq(Items)
  BY <1>a, EmptySeq DEF Unhanded
<1>1. ASSUME NEW i \in Items, Enqueue(i) PROVE (handed \o Unhanded \o queue)' = enq'
  <2>1. /\ handed' = handed /\ Unhanded' = Unhanded
        /\ queue' = Append(queue, i) /\ enq' = Append(enq, i)
    BY <1>1 DEF Enqueue, Unhanded
  <2>2. (handed \o Unhanded) \o Append(queue, i) = Append((handed \o Unhanded) \o queue, i)
    BY <1>a, <1>b, AppendToThird
  <2> QED
    BY <1>0, <2>1, <2>2
<1>2. CASE Stop \/ DeadlinePasses \/ UNCHANGED vars
  BY <1>0, <1>2 DEF Stop, DeadlinePasses, vars, Unhanded
<1>3. CASE StartBatch \/ Exit \/ CallGet \/ GetTimesOut
  BY <1>0, <1>3 DEF StartBatch, Exit, CallGet, GetTimesOut, Unhanded
<1>4. CASE FinishFilling
  BY <1>0, <1>4 DEF FinishFilling, Unhanded
<1>5. CASE GetItem
  <2>1. Unhanded' = Append(batch, Head(queue)) /\ queue' = Tail(queue) /\ queue # <<>>
    BY <1>5 DEF GetItem, Unhanded
  <2>2. handed' = handed /\ enq' = enq /\ Unhanded = batch
    BY <1>5 DEF GetItem, Unhanded
  <2>3. Unhanded' \in Seq(Items) /\ queue' \in Seq(Items)
    BY <1>a, <2>1, MoveHead
  <2>4. Unhanded' \o queue' = batch \o queue
    BY <1>a, <2>1, MoveHead
  <2>5. (handed \o Unhanded') \o queue' = handed \o (Unhanded' \o queue')
    BY <1>a, <2>3, ConcatAssociative, SMTT(60)
  <2>6. (handed \o batch) \o queue = handed \o (batch \o queue)
    BY <1>a, ConcatAssociative
  <2> QED
    BY <1>0, <2>2, <2>4, <2>5, <2>6
<1>6. CASE ProcessOk \/ ProcessRaises
  <2>1. /\ Unhanded = batch /\ Unhanded' = <<>> /\ handed' = handed \o batch
        /\ queue' = queue /\ enq' = enq
    BY <1>6 DEF ProcessOk, ProcessRaises, AfterException, Unhanded
  <2>2. (handed \o batch) \o <<>> = handed \o batch
    BY <1>a, ConcatProperties, ConcatEmptySeq
  <2> QED
    BY <1>0, <2>1, <2>2
<1>7. CASE RunCallback \/ CallbacksDone
  BY <1>0, <1>7 DEF RunCallback, CallbacksDone, AfterException, Unhanded
<1>8. CASE Reput \/ ReputDone
  BY <1>0, <1>8 DEF Reput, ReputDone
<1> QED
  BY <1>1, <1>2, <1>3, <1>4, <1>5, <1>6, <1>7, <1>8 DEF Next, Thread

\* Without retry nothing is lost, doubled or reordered on its way to process_fn.
THEOREM FifoCorrect == Spec => []FifoHandOff
<1>1. Init => FifoHandOff
  <2>1. <<>> \o <<>> \o <<>> = <<>>
    BY EmptySeq, ConcatEmptySeq
  <2> QED
    BY <2>1 DEF Init, FifoHandOff, Unhanded
<1> QED
  BY TypeInvariant, <1>1, NextFifo, PTL DEF Spec

-----------------------------------------------------------------------------
(* With retry, nothing is lost.                                             *)

\* The elements of a sequence to which one is appended.
LEMMA ToSetAppend ==
  ASSUME NEW S, NEW s \in Seq(S), NEW e \in S
  PROVE  ToSet(Append(s, e)) = ToSet(s) \cup {e}
<1>1. /\ Len(s) \in Nat /\ DOMAIN s = 1..Len(s)
      /\ DOMAIN Append(s, e) = 1..(Len(s) + 1)
  BY LenProperties, AppendProperties
<1>2. /\ \A i \in 1..Len(s) : Append(s, e)[i] = s[i]
      /\ Append(s, e)[Len(s) + 1] = e
  BY <1>1, AppendProperties
<1> QED
  BY <1>1, <1>2 DEF ToSet

\* An element of a nonempty sequence is its first one, or one of the others.
LEMMA ToSetHeadTail ==
  ASSUME NEW S, NEW s \in Seq(S), s # <<>>
  PROVE  ToSet(s) = {Head(s)} \cup ToSet(Tail(s))
<1>1. /\ Head(s) = s[1] /\ Tail(s) \in Seq(S) /\ Len(Tail(s)) = Len(s) - 1
      /\ \A i \in 1..Len(Tail(s)) : Tail(s)[i] = s[i + 1]
      /\ Len(s) \in Nat \ {0}
  BY HeadTailProperties, EmptySeq, LenProperties
<1>2. DOMAIN s = 1..Len(s) /\ DOMAIN Tail(s) = 1..(Len(s) - 1)
  BY <1>1, LenProperties
<1>3. ASSUME NEW i \in DOMAIN s PROVE s[i] \in {Head(s)} \cup ToSet(Tail(s))
  <2>1. CASE i = 1
    BY <2>1, <1>1
  <2>2. CASE i # 1
    <3>1. i - 1 \in 1..Len(Tail(s)) /\ Tail(s)[i - 1] = s[i]
      BY <2>2, <1>1, <1>2
    <3> QED
      BY <3>1, <1>1, <1>2 DEF ToSet
  <2> QED
    BY <2>1, <2>2
<1>4. ASSUME NEW i \in DOMAIN Tail(s) PROVE Tail(s)[i] \in ToSet(s)
  <2>1. i + 1 \in DOMAIN s /\ Tail(s)[i] = s[i + 1]
    BY <1>1, <1>2
  <2> QED
    BY <2>1 DEF ToSet
<1>5. Head(s) \in ToSet(s)
  BY <1>1, <1>2 DEF ToSet
<1> QED
  BY <1>3, <1>4, <1>5 DEF ToSet

\* The thread holds item i: in the retry loop, only what it has still to put back.
InHand(i) ==
  \E k \in DOMAIN batch :
    /\ batch[k] = i
    /\ \/ pc \in {"check", "get", "process", "callbacks"}
       \/ pc = "reput" /\ k >= next

Settled(i) == i \in done /\ (NeedsCallback(i) => i \in called)

\* RetryLosesNothing is not inductive: the retry loop must still put back what it
\* has not reached, and the callback loop must have called what it has passed.
RetryInv ==
  /\ \A i \in ToSet(enq) : i \in ToSet(queue) \/ InHand(i) \/ Settled(i)
  /\ pc = "callbacks" =>
       \A k \in DOMAIN batch :
         k < next /\ NeedsCallback(batch[k]) => batch[k] \in called

LEMMA InitRetryInv == Init => RetryInv
<1> SUFFICES ASSUME Init PROVE RetryInv
  OBVIOUS
<1>1. DOMAIN enq = {}
  BY DEF Init
<1> QED
  BY <1>1 DEF Init, RetryInv, ToSet

LEMMA NextRetryInv ==
  ASSUME Retry
  PROVE  TypeInv /\ CallbackInv /\ RetryInv /\ [Next]_vars => RetryInv'
<1> SUFFICES ASSUME TypeInv, CallbackInv, RetryInv, [Next]_vars PROVE RetryInv'
  OBVIOUS
<1> USE DEF RetryInv, InHand, Settled, NeedsCallback, worker, history
<1>0. /\ queue \in Seq(Items) /\ enq \in Seq(Items) /\ batch \in Seq(Items)
      /\ Len(batch) \in Nat /\ DOMAIN batch = 1..Len(batch)
      /\ next \in Nat \ {0} /\ pc \in PCs
  BY LenProperties, BatcherAssumption DEF BatcherAssumption, TypeInv, TypeOK
<1>1. ASSUME NEW i \in Items, Enqueue(i) PROVE RetryInv'
  <2>1. ToSet(queue') = ToSet(queue) \cup {i} /\ ToSet(enq') = ToSet(enq) \cup {i}
    BY <1>0, <1>1, ToSetAppend DEF Enqueue
  <2> QED
    BY <1>1, <2>1 DEF Enqueue
<1>2. CASE Stop \/ UNCHANGED vars
  BY <1>2 DEF Stop, vars
<1>3. CASE DeadlinePasses
  BY <1>3 DEF DeadlinePasses
<1>4. CASE StartBatch \/ Exit
  BY <1>4 DEF StartBatch, Exit
<1>5. CASE FinishFilling
  <2>1. CASE batch = <<>>
    <3>1. DOMAIN batch = {}
      BY <2>1
    <3> QED
      BY <1>5, <2>1, <3>1 DEF FinishFilling
  <2>2. CASE batch # <<>>
    BY <1>5, <2>2 DEF FinishFilling
  <2> QED
    BY <2>1, <2>2
<1>6. CASE CallGet \/ GetTimesOut
  BY <1>6 DEF CallGet, GetTimesOut
<1>7. CASE GetItem
  <2>1. ToSet(queue) = {Head(queue)} \cup ToSet(queue') /\ Head(queue) \in Items
    BY <1>0, <1>7, ToSetHeadTail, HeadTailProperties DEF GetItem
  <2>2. /\ DOMAIN batch' = 1..(Len(batch) + 1)
        /\ \A k \in 1..Len(batch) : batch'[k] = batch[k]
        /\ batch'[Len(batch) + 1] = Head(queue)
    BY <1>0, <1>7, <2>1, AppendProperties, LenProperties DEF GetItem
  <2>3. /\ pc = "get" /\ pc' = "check"
        /\ enq' = enq /\ done' = done /\ called' = called
    BY <1>7 DEF GetItem
  <2>4. ASSUME NEW i \in ToSet(enq) PROVE i \in ToSet(queue') \/ InHand(i)' \/ Settled(i)'
    <3>1. CASE i = Head(queue)
      <4>1. Len(batch) + 1 \in DOMAIN batch' /\ batch'[Len(batch) + 1] = i
        BY <3>1, <2>2, <1>0
      <4>2. InHand(i)'
        BY <4>1, <2>3
      <4> QED
        BY <4>2
    <3>2. CASE i \in ToSet(queue) /\ i # Head(queue)
      BY <3>2, <2>1
    <3>3. CASE InHand(i)
      BY <3>3, <2>2, <2>3, <1>0
    <3>4. CASE Settled(i)
      BY <3>4, <2>3
    <3> QED
      BY <3>1, <3>2, <3>3, <3>4
  <2> QED
    BY <2>3, <2>4
<1>8. CASE ProcessOk
  BY <1>0, <1>8 DEF ProcessOk
<1>9. CASE ProcessRaises
  <2>1. pc' = "reput" /\ next' = 1 /\ batch' = batch /\ pc = "process"
    BY <1>9 DEF ProcessRaises, AfterException
  <2> QED
    BY <1>0, <1>9, <2>1 DEF ProcessRaises
<1>10. CASE RunCallback
  <2>1. /\ queue' = queue /\ enq' = enq /\ batch' = batch /\ done' = done
        /\ called \subseteq called' /\ pc = "callbacks"
    BY <1>10 DEF RunCallback
  <2>2. NeedsCallback(batch[next]) => batch[next] \in called'
    BY <1>10 DEF RunCallback
  <2>3. \/ pc' = pc /\ next' = next + 1
        \/ pc' = "reput" /\ next' = 1
    BY <1>10 DEF RunCallback, AfterException
  <2>4. ASSUME NEW i \in ToSet(enq) PROVE i \in ToSet(queue') \/ InHand(i)' \/ Settled(i)'
    BY <2>1, <2>3, <1>0
  <2>5. pc' = "callbacks" =>
          \A k \in DOMAIN batch' :
            k < next' /\ NeedsCallback(batch'[k]) => batch'[k] \in called'
    BY <2>1, <2>2, <2>3, <1>0
  <2> QED
    BY <2>1, <2>4, <2>5
<1>11. CASE CallbacksDone
  <2>1. \A k \in DOMAIN batch : k < next
    BY <1>0, <1>11 DEF CallbacksDone
  <2>2. \A k \in DOMAIN batch : Settled(batch[k])
    BY <1>11, <2>1 DEF CallbacksDone, CallbackInv, ToSet
  <2> QED
    BY <1>11, <2>2 DEF CallbacksDone
<1>12. CASE Reput
  <2>1. next \in DOMAIN batch /\ batch[next] \in Items
    BY <1>0, <1>12, ElementOfSeq DEF Reput
  <2>2. ToSet(queue') = ToSet(queue) \cup {batch[next]}
    BY <1>0, <1>12, <2>1, ToSetAppend DEF Reput
  <2>3. /\ pc = "reput" /\ pc' = "reput" /\ next' = next + 1 /\ batch' = batch
        /\ enq' = enq /\ done' = done /\ called' = called
    BY <1>12 DEF Reput
  <2>4. ASSUME NEW i \in ToSet(enq) PROVE i \in ToSet(queue') \/ InHand(i)' \/ Settled(i)'
    BY <2>2, <2>3, <1>0
  <2> QED
    BY <2>3, <2>4
<1>13. CASE ReputDone
  BY <1>0, <1>13 DEF ReputDone
<1> QED
  BY <1>1, <1>2, <1>3, <1>4, <1>5, <1>6, <1>7, <1>8, <1>9, <1>10, <1>11, <1>12,
     <1>13 DEF Next, Thread

\* With retry no failure of process_fn or of a callback loses an item: it is
\* queued, in the thread's hands, or processed with its callback started.
THEOREM RetryKeepsEverything == Spec => []RetryLosesNothing
<1>1. CASE Retry
  <2>1. RetryInv => RetryLosesNothing
    BY DEF RetryInv, RetryLosesNothing, InHand, Settled, ToSet
  <2> QED
    BY <1>1, <2>1, TypeInvariant, InitCallbackInv, NextCallbackInv, InitRetryInv,
       NextRetryInv, PTL DEF Spec
<1>2. CASE ~Retry
  <2>1. RetryLosesNothing
    BY <1>2 DEF RetryLosesNothing
  <2> QED
    BY <2>1, PTL
<1> QED
  BY <1>1, <1>2

-----------------------------------------------------------------------------
(* Without retry, the batcher implements the abstract pipe.                  *)

\* The elements of a concatenation.
LEMMA ToSetConcat ==
  ASSUME NEW S, NEW s \in Seq(S), NEW t \in Seq(S)
  PROVE  ToSet(s \o t) = ToSet(s) \cup ToSet(t)
<1>1. /\ Len(s) \in Nat /\ Len(t) \in Nat
      /\ DOMAIN s = 1..Len(s) /\ DOMAIN t = 1..Len(t)
      /\ DOMAIN (s \o t) = 1..(Len(s) + Len(t))
  BY LenProperties, ConcatProperties
<1>2. \A i \in 1..(Len(s) + Len(t)) :
        (s \o t)[i] = IF i <= Len(s) THEN s[i] ELSE t[i - Len(s)]
  BY ConcatProperties
<1>3. ASSUME NEW i \in DOMAIN s PROVE s[i] \in ToSet(s \o t)
  <2>1. i \in DOMAIN (s \o t) /\ (s \o t)[i] = s[i]
    BY <1>1, <1>2
  <2> QED
    BY <2>1 DEF ToSet
<1>4. ASSUME NEW i \in DOMAIN t PROVE t[i] \in ToSet(s \o t)
  <2>1. i + Len(s) \in DOMAIN (s \o t) /\ (s \o t)[i + Len(s)] = t[i]
    BY <1>1, <1>2
  <2> QED
    BY <2>1 DEF ToSet
<1>5. ASSUME NEW i \in DOMAIN (s \o t) PROVE (s \o t)[i] \in ToSet(s) \cup ToSet(t)
  <2>1. CASE i <= Len(s)
    BY <2>1, <1>1, <1>2 DEF ToSet
  <2>2. CASE i > Len(s)
    <3>1. i - Len(s) \in DOMAIN t /\ (s \o t)[i] = t[i - Len(s)]
      BY <2>2, <1>1, <1>2
    <3> QED
      BY <3>1 DEF ToSet
  <2> QED
    BY <2>1, <2>2, <1>1
<1> QED
  BY <1>3, <1>4, <1>5 DEF ToSet

\* The first Len(b) elements of b \o q are b, the others q.
LEMMA SplitConcat ==
  ASSUME NEW S, NEW b \in Seq(S), NEW q \in Seq(S)
  PROVE  /\ SubSeq(b \o q, 1, Len(b)) = b
         /\ SubSeq(b \o q, Len(b) + 1, Len(b \o q)) = q
<1> DEFINE c == b \o q
           l == SubSeq(c, 1, Len(b))
           r == SubSeq(c, Len(b) + 1, Len(c))
<1>1. /\ Len(b) \in Nat /\ Len(q) \in Nat
      /\ c \in Seq(S) /\ Len(c) = Len(b) + Len(q)
      /\ \A i \in 1..(Len(b) + Len(q)) : c[i] = IF i <= Len(b) THEN b[i] ELSE q[i - Len(b)]
  BY LenProperties, ConcatProperties
<1>2. \A i \in 1..Len(c) : c[i] \in S
  BY <1>1, ElementOfSeq
<1> HIDE DEF c
<1>3. /\ l \in Seq(S) /\ Len(l) = Len(b)
      /\ \A i \in 1..Len(b) : l[i] = c[i]
  <2>1. \A i \in 1..Len(b) : c[i] \in S
    BY <1>1, <1>2
  <2>2. /\ l \in Seq(S) /\ Len(l) = IF 1 <= Len(b) THEN Len(b) - 1 + 1 ELSE 0
        /\ \A i \in 1..(Len(b) - 1 + 1) : l[i] = c[1 + i - 1]
    BY <1>1, <2>1, SubSeqProperties
  <2> QED
    BY <1>1, <2>2
<1>4. /\ r \in Seq(S) /\ Len(r) = Len(q)
      /\ \A i \in 1..Len(q) : r[i] = c[Len(b) + i]
  <2>1. \A i \in (Len(b) + 1)..Len(c) : c[i] \in S
    BY <1>1, <1>2
  <2>2. /\ r \in Seq(S)
        /\ Len(r) = IF Len(b) + 1 <= Len(c) THEN Len(c) - (Len(b) + 1) + 1 ELSE 0
        /\ \A i \in 1..(Len(c) - (Len(b) + 1) + 1) : r[i] = c[Len(b) + 1 + i - 1]
    BY <1>1, <2>1, SubSeqProperties
  <2> QED
    BY <1>1, <2>2
<1>5. \A i \in 1..Len(b) : l[i] = b[i]
  BY <1>1, <1>3
<1>6. \A i \in 1..Len(q) : r[i] = q[i]
  BY <1>1, <1>4, SMTT(60)
<1> HIDE DEF l, r
<1>7. l = b /\ r = q
  BY <1>3, <1>4, <1>5, <1>6, SeqEqual
<1> QED
  BY <1>7 DEF l, r, c

\* A batch that goes to process_fn is never empty: the hand-off of an empty group
\* would not be a step of the pipe.
NonEmptyInv == pc = "process" => batch # <<>>

LEMMA NextNonEmpty == NonEmptyInv /\ [Next]_vars => NonEmptyInv'
<1> USE DEF NonEmptyInv, worker, history
<1>1. ASSUME NEW i \in Items, NonEmptyInv, Enqueue(i) PROVE NonEmptyInv'
  BY <1>1 DEF Enqueue
<1>2. NonEmptyInv /\ (Stop \/ DeadlinePasses \/ UNCHANGED vars) => NonEmptyInv'
  BY DEF Stop, DeadlinePasses, vars
<1>3. Thread => NonEmptyInv'
  BY DEF Thread, StartBatch, Exit, FinishFilling, CallGet, GetItem, GetTimesOut,
         ProcessOk, ProcessRaises, RunCallback, CallbacksDone, Reput, ReputDone,
         AfterException
<1> QED
  BY <1>1, <1>2, <1>3 DEF Next

\* Every step of the batcher is a step of the pipe, or changes nothing in it.
LEMMA NextPipe ==
  ASSUME ~Retry
  PROVE  TypeInv /\ FifoHandOff /\ NonEmptyInv /\ [Next]_vars
           => [Pipe!Next]_<<Unhanded \o queue, handed>>
<1> SUFFICES ASSUME TypeInv, FifoHandOff, NonEmptyInv, [Next]_vars
             PROVE  \/ Pipe!Next
                    \/ (Unhanded \o queue)' = Unhanded \o queue /\ handed' = handed
  OBVIOUS
<1> USE DEF worker, history
<1>0. /\ queue \in Seq(Items) /\ handed \in Seq(Items) /\ batch \in Seq(Items)
      /\ Len(batch) \in Nat /\ Len(batch) <= MaxBatch /\ pc # "reput"
      /\ (handed \o Unhanded) \o queue = enq
  BY LenProperties DEF TypeInv, TypeOK, BoundsInv, FifoHandOff
<1>c. queue \in Seq(Items) /\ handed \in Seq(Items)
  BY <1>0
<1>a. Unhanded \in Seq(Items) /\ Unhanded \o queue \in Seq(Items)
  <2>1. Unhanded \in Seq(Items)
    BY <1>0, EmptySeq DEF Unhanded
  <2> QED
    BY <2>1, <1>0, ConcatProperties
<1>b. ToSet(enq) = ToSet(Unhanded \o queue) \cup ToSet(handed)
  <2>1. (handed \o Unhanded) \o queue = handed \o (Unhanded \o queue)
    BY <1>c, <1>a, ConcatAssociative, SMTT(60)
  <2>2. ToSet(handed \o (Unhanded \o queue)) = ToSet(handed) \cup ToSet(Unhanded \o queue)
    <3> DEFINE p == Unhanded \o queue
    <3>1. p \in Seq(Items)
      BY <1>a
    <3> HIDE DEF p
    <3>2. ToSet(handed \o p) = ToSet(handed) \cup ToSet(p)
      BY <1>c, <3>1, ToSetConcat
    <3> QED
      BY <3>2 DEF p
  <2> QED
    BY <2>1, <2>2, <1>0
<1>1. ASSUME NEW i \in Items, Enqueue(i) PROVE Pipe!Next
  <2>1. /\ handed' = handed /\ Unhanded' = Unhanded /\ queue' = Append(queue, i)
        /\ i \notin ToSet(enq)
    BY <1>1 DEF Enqueue, Unhanded
  <2>2. Unhanded \o Append(queue, i) = Append(Unhanded \o queue, i)
    <3>1. <<i>> \in Seq(Items)
      OBVIOUS
    <3>2. Append(queue, i) = queue \o <<i>>
      BY <1>0, AppendIsConcat
    <3>3. Append(Unhanded \o queue, i) = (Unhanded \o queue) \o <<i>>
      BY <1>a, AppendIsConcat
    <3> QED
      BY <1>0, <1>a, <3>1, <3>2, <3>3, ConcatAssociative
  <2>3. Pipe!Put(i)
    BY <2>1, <2>2, <1>b DEF Pipe!Put, Pipe!ToSet, ToSet
  <2> QED
    BY <2>3 DEF Pipe!Next
<1>2. CASE \/ Stop \/ DeadlinePasses \/ StartBatch \/ Exit \/ CallGet \/ GetTimesOut
           \/ FinishFilling \/ RunCallback \/ CallbacksDone \/ UNCHANGED vars
  <2>1. queue' = queue /\ handed' = handed
    BY <1>2 DEF Stop, DeadlinePasses, StartBatch, Exit, CallGet, GetTimesOut,
                FinishFilling, RunCallback, CallbacksDone, vars
  <2>2. Unhanded' = Unhanded
    BY <1>2 DEF Stop, DeadlinePasses, StartBatch, Exit, CallGet, GetTimesOut,
                FinishFilling, RunCallback, CallbacksDone, AfterException, vars, Unhanded
  <2> QED
    BY <2>1, <2>2
<1>3. CASE GetItem
  <2>1. /\ queue # <<>> /\ Unhanded = batch /\ handed' = handed
        /\ Unhanded' = Append(batch, Head(queue)) /\ queue' = Tail(queue)
    BY <1>3 DEF GetItem, Unhanded
  <2>2. Unhanded' \o queue' = Unhanded \o queue
    BY <1>0, <2>1, MoveHead, SMTT(60)
  <2> QED
    BY <2>1, <2>2
<1>4. CASE ProcessOk \/ ProcessRaises
  <2>1. /\ Unhanded = batch /\ Unhanded' = <<>> /\ handed' = handed \o batch
        /\ queue' = queue /\ batch # <<>>
    BY <1>4 DEF ProcessOk, ProcessRaises, AfterException, Unhanded, NonEmptyInv
  <2>2. <<>> \o queue = queue
    BY <1>0, ConcatEmptySeq
  <2>3. Len(batch) \in 1..Len(Unhanded \o queue)
    <3>1. Len(batch) # 0
      BY <1>0, <2>1, EmptySeq
    <3>2. Len(batch \o queue) = Len(batch) + Len(queue) /\ Len(queue) \in Nat
      BY <1>0, ConcatProperties, LenProperties
    <3> QED
      BY <1>0, <2>1, <3>1, <3>2
  <2>4. Pipe!HandOver(Len(batch))
    BY <1>0, <2>1, <2>2, SplitConcat DEF Pipe!HandOver
  <2> QED
    BY <2>3, <2>4 DEF Pipe!Next
<1>5. CASE Reput \/ ReputDone
  BY <1>0, <1>5 DEF Reput, ReputDone
<1> QED
  BY <1>1, <1>2, <1>3, <1>4, <1>5 DEF Next, Thread

\* What users of a batcher without retry observe is a behaviour of JobPipe: items
\* leave in order, each once, in nonempty groups of at most max_batch_size.
THEOREM PipeImplemented ==
  ASSUME ~Retry
  PROVE  Spec => ImplementsPipe
<1>1. Init => Pipe!Init
  <2>1. <<>> \o <<>> = <<>>
    BY EmptySeq, ConcatEmptySeq
  <2> QED
    BY <2>1 DEF Init, Pipe!Init, Unhanded
<1>2. Init => NonEmptyInv
  BY DEF Init, NonEmptyInv
<1> QED
  BY <1>1, <1>2, TypeInvariant, FifoCorrect, NextNonEmpty, NextPipe, PTL
     DEF Spec, ImplementsPipe, Pipe!Spec

=============================================================================
