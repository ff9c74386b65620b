------------------------------- MODULE JobPipe -------------------------------
(***************************************************************************)
(* What a Batcher without retry promises its users: jobs leave in the order *)
(* they were put in, in groups of bounded size, each exactly once.          *)
(***************************************************************************)
EXTENDS Integers, Sequences, SequencesExt

CONSTANTS
  Items,    \* the jobs
  MaxBatch  \* the largest group handed over at once

VARIABLES
  pending,  \* jobs put in and not handed over yet
  settled   \* jobs handed over

Init == pending = <<>> /\ settled = <<>>

Put(i) ==
  /\ i \notin ToSet(pending) \cup ToSet(settled)
  /\ pending' = Append(pending, i)
  /\ UNCHANGED settled

HandOver(n) ==
  /\ n <= MaxBatch
  /\ settled' = settled \o SubSeq(pending, 1, n)
  /\ pending' = SubSeq(pending, n + 1, Len(pending))

Next ==
  \/ \E i \in Items : Put(i)
  \/ \E n \in 1..Len(pending) : HandOver(n)

Spec == Init /\ [][Next]_<<pending, settled>>

=============================================================================
