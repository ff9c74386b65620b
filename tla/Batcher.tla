------------------------------- MODULE Batcher -------------------------------
(***************************************************************************)
(* The in-memory job queue of batcher/__init__.py: any number of threads    *)
(* enqueue items, one daemon thread collects them into batches, hands each  *)
(* batch to the user's process_fn and then runs the items' callbacks.  The  *)
(* message store, the mark-displayed writer, the intro-hash writer, the     *)
(* push-token writer, the last-notification writer, the presence writer and *)
(* the push sender of the chat and cron services are instances of it.       *)
(*                                                                         *)
(* A BatchItem is modelled by its identity (a member of Items, enqueued at  *)
(* most once).  The wall clock is reduced to one bit: whether the deadline  *)
(* computed when the current batch was started has passed.                  *)
(***************************************************************************)
EXTENDS Integers, Sequences, SequencesExt

CONSTANTS
  Items,        \* the BatchItems that producers may enqueue
  CallbackKind, \* [Items -> {"none", "sync", "async"}]: BatchItem.callback
  MinBatch,     \* min_batch_size
  MaxBatch,     \* max_batch_size
  Retry,        \* retry
  MaxFailures   \* bound: how often process_fn or a callback raises

ASSUME BatcherAssumption ==
  /\ CallbackKind \in [Items -> {"none", "sync", "async"}]
  /\ MinBatch \in Nat
  /\ MaxBatch \in Nat \ {0}
  /\ Retry \in BOOLEAN
  /\ MaxFailures \in Nat

VARIABLES
  queue,    \* self._queue
  stopped,  \* self._stop_event
  pc,       \* where the daemon thread is
  batch,    \* the thread's local variable batch
  expired,  \* remaining <= 0 for the deadline of the current batch
  blocking, \* the pending get() was called with timeout=None
  next,     \* index of the item whose callback, or re-put, comes next
  enq,      \* history: every item that was ever enqueued, in order
  handed,   \* history: the items of every batch given to process_fn, in order
  done,     \* history: items of a batch that process_fn has returned from
  called,   \* history: items whose callback was started or scheduled
  failures  \* history: number of exceptions so far, up to MaxFailures

vars == <<queue, stopped, pc, batch, expired, blocking, next,
          enq, handed, done, called, failures>>

worker == <<pc, batch, expired, blocking, next>>

history == <<enq, handed, done, called, failures>>

PCs == {"idle", "check", "get", "process", "callbacks", "reput", "exited"}

Init ==
  /\ queue = <<>> /\ stopped = FALSE
  /\ pc = "idle" /\ batch = <<>> /\ expired = FALSE
  /\ blocking = FALSE /\ next = 1
  /\ enq = <<>> /\ handed = <<>> /\ done = {} /\ called = {}
  /\ failures = 0

-----------------------------------------------------------------------------
(* The producers.                                                           *)

Enqueue(i) ==
  /\ i \notin ToSet(enq)
  /\ queue' = Append(queue, i)
  /\ enq' = Append(enq, i)
  /\ UNCHANGED <<stopped, worker, handed, done, called, failures>>

Stop ==
  /\ ~stopped
  /\ stopped' = TRUE
  /\ UNCHANGED <<queue, worker, history>>

-----------------------------------------------------------------------------
(* The daemon thread: _process_batches_forever and what it calls.           *)

\* Mutant of StartBatch: the loop does not look at the stop event.
StartBatchAlways ==
  /\ pc = "idle"
  /\ pc' = "check" /\ batch' = <<>> /\ expired' = FALSE
  /\ UNCHANGED <<queue, stopped, blocking, next, history>>

\* Evaluates the loop's test and starts a new, empty batch with a new deadline.
StartBatch ==
  /\ pc = "idle" /\ ~stopped
  /\ pc' = "check" /\ batch' = <<>> /\ expired' = FALSE
  /\ UNCHANGED <<queue, stopped, blocking, next, history>>

Exit ==
  /\ pc = "idle" /\ stopped
  /\ pc' = "exited"
  /\ UNCHANGED <<queue, stopped, batch, expired, blocking, next, history>>

DeadlinePasses ==
  /\ pc \in {"check", "get"} /\ ~expired
  /\ expired' = TRUE
  /\ UNCHANGED <<queue, stopped, pc, batch, blocking, next, history>>

\* Mutants of BatchReady: off by one at either bound.
BatchReadyAboveMax ==
  \/ Len(batch) > MaxBatch
  \/ expired /\ Len(batch) >= MinBatch

BatchReadyAboveMin ==
  \/ Len(batch) >= MaxBatch
  \/ expired /\ Len(batch) > MinBatch

\* The conditions under which the filling loop ends.
BatchReady ==
  \/ Len(batch) >= MaxBatch
  \/ expired /\ Len(batch) >= MinBatch

\* `return batch or None`: an empty batch is not processed.
FinishFilling ==
  /\ pc = "check" /\ BatchReady
  /\ pc' = IF batch = <<>> THEN "idle" ELSE "process"
  /\ UNCHANGED <<queue, stopped, batch, expired, blocking, next, history>>

\* Past the deadline, and still below min_batch_size, get() has no timeout.
CallGet ==
  /\ pc = "check" /\ ~BatchReady
  /\ pc' = "get" /\ blocking' = expired
  /\ UNCHANGED <<queue, stopped, batch, expired, next, history>>

GetItem ==
  /\ pc = "get" /\ queue # <<>>
  /\ batch' = Append(batch, Head(queue))
  /\ queue' = Tail(queue)
  /\ pc' = "check"
  /\ UNCHANGED <<stopped, expired, blocking, next, history>>

GetTimesOut ==
  /\ pc = "get" /\ queue = <<>> /\ ~blocking /\ expired
  /\ pc' = "check"
  /\ UNCHANGED <<queue, stopped, batch, expired, blocking, next, history>>

ProcessOk ==
  /\ pc = "process"
  /\ pc' = "callbacks" /\ next' = 1
  /\ handed' = handed \o batch
  /\ done' = done \cup ToSet(batch)
  /\ UNCHANGED <<queue, stopped, batch, expired, blocking, enq, called, failures>>

\* Mutants of AfterException: the retry flag is ignored.
AlwaysReput == "reput"

NeverReput == "idle"

\* The handler of an exception: with retry the batch goes back on the queue.
AfterException == IF Retry THEN "reput" ELSE "idle"

\* Mutant of ProcessRaises: the callbacks run in a `finally`.
ProcessRaisesFinally ==
  /\ pc = "process" /\ failures < MaxFailures
  /\ pc' = "callbacks" /\ next' = 1 /\ failures' = failures + 1
  /\ handed' = handed \o batch
  /\ UNCHANGED <<queue, stopped, batch, expired, blocking, enq, done, called>>

ProcessRaises ==
  /\ pc = "process" /\ failures < MaxFailures
  /\ pc' = AfterException /\ next' = 1 /\ failures' = failures + 1
  /\ handed' = handed \o batch
  /\ UNCHANGED <<queue, stopped, batch, expired, blocking, enq, done, called>>

\* A missing callback is skipped; a coroutine is only scheduled on the event
\* loop, its outcome never reaches this thread; a plain function may raise.
RunCallback ==
  /\ pc = "callbacks" /\ next <= Len(batch)
  /\ called' = IF CallbackKind[batch[next]] = "none"
               THEN called ELSE called \cup {batch[next]}
  /\ \/ pc' = pc /\ next' = next + 1 /\ failures' = failures
     \/ /\ CallbackKind[batch[next]] = "sync" /\ failures < MaxFailures
        /\ pc' = AfterException /\ next' = 1 /\ failures' = failures + 1
  /\ UNCHANGED <<queue, stopped, batch, expired, blocking, enq, handed, done>>

CallbacksDone ==
  /\ pc = "callbacks" /\ next > Len(batch)
  /\ pc' = "idle"
  /\ UNCHANGED <<queue, stopped, batch, expired, blocking, next, history>>

\* One put() of the retry loop; producers may put between two of them.
Reput ==
  /\ pc = "reput" /\ next <= Len(batch)
  /\ queue' = Append(queue, batch[next])
  /\ next' = next + 1
  /\ UNCHANGED <<stopped, pc, batch, expired, blocking, history>>

ReputDone ==
  /\ pc = "reput" /\ next > Len(batch)
  /\ pc' = "idle"
  /\ UNCHANGED <<queue, stopped, batch, expired, blocking, next, history>>

Thread ==
  \/ StartBatch \/ Exit \/ FinishFilling \/ CallGet \/ GetItem \/ GetTimesOut
  \/ ProcessOk \/ ProcessRaises \/ RunCallback \/ CallbacksDone
  \/ Reput \/ ReputDone

Next ==
  \/ \E i \in Items : Enqueue(i)
  \/ Stop
  \/ DeadlinePasses
  \/ Thread

Spec == Init /\ [][Next]_vars

\* The thread is scheduled and the clock advances; nobody is obliged to
\* enqueue, or to stop the batcher.
FairSpec == Spec /\ WF_vars(Thread) /\ WF_vars(DeadlinePasses)

-----------------------------------------------------------------------------
(* Properties.                                                              *)

\* Every variable keeps its type, and no batch outgrows max_batch_size.
TypeOK ==
  /\ queue \in Seq(Items) /\ enq \in Seq(Items) /\ handed \in Seq(Items)
  /\ batch \in Seq(Items) /\ Len(batch) <= MaxBatch
  /\ stopped \in BOOLEAN /\ expired \in BOOLEAN /\ blocking \in BOOLEAN
  /\ pc \in PCs /\ next \in 1..(MaxBatch + 1)
  /\ done \subseteq Items /\ called \subseteq Items
  /\ failures \in 0..MaxFailures

\* The items the thread holds and has not given to process_fn yet.
Unhanded == IF pc \in {"check", "get", "process"} THEN batch ELSE <<>>

\* Without retry the batcher is a FIFO pipe with at most one hand-off per item:
\* what process_fn was given, then what the thread holds, then the queue, is
\* exactly the sequence of enqueue() calls - nothing lost, doubled or reordered,
\* whatever process_fn and the callbacks raise.
FifoHandOff == ~Retry => handed \o Unhanded \o queue = enq

\* A callback runs only after process_fn has returned from a batch with its item
\* (for the message store: only after the transaction that stores the message).
CallbackAfterProcessing == called \subseteq done

NeedsCallback(i) == CallbackKind[i] # "none"

\* With retry no failure loses an item: it is queued, in the thread's hands, or
\* processed with its callback started.
RetryLosesNothing ==
  Retry => \A i \in ToSet(enq) :
    \/ i \in ToSet(queue)
    \/ pc # "idle" /\ i \in ToSet(batch)
    \/ i \in done /\ (NeedsCallback(i) => i \in called)

\* An enqueued item reaches process_fn, or somebody stopped the batcher.
EventuallyHanded ==
  \A i \in Items : i \in ToSet(enq) ~> (i \in ToSet(handed) \/ stopped)

\* stop() ends the thread.  Checked for min_batch_size=0: with a larger minimum
\* the thread can sit in get(timeout=None) where the event is never looked at.
StopTerminates == stopped ~> (pc = "exited")

-----------------------------------------------------------------------------
(* The batcher implements the abstract pipe: a job is pending while it is in *)
(* the queue or in the thread's hands.                                       *)

Pipe == INSTANCE JobPipe WITH
  pending <- Unhanded \o queue, settled <- handed

\* Without retry the thread, its timeouts and its failures are invisible: what
\* users of a Batcher observe is a behaviour of JobPipe.
ImplementsPipe == Pipe!Spec

=============================================================================
