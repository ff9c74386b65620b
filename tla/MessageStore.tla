----------------------------- MODULE MessageStore -----------------------------
(***************************************************************************)
(* How the chat service makes a message durable.  Each chat worker process  *)
(* owns two Batchers that share the worker's one database connection: one   *)
(* stores messages (archive, both sides' inbox rows and the `messaged`      *)
(* table, in one transaction per batch), the other marks conversations as   *)
(* displayed.  When a store batch's transaction is over the sender and the  *)
(* recipient are told.  Meanwhile the API deletes accounts, other workers   *)
(* write the same inbox rows, and a worker process may die.                 *)
(*                                                                         *)
(* PostgreSQL is external: it is modelled by the row locks a transaction    *)
(* takes statement by statement and keeps until it ends, by the foreign     *)
(* keys, and by the ways a statement or a COMMIT may fail.                  *)
(***************************************************************************)
EXTENDS Integers, Sequences, SequencesExt, FiniteSets

CONSTANTS
  Workers,       \* chat worker processes
  Users,         \* accounts, named by their uuid
  Msgs,          \* messages that pass every check of process_text
  Sender,        \* [Msgs -> Users]
  Recipient,     \* [Msgs -> Users]
  AudioMsgs,     \* the messages with a recording
  Marks,         \* `displayed` markers that clients send
  Reader,        \* [Marks -> Users]: who has read the conversation ...
  Peer,          \* [Marks -> Users]: ... with whom
  MaxBatch,      \* max_batch_size of the batchers
  CommitMayFail, \* COMMIT itself may fail, e.g. with the connection
  MaxCrashes     \* bound: how often a worker process dies

ASSUME MessageStoreAssumption ==
  /\ Sender \in [Msgs -> Users] /\ Recipient \in [Msgs -> Users]
  /\ Reader \in [Marks -> Users] /\ Peer \in [Marks -> Users]
  /\ AudioMsgs \subseteq Msgs
  /\ MaxBatch \in Nat \ {0} /\ CommitMayFail \in BOOLEAN /\ MaxCrashes \in Nat

VARIABLES
  person,    \* table person: the accounts that exist
  mam,       \* table mam_message: pairs <<owner, message>>
  inbox,     \* table inbox: function from pairs <<luser, remote>> to rows
  messaged,  \* table messaged: pairs <<subject, object>>
  storeQ,    \* per worker: the queue of _store_message_batcher
  markQ,     \* per worker: the queue of _mark_displayed_batcher
  tx,        \* per worker: the transaction on its connection
  callbacks, \* per worker: store_audio_and_notify coroutines on its event loop
  sent,      \* the messages and markers that clients have sent
  told,      \* what the sender of a message was told about it, or that he never will be
  shown,     \* messages published to their recipient
  gone,      \* history: messages whose job or callback was dropped
  crashes    \* history: number of crashes, up to MaxCrashes

tables == <<person, mam, inbox, messaged>>
queues == <<storeQ, markQ>>
replies == <<told, shown>>
vars == <<tables, queues, tx, callbacks, sent, replies, gone, crashes>>

Row == [last : Msgs, box : {"inbox", "chats"}, unread : Nat]

Idle == [kind |-> "idle", jobs |-> <<>>, pos |-> 1, held |-> {}]

Init ==
  /\ person = Users /\ mam = {} /\ inbox = [k \in {} |-> {}] /\ messaged = {}
  /\ storeQ = [w \in Workers |-> <<>>] /\ markQ = [w \in Workers |-> <<>>]
  /\ tx = [w \in Workers |-> Idle]
  /\ callbacks = [w \in Workers |-> {}]
  /\ sent = {} /\ told = [m \in Msgs |-> "nothing"]
  /\ shown = {} /\ gone = {} /\ crashes = 0

-----------------------------------------------------------------------------
(* The effect of a batch's statements on the tables.                        *)

SenderRow(m) == <<Sender[m], Recipient[m]>>
RecipientRow(m) == <<Recipient[m], Sender[m]>>

\* Mutants of Upsert.  Only the sender's side is written:
UpsertOneSide(rows, m) ==
  [k \in DOMAIN rows \cup {SenderRow(m)} |->
     IF k = SenderRow(m) THEN [last |-> m, box |-> "chats", unread |-> 0] ELSE rows[k]]

\* the two sides are swapped:
UpsertSwapped(rows, m) ==
  [k \in DOMAIN rows \cup {SenderRow(m), RecipientRow(m)} |->
     IF k = RecipientRow(m) THEN [last |-> m, box |-> "chats", unread |-> 0]
     ELSE IF k = SenderRow(m) THEN [last |-> m, box |-> "inbox", unread |-> 1]
     ELSE rows[k]]

\* an existing row keeps its box:
UpsertKeepsBox(rows, m) ==
  LET old == DOMAIN rows IN
  [k \in old \cup {SenderRow(m), RecipientRow(m)} |->
     IF k = SenderRow(m)
     THEN [last |-> m, box |-> IF k \in old THEN rows[k].box ELSE "chats", unread |-> 0]
     ELSE IF k = RecipientRow(m)
     THEN [last |-> m, box |-> IF k \in old THEN rows[k].box ELSE "inbox",
           unread |-> 1 + IF k \in old THEN rows[k].unread ELSE 0]
     ELSE rows[k]]

\* every message is an intro to its recipient:
UpsertAsIntro(rows, m) ==
  [k \in DOMAIN rows \cup {SenderRow(m), RecipientRow(m)} |->
     IF k = SenderRow(m) THEN [last |-> m, box |-> "chats", unread |-> 0]
     ELSE IF k = RecipientRow(m) THEN [last |-> m, box |-> "inbox", unread |-> 1]
     ELSE rows[k]]

\* Q_UPSERT_CONVERSATION: the sender's side is a read chat; the recipient's is
\* an unread intro when new, and an unread chat from the second message on.
Upsert(rows, m) ==
  LET s == SenderRow(m)
      r == RecipientRow(m)
      read == [last |-> m, box |-> "chats", unread |-> 0]
      unread == IF r \in DOMAIN rows
                THEN [last |-> m, box |-> "chats", unread |-> rows[r].unread + 1]
                ELSE [last |-> m, box |-> "inbox", unread |-> 1]
  IN [k \in DOMAIN rows \cup {s, r} |->
        IF k = s THEN read ELSE IF k = r THEN unread ELSE rows[k]]

\* The upserts of a batch, one after the other.
UpsertAll(rows, jobs) ==
  LET after[i \in 0..Len(jobs)] ==
        IF i = 0 THEN rows ELSE Upsert(after[i - 1], jobs[i])
  IN after[Len(jobs)]

\* Mutant of MarkDisplayed: one message is marked, read before or not.
MarkOneDisplayed(rows, read) ==
  [k \in DOMAIN rows |->
     IF k \in read THEN [rows[k] EXCEPT !.unread = @ - 1] ELSE rows[k]]

\* Q_MARK_DISPLAYED for each of a batch: an UPDATE, without effect when there is
\* no such row.
MarkDisplayed(rows, read) ==
  [k \in DOMAIN rows |->
     IF k \in read THEN [rows[k] EXCEPT !.unread = 0] ELSE rows[k]]

-----------------------------------------------------------------------------
(* The clients, through process_text.                                       *)

\* store_message: the ids of both accounts were looked up earlier (and cached),
\* so either account may be gone by now.
StoreMessage(w, m) ==
  /\ m \notin sent
  /\ sent' = sent \cup {m}
  /\ storeQ' = [storeQ EXCEPT ![w] = Append(@, m)]
  /\ UNCHANGED <<tables, markQ, tx, callbacks, replies, gone, crashes>>

MaybeMarkDisplayed(w, k) ==
  /\ k \notin sent
  /\ sent' = sent \cup {k}
  /\ markQ' = [markQ EXCEPT ![w] = Append(@, k)]
  /\ UNCHANGED <<tables, storeQ, tx, callbacks, replies, gone, crashes>>

-----------------------------------------------------------------------------
(* The batcher threads and their transactions.                              *)

\* Rows in the order the statements of a batch lock them.
RowsOf(t) ==
  CASE t.kind = "store" ->
         [i \in 1..(2 * Len(t.jobs)) |->
            LET m == t.jobs[(i + 1) \div 2]
            IN IF i % 2 = 1 THEN SenderRow(m) ELSE RecipientRow(m)]
    [] t.kind = "mark" ->
         [i \in 1..Len(t.jobs) |-> <<Reader[t.jobs[i]], Peer[t.jobs[i]]>>]
    [] OTHER -> <<>>

HeldByOthers(w) == UNION {tx[v].held : v \in Workers \ {w}}

People(m) == {Sender[m], Recipient[m]}

\* The statements for m go through: neither person_id is NULL, and the upsert does
\* not write one inbox row twice, as it would for a message to oneself.
Storable(m) == People(m) \subseteq person /\ Sender[m] # Recipient[m]

\* One batch of _process_store_message_batch: the archive rows come first and
\* reference both accounts; from then on neither can be deleted.  A batch that
\* is doomed holds its locks until it fails, which nobody can tell from waiting.
BeginStore(w, n) ==
  /\ tx[w] = Idle /\ n \in 1..Len(storeQ[w]) /\ n <= MaxBatch
  /\ LET batch == SubSeq(storeQ[w], 1, n) IN
     /\ storeQ' = [storeQ EXCEPT ![w] = SubSeq(@, n + 1, Len(@))]
     /\ IF \A m \in ToSet(batch) : Storable(m)
        THEN /\ tx' = [tx EXCEPT ![w] = [kind |-> "store", jobs |-> batch,
                                         pos |-> 1, held |-> {}]]
             /\ UNCHANGED gone
        ELSE \* a statement fails, the batch is dropped
             /\ gone' = gone \cup ToSet(batch)
             /\ UNCHANGED tx
  /\ UNCHANGED <<tables, markQ, callbacks, sent, replies, crashes>>

BeginMark(w, n) ==
  /\ tx[w] = Idle /\ n \in 1..Len(markQ[w]) /\ n <= MaxBatch
  /\ tx' = [tx EXCEPT ![w] = [kind |-> "mark", jobs |-> SubSeq(markQ[w], 1, n),
                              pos |-> 1, held |-> {}]]
  /\ markQ' = [markQ EXCEPT ![w] = SubSeq(@, n + 1, Len(@))]
  /\ UNCHANGED <<tables, storeQ, callbacks, sent, replies, gone, crashes>>

\* The next inbox statement locks its row.  An UPDATE that sees no committed
\* row locks nothing.
LockRow(w) ==
  /\ tx[w].kind # "idle" /\ tx[w].pos <= Len(RowsOf(tx[w]))
  /\ LET row == RowsOf(tx[w])[tx[w].pos] IN
     \/ /\ tx[w].kind = "mark" /\ row \notin DOMAIN inbox
        /\ tx' = [tx EXCEPT ![w].pos = @ + 1]
     \/ /\ tx[w].kind = "store" \/ row \in DOMAIN inbox
        /\ row \notin HeldByOthers(w)
        /\ tx' = [tx EXCEPT ![w].pos = @ + 1, ![w].held = @ \cup {row}]
  /\ UNCHANGED <<tables, queues, callbacks, sent, replies, gone, crashes>>

Jobs(w, kind) == IF tx[w].kind = kind THEN ToSet(tx[w].jobs) ELSE {}

\* Mutants of StatementFails.  The callbacks run whatever became of the batch:
StatementFailsUnnoticed(w) ==
  /\ tx[w].kind # "idle" /\ tx[w].pos <= Len(RowsOf(tx[w]))
  /\ callbacks' = [callbacks EXCEPT ![w] = @ \cup Jobs(w, "store")]
  /\ tx' = [tx EXCEPT ![w] = Idle]
  /\ UNCHANGED <<tables, queues, sent, replies, gone, crashes>>

\* a statement that waits for a row waits for ever (no timeout, no deadlock victim):
StatementFailsUnlessWaiting(w) ==
  /\ tx[w].kind # "idle" /\ tx[w].pos <= Len(RowsOf(tx[w]))
  /\ RowsOf(tx[w])[tx[w].pos] \notin HeldByOthers(w)
  /\ gone' = gone \cup Jobs(w, "store")
  /\ tx' = [tx EXCEPT ![w] = Idle]
  /\ UNCHANGED <<tables, queues, callbacks, sent, replies, crashes>>

\* A statement fails: as the victim of a deadlock with another worker's batch
\* or with an account's deletion, by statement_timeout, or with the connection.
\* The transaction is rolled back; the batcher prints the exception and goes on.
StatementFails(w) ==
  /\ tx[w].kind # "idle" /\ tx[w].pos <= Len(RowsOf(tx[w]))
  /\ gone' = gone \cup Jobs(w, "store")
  /\ tx' = [tx EXCEPT ![w] = Idle]
  /\ UNCHANGED <<tables, queues, callbacks, sent, replies, crashes>>

\* The rows a mark transaction locked are the only ones it updates.
Commit(w) ==
  /\ tx[w].kind # "idle" /\ tx[w].pos > Len(RowsOf(tx[w]))
  /\ LET jobs == tx[w].jobs IN
     IF tx[w].kind = "store"
     THEN /\ inbox' = UpsertAll(inbox, jobs)
          /\ mam' = mam \cup {r \in Users \X ToSet(jobs) : r[1] \in People(r[2])}
          /\ messaged' = messaged \cup {SenderRow(m) : m \in ToSet(jobs)}
     ELSE /\ inbox' = MarkDisplayed(inbox,
                        {<<Reader[k], Peer[k]>> : k \in ToSet(jobs)} \cap tx[w].held)
          /\ UNCHANGED <<mam, messaged>>
  /\ callbacks' = [callbacks EXCEPT ![w] = @ \cup Jobs(w, "store")]
  /\ tx' = [tx EXCEPT ![w] = Idle]
  /\ UNCHANGED <<person, queues, sent, replies, gone, crashes>>

\* api_tx.__exit__ prints an exception of commit() and returns normally, so the
\* batcher takes the batch for processed and schedules its callbacks.
CommitFails(w) ==
  /\ CommitMayFail
  /\ tx[w].kind # "idle" /\ tx[w].pos > Len(RowsOf(tx[w]))
  /\ callbacks' = [callbacks EXCEPT ![w] = @ \cup Jobs(w, "store")]
  /\ tx' = [tx EXCEPT ![w] = Idle]
  /\ UNCHANGED <<tables, queues, sent, replies, gone, crashes>>

-----------------------------------------------------------------------------
(* store_audio_and_notify, on the worker's event loop.                      *)

Notify(w, m) ==
  /\ m \in callbacks[w]
  /\ callbacks' = [callbacks EXCEPT ![w] = @ \ {m}]
  /\ shown' = shown \cup {m}
  /\ told' = [told EXCEPT ![m] = "delivered"]
  /\ UNCHANGED <<tables, queues, tx, sent, gone, crashes>>

\* The recording cannot be transcoded or put into the object store.
AudioFails(w, m) ==
  /\ m \in callbacks[w] \cap AudioMsgs
  /\ callbacks' = [callbacks EXCEPT ![w] = @ \ {m}]
  /\ told' = [told EXCEPT ![m] = "server_error"]
  /\ UNCHANGED <<tables, queues, tx, sent, shown, gone, crashes>>

\* An exception on the way, of fetch_immediate_data, send_notification or one of
\* the two publications: the batcher prints it and the sender is left in silence,
\* whether or not the recipient was shown the message.
NotifyFails(w, m) ==
  /\ m \in callbacks[w]
  /\ callbacks' = [callbacks EXCEPT ![w] = @ \ {m}]
  /\ shown' \in {shown, shown \cup {m}}
  /\ told' = [told EXCEPT ![m] = "silence"]
  /\ UNCHANGED <<tables, queues, tx, sent, gone, crashes>>

-----------------------------------------------------------------------------
(* The environment.                                                         *)

\* Mutant of DeleteAccount: inbox rows are left to a foreign key they lack.
DeleteAccountButInbox(u) ==
  /\ u \in person
  /\ \A w \in Workers : /\ \A m \in Jobs(w, "store") : u \notin People(m)
                        /\ \A row \in tx[w].held : row[1] # u
  /\ person' = person \ {u}
  /\ mam' = {r \in mam : r[1] # u}
  /\ messaged' = {r \in messaged : u \notin {r[1], r[2]}}
  /\ UNCHANGED <<inbox, queues, tx, callbacks, sent, replies, gone, crashes>>

\* Q_DELETE_ACCOUNT in one transaction; it waits for transactions that refer to
\* the account or hold one of its inbox rows.
DeleteAccount(u) ==
  /\ u \in person
  /\ \A w \in Workers : /\ \A m \in Jobs(w, "store") : u \notin People(m)
                        /\ \A row \in tx[w].held : row[1] # u
  /\ person' = person \ {u}
  /\ inbox' = [k \in {k \in DOMAIN inbox : k[1] # u} |-> inbox[k]]
  /\ mam' = {r \in mam : r[1] # u}
  /\ messaged' = {r \in messaged : u \notin {r[1], r[2]}}
  /\ UNCHANGED <<queues, tx, callbacks, sent, replies, gone, crashes>>

\* Queues, callbacks and the open transaction are lost with the process.
Crash(w) ==
  /\ crashes < MaxCrashes /\ crashes' = crashes + 1
  /\ gone' = gone \cup ToSet(storeQ[w]) \cup Jobs(w, "store") \cup callbacks[w]
  /\ storeQ' = [storeQ EXCEPT ![w] = <<>>]
  /\ markQ' = [markQ EXCEPT ![w] = <<>>]
  /\ tx' = [tx EXCEPT ![w] = Idle]
  /\ callbacks' = [callbacks EXCEPT ![w] = {}]
  /\ UNCHANGED <<tables, sent, replies>>

Batches(w) ==
  \/ \E n \in 1..MaxBatch : BeginStore(w, n) \/ BeginMark(w, n)
  \/ LockRow(w) \/ StatementFails(w) \/ Commit(w) \/ CommitFails(w)

Callbacks(w) == \E m \in Msgs : Notify(w, m) \/ AudioFails(w, m) \/ NotifyFails(w, m)

Next ==
  \/ \E w \in Workers :
       \/ \E m \in Msgs : StoreMessage(w, m)
       \/ \E k \in Marks : MaybeMarkDisplayed(w, k)
       \/ Batches(w) \/ Callbacks(w) \/ Crash(w)
  \/ \E u \in Users : DeleteAccount(u)

Spec == Init /\ [][Next]_vars

\* The threads and the event loop of every worker run, and a statement that
\* waits on a lock is not left waiting for ever.
FairSpec ==
  Spec /\ \A w \in Workers : WF_vars(Batches(w)) /\ WF_vars(Callbacks(w))
-----------------------------------------------------------------------------
(* Properties.                                                              *)

\* Every variable keeps its type; tables refer to accounts and messages.
TypeOK ==
  /\ person \subseteq Users /\ mam \subseteq Users \X Msgs
  /\ messaged \subseteq Users \X Users
  /\ DOMAIN inbox \subseteq Users \X Users
  /\ \A k \in DOMAIN inbox : inbox[k] \in Row
  /\ storeQ \in [Workers -> Seq(Msgs)] /\ markQ \in [Workers -> Seq(Marks)]
  /\ tx \in [Workers -> [kind : {"idle", "store", "mark"}, jobs : Seq(Msgs \cup Marks),
                         pos : Nat \ {0}, held : SUBSET (Users \X Users)]]
  /\ \A w \in Workers : tx[w].jobs \in Seq(IF tx[w].kind = "store" THEN Msgs ELSE Marks)
  /\ callbacks \in [Workers -> SUBSET Msgs]
  /\ sent \subseteq Msgs \cup Marks /\ shown \subseteq Msgs
  /\ told \in [Msgs -> {"nothing", "delivered", "server_error", "silence"}]
  /\ gone \subseteq Msgs /\ crashes \in 0..MaxCrashes

\* m is in the archive of both parties and in `messaged`, as far as the parties
\* still have an account.
Stored(m) ==
  /\ \A u \in People(m) \cap person : <<u, m>> \in mam
  /\ People(m) \subseteq person => SenderRow(m) \in messaged

\* Nobody hears of a message before it is durable: what the sender was told and
\* what the recipient was shown survives a reload of the conversation.  So does a
\* message whose sender is left in silence by a failing callback.
DeliveredMeansStored ==
  \A m \in Msgs : (told[m] # "nothing" \/ m \in shown) => Stored(m)

\* The two sides of a conversation are written together: while both accounts
\* exist, either both have a row or none has, and both show the same message.
SidesAgree ==
  \A u, v \in person : <<u, v>> \in DOMAIN inbox =>
    /\ <<v, u>> \in DOMAIN inbox
    /\ inbox[<<v, u>>].last = inbox[<<u, v>>].last

\* A deletion racing a store batch leaves no inbox or archive row without owner
\* (inbox.luser has no foreign key that would catch one).
RowsHaveOwners ==
  /\ \A k \in DOMAIN inbox : k[1] \in person
  /\ \A r \in mam : r[1] \in person

\* Unread messages are the peer's: a conversation is unread only if its last
\* message came from the peer, and it counts at most the peer's messages.
UnreadIsFromPeer ==
  \A k \in DOMAIN inbox : inbox[k].unread > 0 =>
    /\ Sender[inbox[k].last] = k[2]
    /\ inbox[k].unread <= Cardinality({r \in mam : /\ r[1] = k[1]
                                                   /\ SenderRow(r[2]) = <<k[2], k[1]>>})

\* An intro stays in the `inbox` box only until its owner has replied.
IntroBoxIsUnanswered ==
  \A k \in DOMAIN inbox : inbox[k].box = "inbox" => k \notin messaged

\* All four: the inbox is right on both sides and for both readers.
InboxIsRight == SidesAgree /\ RowsHaveOwners /\ UnreadIsFromPeer /\ IntroBoxIsUnanswered

\* Archive rows disappear only with their owner's account, and a conversation
\* never falls back from a chat to an intro.
ArchiveIsKept ==
  [][/\ \A r \in mam \ mam' : r[1] \notin person'
     /\ \A k \in DOMAIN inbox \cap DOMAIN inbox' :
          inbox[k].box = "chats" => inbox'[k].box = "chats"]_vars

\* Messages that were accepted and have come to none of three ends: it is reported
\* on to its sender, its job is given up, or it is stored and its callback fails with
\* the sender in silence.
Unsettled ==
  {m \in Msgs \cap sent : told[m] \notin {"delivered", "server_error", "silence"} /\ m \notin gone}

\* Whatever locks other batches hold, every accepted message comes to one of its
\* ends.  (An end is for good, and messages are finitely many: so each has come to
\* its end when there is none left.)
EveryMessageSettles == Unsettled # {} ~> Unsettled = {}

=============================================================================
