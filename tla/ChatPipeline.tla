---------------------------- MODULE ChatPipeline ----------------------------
(* What a message goes through in a chat worker before it is stored, and what *)
(* is told about it afterwards: process_text with its checks, each a query of *)
(* its own behind a cache, the batchers that store messages and the hashes of *)
(* introductions, and the callback of the batch.                               *)
(* MessageStore has the tables of a stored message.  Everything here happens  *)
(* within 24 hours (rate limit) and 7 days (hashes).                           *)
EXTENDS Naturals, FiniteSets

CONSTANTS ChMsgs,        \* messages a client may send
          ChFrom, ChTo,  \* their sender and recipient
          ChText,        \* normalize_message of the body, hashed
          ChKind,        \* "text", "audio", "typing", "long" or "spam"
          ChConn,        \* the connection a message is sent on
          ChWorker,      \* the worker of a connection
          ChLimit,       \* get_default_rate_limit: intros per day of a sender
          ChMustVerify,  \* senders who have to verify their age first
          ChTrusted,     \* senders whose account is old enough for links
          ChAnswer, ChSkip, \* recipients who answer, and who skip (bounds)
          ChNone

VARIABLES chPc,        \* where each message is
          chMessaged,  \* messaged: pairs <<subject, object>>
          chOpened,    \* those of them that were first in their conversation
          chSkipped,   \* skipped: pairs <<subject, object>>
          chHash,      \* intro_hash
          chHashQueue, \* per worker, hashes queued for intro_hash
          chSkipCache, \* per worker and pair: fetch_is_skipped, for 5 s
          chRateCache, \* per worker and sender: daily_message_count, for 5 s
          chCount,     \* per message: the count that its own query returned
          chPassed,    \* ghost: intros that were let through every check, once
          chRaced,     \* ghost: intros whose count missed one that was let through
          chDoomed     \* ghost: messages that came in after a settled skip

chVars == <<chPc, chMessaged, chOpened, chSkipped, chHash, chHashQueue, chSkipCache,
            chRateCache, chCount, chPassed, chRaced, chDoomed>>

ChSenders == {ChFrom[m] : m \in ChMsgs}
Pair(m) == <<ChFrom[m], ChTo[m]>>
Back(m) == <<ChTo[m], ChFrom[m]>>
ChPairs == {Pair(m) : m \in ChMsgs}
At(m) == ChWorker[ChConn[m]]
ChWorkers == {At(m) : m \in ChMsgs}

ASSUME ChAssumption ==
  /\ IsFiniteSet(ChMsgs) /\ ChLimit \in [ChSenders -> Nat]
  /\ ChNone \notin BOOLEAN /\ ChNone \notin 0 .. Cardinality(ChMsgs)

InCheck == {"received", "looking-up", "skip-found", "no-skip-found", "allowed",
            "intro", "counting", "counted"}
Outcomes == {"refused", "blocked", "limited", "not-unique", "typed", "lost",
             "settled"}

ChTypeOK ==
  /\ chPc \in [ChMsgs -> {"unsent", "queued", "stored"} \cup InCheck \cup Outcomes]
  /\ chOpened \subseteq chMessaged /\ chMessaged \subseteq ChPairs \cup {Back(m) : m \in ChMsgs}
  /\ chSkipped \subseteq ChPairs \cup {Back(m) : m \in ChMsgs}
  /\ chHash \subseteq {ChText[m] : m \in ChMsgs}
  /\ chHashQueue \in [ChWorkers -> SUBSET {ChText[m] : m \in ChMsgs}]
  /\ chSkipCache \in [ChWorkers \X ChPairs -> BOOLEAN \cup {ChNone}]
  /\ chRateCache \in [ChWorkers \X ChSenders -> (0 .. Cardinality(ChMsgs)) \cup {ChNone}]
  /\ chCount \in [ChMsgs -> (0 .. Cardinality(ChMsgs)) \cup {ChNone}]
  /\ chPassed \cup chRaced \cup chDoomed \subseteq ChMsgs

ChInit ==
  /\ chPc = [m \in ChMsgs |-> "unsent"]
  /\ chMessaged = {} /\ chOpened = {} /\ chSkipped = {} /\ chHash = {}
  /\ chHashQueue = [w \in ChWorkers |-> {}]
  /\ chSkipCache = [x \in ChWorkers \X ChPairs |-> ChNone]
  /\ chRateCache = [x \in ChWorkers \X ChSenders |-> ChNone]
  /\ chCount = [m \in ChMsgs |-> ChNone]
  /\ chPassed = {} /\ chRaced = {} /\ chDoomed = {}

-----------------------------------------------------------------------------
(* process_text.  A connection's messages are processed one after the other;  *)
(* between two steps of one message other connections are served.  A cached   *)
(* query awaits between the miss, the answer of the database and the storing  *)
(* in the cache: what another connection does in between is not seen.          *)

Goto(m, pc) == chPc' = [chPc EXCEPT ![m] = pc]
AreSkipped(m) == Pair(m) \in chSkipped \/ Back(m) \in chSkipped

\* The key of fetch_is_skipped in the cache of the worker.
SkipKey(m) == <<At(m), Pair(m)>>
\* A skip that neither the cache hides nor a query that was answered before it
\* and is still to be cached.
SkipIsSettled(m) ==
  /\ AreSkipped(m) /\ chSkipCache[SkipKey(m)] # FALSE
  /\ \A n \in ChMsgs : SkipKey(n) = SkipKey(m) => chPc[n] # "no-skip-found"

Receive(m) ==
  /\ chPc[m] \in {"unsent", "lost"}
  /\ \A n \in ChMsgs : ChConn[n] = ChConn[m] => chPc[n] \notin InCheck
  /\ Goto(m, IF ChFrom[m] \in ChMustVerify THEN "refused" ELSE "received")
  /\ chDoomed' = IF SkipIsSettled(m) THEN chDoomed \cup {m} ELSE chDoomed \ {m}
  /\ UNCHANGED <<chMessaged, chOpened, chSkipped, chHash, chHashQueue, chSkipCache,
                 chRateCache, chCount, chPassed, chRaced>>

\* fetch_is_skipped is not cached: the database is asked ...
MissSkip(m) ==
  /\ chPc[m] = "received" /\ chSkipCache[SkipKey(m)] = ChNone
  /\ Goto(m, "looking-up")
  /\ UNCHANGED <<chMessaged, chOpened, chSkipped, chHash, chHashQueue, chSkipCache,
                 chRateCache, chCount, chPassed, chRaced, chDoomed>>

\* Mutant of ReadSkip: only the sender's own skips count.
ReadSkipOneWay(m) ==
  /\ chPc[m] = "looking-up"
  /\ Goto(m, IF Pair(m) \in chSkipped THEN "skip-found" ELSE "no-skip-found")
  /\ UNCHANGED <<chMessaged, chOpened, chSkipped, chHash, chHashQueue, chSkipCache,
                 chRateCache, chCount, chPassed, chRaced, chDoomed>>

\* ... and answers.
ReadSkip(m) ==
  /\ chPc[m] = "looking-up"
  /\ Goto(m, IF AreSkipped(m) THEN "skip-found" ELSE "no-skip-found")
  /\ UNCHANGED <<chMessaged, chOpened, chSkipped, chHash, chHashQueue, chSkipCache,
                 chRateCache, chCount, chPassed, chRaced, chDoomed>>

\* The answer is cached, over whatever another connection has cached meanwhile,
\* or a cached one is taken.  What is being typed goes out at once, what is too
\* long is refused.
CheckSkipped(m) == \E skipped \in BOOLEAN :
  /\ \/ chPc[m] = "received" /\ chSkipCache[SkipKey(m)] = skipped
     \/ chPc[m] = IF skipped THEN "skip-found" ELSE "no-skip-found"
  /\ chSkipCache' = [chSkipCache EXCEPT ![SkipKey(m)] = skipped]
  /\ Goto(m, CASE skipped -> "blocked"
               [] ~skipped /\ ChKind[m] = "typing" -> "typed"
               [] ~skipped /\ ChKind[m] = "long" -> "refused"
               [] OTHER -> "allowed")
  /\ UNCHANGED <<chMessaged, chOpened, chSkipped, chHash, chHashQueue, chRateCache,
                 chCount, chPassed, chRaced, chDoomed>>

\* fetch_is_intro and the spam check.  Only `not an intro` is cached, which
\* stays true.
CheckIntro(m) ==
  /\ chPc[m] = "allowed"
  /\ IF Back(m) \in chMessaged
     THEN Goto(m, "queued")
     ELSE Goto(m, IF ChKind[m] = "spam" /\ ChFrom[m] \notin ChTrusted
                  THEN "refused" ELSE "intro")
  /\ UNCHANGED <<chMessaged, chOpened, chSkipped, chHash, chHashQueue, chSkipCache,
                 chRateCache, chCount, chPassed, chRaced, chDoomed>>

\* The key of fetch_rate_limit_reason in the cache of the worker.
RateKey(m) == <<At(m), ChFrom[m]>>
\* Q_RATE_LIMIT_REASON.
DailyCount(s) == Cardinality({x \in chOpened : x[1] = s})

\* Conversations that the sender has been let through to open.
LetThrough(s) == {Pair(m) : m \in {n \in ChMsgs : ChFrom[n] = s /\
  (chPc[n] = "counted" \/ (n \in chPassed /\ chPc[n] # "lost"))}}

\* fetch_rate_limit_reason is not cached: the database is asked ...
MissRate(m) ==
  /\ chPc[m] = "intro" /\ chRateCache[RateKey(m)] = ChNone
  /\ Goto(m, "counting")
  /\ UNCHANGED <<chMessaged, chOpened, chSkipped, chHash, chHashQueue, chSkipCache,
                 chRateCache, chCount, chPassed, chRaced, chDoomed>>

\* ... and counts.
ReadRate(m) ==
  /\ chPc[m] = "counting" /\ chCount[m] = ChNone
  /\ chCount' = [chCount EXCEPT ![m] = DailyCount(ChFrom[m])]
  /\ UNCHANGED <<chPc, chMessaged, chOpened, chSkipped, chHash, chHashQueue,
                 chSkipCache,
                 chRateCache, chPassed, chRaced, chDoomed>>

\* The count that a check goes by: a cached one, or that of its own query.
CountOf(m) == IF chPc[m] = "intro" THEN chRateCache[RateKey(m)] ELSE chCount[m]

\* Mutant of CheckRate: one intro too many.
CheckRateOver(m) ==
  /\ chPc[m] \in {"intro", "counting"} /\ CountOf(m) # ChNone
  /\ chRateCache' = [chRateCache EXCEPT ![RateKey(m)] = CountOf(m)]
  /\ chCount' = [chCount EXCEPT ![m] = ChNone]
  /\ Goto(m, IF CountOf(m) > ChLimit[ChFrom[m]] THEN "limited" ELSE "counted")
  /\ chRaced' = IF CountOf(m) < Cardinality(LetThrough(ChFrom[m]))
                THEN chRaced \cup {m} ELSE chRaced
  /\ UNCHANGED <<chMessaged, chOpened, chSkipped, chHash, chHashQueue, chSkipCache,
                 chPassed, chDoomed>>

\* maybe_fetch_rate_limit.
CheckRate(m) ==
  /\ chPc[m] \in {"intro", "counting"} /\ CountOf(m) # ChNone
  /\ chRateCache' = [chRateCache EXCEPT ![RateKey(m)] = CountOf(m)]
  /\ chCount' = [chCount EXCEPT ![m] = ChNone]
  /\ Goto(m, IF CountOf(m) >= ChLimit[ChFrom[m]] THEN "limited" ELSE "counted")
  /\ chRaced' = IF CountOf(m) < Cardinality(LetThrough(ChFrom[m]))
                THEN chRaced \cup {m} ELSE chRaced
  /\ UNCHANGED <<chMessaged, chOpened, chSkipped, chHash, chHashQueue, chSkipCache,
                 chPassed, chDoomed>>

\* is_unique_message: the lookup, then the queueing of the hash, whatever the
\* lookup found.  Recordings are always unique.  The message is queued for
\* storage in the same step.
CheckUnique(m) ==
  LET seen == ChKind[m] # "audio" /\ ChText[m] \in chHash IN
  /\ chPc[m] = "counted"
  /\ chHashQueue' = IF ChKind[m] = "audio" THEN chHashQueue
                    ELSE [chHashQueue EXCEPT ![At(m)] = @ \cup {ChText[m]}]
  /\ Goto(m, IF seen THEN "not-unique" ELSE "queued")
  /\ chPassed' = IF seen THEN chPassed ELSE chPassed \cup {m}
  /\ UNCHANGED <<chMessaged, chOpened, chSkipped, chHash, chSkipCache, chRateCache,
                 chCount, chRaced, chDoomed>>

-----------------------------------------------------------------------------
(* The batchers and the callback.                                             *)

\* A batch is stored, or lost as a whole.
StoreBatch(w) == \E ms \in SUBSET {m \in ChMsgs : chPc[m] = "queued" /\ At(m) = w} :
  /\ ms # {}
  /\ \/ /\ chPc' = [m \in ChMsgs |-> IF m \in ms THEN "stored" ELSE chPc[m]]
        /\ chMessaged' = chMessaged \cup {Pair(m) : m \in ms}
        /\ chOpened' = chOpened \cup
              {Pair(m) : m \in {n \in ms : Pair(n) \notin chMessaged /\ Back(n) \notin chMessaged}}
     \/ /\ chPc' = [m \in ChMsgs |-> IF m \in ms THEN "lost" ELSE chPc[m]]
        /\ UNCHANGED <<chMessaged, chOpened>>
  /\ UNCHANGED <<chSkipped, chHash, chHashQueue, chSkipCache, chRateCache, chCount,
                 chPassed, chRaced, chDoomed>>

\* store_audio_and_notify: what becomes of a recording, and what the sender is told
\* then, if anything, is MessageStore's.
TellResult(m) ==
  /\ chPc[m] = "stored" /\ Goto(m, "settled")
  /\ UNCHANGED <<chMessaged, chOpened, chSkipped, chHash, chHashQueue, chSkipCache,
                 chRateCache, chCount, chPassed, chRaced, chDoomed>>

\* A batch of hashes is written, or lost.
FlushHashes(w) == \E ts \in SUBSET chHashQueue[w] :
  /\ ts # {} /\ chHashQueue' = [chHashQueue EXCEPT ![w] = @ \ ts]
  /\ chHash' \in {chHash, chHash \cup ts}
  /\ UNCHANGED <<chPc, chMessaged, chOpened, chSkipped, chSkipCache, chRateCache,
                 chCount, chPassed, chRaced, chDoomed>>

-----------------------------------------------------------------------------
(* The others.                                                                *)

\* The recipient answers.
AnswerBack(m) ==
  /\ ChTo[m] \in ChAnswer /\ Pair(m) \in chMessaged /\ Back(m) \notin chMessaged
  /\ chMessaged' = chMessaged \cup {Back(m)}
  /\ UNCHANGED <<chPc, chOpened, chSkipped, chHash, chHashQueue, chSkipCache,
                 chRateCache, chCount, chPassed, chRaced, chDoomed>>

\* The recipient skips the sender, or takes it back.
SkipSender(m) ==
  /\ ChTo[m] \in ChSkip /\ Back(m) \notin chSkipped
  /\ chSkipped' = chSkipped \cup {Back(m)}
  /\ UNCHANGED <<chPc, chMessaged, chOpened, chHash, chHashQueue, chSkipCache,
                 chRateCache, chCount, chPassed, chRaced, chDoomed>>

TakeBack(m) ==
  /\ Back(m) \in chSkipped /\ chSkipped' = chSkipped \ {Back(m)}
  /\ chDoomed' = {n \in chDoomed : Pair(n) \notin {Pair(m), Back(m)}}
  /\ UNCHANGED <<chPc, chMessaged, chOpened, chHash, chHashQueue, chSkipCache,
                 chRateCache, chCount, chPassed, chRaced>>

SkipExpires(x) ==
  /\ chSkipCache[x] # ChNone /\ chSkipCache' = [chSkipCache EXCEPT ![x] = ChNone]
  /\ UNCHANGED <<chPc, chMessaged, chOpened, chSkipped, chHash, chHashQueue,
                 chRateCache, chCount, chPassed, chRaced, chDoomed>>

RateExpires(x) ==
  /\ chRateCache[x] # ChNone /\ chRateCache' = [chRateCache EXCEPT ![x] = ChNone]
  /\ UNCHANGED <<chPc, chMessaged, chOpened, chSkipped, chHash, chHashQueue,
                 chSkipCache, chCount, chPassed, chRaced, chDoomed>>

ChNext ==
  \/ \E m \in ChMsgs :
        \/ Receive(m) \/ MissSkip(m) \/ ReadSkip(m) \/ CheckSkipped(m) \/ CheckIntro(m)
        \/ MissRate(m) \/ ReadRate(m) \/ CheckRate(m) \/ CheckUnique(m) \/ TellResult(m)
        \/ AnswerBack(m) \/ SkipSender(m) \/ TakeBack(m)
  \/ \E w \in ChWorkers : StoreBatch(w) \/ FlushHashes(w)
  \/ \E x \in DOMAIN chSkipCache : SkipExpires(x)
  \/ \E x \in DOMAIN chRateCache : RateExpires(x)

ChSpec == ChInit /\ [][ChNext]_chVars

-----------------------------------------------------------------------------
(* Properties.                                                                *)

\* Nobody opens more conversations in a day than the rate limit allows, but for
\* those that overlapped: the limit is checked against a count that is up to
\* five seconds old and misses what is still on its way to the table.
IntrosWithinLimit == \A s \in ChSenders :
  DailyCount(s) <= ChLimit[s] + Cardinality({m \in chRaced : ChFrom[m] = s})

\* An intro is refused as a copy only of one that was let through: never
\* because of its own hash, which is queued by the very check that looks it up,
\* unless its batch was lost and the client sends it again.
RefusalHasTwin == \A m \in ChMsgs : chPc[m] = "not-unique" =>
  \E n \in chPassed : ChText[n] = ChText[m]

\* Both: what is said of introductions holds however checks and batches interleave.
IntroRules == IntrosWithinLimit /\ RefusalHasTwin

\* Who was skipped and writes when the skip is settled, hidden neither by the
\* cache nor by an older answer on its way there, reaches nobody, whatever the
\* message is and whatever the pair's other connections do, until the skip is
\* taken back.
BlockedStaysBlocked == \A m \in chDoomed :
  chPc[m] \in {"received", "looking-up", "skip-found", "refused", "blocked"}
=============================================================================
