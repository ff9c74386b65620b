--------------------------- MODULE Notifications ---------------------------
(* How somebody learns of a message while away: the push that the chat worker *)
(* sends when the message is stored, the cron job that looks for unread       *)
(* messages ten minutes later, the times of the last notifications that keep  *)
(* the two from repeating each other, and the registration of push tokens.    *)
(* For one person: nothing here relates two people but a batch of pushes that *)
(* fails for all that are in it, and a pass of the cron job that ends early.   *)
EXTENDS Integers, Sequences

CONSTANTS NotTokens,  \* push tokens of the person's devices
          NotWorkers, \* processes of the chat service
          NotTen, NotSlack, NotStale, \* 10 minutes, 5 seconds and 8 days, in ticks
          NotDaily,   \* the drifts that can be chosen, in ticks; -1 is `Never`
          NotEnd,     \* last tick of the clock (bound)
          NotMsgs,    \* messages 1..n in the order they are stored (bound)
          NotMaxActs, \* how often the person does something (bound)
          NotNone

ASSUME NotAssumption ==
  NotEnd \in Nat \ {0} /\ NotTen \in Nat /\ NotSlack \in Nat /\ NotMaxActs \in Nat

VARIABLES notNow,     \* the clock
          notOnline,  \* person.last_online_time
          notMsg,     \* unread messages of the inbox: [kind, time] or NotNone
          notPending, \* messages whose callback has not run
          notLast,    \* person.intro_seconds and chat_seconds
          notQueue,   \* kinds queued by upsert_last_notification
          notPushes,  \* messages of which the pushes that are queued tell
          notDrift,   \* intros_notification and chats_notification
          notChanged, \* they were changed within the last ten seconds
          notToken,   \* person.push_token
          notKnown,   \* tokens that some worker has cached or is about to cache
          notRegs,    \* registrations in the batch of each worker
          notCron,    \* the row the cron job is at, before or after sending
          notTold,    \* ghost: messages since which one of their kind was sent
          notDropped, \* ghost: messages of which a push was dropped or went to a
                      \* phone that is not the person's any more
          notRaced,   \* ghost: messages stored between its sending and recording
          notActs,    \* what the person has done (bound)
          notLost,    \* ghost: kinds whose last notification was not recorded
          notWants    \* ghost: the last registration, and what it met

peopleVars == <<notOnline, notMsg, notDrift, notChanged>>
pushVars == <<notPending, notPushes, notKnown, notTold, notDropped>>
timeVars == <<notLast, notQueue, notLost>>
tokenVars == <<notToken, notRegs, notWants>>
notVars == <<notNow, peopleVars, pushVars, timeVars, tokenVars, notCron, notRaced, notActs>>

Kinds == {"intro", "chat"}
Unread(k) == {m \in NotMsgs : notMsg[m] # NotNone /\ notMsg[m].kind = k}
NoRow == [stage |-> "none"]
CronRows ==
  [stage : {"read", "sent"}, has : SUBSET Kinds, known : SUBSET Kinds,
   newest : [Kinds -> 0 .. NotEnd], last : [Kinds -> 0 .. NotEnd + NotSlack],
   drift : [Kinds -> NotDaily], token : NotTokens \cup {NotNone}]

NotTypeOK ==
  /\ notNow \in 0 .. NotEnd /\ notOnline \in 0 .. NotEnd /\ notChanged \in BOOLEAN
  /\ notMsg \in [NotMsgs -> [kind : Kinds, time : 0 .. NotEnd] \cup {NotNone}]
  /\ notLast \in [Kinds -> 0 .. NotEnd + NotSlack] /\ notQueue \subseteq Kinds
  /\ notDrift \in [Kinds -> NotDaily] /\ notToken \in NotTokens \cup {NotNone}
  /\ notRegs \in [NotWorkers -> Seq(NotTokens \cup {NotNone})]
  /\ notCron \in CronRows \cup {NoRow}
  /\ notWants \in [token : NotTokens \cup {NotNone}, lost : BOOLEAN, crossed : BOOLEAN,
                   crowded : BOOLEAN]
  /\ notPending \cup notPushes \cup notTold \cup notDropped \cup notRaced \subseteq NotMsgs
  /\ notKnown \subseteq NotTokens /\ notLost \subseteq Kinds
  /\ notActs \in 0 .. NotMaxActs

NotInit ==
  /\ notNow = 1 /\ notOnline = 0 /\ notMsg = [m \in NotMsgs |-> NotNone]
  /\ notPending = {} /\ notLast = [k \in Kinds |-> 0] /\ notQueue = {} /\ notPushes = {}
  /\ notDrift \in [Kinds -> NotDaily] /\ notChanged = FALSE
  /\ notToken = NotNone /\ notKnown = {} /\ notRegs = [w \in NotWorkers |-> << >>]
  /\ notCron = NoRow /\ notTold = {} /\ notDropped = {}
  /\ notRaced = {} /\ notLost = {} /\ notActs = 0
  /\ notWants = [token |-> NotNone, lost |-> FALSE, crossed |-> FALSE, crowded |-> FALSE]

Act == notActs < NotMaxActs /\ notActs' = notActs + 1

-----------------------------------------------------------------------------
(* The chat worker.                                                           *)

\* A message becomes part of the inbox.
Arrive(m, k) ==
  /\ notMsg[m] = NotNone /\ m \notin notTold
  /\ \A n \in NotMsgs : n < m => notMsg[n] # NotNone \/ n \in notTold
  /\ notMsg' = [notMsg EXCEPT ![m] = [kind |-> k, time |-> notNow]]
  /\ notPending' = notPending \cup {m}
  /\ notRaced' = IF \/ k \in notQueue
                    \/ notCron.stage = "sent" /\ k \in notCron.has
                    \/ notNow <= notLast[k]
                 THEN notRaced \cup {m} ELSE notRaced
  /\ UNCHANGED <<notNow, notOnline, notDrift, notChanged, notPushes, notKnown, notTold,
                 notDropped, timeVars, tokenVars, notCron, notActs>>

\* fetch_push_token on its way: every worker caches what it reads for two minutes,
\* and the same person may be looked up more than once at a time.
LookUpToken ==
  /\ notPending # {} /\ notToken # NotNone /\ notKnown' = notKnown \cup {notToken}
  /\ UNCHANGED <<notNow, peopleVars, notPending, notPushes, notTold, notDropped, timeVars,
                 tokenVars, notCron, notRaced, notActs>>

TokenExpires(token) ==
  /\ notKnown' = notKnown \ {token}
  /\ UNCHANGED <<notNow, peopleVars, notPending, notPushes, notTold, notDropped, timeVars,
                 tokenVars, notCron, notRaced, notActs>>

\* A push of what is unread by then, to a phone that is perhaps not the person's
\* any more.
Enqueue(ms, token) ==
  IF token = notToken THEN notPushes' = notPushes \cup ms /\ notDropped' = notDropped
  ELSE notPushes' = notPushes /\ notDropped' = notDropped \cup ms

\* The callback: a push if the person wants to be told at once (which is read with
\* a cache of ten seconds) and the worker knows a token; its time is queued for the
\* next batch.  Or none, because of either or of an exception.
NotifyAtOnce(m) ==
  LET k == notMsg[m].kind IN
  /\ m \in notPending /\ notPending' = notPending \ {m}
  /\ \/ /\ notMsg[m] # NotNone /\ (notDrift[k] = 0 \/ notChanged)
        /\ \E token \in notKnown : Enqueue(Unread(k), token)
        /\ notQueue' = notQueue \cup {k}
     \/ UNCHANGED <<notPushes, notDropped, notQueue>>
  /\ UNCHANGED <<notNow, peopleVars, notKnown, notTold, notLast, notLost, tokenVars, notCron,
                 notRaced, notActs>>

\* process_notification_batch, of one process: nothing is retried if the post fails.
FlushPushes ==
  \E batch \in (SUBSET notPushes) \ {{}} :
    /\ notPushes' = notPushes \ batch
    /\ \/ notTold' = notTold \cup batch /\ notDropped' = notDropped
       \/ notDropped' = notDropped \cup batch /\ notTold' = notTold
    /\ UNCHANGED <<notNow, peopleVars, notPending, notKnown, timeVars, tokenVars, notCron,
                   notRaced, notActs>>

\* upsert_last_notification: a transaction for each kind, intros first.  If a
\* statement fails the batch ends; if only a COMMIT does, api_tx swallows it and the
\* other kind is recorded all the same.  A kind that two workers have queued counts
\* once: their batches come within the same tick.
Recorded(ks) == [k \in Kinds |-> IF k \in ks THEN notNow + NotSlack ELSE notLast[k]]

FlushTimes ==
  \E batch \in (SUBSET notQueue) \ {{}} : \E done \in SUBSET batch :
    /\ notQueue' = notQueue \ batch
    /\ notLast' = Recorded(done) /\ notLost' = (notLost \ done) \cup (batch \ done)
    /\ UNCHANGED <<notNow, peopleVars, pushVars, tokenVars, notCron, notRaced, notActs>>

\* maybe_register: signing in sends a token, signing out an empty one, each to the
\* worker of its connection.
Register(w, token) ==
  /\ Act /\ notRegs' = [notRegs EXCEPT ![w] = Append(@, token)]
  /\ notWants' = [token |-> token, lost |-> notWants.lost,
                  crossed |-> \E v \in NotWorkers \ {w} : notRegs[v] # << >>,
                  crowded |-> notRegs[w] # << >>]
  /\ UNCHANGED <<notNow, peopleVars, pushVars, timeVars, notToken, notCron, notRaced>>

\* A worker's batch: all tokens are set, in the order of a set, in one
\* transaction, then the empty ones are deleted in another.
FlushTokens(w) ==
  LET regs == {notRegs[w][i] : i \in 1 .. Len(notRegs[w])}
      set == regs \ {NotNone}
      afterSet == IF set = {} THEN {notToken} ELSE set
  IN /\ notRegs[w] # << >> /\ notRegs' = [notRegs EXCEPT ![w] = << >>]
     /\ \/ /\ notToken' \in IF NotNone \in regs THEN {NotNone} ELSE afterSet
           /\ notWants' = [notWants EXCEPT !.lost = FALSE]
        \/ /\ notToken' \in afterSet \cup {notToken}
           /\ notWants' = [notWants EXCEPT !.lost = TRUE]
     /\ UNCHANGED <<notNow, peopleVars, pushVars, timeVars, notCron, notRaced, notActs>>

-----------------------------------------------------------------------------
(* The person.                                                                *)

\* Coming online, and reading what there is or leaving it unread.
ComeOnline(read) ==
  /\ Act /\ notOnline' = notNow
  /\ notMsg' = [m \in NotMsgs |-> IF m \in read THEN NotNone ELSE notMsg[m]]
  /\ notPending' = notPending \ read /\ notTold' = notTold \cup read
  /\ notPushes' = notPushes \ read
  /\ UNCHANGED <<notNow, notDrift, notChanged, notKnown, notDropped, timeVars, tokenVars,
                 notCron, notRaced>>

\* get_update_notifications, by the link of an e-mail, or the settings.
SetFrequency(ks, d) ==
  /\ Act /\ notDrift' = [k \in Kinds |-> IF k \in ks THEN d ELSE notDrift[k]]
  /\ notChanged' = TRUE
  /\ UNCHANGED <<notNow, notOnline, notMsg, pushVars, timeVars, tokenVars, notCron, notRaced>>

\* Batches, callbacks and the ten seconds take less than a tick.
Tick ==
  /\ notNow < NotEnd /\ notNow' = notNow + 1 /\ notChanged' = FALSE
  /\ notPending = {} /\ notQueue = {} /\ notPushes = {}
  /\ \A w \in NotWorkers : notRegs[w] = << >>
  /\ UNCHANGED <<notOnline, notMsg, notDrift, pushVars, timeVars, tokenVars, notCron, notRaced,
                 notActs>>

-----------------------------------------------------------------------------
(* The cron job.                                                              *)

Newest(k) == IF Unread(k) = {} THEN 0
             ELSE CHOOSE t \in {notMsg[m].time : m \in Unread(k)} :
                    \A m \in Unread(k) : notMsg[m].time <= t

\* Mutant of Has: the time of the last notification is not looked at.
HasAgain(k) ==
  /\ Unread(k) # {}
  /\ Newest(k) < notNow - NotTen
  /\ notOnline < Newest(k) /\ notOnline < notNow - NotTen

\* Q_UNREAD_INBOX: has_intro and has_chat.
Has(k) ==
  /\ Unread(k) # {}
  /\ Newest(k) > notLast[k]
  /\ Newest(k) < notNow - NotTen
  /\ notOnline < Newest(k) /\ notOnline < notNow - NotTen

ReadInbox ==
  /\ notCron = NoRow /\ \E k \in Kinds : Has(k)
  /\ notCron' = [stage |-> "read", has |-> {k \in Kinds : Has(k)},
                 known |-> {k \in Kinds \ notLost : \A m \in Unread(k) :
                              notMsg[m].time = Newest(k) => m \in notTold},
                 newest |-> [k \in Kinds |-> Newest(k)], last |-> notLast, drift |-> notDrift,
                 token |-> IF notOnline > notNow - NotStale THEN notToken ELSE NotNone]
  /\ UNCHANGED <<notNow, peopleVars, pushVars, timeVars, tokenVars, notRaced, notActs>>

\* do_send_notification.
DoSend(row) == \E k \in row.has :
  row.drift[k] >= 0 /\ row.last[k] + row.drift[k] < row.newest[k]

\* maybe_send_notification, first half: a push, or an e-mail if there was no
\* token when the inbox was read.  It says that there are unread messages of the
\* kinds the row has.
Covers(row) == UNION {Unread(k) : k \in row.has}

SendNotification ==
  /\ notCron.stage = "read" /\ DoSend(notCron)
  /\ notCron' = [notCron EXCEPT !.stage = "sent"]
  /\ IF notCron.token = NotNone
     THEN notTold' = notTold \cup Covers(notCron) /\ UNCHANGED <<notPushes, notDropped>>
     ELSE Enqueue(Covers(notCron), notCron.token) /\ notTold' = notTold
  /\ UNCHANGED <<notNow, peopleVars, notPending, notKnown, timeVars, tokenVars, notRaced,
                 notActs>>

NothingToSend ==
  /\ notCron.stage = "read" /\ ~DoSend(notCron) /\ notCron' = NoRow
  /\ UNCHANGED <<notNow, peopleVars, pushVars, timeVars, tokenVars, notRaced, notActs>>

\* Mutant of RecordTimes: both kinds, whichever the row has.
RecordBoth ==
  /\ notCron.stage = "sent" /\ notCron' = NoRow
  /\ notLast' = Recorded(Kinds) /\ notLost' = {}
  /\ UNCHANGED <<notNow, peopleVars, pushVars, notQueue, tokenVars, notRaced, notActs>>

\* update_last_notification_time: both kinds of the row, sendable or not.
RecordTimes ==
  /\ notCron.stage = "sent" /\ notCron' = NoRow
  /\ notLast' = Recorded(notCron.has) /\ notLost' = notLost \ notCron.has
  /\ UNCHANGED <<notNow, peopleVars, pushVars, notQueue, tokenVars, notRaced, notActs>>

\* An exception for this row or for one before it, or the death of the process.
CronFails ==
  /\ notCron # NoRow /\ notCron' = NoRow
  /\ notLost' = IF notCron.stage = "sent" THEN notLost \cup notCron.has ELSE notLost
  /\ UNCHANGED <<notNow, peopleVars, pushVars, notLast, notQueue, tokenVars, notRaced, notActs>>

NotNext ==
  \/ \E m \in NotMsgs : NotifyAtOnce(m) \/ \E k \in Kinds : Arrive(m, k)
  \/ LookUpToken \/ FlushPushes \/ FlushTimes \/ Tick
  \/ \E token \in notKnown : TokenExpires(token)
  \/ \E w \in NotWorkers :
        FlushTokens(w) \/ \E token \in NotTokens \cup {NotNone} : Register(w, token)
  \/ \E read \in {{}, {m \in NotMsgs : notMsg[m] # NotNone}} : ComeOnline(read)
  \/ \E ks \in (SUBSET Kinds) \ {{}}, d \in NotDaily : SetFrequency(ks, d)
  \/ ReadInbox \/ SendNotification \/ NothingToSend \/ RecordTimes \/ CronFails

NotSpec == NotInit /\ [][NotNext]_notVars

-----------------------------------------------------------------------------
(* Properties.                                                                *)

\* No unread message counts as notified when no notification of its kind was
\* sent since it came, but for one that was stored between the sending of one
\* and the recording of its time, or in the five seconds that are added to it, and
\* for those of which a push still waits for its batch, was dropped with it, or
\* went to a phone that had been the person's when its token was read.
NothingIsMissed == \A m \in NotMsgs :
  notMsg[m] # NotNone /\ notMsg[m].time <= notLast[notMsg[m].kind] =>
     m \in notTold \cup notPushes \cup notDropped \cup notRaced

\* The two notifiers do not repeat each other, nor themselves: what the cron
\* job sends names only kinds of which the newest message was one that nobody
\* had told the person of when the job looked, unless the time of the kind's
\* last notification was lost.  (`known', part of the row, is a ghost.)
NoRepeat == [][SendNotification => notCron.has \cap notCron.known = {}]_notVars

\* The last registration holds: a person who signed out last has no token, and one
\* who signed in last has that of the phone, although a batch forgets the order of
\* what is in it and workers do not wait for each other, unless the batch failed,
\* or the registration found an earlier one waiting, for a sign-in in its own
\* batch or in that of another worker, for a sign-out in the latter.  (A worker
\* that had cached the token goes on pushing to it for two minutes.)
RegistrationsStick ==
  (\A w \in NotWorkers : notRegs[w] = << >>) /\ ~notWants.lost /\ ~notWants.crossed =>
     /\ notWants.token = NotNone => notToken = NotNone
     /\ notWants.token # NotNone /\ ~notWants.crowded => notToken = notWants.token

\* No message goes unnoticed for a notification that did not cover it, and tokens
\* are those of the last registration, with the exceptions that are named.
NotificationsHold == NothingIsMissed /\ RegistrationsStick
=============================================================================
