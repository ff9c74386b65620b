# A TLA+ model of the Duolicious backend

This directory models the stateful core of the Duolicious backend: the queues,
transactions, caches and background loops whose interleavings decide whether a
message is kept, a photo survives, a verification means what it says and a club
counts its members. TLC checks small instances; TLAPS proves the most important
invariants for every value of the constants.

    tlc -config Batcher_service.cfg MCBatcher     # any run of PROJECT.json
    tlapm BatcherProofs.tla                       # any module *Proofs

## 1. The system

| process | concurrency | state |
|---|---|---|
| **api** (Flask under gunicorn, 4 workers) | one thread at a time per worker and connection (`database/__init__.py`: a global connection behind a lock) | PostgreSQL; puts objects into the object store |
| **chat** (FastAPI under uvicorn, 4 workers) | an asyncio loop per worker, plus one daemon thread per `Batcher`; all share the worker's connection | batcher queues, `AsyncLruCache`s, Redis (presence, pub/sub), PostgreSQL |
| **cron** (one asyncio process) | about ten endless loops, `await` between steps, one connection | local variables of a pass; PostgreSQL; the object store |

All three talk only through PostgreSQL (REPEATABLE READ unless a transaction asks
for `read committed`), Redis and the object store. No transaction spans two of
them, and every process may die between two steps.

### Components

The state each component keeps, what it does, what makes it hard, and what makes
it correct:

* **Batcher** (`batcher/__init__.py`): a queue and a thread that collects items
  until a maximum, or a deadline and a minimum; then `process_fn`, then the items'
  callbacks. Hard: exceptions at any of these points, producers in between,
  `get()` without a timeout. Correct: nothing lost, doubled or reordered without
  retry, nothing lost with it; callbacks only after processing.
* **Message storage** (`service/chat/messagestorage`): the archive, both sides'
  inbox rows and `messaged`, written per batch; `displayed` markers in a batcher of
  their own. Hard: row locks of other workers taken in other orders, deletion of
  accounts, failing statements and commits, death of the worker. Correct: sides
  agree, unread counts are the peer's, rows have owners, nobody hears of a message
  that is not stored.
* **Chat pipeline** (`service/chat/__init__.py`): size, skip, intro uniqueness,
  rate limit, rudeness, spam; then storage. Hard: everything is read and cached
  before it is used.
* **Result cache** (`async_lru_cache`): an LRU dictionary with timers around an
  awaited function. Hard: overlapping misses, timers that outlive their entry.
* **Photos and their store** (`service/person`, `service/cron/photocleaner`,
  `cronutil`): rows of `onboardee_photo`, `photo` and `verification_job`, objects
  named by uuid, `undeleted_photo` as the cleaner's list. Hard: rows and objects
  change in separate steps, cascades, retries of half-done deletions. Correct: a
  used picture is never deleted, an unused one is recorded.
* **Verification** (`verificationjobrunner`, `service/person`): selfies, jobs, marks
  on photos, flags and a level on the person. Hard: a result comes up to 45 seconds
  per job after the claim was read, and everything may have changed. Correct: marks
  and levels rest on checks that took place.
* **Onboarding, sign-in and sessions** (`service/person`, `service/api/decorators`,
  `autodeactivate2`, bans): one-time passwords, a row per session, an onboardee per
  address, an account per address. Hard: the session is read in one transaction
  and used in another; two devices, two spellings of one mailbox, a cron job that
  puts accounts to sleep. Correct: a session acts for its own mailbox only, an
  address has one account, a sleeping account has no session, a ban lasts.
* **Clubs** (`Q_JOIN_CLUB` ... in `service/person/sql`, triggers in `init-api.sql`):
  memberships, a counter per club, a copy of `activated` per membership, quotas by
  subscription. Hard: seven kinds of transactions, each with its own snapshot and
  its own conditions.
* **Questions and answers** (`service/question`, `Q_UPDATE_ANSWER`): running sums and
  counts that every answer updates and nothing recomputes. Hard: two devices, changed
  and deleted answers. Correct: the sums are those of the stored answers.
* **Search, feed and lists** (`service/search`, `Q_INBOX_INFO`, `Q_VISITORS`,
  `Q_SELECT_PROSPECT_PROFILE`): six queries that repeat who may see whom, each in its
  own words, a cache of the last search, and the time up to which the visitors tab was
  looked at. Hard: keeping them consistent, the time between filling the cache and
  reading it, searches that overlap, visits that commit out of order. Correct: what is
  listed opens, a visit stays new until it was shown, an invisible one is not shown.
* **Profile** (`patch_profile_info`, `delete_profile_info`): photos, recording, text,
  the event that the feed tells of them, a flag a trigger derives, settings that
  need gold. Hard: an administrator's deletion in READ COMMITTED beside an upload or
  another deletion.
* **Database access** (`database`): one connection per process, a lock, a health
  check. Hard: failures of SET TRANSACTION and COMMIT.
* **Presence** (`service/chat/online`, `process_websocket_messages`): a Redis key and
  a channel per user, a task per session that writes both. Hard: several sessions
  of one user, GET and SUBSCRIBE as separate steps, tasks that fail or are
  cancelled while Redis has their command. Correct: who watches sees the last
  status, who is there is shown online, who has gone is not for ever.
* **Push tokens and notifications** (`send_notification` of the chat service,
  `upsertlastnotification`, `mayberegister`, `service/cron/notifications`): a push at
  once or a mail or push from the cron job, and the times that keep the two from
  repeating each other. Hard: times, pushes and tokens in batches of each
  worker, cached tokens, sending before recording, failures for one person in the middle
  of a pass. Correct: nobody is told twice of the same message, no message counts as told
  that was not, the token is that of the last registration.
* **Recordings** (`duoaudio`, `audiocleaner`): profile recordings and those shared by
  the two sides of a conversation.
* **Skips, reports, moderation** (`antiabuse/sql`, `antiabuse/lodgereport`,
  `profilereporter`, `nsfwphotorunner`, bans, deletion of photos).
* **Text filters**, **validation**, **mail**, **locations**: data rather than protocols.

`PROJECT.json` lists each with its status, and under `hazards` the places where
a test would hardly catch a mistake.

## 2. Modules

| module | models | composes |
|---|---|---|
| `JobPipe` | what a batcher without retry promises: a FIFO pipe with bounded hand-offs | - |
| `Batcher` | `batcher/__init__.py` | refines `JobPipe` |
| `MessageStore` | chat workers, their two batchers' batches, row locks, callbacks, deletions, crashes | uses the batcher's promise |
| `AsyncLruCache` | `async_lru_cache/__init__.py` | - |
| `PhotoStore` | every row that names a picture, the puts, the garbage cron, the photo cleaner | - |
| `Verification` | selfies, jobs, runner, profile edits, scores, garbage cron | - |
| `Accounts` | one-time passwords, sessions, onboarding, bans, deletion, `autodeactivate2` | - |
| `Clubs` | memberships, counts, copies, quotas, and the transactions on them | - |
| `Answers` | loading of questions, answers, sums, counts, comparisons | - |
| `BestDistance` | the binary search for a new member's distance preference | - |
| `Visibility` | search and its cache, feed, profiles, inbox, visitors; skips, messages, visits, flags | - |
| `Visits` | visits as transactions, the visitors tab, the time up to which it was looked at | - |
| `Profile` | photos, recording, text, last event, derived flag, gold settings | - |
| `ChatPipeline` | a message from `process_text` to its callback: checks, caches, batches | what it stores is `MessageStore`'s |
| `Notifications` | both notifiers, their times, the batches of pushes, push tokens and who caches them | - |
| `Presence` | sessions, their update tasks, the Redis keys, subscriptions | - |
| `BatcherProofs` | theorems of `Batcher`, its steps as steps of `JobPipe` | extends `Batcher` |
| `MessageStoreProofs` | theorems of `MessageStore` | extends `MessageStore` |
| `ChatProofs` | theorems of `ChatPipeline`, `AsyncLruCache` and their composition | extends `MCChat`, `MessageStoreProofs` |
| `PhotosProofs` | theorems of `PhotoStore`, `Verification` and their composition | extends `MCPhotos` |
| `PresenceProofs` | theorems of `Presence` and its composition with `MessageStore` | extends `MCChatLive`, `MessageStoreProofs` |
| `AccountsProofs` | theorems of `Accounts` | extends `Accounts` |
| `ServicesProofs` | theorems of `Visibility`, `Visits`, `Profile`, `Notifications` and their composition | extends `MCServices` |
| `MembersProofs` | theorems of `Clubs`, `Answers`, `BestDistance` and their composition | extends `MCMembers`, `AccountsProofs` |
| `MCChat` | for TLC: `ChatPipeline`, `MessageStore`, `AsyncLruCache` | one of them per behaviour |
| `MCChatLive` | `MessageStore`, `Presence`, with their fairness | the same |
| `MCPhotos` | `PhotoStore`, `Verification`, with their fairness | the same |
| `MCMembers` | `Accounts`, `Clubs`, `Answers`, `BestDistance` | the same |
| `MCServices` | `Visibility`, `Visits`, `Profile`, `Notifications` | the same |
| other `MC*` | constants' values and symmetry for one module | |

The five modules of the last rows but one do not compose components that interact:
they let one TLC run answer for several. Their variable `part` is chosen in the
initial state; a step is one of that part and leaves the others' variables alone,
so the reachable states are the disjoint union of the parts' own, and a property
of a part is checked as if it ran alone. Where parts need fairness, a condition of
one and a condition of another are joined in one WF of their disjunction: in every
behaviour only one of the two can be enabled.

### Batcher and JobPipe

One action per step of the daemon thread between which another thread can act:
evaluate the loop's test (`StartBatch`, `Exit`), the filling loop's test
(`FinishFilling`, `CallGet`), `get()` (`GetItem`, `GetTimesOut`), `process_fn`
(`ProcessOk`, `ProcessRaises`), one callback (`RunCallback`), one `put()` of the
retry loop (`Reput`). The clock is one bit: the current batch's deadline has
passed. `enq`, `handed`, `done`, `called` are histories. A batch with
`min_batch_size=0` may be empty and is then not processed.

### MessageStore

A worker's connection runs one transaction at a time: a *store* batch or a *mark*
batch, begun with any prefix of the queue (the batcher's timing is left open). The
statements lock the inbox rows one by one (`LockRow`), so that two workers can
deadlock; `StatementFails` stands for the deadlock's victim, the statement
timeout and a lost connection and is possible at any statement. `Commit` applies
the whole batch in order with `Upsert`, the two rows that
`Q_UPSERT_CONVERSATION` writes. Both accounts of each message must exist when the
archive rows are inserted: `Q_INSERT_MESSAGE` gets a NULL id otherwise and the
batch is dropped (`gone`). So is one with a message to oneself, which `process_text` lets
through: both halves of `Q_UPSERT_CONVERSATION` would write the same row. `Notify`, `AudioFails` and `NotifyFails` are the three ends of
`store_audio_and_notify`: the batcher prints an exception in it, and then the message is
stored and its sender never hears of it. With `CommitMayFail` the exception of `commit()` is
swallowed by `api_tx.__exit__`. A crash loses queues, callbacks and the transaction.

### ChatPipeline

`chPc` says how far `process_text` is with each message; a connection has one message in
the checks at a time, and other connections go on between any two steps. A cached query
is a miss, the database's answer, and the storing in the worker's cache (`MissSkip`,
`ReadSkip`, `CheckSkipped`; `MissRate`, `ReadRate`, `CheckRate`), each a step: another
connection of the same pair may store an older answer over a newer one, and skips and
batches come in between. `CheckIntro` is one step, since `async_lru_cache` keeps only `not an
intro`, which stays true; so is `CheckUnique`, as the hash that it queues is in the table
only after a later flush, of any part of the queue. The caches of five seconds have an
action each for expiry (`SkipExpires`, `RateExpires`). Storing and hashing are batches of a
worker (`StoreBatch`, which may lose the whole batch, and `FlushHashes`); what becomes of
a recording is the callback's business in `MessageStore`. How long, rude or spam-like a text
is, is a constant of the message. `SkipIsSettled` says from when on a
skip binds: neither the cache denies it nor an answer on its way there. `chRaced`
names the intros whose count missed others that had been let through, `chDoomed` the
messages that came in after a skip was settled.

### AsyncLruCache

The event loop switches only where `func` is awaited: `Hit` and `Store` are
single actions, a miss lasts from `Miss` over `ReadSource` (the moment `func`
reads the database) to `Store` or `ReturnUncached`. Time is a tick counter; timers
are kept with the call that created them, and pop whatever is under their key.

### PhotoStore

A picture is its uuid. `rows` holds the rows of three tables that name pictures;
a handler commits the row first (`StartPut` with `Replace`) and then puts up to
four objects, of which only "one or more" matters (`PutObject`, `PutEnds`). The
cleaner reads a list, deletes chunk by chunk, and marks a chunk only when the
store reported no error. `lost` is a history of the uuids that no row names and none
will: a second sign-in before onboarding is finished drops the rows, an image sent again
as a selfie gets none, and with `PutUnsaved` the COMMIT of the row fails, `api_tx` swallows
the exception and the handler puts the objects all the same.

### Verification

Posting a selfie is split into its snapshot (`BeginSelfie`) and its commit, so
that two devices overlap; commits that write rows changed meanwhile abort
(`SelfieConflicts`). The runner reads all queued jobs (`ReadQueue`), marks one as
running (`BeginVerify`), and later writes a result for the *claimed* uuids
(`JobSucceeds`, `JobFails`), while `AddPhoto`, `DeletePhoto`, `ChangeGender`,
`ScorePhoto` and `DeleteGarbage` go on. Of the gender only the flag `verified_gender`
is kept, not the value. `Level` is evaluated in the snapshot of the
statement that the code evaluates it in, which is why `DeleteGarbage` sees the
photos that it deletes. `matched` is a history of the pictures that a check found.

### Clubs

A REPEATABLE READ transaction is a record of what it will write, computed from
the tables when it begins; `Commit` applies it and aborts every transaction in
flight that writes one of the same rows (`Conflict`), `Abort` is every other
failure. The cron job's transaction is of another kind: it puts any set of people to sleep in one
statement (`BeginPass`, `CommitPass`), and `UPDATE club ... FROM` writes a club's row
once, however many of its members are among them (`Overlooked`). Histories name the ways
in which the code is known to lose step: `drift` (how far a club's count has moved for
somebody deactivated, for a membership that a change of `activated` did not see, or
for members that fell asleep in the same pass), `skewed` (memberships whose
copy was written across such a change and is still stale) and `raced` (people
above their quota because two of their transactions on it ran at once).
A transfer of a subscription is a sequence of updates of single persons.

### Presence

A connection is `off`, `live`, `closing` (the task is cancelled, the last update is
still to be made), `leaving` or `closed`; its task sends, sleeps, or has failed.
An update that is being sent when it is cancelled may reach Redis all the same
(`LateUpdate`). Redis executes one command or MULTI block at a time, so `Publish`
writes the key and reaches every subscriber at once; `heard` is what a client will
have heard last, because its events come in order over one connection.
`Subscribe` is the reply to GET, `Execute` the arrival of SUBSCRIBE, `Answer` the
answer to the client, in the order in which they may happen. `overtaken` remembers
subscriptions with an event between those steps, `ghosts` users whom a failure
left `online`. The twelve hours of a key pass only when no session updates it.

### Accounts

`Request` is a handler whose authentication and transaction run without another in
between; `Hold` and `Resume` split one request at a time (`accHeld`) so that sessions,
accounts and bans change under it. `Q_INSERT_DUO_SESSION` may meet two rows of
`person` for one mailbox, of which `AccountOf` takes what its ORDER BY takes. `AdminBan`
is the whole request: ban rows, report, and the deletion of the account. Time is an order
of events only: codes, tokens and bans may expire at any moment (`OtpExpires`,
`TokenExpires`, `BanAges`).

### Answers

A statement reads its snapshot in `PostAnswer` or `DeleteAnswer` and writes in
`CommitAnswer`; every other one that has read the same person's row is then stale and
fails (`TxFails`). `Score` and `Moved` are `answer_score_vectors` and the sums of
`compute_personality_vectors`; percentages derived from them are left out.

### BestDistance

An iteration of the recursive query is an action (`Halve`). `NewPoints` are its rows:
the two closest to the target and their midpoint, which disappears when nobody
lives within it, because the row is one of NULLs. `Preference` is what `p4` stores.
Distances are whole 32nds of the 10000 km between which the search begins, which
is as fine as five halvings get. The search filters are the set of people who match.

### Visibility

A query is an operator on the tables: `Found` (search), `Card` (cached page), `InFeed`,
`ProfileOpens`, `ConversationOpens`, `InInbox`, `Visitors`, each with the conditions of
its own WHERE clause and not those of its neighbours, since the question is whether
they agree. `BeginSearch` reads, `EndSearch` fills the cache and answers,
`SearchTimesOut` leaves it as it was. Preferences are reduced to three relations:
the viewer wants the prospect, what else the filters say, and the prospect wants the
viewer. A search within a club takes the copy of `activated` in `person_club`
(`visCopies`) for the person's own, which may be stale after falling asleep or waking up
(module `Clubs`).

A search is one READ COMMITTED transaction of three steps: `BeginSearch` empties the cache,
`ReadProspects` reads in the snapshot of the insert, `EndSearch` commits. Its first statement
updates the rows of the searcher's sessions, so two searches overlap only if one has found
no such row: its session was signed out after the decorator had looked it up. `VisWays` are
the searches that one searcher may have open at once. Then what the
other has committed meanwhile stays beyond the first positions (`kept`). `visRaced` names
skips that were committed while the search ran that filled the cache.

### Visits

One member's visitors tab. A visit is a transaction whose time is that of its beginning
(`BeginVisit`, `CommitVisit`), so that rows come out of order; `GetVisitors` answers with
the list and the time of its latest row, which the client sends back
(`MarkVisitorsChecked`, `CheckedAt`), or it sends none (`MarkAllChecked`). `vstUnseen` stands
for the visitors who browse invisibly or hide, `vstLeftOut` for those whom the list's other
conditions leave out at the moment. `vstOpenly`, `vstShown` and `vstPassed` are histories
of visits, by their times.

### Profile

REPEATABLE READ transactions on one member's row exclude each other, so each is one
step, but for uploads and deletions, which hold the row between statement and commit:
the administrators' READ COMMITTED deletions can wait for either (`AdminWaits`, several at
once) and go on with what they had read (`AdminGoesOn`). The trigger counts the photos at the
statement (`LeavesPhoto`), still seeing those that another transaction is deleting and not
yet the one being uploaded. `proRaced` names a flag that a deletion which had waited set to
what was no longer true. `AskForGold` and `PatchSetting` are the
two transactions of a setting that needs gold.

### Notifications

One person, two kinds of messages. `NotifyAtOnce` is the callback in a chat worker: the
frequency it goes by is at most ten seconds old (`notChanged`), the token at most two
minutes (`notKnown`, filled by `LookUpToken`; the time is not counted, a token may be known
as long as it likes). Pushes, times and tokens go through batchers that do not retry:
`FlushPushes` delivers a batch or drops it, `FlushTimes` records any part of the kinds,
`FlushTokens` is the batch of one worker, in the order of a set, so that registrations on two
connections, or in one batch, may be carried out in another order than they were made.
`ReadInbox`, `SendNotification` or
`NothingToSend`, and `RecordTimes` are the cron job's pass over this person's row, which
`CronFails` may end anywhere. Histories name what was told of (`notTold`), what a dropped
push or one to a phone that was no longer the person's should have told (`notDropped`),
what came between the sending of a notification and the recording of its time
(`notRaced`), times that were not recorded (`notLost`), and what the last registration
met (`notWants`: its batch failed, an earlier one was waiting at another worker, or in
the same batch). Time is in ticks; ten minutes and five seconds are less than one. Mails
that are not sent to addresses of example.com, and pushes that an operator's file switches
off, are not distinguished from what arrives.

## 3. Runs

| run | question | instance |
|---|---|---|
| `batcher_service` | Is a batcher as the services configure it a FIFO pipe, with callbacks after processing and progress? | 3 items, batches of 1-2, 2 failures |
| `batcher_retry` | With retry and a minimum of 0: is anything lost, does `stop()` end the thread? | the same with callbacks of every kind |
| `chat` | Is a message checked, stored and reported as the rules say while accounts go, skips come and caches age? | 3 messages on 2 connections, two of one pair, of which one is only typing; 4 messages (one to herself), 2 workers, a recording, a marker; 3 calls of a cache of 2 |
| `chat_live` | Does every message settle, does presence tell the truth, and in the end? | 3 people, locks in both orders, a crash, failing commits and callbacks; 2 devices of one user, a watcher, 1 failure |
| `store_commit` | Is a message that is reported as delivered stored if COMMIT may fail? **violated** | 1 worker |
| `photos` | Are used pictures safe and unused ones cleaned up; do marks and levels rest on checks; do jobs end? | 1 email, 3 pictures, chunks of 2, every request; 2 positions, 2 selfies, an exception |
| `photo_signin` | Does the database know every stored picture? **violated** | second sign-in only |
| `verification_garbage` | Does the level `Photos` mean a verified photo? **violated** | 1 photo, found offensive |
| `members` | Do accounts, sessions, clubs, sums and preferences hold together? | 3 addresses of 2 mailboxes, 2 devices; 2 people, 2 clubs, 2 transactions at a time (the cron job's is one); 2 questions; 3 people around a new one |
| `accounts_ban` | Does a ban last a month from the day it is carried out? **violated** | 3 accounts |
| `best_distance` | Is the limit as close to the wanted number as possible? **violated** | 3 people, 2 wanted |
| `services` | Does a list lead on to what it shows; is a profile what others are told; who is notified of what? | 2 people, one with overlapping searches; 2 visitors, 3 visits; 2 positions, 3 photos; 2 messages, 2 workers, 4 ticks |

A property that is a conjunction of named parts (`InboxIsRight`, `MarksAreEarned`,
`AccountsHold` and the like) says one thing of one component. Every property of a
passing run is refuted by a mutant of the model, an operator next to the definition it
replaces, so none holds by construction.

*Why the bounds suffice.* Three items fill one batch and start another; two
failures let a retry fail again. Two workers and messages in both directions are
the least with which two batches lock the same rows in opposite orders; a third
person shares a batch with somebody who is deleted. Two equal introductions on
two connections with a limit of one are the least with which a count or a
hash can be missed. Three calls on three keys and two places give an eviction, and
an overlap on one key, while a call is computing. Three pictures give a replaced, a
current and an uploading one, and more than a chunk. Two selfies give a job that
replaces another one in the runner's hands (posted by two devices at once only in
`verification_garbage`). Two people and two connections give every pair of the club
transactions, and quotas 1 and 2 are reached by two clubs. Two addresses that normalise
to one and a third that does not are what bans and sessions can confuse; two ids
leave one for an account after the first was deleted. Two transactions at a time (`MaxOpen`) give
every pair, a worker's with the cron job's among them. Two people are enough for what a
query says of a viewer and a prospect, and the levels of privacy that matter are those above and below
ann's and bob's own; bot reports (`VisTrusted` is empty) and the wish to see people one has
skipped are left to the theorem. Three visits are a first one, one that overtakes it and one that is made after a list. Two
workers and two acts are a sign-in or a sign-out at each, or two at one; the two kinds begin
with the frequencies that `init-api.sql` gives a new person, and may be changed to any other. Three people around a new member make four different counts. Two devices are the least
with which one leaves while the other stays; the watcher is a third session.
Counters (failures, crashes, exceptions, drift, posts, acts, ticks) are bounded by
constants named in each module.

*Symmetry.* `members` permutes the two sessions (with the connections of clubs and
answers named like them) and the two spellings of one mailbox, `services` the two searches of
ann, the two visitors and the two workers, which share two names and are never compared
with each other; both check invariants, and `services` one action property, which is
symmetric as well. Runs with liveness use none; instead one of several interchangeable
values stands for all (`u1`, `s1`, `ann`), which is stated where it is done.
`EveryMessageSettles` says of all messages at once that the last unsettled one settles: an
end is for good and the messages are finitely many, so that is the same as each settling.

*Deadlock.* TLC's deadlock test is off where the finite sets of items, messages,
calls, pictures, selfies, connections or iterations are used up in the end; that
waiting ends is what the liveness properties say.

*Fairness.* A batcher's thread is scheduled and its deadline passes
(`WF(Thread)`, `WF(DeadlinePasses)`); producers and `stop()` are under no
obligation. Each chat worker's batches and callbacks are scheduled, and a waiting
statement does not wait for ever, because the server detects deadlocks and
`statement_timeout` is set. The job runner and the cleaner poll for ever in
`while True` loops under `print_stacktrace`. For Presence, the
event loops of ann's devices run, Redis reads their late updates and her key expires;
nobody has to connect or to leave, and nothing is asked of the watcher. The cleaner's
progress needs strong fairness towards the object store: it does not refuse the
same picture each time.

## 4. What disagrees with the repository's own words

* `store_commit`: `xmpp.sh` takes `<duo_message_delivered>` for a stored message; a
  failing COMMIT is swallowed (`database/__init__.py:88`) and reported as delivered.
* `verification_garbage`: `profile-info.sh:393-398` expects level 2 after the last
  verified photo has gone; the garbage cron computes the level in the snapshot
  in which the photo is still there.
* `photo_signin`: `service/person/__init__.py:511-517` says that the database
  knows every object; a second sign-in forgets the photos of the first.

* `accounts_ban`: the mail to the moderators promises "Ban ACCUSED user for one month"
  (`lodgereport/__init__.py:143`); a second ban does not renew the row of the first.
* `best_distance`: the comment in the query (`person/sql:516-517`) promises as close as possible to
  2000 users; the query returns the middle one of its last three rows.

Met while modelling, in the model and without a run of their own: a success marks
a gender that was changed during the check as verified; the score of a replaced
photo is inherited by the new one; level `Photos` may be granted for a photo that
was replaced during the check; a selfie sent again is put though no row names
it, and so is any image whose COMMIT failed unnoticed; objects that are put after the cleaner has done their uuid stay; a club's
count drifts, and a copy of `activated` goes stale, when somebody joins while
being (de)activated; a club counts only one member less when the cron job puts
several to sleep at once, and a search within it may show somebody asleep; the quota can be overshot by two joins at once; clubs are
counted down on leaving although the deactivated member had been subtracted; the
search's flag may say that there is a photo, or none, after an administrator's deletion
waited for an upload or another deletion; a setting that needs gold can be switched on just after gold
ended; an intro whose batch was lost is refused as a copy of itself; a message to oneself takes
its whole batch with it; a sender never hears of a stored message when its callback
raises; a skip does not bind while an older answer is on its way into the cache; a
visit that commits late, or is left out of a list with later ones, is never marked as new; a
person is notified twice when the time of a notification was not recorded, and never
when its push was dropped; a phone that was signed out is pushed to for up to two minutes, and
keeps the token if the sign-in is flushed by another worker after it.

## 5. Theorems

Every invariant and every action property that a passing run checks is also a
theorem: the run shows it on the instance of section 3, the theorem for every
value of the constants that satisfies the assumptions below.

| theorem | for every ... |
|---|---|
| `BatcherProofs!TypeCorrect` | items, bounds, kinds of callbacks, failures: types, and no batch above the maximum |
| `BatcherProofs!CallbacksFollowProcessing` | callbacks run only for items of a batch that `process_fn` returned from |
| `BatcherProofs!FifoCorrect` | without retry, handed-over items, batch in hand and queue are together the sequence of `enqueue` calls |
| `BatcherProofs!RetryKeepsEverything` | with retry, an item that was put is queued, in the thread's hands, or processed with its callback started |
| `BatcherProofs!PipeImplemented` | without retry, the batcher implements `JobPipe` |
| `MessageStoreProofs!StoreTypeCorrect` | workers, messages, markers: types |
| `MessageStoreProofs!InboxStaysRight` | both sides of a conversation agree, rows have owners, unread messages are the peer's, the box of introductions holds what is unanswered |
| `MessageStoreProofs!ArchiveStays` | the archive shrinks only with an account, and a chat stays a chat |
| `MessageStoreProofs!Delivery` | unless COMMIT fails, what is reported as delivered is stored |
| `ChatProofs!ChTypeCorrect` | messages, connections, limits: types |
| `ChatProofs!IntroductionsKeepRules` | the daily limit holds but for intros whose count was late, and only copies are refused as copies |
| `ChatProofs!BlockedReachNobody` | nobody who was skipped, and of whom neither a cache nor a lookup on its way there says otherwise, is heard |
| `ChatProofs!LruTypeCorrect` | keys, sizes, calls: types, and a key is in the cache once |
| `ChatProofs!CacheStaysSound` | the size is kept, every entry has its timer armed, and a hit was true a bounded time ago |
| `ChatProofs!ChatTypeCorrect` | `MCChat` as a whole: types |
| `PhotosProofs!PicturesHaveOneRow` | emails, positions, pictures: no two rows name one picture |
| `PhotosProofs!CleanerSparesUsedPhotos` | the cleaner never holds a used picture |
| `PhotosProofs!EveryLossIsKnown` | every stored object is known, or lost in one of the four named ways |
| `PhotosProofs!VerTypeCorrect` | people, photos, jobs: types |
| `PhotosProofs!MarksStayEarned` | a verified photo was compared with its owner's selfie and gives the level; levels stand for verified facts |
| `PhotosProofs!OnlySuccessRaises` | a level rises only with the success of a job of the same person |
| `PhotosProofs!PicTypeCorrect` | `MCPhotos` as a whole: types |
| `PresenceProofs!PresTypeCorrect` | users, connections, watchers, failures: types, one request and one command at a time |
| `PresenceProofs!WatchersSeeTheKey` | a subscribed client shows the key, or what it said before it expired, unless an event overtook its request |
| `PresenceProofs!OnlineIsAccounted` | nobody is shown online without a session, but for the named failures |
| `PresenceProofs!LiveTypeCorrect` | `MCChatLive` as a whole: types |
| `AccountsProofs!AccTypeCorrect` | addresses, sessions, ids: types, and no session or token of a deleted account |
| `AccountsProofs!AccountsStayWhole` | sessions act for their own mailbox, an address has one account, sleepers are signed out |
| `MembersProofs!ClubsTypeCorrect` | people, clubs: types, and a membership has its person and its club |
| `MembersProofs!CountsStayExact` | a club counts its activated members, off by at most the drift of the named causes |
| `MembersProofs!MembershipsStay` | copies of `activated` are current and quotas kept, but for the named races |
| `MembersProofs!AnswersRight` | questions, vectors, people, devices: sums and counts are those of the stored answers, tallies cover them, pages partition |
| `MembersProofs!DistanceRight` | targets and crowds: types, and the stored limit leaves a quarter of the people wanted, if there are as many |
| `MembersProofs!MembersTypeCorrect`, `AnswersStayRight` | `MCMembers` as a whole |
| `ServicesProofs!VisTypeCorrect` | users, preferences, flags: types, one visit per pair |
| `ServicesProofs!ListsLead` | what a list or a cached card shows can be opened, but for the named races and stale copies |
| `ServicesProofs!VisitorsNoticed` | whom the visitors tab shows visited openly, and is new until shown, unless passed over |
| `ServicesProofs!ProTypeCorrect` | positions, pictures, recordings, words: types |
| `ServicesProofs!ProfileTold` | the feed, the search's flag and settings agree with the profile |
| `ServicesProofs!NotificationsRight` | what counts as notified was covered by a notification, but for the named races and dropped pushes; the token is that of the last registration, unless its batch failed or it met another |
| `ServicesProofs!NothingIsRepeated` | the cron job does not tell again what the person had been told when it looked |
| `ServicesProofs!SvcTypeCorrect` | `MCServices` as a whole: types |

The order of an argument is the same everywhere: an inductive invariant is named
and proved with one lemma for the initial
states and one for the steps, which has a step per action and under it one per
conjunct that the action can disturb. Why the property alone is not inductive:

*Batcher.* `TypeOK` is not: `RunCallback` and `Reput` index the batch, so
`next` must not run past it, and `GetItem` keeps the batch within its maximum only
because `CallGet` saw it incomplete. `BoundsInv` adds these facts, and that the
thread is putting back only with retry. `CallbackInv` adds that while callbacks
run the whole batch is done. `FifoHandOff` then rests on three sequence lemmas
(moving an item or a batch between neighbouring parts of a concatenation).
`RetryInv` says where each item is: the retry loop must still put back what it
has not reached, the callback loop must have called what it has passed.
For the refinement a put is the pipe's put and a call of `process_fn` its hand-off,
whether it returns or raises; everything else stutters. An empty hand-off would not be a step
of the pipe, hence `NonEmptyInv`.

*MessageStore.* A callback that is scheduled tells the truth only if its message was
stored before and stays so: `CallbacksAreStored`, and `BatchHoldsPeople`, by which an open
batch keeps the accounts it writes for from being deleted and is about two people each time. `Delivery` assumes that
COMMIT does not fail; `store_commit` shows that it must. The inbox is changed by a batch as
a whole, so `TablesRight` relates inbox, archive and who wrote to whom for *any* set
of accounts, and `BatchKeepsTables` follows a batch message by message: it is an
induction over the prefixes of the batch. `JobsOnce` keeps a message from being
written twice, or after it was archived.

*ChatPipeline.* The limit speaks of conversations that are open, the check of those
that were counted; in between a message is counted, queued, perhaps lost and sent
again. `Going` are the conversations of a sender that are open or may still be opened
by what has passed the check, and `GoingWithinLimit` counts those of them that no raced
intro explains. A fresh count is at least the number let through (`GoingWereLet`), so
one more stays within the limit; every later step only shrinks `Going` (`GoingShrinks`).
`HashesPassed` says that every hash, stored or queued, is of an intro that passed, and
`DoomIsSeen` that while a doomed message is in the checks the skip is there, and neither a
cache nor an answer on its way there denies it.

*AsyncLruCache.* A timer pops whatever is under its key, so an entry is safe only
while the timer of the call that stored it is armed. `CallsInTime` bounds how long ago each call
read its source, `EntriesAreStored` ties each entry to a call that has stored it, and
`TimersInTime` to a due time of at most a computation and the time to live after that
reading; the clock cannot pass a due timer. `HitsAreFresh` follows.

*PhotoStore.* `UsedPhotosAreSafe` alone is not inductive: a uuid that is drawn
must be new everywhere, and the cleaner's list and chunk are a memory of
`undeleted` that another step could put back into use. `Recorded` says that the list
and the chunk are among the recorded or cleaned uuids, that everything anyone
remembers was drawn, and that a used picture is none of them. The requests share
two lemmas, `ReplaceStep` (a row for rows, old uuids recorded) and `DropStep` (rows
go, uuids counted as lost).

*Verification.* The runner holds a snapshot of jobs that may since have been replaced
or deleted. `VerActors` keeps of it what survives: whose job it was, and that hashes are not
drawn twice. `LevelKeepsUp` (verified age and gender give at least `Basics`) is needed
because every edit recomputes the level: one that lagged behind would rise without
a check. An edit, an addition and a deletion share one lemma (`RelevelStep`).

*Presence.* `WatchersAreCurrent` speaks of connections without a request. Between GET
and the answer the value is in the request, and the SUBSCRIBE may be executed
before or after it: `Tracked` follows it through both, and says that a connection
which has not authenticated has neither. `Orderly` (nobody asks while an
UNSUBSCRIBE is on its way) is needed because that command ends the history of an
overtaken request. `OnlineHasSession` is inductive given the types.

*Accounts.* A held request acts on what it learnt earlier. `HeldOK` keeps of it what
survives: it names an account that there is or was, and a request for a code one of
the same mailbox. That ids are not given out twice (`PersonsGoOn`) makes this stable. The
handlers are proved once (`HandlerKeeps`) and serve requests that run at once and held ones.

*Clubs.* What a transaction will write was computed in its snapshot, and is right
only for that one. `PlansFit` says that every open plan still fits the tables as they are:
it has one of the handlers' shapes, its reading of its person's row and of its
memberships is current, and the quota it checked holds unless another one counted
meanwhile (then it is marked as raced). It is inductive because a commit aborts every plan
with which it shares a row, and a plan with which it shares none has its rows
left alone (`StillFits`, `Apart`). `PassFits` says the same of the cron job's transaction: whom
it saw awake still is, and the memberships that it saw are there. That a committed plan moves each count by as
much as the number of activated members, but for the drift it declares, is
`CountsAreExact`; the cardinalities change by one, by lemmas on adding and removing an element.

*Answers.* An answer is counted against the row and the sums its transaction
read: `FreshReads` says that a transaction that is not stale read what is there now.
`TalliesCoverPending` counts an answer for a question before its transaction has committed,
so an answer that arrives finds its share. The sums are over all questions; `SumOf` and
`SumChange` say that such a sum changes by the change of one summand.

*BestDistance.* The rows of an iteration are two or three of different distances (`PointsOK`),
and the count of each is the number of people within its distance, except for the row at
10000 km with which the search begins and whose count is a sentinel (`PointOK`). So what the
query takes for the middle row is one of them, and its count can be trusted.

*Visibility.* What the cache holds, and what each running search has read or kept for it, does
not include anybody who skipped the searcher, unless the skip is in `visRaced` or overtook
that search (`CacheKnowsSkips`, `SearchKnowsSkips`). The rest follows
from the conditions of the queries: the theorem is that each list's condition implies that
of the profile behind it, up to the named changes and the copies that stayed on.

*Visits.* A list or a mark can pass over a visit that is still on its way, so the property
must hold of those before they are in the table: `PassedIsKnown` speaks of every time that is
in it or open, and `TimesAreBehind` makes a visit that begins later than all of them. `OpenlyMade`
follows each visit from its beginning.

*Profile.* The event, the flag and the photos change together in every transaction but
the administrator's that waited, which goes on with what it had read.
`WaitersAreApart` says that what waits is neither in the upload nor in the event, whatever
that becomes, and that a deletion which holds the row has counted what it leaves, unless it
had waited.

*Notifications.* Three writers record the time of a kind, each for what it has read
earlier: `RecordersCover` says that whoever will record it has told, or tried to tell, of what
is unread, or that what came since is marked as raced. `TriedAreTimed` says conversely that what
was told of is covered by a recorded time, or will be, or that the recording was lost, which
makes `NoRepeat` hold (`RowIsNews`, of the row that the cron job holds); `QueueIsFresh` places
what waits for its callback in this tick. Batches of registrations empty one by one:
`LastIsWanted` says that unless the last registration met one at another worker, what still
waits is in one batch, and ends with it.

*Compositions.* A behaviour of an `MC` module is one of the part that `part` names, with
the others' variables at rest; the theorems on them say that each part's specification
follows, and take its invariant from there.

*Sums over data.* The induction theorems of the library take an operator as a parameter,
which the installed provers cannot instantiate. `MembersProofs` and `MessageStoreProofs` induct with
a set of numbers in the place of the predicate (`SetInduction`, proved from the
well-foundedness of `<`), which is how what a fold over a batch or over the questions
computes is proved for every input. No module uses a recursive operator.

*Assumptions* are those named in each module, which TLC evaluates on every run, and no
others but the two that a theorem states itself (`PipeImplemented`: no retry; `Delivery`:
COMMIT does not fail; each is a constant of the service's configuration or of its database):

* sizes, limits, levels and lengths of time are numbers, and a maximum that the code divides
  its work by is not 0 (all modules);
* a message has a sender and a recipient, a marker a reader and a peer, a session an owner,
  a user a level (`MessageStoreAssumption`, `PresenceAssumption`, `VisAssumption`);
* what is counted or summed over is finite: messages (`ChAssumption`), people and clubs
  (`ClubsAssumption`), questions and people (`AnsAssumption`), positions (`ProAssumption`);
  components of vectors are integers;
* gold members may be in no fewer clubs than others (`ClubsAssumption`);
* a value that stands for NULL, for a deleted row or for no limit is nothing else
  (`AccAssumption`, `AsyncLruCacheAssumption`, `ChAssumption`, `ProAssumption`, `ClubsAssumption`,
  `AnsAssumption`).

*Only model-checked:* liveness, which needs ENABLED and is out of the prover's reach:
`EventuallyHanded`, `StopTerminates`, `EveryMessageSettles`, `SessionKeepsOnline`,
`GoneIsNoticed`, `EveryRecordIsCleaned`, `QueuedJobsEnd`; and the properties that a run
refutes, which are not theorems.

## 6. Plan

1. More of the system: recordings that two accounts share and their cleaner, archive
   and inbox queries of the chat service, the shared connection's own failures.
2. More abstractions: what a client may take a conversation for, as a specification that
   `MessageStore` implements; a cache as a function of time that `AsyncLruCache` implements.
3. Theorems on what is added, and on how the notifiers and the presence depend on what
   the store promises.

### Not modelled

Ranking in search and trait percentages (floating point); word lists, regular
expressions and image models (pure functions, of which the model takes the verdict);
request validation (form without state); plain profile columns (one assignment each);
mail, static pages, locations; the data lists under `antiabuse` and `questions`.
Recordings shared by two accounts and a failing SET TRANSACTION are listed as hazards
without a property. A COMMIT that fails unnoticed is modelled where it does most harm (storing
messages, uploading pictures, the times of notifications), and left out of the other transactions,
in particular of the two with which an answer is stored and its question's counts are updated.
