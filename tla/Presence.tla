------------------------------- MODULE Presence -------------------------------
(***************************************************************************)
(* Who is online.  A websocket connection of the chat service that has      *)
(* authenticated runs a task which, at once and then every four minutes,    *)
(* writes its user's key in Redis and publishes the same event to those who *)
(* have subscribed to that key; when the connection ends it does so once    *)
(* more with `online-recently`.  The key belongs to the user, not to the    *)
(* connection, and expires twelve hours after it was last written.          *)
(*                                                                         *)
(* Redis is external: it executes one command or MULTI block at a time, but *)
(* commands sent over different connections arrive in any order.  What      *)
(* reaches a websocket comes through one subscription connection, in the    *)
(* order in which Redis published it; so it is enough to know what a client *)
(* will have heard last.                                                    *)
(***************************************************************************)
EXTENDS Integers

CONSTANTS
  PresUsers,
  Sessions,    \* websocket connections, each authenticated at most once
  Owner,       \* [Sessions -> PresUsers]: as whom
  Watches,     \* subset of Sessions \X PresUsers: what clients subscribe to
  MaxFailures  \* bound: how often Redis fails a command, or a worker dies

ASSUME PresenceAssumption ==
  /\ Owner \in [Sessions -> PresUsers] /\ Watches \subseteq Sessions \X PresUsers
  /\ MaxFailures \in Nat

VARIABLES
  key,       \* Redis: the keys online-<username>
  phase,     \* where process_websocket_messages is
  task,      \* update_online_task
  late,      \* sessions whose cancelled update may still reach Redis
  asking,    \* subscribe request being processed: {} or one [user, val]
  wire,      \* SUBSCRIBE or UNSUBSCRIBE sent and not executed: {} or one
  sub,       \* Redis: the presence channels that a session is subscribed to
  heard,     \* what the client will have heard last of each user
  overtaken, \* history: subscriptions whose first answer an event overtook
  ghosts,    \* history: users left `online` by a failure
  failures   \* history: failures so far, up to MaxFailures

redis == <<key, sub, heard>>
connection == <<phase, task, late>>
request == <<asking, wire>>
history == <<overtaken, ghosts, failures>>
presVars == <<redis, connection, request, history>>

Statuses == {"online", "recently"}

PresInit ==
  /\ key = [u \in PresUsers |-> "none"]
  /\ phase = [s \in Sessions |-> "off"] /\ task = [s \in Sessions |-> "none"]
  /\ late = {}
  /\ asking = [s \in Sessions |-> {}] /\ wire = [s \in Sessions |-> {}]
  /\ sub = [s \in Sessions |-> {}]
  /\ heard = [s \in Sessions |-> [u \in PresUsers |-> "nothing"]]
  /\ overtaken = {} /\ ghosts = {} /\ failures = 0

Of(u) == {s \in Sessions : Owner[s] = u}
InUse(u) == \E s \in Of(u) : phase[s] = "live" /\ task[s] # "failed"
Asks(s, u) == \E a \in asking[s] : a.user = u
Subscribes(s, u) == [op |-> "sub", user |-> u] \in wire[s]

-----------------------------------------------------------------------------
(* redis_publish_online: PUBLISH and SET in one MULTI block.                *)

\* Mutant of Publish: the key is written, and nobody is told.
PublishOnlySets(u, status) ==
  /\ key' = [key EXCEPT ![u] = status]
  /\ UNCHANGED <<heard, overtaken>>

Publish(u, status) ==
  /\ key' = [key EXCEPT ![u] = status]
  /\ heard' = [s \in Sessions |->
                 IF u \in sub[s] THEN [heard[s] EXCEPT ![u] = status] ELSE heard[s]]
  /\ overtaken' = {w \in Sessions \X PresUsers :
                     IF w[2] = u THEN Asks(w[1], u) \/ Subscribes(w[1], u)
                     ELSE w \in overtaken}

-----------------------------------------------------------------------------
(* The connection and its task.                                             *)

\* The <auth> stanza is accepted; the task is created, and has not run yet.
Authenticate(s) ==
  /\ phase[s] = "off"
  /\ phase' = [phase EXCEPT ![s] = "live"]
  /\ task' = [task EXCEPT ![s] = "created"]
  /\ UNCHANGED <<redis, late, request, history>>

\* Mutant of SendOnline: there is no loop, only the first update.
SendOnlineOnce(s) ==
  /\ phase[s] = "live" /\ task[s] = "created"
  /\ task' = [task EXCEPT ![s] = "sending"]
  /\ UNCHANGED <<redis, phase, late, request, history>>

\* The task starts, or has slept for four minutes.
SendOnline(s) ==
  /\ phase[s] = "live" /\ task[s] \in {"created", "asleep"}
  /\ task' = [task EXCEPT ![s] = "sending"]
  /\ UNCHANGED <<redis, phase, late, request, history>>

OnlinePublished(s) ==
  /\ phase[s] = "live" /\ task[s] = "sending"
  /\ Publish(Owner[s], "online")
  /\ task' = [task EXCEPT ![s] = "asleep"]
  /\ UNCHANGED <<sub, phase, late, request, ghosts, failures>>

\* The exception is printed and raised again: it ends the task, not the session.
\* (That the update was made, and its reply lost, is an update and a failed one.)
OnlineFails(s) ==
  /\ phase[s] = "live" /\ task[s] = "sending"
  /\ failures < MaxFailures /\ failures' = failures + 1
  /\ task' = [task EXCEPT ![s] = "failed"]
  /\ UNCHANGED <<redis, phase, late, request, overtaken, ghosts>>

\* Nothing is forwarded to the websocket any more.
Ended(s) ==
  /\ phase' = [phase EXCEPT ![s] = "closed"]
  /\ task' = [task EXCEPT ![s] = "none"]
  /\ sub' = [sub EXCEPT ![s] = {}] /\ wire' = [wire EXCEPT ![s] = {}]
  /\ asking' = [asking EXCEPT ![s] = {}]
  /\ heard' = [heard EXCEPT ![s] = [u \in PresUsers |-> "nothing"]]
  /\ overtaken' = {w \in overtaken : w[1] # s}

\* Mutant of Disconnect: there is no last update.
DisconnectSilently(s) ==
  /\ phase[s] = "live" /\ task[s] # "failed"
  /\ phase' = [phase EXCEPT ![s] = "leaving"]
  /\ late' = IF task[s] = "sending" THEN late \cup {s} ELSE late
  /\ task' = [task EXCEPT ![s] = "none"]
  /\ asking' = [asking EXCEPT ![s] = {}]
  /\ UNCHANGED <<redis, wire, history>>

\* receive_text() raises, or something in process_text() does.  The task is
\* cancelled, and awaited; if it is waiting for Redis its command may be executed
\* all the same.
Disconnect(s) ==
  /\ phase[s] = "live" /\ task[s] # "failed"
  /\ phase' = [phase EXCEPT ![s] = "closing"]
  /\ late' = IF task[s] = "sending" THEN late \cup {s} ELSE late
  /\ task' = [task EXCEPT ![s] = "none"]
  /\ asking' = [asking EXCEPT ![s] = {}]
  /\ UNCHANGED <<redis, wire, history>>

\* Awaiting a task that has failed raises its exception in the `finally`, so that
\* the rest of it is skipped.
DisconnectAfterFailure(s) ==
  /\ phase[s] = "live" /\ task[s] = "failed"
  /\ Ended(s)
  /\ ghosts' = ghosts \cup {Owner[s]}
  /\ UNCHANGED <<key, late, failures>>

\* update_online_once(online=False), whether or not the user has other sessions.
RecentlyPublished(s) ==
  /\ phase[s] = "closing"
  /\ Publish(Owner[s], "recently")
  /\ phase' = [phase EXCEPT ![s] = "leaving"]
  /\ ghosts' = ghosts \ {Owner[s]}
  /\ UNCHANGED <<sub, task, late, request, failures>>

RecentlyFails(s) ==
  /\ phase[s] = "closing"
  /\ failures < MaxFailures /\ failures' = failures + 1
  /\ Ended(s)
  /\ ghosts' = ghosts \cup {Owner[s]}
  /\ UNCHANGED <<key, late>>

\* pubsub.close()
Leave(s) ==
  /\ phase[s] = "leaving"
  /\ Ended(s)
  /\ UNCHANGED <<key, late, ghosts, failures>>

\* The worker process dies.
Die(s) ==
  /\ phase[s] \in {"live", "closing"}
  /\ failures < MaxFailures /\ failures' = failures + 1
  /\ Ended(s)
  /\ late' = IF task[s] = "sending" THEN late \cup {s} ELSE late
  /\ ghosts' = ghosts \cup {Owner[s]}
  /\ UNCHANGED key

\* Redis reads what a cancelled task had sent, or finds the connection closed.
LateUpdate(s) ==
  /\ s \in late /\ late' = late \ {s}
  /\ \/ /\ Publish(Owner[s], "online")
        /\ ghosts' = ghosts \cup {Owner[s]}
     \/ UNCHANGED <<key, heard, overtaken, ghosts>>
  /\ UNCHANGED <<sub, phase, task, request, failures>>

\* Mutant of Expire: the key is set without EX.
ExpireNever(u) ==
  /\ key[u] # "none" /\ Of(u) = {}
  /\ key' = [key EXCEPT ![u] = "none"]
  /\ UNCHANGED <<sub, heard, connection, request, history>>

\* Twelve hours without an update: no session of the user is updating it.
Expire(u) ==
  /\ key[u] # "none"
  /\ \A s \in Of(u) : /\ phase[s] = "live" => task[s] = "failed"
                      /\ phase[s] # "closing" /\ s \notin late
  /\ key' = [key EXCEPT ![u] = "none"]
  /\ ghosts' = ghosts \ {u}
  /\ UNCHANGED <<sub, heard, connection, request, overtaken, failures>>

-----------------------------------------------------------------------------
(* <duo_subscribe_online> and <duo_unsubscribe_online>.                     *)

Free(s) == phase[s] = "live" /\ asking[s] = {} /\ wire[s] = {}

\* Mutant of Subscribe: a key that is not there is sent as it is.
SubscribeRaw(s, u) ==
  /\ Free(s) /\ <<s, u>> \in Watches
  /\ asking' = [asking EXCEPT ![s] = {[user |-> u, val |-> key[u]]}]
  /\ wire' = [wire EXCEPT ![s] = {[op |-> "sub", user |-> u]}]
  /\ overtaken' = overtaken \ {<<s, u>>}
  /\ UNCHANGED <<redis, connection, ghosts, failures>>

\* The reply to GET; SUBSCRIBE is sent then, and nobody waits for its reply.
Subscribe(s, u) ==
  /\ Free(s) /\ <<s, u>> \in Watches
  /\ asking' = [asking EXCEPT ![s] =
                  {[user |-> u, val |-> IF key[u] = "none" THEN "offline" ELSE key[u]]}]
  /\ wire' = [wire EXCEPT ![s] = {[op |-> "sub", user |-> u]}]
  /\ overtaken' = overtaken \ {<<s, u>>}
  /\ UNCHANGED <<redis, connection, ghosts, failures>>

Unsubscribe(s, u) ==
  /\ Free(s) /\ u \in sub[s]
  /\ wire' = [wire EXCEPT ![s] = {[op |-> "unsub", user |-> u]}]
  /\ UNCHANGED <<redis, connection, asking, history>>

Execute(s) ==
  \E c \in wire[s] :
    /\ wire' = [wire EXCEPT ![s] = {}]
    /\ sub' = [sub EXCEPT ![s] = IF c.op = "sub" THEN @ \cup {c.user} ELSE @ \ {c.user}]
    /\ heard' = IF c.op = "sub" THEN heard ELSE [heard EXCEPT ![s][c.user] = "nothing"]
    /\ overtaken' = IF c.op = "sub" THEN overtaken ELSE overtaken \ {<<s, c.user>>}
    /\ UNCHANGED <<key, connection, asking, ghosts, failures>>

\* The answer is published to the session's own channel.
Answer(s) ==
  \E a \in asking[s] :
    /\ asking' = [asking EXCEPT ![s] = {}]
    /\ heard' = [heard EXCEPT ![s][a.user] = a.val]
    /\ UNCHANGED <<key, sub, connection, wire, history>>

-----------------------------------------------------------------------------

Working(s) ==
  \/ SendOnline(s) \/ OnlinePublished(s) \/ RecentlyPublished(s) \/ Leave(s)
  \/ DisconnectAfterFailure(s) \/ Execute(s) \/ Answer(s) \/ LateUpdate(s)

PresNext ==
  \/ \E s \in Sessions :
       \/ Authenticate(s) \/ Disconnect(s) \/ Working(s)
       \/ OnlineFails(s) \/ RecentlyFails(s) \/ Die(s)
       \/ \E u \in PresUsers : Subscribe(s, u) \/ Unsubscribe(s, u)
  \/ \E u \in PresUsers : Expire(u)

PresSpec == PresInit /\ [][PresNext]_presVars

\* Event loops run and time passes.  Nobody has to connect, and nobody has to
\* leave.  (No two of a session's updates are enabled at once.)
Updates(s) == SendOnline(s) \/ OnlinePublished(s) \/ RecentlyPublished(s)

PresFairSpec ==
  /\ PresSpec
  /\ \A s \in Sessions : WF_presVars(Updates(s)) /\ WF_presVars(LateUpdate(s))
  /\ \A u \in PresUsers : WF_presVars(Expire(u))

-----------------------------------------------------------------------------
(* Properties.                                                              *)

\* Every variable keeps its type.
PresTypeOK ==
  /\ key \in [PresUsers -> Statuses \cup {"none"}]
  /\ phase \in [Sessions -> {"off", "live", "closing", "leaving", "closed"}]
  /\ task \in [Sessions -> {"none", "created", "sending", "asleep", "failed"}]
  /\ late \subseteq Sessions
  /\ asking \in [Sessions -> SUBSET [user : PresUsers, val : Statuses \cup {"offline"}]]
  /\ wire \in [Sessions -> SUBSET [op : {"sub", "unsub"}, user : PresUsers]]
  /\ \A s \in Sessions : /\ \A a, b \in asking[s] : a = b
                         /\ \A c, d \in wire[s] : c = d
  /\ sub \in [Sessions -> SUBSET PresUsers]
  /\ heard \in [Sessions -> [PresUsers -> Statuses \cup {"nothing", "offline"}]]
  /\ overtaken \subseteq Sessions \X PresUsers /\ ghosts \subseteq PresUsers
  /\ failures \in 0..MaxFailures

\* A client that subscribed shows what the key says, or what it said before it
\* expired - unless an event fell between the reading of the key and the
\* subscription or the answer; the next event repairs that.
WatchersAreCurrent ==
  \A s \in Sessions, u \in PresUsers :
    Free(s) /\ u \in sub[s] /\ <<s, u>> \notin overtaken =>
      heard[s][u] = key[u] \/ key[u] = "none"

\* Nobody is shown online without a session, but after a failure, a death, or an
\* update that was cancelled too late.
OnlineHasSession ==
  \A u \in PresUsers : key[u] = "online" =>
    u \in ghosts \/ \E s \in Of(u) : phase[s] \in {"live", "closing"}

\* Closing one of several sessions tells everybody that the user has left, but
\* not for good: as long as some session's task runs, the user is online again
\* and again.
KeptOnline(u) == InUse(u) ~> (key[u] = "online" \/ ~InUse(u))

\* When the last session has gone, in whatever way, the user does not stay online.
GoneNoticed(u) ==
  (\A s \in Of(u) : phase[s] \in {"off", "closed"}) ~>
    (key[u] # "online" \/ \E s \in Of(u) : phase[s] = "live")

=============================================================================
