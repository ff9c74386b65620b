---------------------------- MODULE PresenceProofs ----------------------------
(***************************************************************************)
(* Machine-checked proofs about Presence, for any users and connections,    *)
(* any choice of whom they watch, and any number of failures; and about its *)
(* composition with MessageStore.                                           *)
(***************************************************************************)
EXTENDS MCChatLive, MessageStoreProofs

\* What a live connection knows, from the moment that GET has been answered: first
\* in the request that is being processed, then in what the client has heard; in
\* both it is as good as the key as long as no event overtook it.
Tracked(s, u) ==
  /\ phase[s] = "off" => sub[s] = {} /\ wire[s] = {} /\ asking[s] = {}
  /\ phase[s] = "live" /\ <<s, u>> \notin overtaken =>
       /\ \A a \in asking[s] : a.user = u => key[u] \in {"none", a.val}
       /\ u \in sub[s] \/ Subscribes(s, u) =>
            Asks(s, u) \/ key[u] \in {"none", heard[s][u]}

\* Nobody asks while an UNSUBSCRIBE is on its way.
Orderly(s) == \A c \in wire[s] : c.op = "sub" \/ asking[s] = {}

IInv == PresTypeOK /\ (\A s \in Sessions : Orderly(s)) /\ \A s \in Sessions, u \in PresUsers : Tracked(s, u)

-----------------------------------------------------------------------------
(* Types.                                                                   *)

LEMMA PublishTypes ==
  ASSUME PresTypeOK, NEW u \in PresUsers, NEW status \in Statuses, Publish(u, status)
  PROVE  /\ key' \in [PresUsers -> Statuses \cup {"none"}]
         /\ heard' \in [Sessions -> [PresUsers -> Statuses \cup {"nothing", "offline"}]]
         /\ overtaken' \subseteq Sessions \X PresUsers
  BY DEF PresTypeOK, Publish

LEMMA EndedTypes ==
  ASSUME PresTypeOK, NEW s \in Sessions, Ended(s),
         key' = key, late' \subseteq Sessions, ghosts' \subseteq PresUsers,
         failures' \in 0..MaxFailures
  PROVE  PresTypeOK'
  BY DEF PresTypeOK, Ended

LEMMA InitTypes == PresInit => PresTypeOK
  BY PresenceAssumption DEF PresenceAssumption, PresInit, PresTypeOK, Statuses

LEMMA NextTypes == PresTypeOK /\ [PresNext]_presVars => PresTypeOK'
<1> SUFFICES ASSUME PresTypeOK, [PresNext]_presVars PROVE PresTypeOK'
  OBVIOUS
<1> USE PresenceAssumption DEF PresenceAssumption, redis, connection, request, history
<1>1. ASSUME NEW s \in Sessions, Authenticate(s) \/ SendOnline(s) PROVE PresTypeOK'
  BY <1>1 DEF Authenticate, SendOnline, PresTypeOK
<1>2. ASSUME NEW s \in Sessions, OnlinePublished(s) \/ RecentlyPublished(s) \/ LateUpdate(s)
      PROVE  PresTypeOK'
  <2>1. Owner[s] \in PresUsers /\ {"online", "recently"} \subseteq Statuses
    BY DEF Statuses
  <2>2. CASE OnlinePublished(s)
    BY <2>1, <2>2, PublishTypes DEF OnlinePublished, PresTypeOK
  <2>3. CASE RecentlyPublished(s)
    BY <2>1, <2>3, PublishTypes DEF RecentlyPublished, PresTypeOK
  <2>4. CASE LateUpdate(s)
    BY <2>1, <2>4, PublishTypes DEF LateUpdate, PresTypeOK
  <2> QED
    BY <1>2, <2>2, <2>3, <2>4
<1>3. ASSUME NEW s \in Sessions, OnlineFails(s) \/ Disconnect(s) PROVE PresTypeOK'
  <2>1. CASE OnlineFails(s)
    BY <2>1 DEF OnlineFails, PresTypeOK
  <2>2. CASE Disconnect(s)
    BY <2>2 DEF Disconnect, PresTypeOK
  <2> QED
    BY <1>3, <2>1, <2>2
<1>4. ASSUME NEW s \in Sessions,
             DisconnectAfterFailure(s) \/ RecentlyFails(s) \/ Leave(s) \/ Die(s)
      PROVE  PresTypeOK'
  <2>1. /\ Ended(s) /\ key' = key /\ late' \subseteq Sessions
        /\ ghosts' \subseteq PresUsers /\ failures' \in 0..MaxFailures
    BY <1>4 DEF DisconnectAfterFailure, RecentlyFails, Leave, Die, PresTypeOK
  <2> QED
    BY <2>1, EndedTypes
<1>5. ASSUME NEW u \in PresUsers, Expire(u) PROVE PresTypeOK'
  BY <1>5 DEF Expire, PresTypeOK
<1>6. ASSUME NEW s \in Sessions, NEW u \in PresUsers, Subscribe(s, u) PROVE PresTypeOK'
  BY <1>6 DEF Subscribe, PresTypeOK, Statuses
<1>7. ASSUME NEW s \in Sessions, NEW u \in PresUsers, Unsubscribe(s, u) PROVE PresTypeOK'
  BY <1>7 DEF Unsubscribe, PresTypeOK
<1>8. ASSUME NEW s \in Sessions, Execute(s) PROVE PresTypeOK'
  BY <1>8 DEF Execute, PresTypeOK
<1>9. ASSUME NEW s \in Sessions, Answer(s) PROVE PresTypeOK'
  BY <1>9 DEF Answer, PresTypeOK
<1>10. CASE UNCHANGED presVars
  BY <1>10 DEF presVars, PresTypeOK
<1> QED
  BY <1>1, <1>2, <1>3, <1>4, <1>5, <1>6, <1>7, <1>8, <1>9, <1>10 DEF PresNext, Working

\* Every variable keeps its type, whatever Redis, the workers and the clients do.
THEOREM PresTypeCorrect == PresSpec => []PresTypeOK
<1> QED
  BY InitTypes, NextTypes, PTL DEF PresSpec

-----------------------------------------------------------------------------
(* What watchers know.                                                      *)

\* An event reaches those who are subscribed and have not asked again; it counts
\* as overtaking for all the others.
LEMMA PublishTracked ==
  ASSUME IInv, NEW v \in PresUsers, NEW status \in Statuses, Publish(v, status),
         UNCHANGED <<sub, request>>,
         \A s \in Sessions : phase'[s] \in {"live", "off"} => phase'[s] = phase[s]
  PROVE  \A s \in Sessions, u \in PresUsers : Tracked(s, u)'
<1> SUFFICES ASSUME NEW s \in Sessions, NEW u \in PresUsers PROVE Tracked(s, u)'
  OBVIOUS
<1> USE DEF IInv, Tracked, Asks, Subscribes, request
<1>1. CASE u = v
  <2>1. <<s, u>> \in overtaken' <=> Asks(s, u) \/ Subscribes(s, u)
    BY <1>1 DEF Publish
  <2>2. u \in sub[s] => heard'[s][u] = status
    BY <1>1 DEF Publish, PresTypeOK
  <2>3. key'[u] = status
    BY <1>1 DEF Publish, PresTypeOK
  <2> QED
    BY <2>1, <2>2, <2>3
<1>2. CASE u # v
  <2>1. <<s, u>> \in overtaken' <=> <<s, u>> \in overtaken
    BY <1>2 DEF Publish
  <2>2. heard'[s][u] = heard[s][u] /\ key'[u] = key[u]
    BY <1>2 DEF Publish, PresTypeOK
  <2> QED
    BY <2>1, <2>2
<1> QED
  BY <1>1, <1>2

\* A connection that has ended knows nothing; the others are not concerned.
LEMMA EndedTracked ==
  ASSUME IInv, NEW t \in Sessions, Ended(t), key' = key
  PROVE  \A s \in Sessions, u \in PresUsers : Tracked(s, u)'
<1> SUFFICES ASSUME NEW s \in Sessions, NEW u \in PresUsers PROVE Tracked(s, u)'
  OBVIOUS
<1>1. CASE s = t
  BY <1>1 DEF IInv, PresTypeOK, Ended, Tracked
<1>2. CASE s # t
  BY <1>2 DEF IInv, PresTypeOK, Ended, Tracked, Asks, Subscribes
<1> QED
  BY <1>1, <1>2

LEMMA InitTracked == PresInit => IInv
  BY InitTypes DEF IInv, PresInit, Tracked, Orderly

LEMMA NextOrderly ==
  PresTypeOK /\ (\A s \in Sessions : Orderly(s)) /\ [PresNext]_presVars => \A s \in Sessions : Orderly(s)'
<1> SUFFICES ASSUME PresTypeOK, \A s \in Sessions : Orderly(s), [PresNext]_presVars,
                    NEW s \in Sessions
             PROVE  Orderly(s)'
  OBVIOUS
<1> USE DEF redis, connection, request, history
<1>1. CASE wire' = wire /\ asking' = asking
  BY <1>1 DEF Orderly
<1>2. ASSUME NEW t \in Sessions, Disconnect(t) \/ Ended(t) \/ Execute(t) \/ Answer(t)
      PROVE  Orderly(s)'
  <2>1. /\ wire'[s] \in {{}, wire[s]} /\ asking'[s] \in {{}, asking[s]}
    BY <1>2 DEF PresTypeOK, Disconnect, Ended, Execute, Answer
  <2> QED
    BY <2>1 DEF Orderly
<1>3. ASSUME NEW t \in Sessions, NEW u \in PresUsers, Subscribe(t, u) \/ Unsubscribe(t, u)
      PROVE  Orderly(s)'
  <2>1. CASE s = t
    BY <1>3, <2>1 DEF PresTypeOK, Subscribe, Unsubscribe, Free, Orderly
  <2>2. CASE s # t
    BY <1>3, <2>2 DEF PresTypeOK, Subscribe, Unsubscribe, Orderly
  <2> QED
    BY <2>1, <2>2
<1>4. ASSUME NEW t \in Sessions,
             \/ Authenticate(t) \/ SendOnline(t) \/ OnlinePublished(t) \/ OnlineFails(t)
             \/ RecentlyPublished(t) \/ LateUpdate(t)
      PROVE  Orderly(s)'
  BY <1>1, <1>4 DEF Authenticate, SendOnline, OnlinePublished, OnlineFails,
                    RecentlyPublished, LateUpdate
<1>5. ASSUME NEW t \in Sessions,
             DisconnectAfterFailure(t) \/ RecentlyFails(t) \/ Leave(t) \/ Die(t)
      PROVE  Orderly(s)'
  BY <1>2, <1>5 DEF DisconnectAfterFailure, RecentlyFails, Leave, Die
<1>6. ASSUME NEW u \in PresUsers, Expire(u) PROVE Orderly(s)'
  BY <1>1, <1>6 DEF Expire
<1>7. CASE UNCHANGED presVars
  BY <1>1, <1>7 DEF presVars
<1> QED
  BY <1>2, <1>3, <1>4, <1>5, <1>6, <1>7 DEF PresNext, Working

LEMMA NextTracked == IInv /\ [PresNext]_presVars => IInv'
<1> SUFFICES ASSUME IInv, [PresNext]_presVars PROVE \A s \in Sessions, u \in PresUsers : Tracked(s, u)'
  BY NextTypes, NextOrderly DEF IInv
<1> USE PresenceAssumption DEF PresenceAssumption, redis, connection, request, history
<1> DEFINE Goal == \A s \in Sessions, u \in PresUsers : Tracked(s, u)'
<1>a. PresTypeOK /\ \A s \in Sessions, u \in PresUsers : Tracked(s, u)
  BY DEF IInv
<1>1. ASSUME NEW t \in Sessions, Authenticate(t) PROVE Goal
  BY <1>1, <1>a, ZenonT(60) DEF Authenticate, PresTypeOK, Tracked, Asks, Subscribes
<1>2. ASSUME NEW t \in Sessions, SendOnline(t) \/ OnlineFails(t) PROVE Goal
  BY <1>2, <1>a, ZenonT(60) DEF SendOnline, OnlineFails, Tracked, Asks, Subscribes
<1>3. ASSUME NEW t \in Sessions, OnlinePublished(t) \/ RecentlyPublished(t) \/ LateUpdate(t)
      PROVE  Goal
  <2>1. Owner[t] \in PresUsers /\ {"online", "recently"} \subseteq Statuses
    BY DEF Statuses
  <2>2. CASE OnlinePublished(t)
    BY <2>1, <2>2, PublishTracked DEF OnlinePublished
  <2>3. CASE RecentlyPublished(t)
    <3>1. \A s \in Sessions : phase'[s] \in {"live", "off"} => phase'[s] = phase[s]
      BY <2>3, <1>a DEF RecentlyPublished, PresTypeOK
    <3> QED
      BY <2>1, <2>3, <3>1, PublishTracked DEF RecentlyPublished
  <2>4. CASE LateUpdate(t) /\ Publish(Owner[t], "online")
    BY <2>1, <2>4, PublishTracked DEF LateUpdate
  <2>5. CASE LateUpdate(t) /\ UNCHANGED <<key, heard, overtaken, ghosts>>
    BY <2>5, <1>a DEF LateUpdate, Tracked, Asks, Subscribes
  <2> QED
    BY <1>3, <2>2, <2>3, <2>4, <2>5 DEF LateUpdate
<1>4. ASSUME NEW t \in Sessions, Disconnect(t) PROVE Goal
  <2>1. /\ phase'[t] = "closing" /\ UNCHANGED <<key, sub, heard, wire, overtaken>>
        /\ \A s \in Sessions \ {t} : phase'[s] = phase[s] /\ asking'[s] = asking[s]
    BY <1>4, <1>a DEF Disconnect, PresTypeOK
  <2> QED
    BY <2>1, <1>a, ZenonT(60) DEF Tracked, Asks, Subscribes
<1>5. ASSUME NEW t \in Sessions,
             DisconnectAfterFailure(t) \/ RecentlyFails(t) \/ Leave(t) \/ Die(t)
      PROVE  Goal
  BY <1>5, EndedTracked DEF DisconnectAfterFailure, RecentlyFails, Leave, Die
<1>6. ASSUME NEW v \in PresUsers, Expire(v) PROVE Goal
  BY <1>6, <1>a, ZenonT(60) DEF Expire, PresTypeOK, Tracked, Asks, Subscribes
<1>7. ASSUME NEW t \in Sessions, NEW v \in PresUsers, Subscribe(t, v) PROVE Goal
  <2> SUFFICES ASSUME NEW s \in Sessions, NEW u \in PresUsers PROVE Tracked(s, u)'
    OBVIOUS
  <2>1. CASE s = t /\ u = v
    <3>1. phase[s] = "live" /\ Asks(s, u)' /\ key' = key /\ phase' = phase
      BY <2>1, <1>7, <1>a DEF Subscribe, Free, Asks, PresTypeOK
    <3>2. \A a \in asking'[s] : key[u] \in {"none", a.val}
      BY <2>1, <1>7, <1>a DEF Subscribe, PresTypeOK
    <3> QED
      BY <3>1, <3>2 DEF Tracked
  <2>2. CASE s = t /\ u # v
    BY <2>2, <1>7, <1>a DEF Subscribe, Free, Tracked, Asks, Subscribes, PresTypeOK
  <2>3. CASE s # t
    BY <2>3, <1>7, <1>a DEF Subscribe, Tracked, Asks, Subscribes, PresTypeOK
  <2> QED
    BY <2>1, <2>2, <2>3
<1>8. ASSUME NEW t \in Sessions, NEW v \in PresUsers, Unsubscribe(t, v) PROVE Goal
  BY <1>8, <1>a, ZenonT(60) DEF Unsubscribe, Free, Tracked, Asks, Subscribes, PresTypeOK
<1>9. ASSUME NEW t \in Sessions, Execute(t) PROVE Goal
  <2> SUFFICES ASSUME NEW s \in Sessions, NEW u \in PresUsers PROVE Tracked(s, u)'
    OBVIOUS
  <2>1. PICK c \in wire[t] :
          /\ wire' = [wire EXCEPT ![t] = {}]
          /\ sub' = [sub EXCEPT ![t] = IF c.op = "sub" THEN @ \cup {c.user} ELSE @ \ {c.user}]
          /\ heard' = IF c.op = "sub" THEN heard ELSE [heard EXCEPT ![t][c.user] = "nothing"]
          /\ overtaken' = IF c.op = "sub" THEN overtaken ELSE overtaken \ {<<t, c.user>>}
          /\ UNCHANGED <<key, phase, asking>>
    BY <1>9 DEF Execute
  <2>2. CASE s # t
    BY <2>1, <2>2, <1>a DEF Tracked, Asks, Subscribes, PresTypeOK
  <2>3. CASE s = t /\ c.op = "sub"
    <3>1. u = c.user => Subscribes(s, u)
      BY <2>3, <1>a DEF Subscribes, PresTypeOK
    <3>2. wire'[s] = {} /\ sub'[s] = sub[s] \cup {c.user}
      BY <2>1, <2>3, <1>a DEF PresTypeOK
    <3>3. /\ asking'[s] = asking[s] /\ heard' = heard /\ overtaken' = overtaken
          /\ key' = key /\ phase' = phase
      BY <2>1, <2>3
    <3>4. phase[s] # "off"
      BY <2>3, <1>a DEF Tracked
    <3>5. Tracked(s, u) /\ (Asks(s, u)' <=> Asks(s, u)) /\ ~Subscribes(s, u)'
      BY <3>2, <3>3, <1>a DEF Asks, Subscribes
    <3>6. u \in sub'[s] => u \in sub[s] \/ Subscribes(s, u)
      BY <3>1, <3>2
    <3> QED
      BY <3>2, <3>3, <3>4, <3>5, <3>6 DEF Tracked
  <2>4. CASE s = t /\ c.op # "sub"
    <3>1. asking'[s] = {} /\ wire'[s] = {} /\ c.user \notin sub'[s]
      BY <2>1, <2>4, <1>a DEF IInv, Orderly, PresTypeOK
    <3>2. u # c.user => /\ heard'[s][u] = heard[s][u] /\ (u \in sub'[s] => u \in sub[s])
                        /\ <<s, u>> \in overtaken' <=> <<s, u>> \in overtaken
      BY <2>1, <2>4, <1>a DEF PresTypeOK
    <3>3. phase[s] # "off"
      BY <2>4, <1>a DEF Tracked
    <3> QED
      BY <2>1, <3>1, <3>2, <3>3, <1>a DEF Tracked, Asks, Subscribes
  <2> QED
    BY <2>2, <2>3, <2>4
<1>10. ASSUME NEW t \in Sessions, Answer(t) PROVE Goal
  <2> SUFFICES ASSUME NEW s \in Sessions, NEW u \in PresUsers PROVE Tracked(s, u)'
    OBVIOUS
  <2>1. PICK a \in asking[t] :
          /\ asking' = [asking EXCEPT ![t] = {}]
          /\ heard' = [heard EXCEPT ![t][a.user] = a.val]
          /\ UNCHANGED <<key, sub, phase, wire, overtaken>>
    BY <1>10 DEF Answer
  <2>2. CASE s # t
    BY <2>1, <2>2, <1>a DEF Tracked, Asks, Subscribes, PresTypeOK
  <2>3. CASE s = t
    <3>1. asking'[s] = {} /\ (Asks(s, u) => a.user = u)
      BY <2>1, <2>3, <1>a DEF Asks, PresTypeOK
    <3>2. heard'[s][u] = IF a.user = u THEN a.val ELSE heard[s][u]
      BY <2>1, <2>3, <1>a DEF PresTypeOK
    <3> QED
      BY <2>1, <2>3, <3>1, <3>2, <1>a DEF Tracked, Asks, Subscribes
  <2> QED
    BY <2>2, <2>3
<1>11. CASE UNCHANGED presVars
  BY <1>11, <1>a DEF presVars, Tracked, Asks, Subscribes
<1> QED
  BY <1>1, <1>2, <1>3, <1>4, <1>5, <1>6, <1>7, <1>8, <1>9, <1>10, <1>11 DEF PresNext, Working

\* A client that has subscribed shows the last status of the user it watches, or
\* the one before the key expired, unless an event fell into its request.
THEOREM WatchersSeeTheKey == PresSpec => []WatchersAreCurrent
<1>1. IInv => WatchersAreCurrent
  BY DEF IInv, Tracked, WatchersAreCurrent, Free, Asks
<1> QED
  BY <1>1, InitTracked, NextTracked, PTL DEF PresSpec

-----------------------------------------------------------------------------
(* Who is shown online.                                                     *)

\* One session moves: it stays there, was not, or leaves a ghost.
LEMMA PresenceStep ==
  ASSUME OnlineHasSession, NEW t \in Sessions, key' = key, ghosts \subseteq ghosts',
         \A s \in Sessions \ {t} : phase'[s] = phase[s],
         \/ phase'[t] \in {"live", "closing"}
         \/ phase[t] \notin {"live", "closing"}
         \/ Owner[t] \in ghosts'
  PROVE  OnlineHasSession'
<1> SUFFICES ASSUME NEW u \in PresUsers, key[u] = "online", u \notin ghosts'
             PROVE  \E s \in Of(u) : phase'[s] \in {"live", "closing"}
  BY DEF OnlineHasSession, Of
<1>1. PICK s \in Of(u) : phase[s] \in {"live", "closing"}
  BY DEF OnlineHasSession
<1>2. s \in Sessions /\ Owner[s] = u
  BY DEF Of
<1>3. CASE s = t
  BY <1>1, <1>2, <1>3
<1>4. CASE s # t
  BY <1>1, <1>2, <1>4
<1> QED
  BY <1>3, <1>4

\* A session that ends without its last update leaves a ghost.
LEMMA EndedPresence ==
  ASSUME PresTypeOK, OnlineHasSession, NEW t \in Sessions, Ended(t), key' = key,
         \/ ghosts' = ghosts \cup {Owner[t]}
         \/ ghosts' = ghosts /\ phase[t] = "leaving"
  PROVE  OnlineHasSession'
<1>1. \A s \in Sessions \ {t} : phase'[s] = phase[s]
  BY DEF PresTypeOK, Ended
<1>2. phase[t] \notin {"live", "closing"} \/ Owner[t] \in ghosts'
  OBVIOUS
<1> QED
  BY <1>1, <1>2, PresenceStep

LEMMA NextPresence == PresTypeOK /\ OnlineHasSession /\ [PresNext]_presVars => OnlineHasSession'
<1> SUFFICES ASSUME PresTypeOK, OnlineHasSession, [PresNext]_presVars PROVE OnlineHasSession'
  OBVIOUS
<1> USE PresenceAssumption DEF PresenceAssumption, redis, connection, request, history
<1>1. CASE UNCHANGED <<key, phase, ghosts>>
  BY <1>1 DEF OnlineHasSession, Of
<1>2. ASSUME NEW t \in Sessions, Authenticate(t) \/ Disconnect(t) PROVE OnlineHasSession'
  <2>1. /\ key' = key /\ ghosts' = ghosts /\ phase'[t] \in {"live", "closing"}
        /\ \A s \in Sessions \ {t} : phase'[s] = phase[s]
    BY <1>2 DEF Authenticate, Disconnect, PresTypeOK
  <2> QED
    BY <2>1, PresenceStep
<1>3. ASSUME NEW t \in Sessions, OnlinePublished(t) PROVE OnlineHasSession'
  BY <1>3 DEF OnlinePublished, Publish, PresTypeOK, OnlineHasSession, Of
<1>4. ASSUME NEW t \in Sessions, RecentlyPublished(t) PROVE OnlineHasSession'
  BY <1>4 DEF RecentlyPublished, Publish, PresTypeOK, OnlineHasSession, Of
<1>5. ASSUME NEW t \in Sessions, LateUpdate(t) PROVE OnlineHasSession'
  BY <1>5 DEF LateUpdate, Publish, PresTypeOK, OnlineHasSession, Of
<1>6. ASSUME NEW t \in Sessions,
             DisconnectAfterFailure(t) \/ RecentlyFails(t) \/ Leave(t) \/ Die(t)
      PROVE  OnlineHasSession'
  BY <1>6, EndedPresence DEF DisconnectAfterFailure, RecentlyFails, Leave, Die
<1>7. ASSUME NEW u \in PresUsers, Expire(u) PROVE OnlineHasSession'
  BY <1>7 DEF Expire, PresTypeOK, OnlineHasSession, Of
<1>8. ASSUME NEW t \in Sessions, SendOnline(t) \/ OnlineFails(t) \/ Execute(t) \/ Answer(t)
      PROVE  OnlineHasSession'
  BY <1>1, <1>8 DEF SendOnline, OnlineFails, Execute, Answer
<1>9. ASSUME NEW t \in Sessions, NEW u \in PresUsers, Subscribe(t, u) \/ Unsubscribe(t, u)
      PROVE  OnlineHasSession'
  BY <1>1, <1>9 DEF Subscribe, Unsubscribe
<1>10. CASE UNCHANGED presVars
  BY <1>1, <1>10 DEF presVars
<1> QED
  BY <1>2, <1>3, <1>4, <1>5, <1>6, <1>7, <1>8, <1>9, <1>10 DEF PresNext, Working

\* A user is shown online only while a session of theirs is there to take it back,
\* or after one of the three ways in which a session ends without doing so.
THEOREM OnlineIsAccounted == PresSpec => []OnlineHasSession
<1>1. PresInit => OnlineHasSession
  BY DEF PresInit, OnlineHasSession
<1> QED
  BY <1>1, InitTypes, NextTypes, NextPresence, PTL DEF PresSpec

-----------------------------------------------------------------------------
(* The composition: one of the two parts runs, the other stands still.      *)

\* The variables of both parts keep their types.
THEOREM LiveTypeCorrect == LiveSpec => []LiveTypeOK
<1>1. LiveInit => Init /\ PresInit
  BY DEF LiveInit
<1>2. [LiveNext]_liveVars => [Next]_vars /\ [PresNext]_presVars
  BY DEF LiveNext, liveVars
<1>3. LiveSpec => Spec /\ PresSpec
  BY <1>1, <1>2, PTL DEF LiveSpec, Spec, PresSpec
<1>4. TypeOK /\ PresTypeOK => LiveTypeOK
  BY DEF LiveTypeOK
<1> QED
  BY <1>3, <1>4, StoreTypeCorrect, PresTypeCorrect, PTL
=============================================================================
