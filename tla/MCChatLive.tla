------------------------------ MODULE MCChatLive ------------------------------
(* Two parts of the chat service that share no step, under their own fairness: *)
(* the storage of messages while workers die and commits fail, and presence.   *)
(* TLC picks one of them and runs it.                                          *)
EXTENDS MCMessageStore, Presence

CONSTANTS a1, a2, b1

VARIABLE part

\* Ann has two devices, and Bob watches her.
MCOwner == a1 :> ann @@ a2 :> ann @@ b1 :> bob
MCWatches == {<<b1, ann>>}

LiveInit == part \in {"store", "presence"} /\ Init /\ PresInit

LiveNext ==
  /\ UNCHANGED part
  /\ \/ part = "store" /\ Next /\ UNCHANGED presVars
     \/ part = "presence" /\ PresNext /\ UNCHANGED vars

liveVars == <<part, vars, presVars>>

InStore(A) == part = "store" /\ A /\ UNCHANGED <<part, presVars>>
InPresence(A) == part = "presence" /\ A /\ UNCHANGED <<part, vars>>

\* The fairness of FairSpec, and of PresFairSpec as far as Ann is concerned: her
\* devices' loops run, Redis reads their late updates (one for each at most), and
\* her key expires.  In a behaviour only steps of one part are ever enabled, so a
\* worker's batches can share a condition with a device's updates.
LiveSpec ==
  /\ LiveInit /\ [][LiveNext]_liveVars
  /\ WF_liveVars(InStore(Batches(1)) \/ InPresence(Updates(a1)))
  /\ WF_liveVars(InStore(Batches(2)) \/ InPresence(Updates(a2)))
  /\ WF_liveVars(InStore(Callbacks(1)) \/ InPresence(LateUpdate(a1) \/ LateUpdate(a2)))
  /\ WF_liveVars(InStore(Callbacks(2)) \/ InPresence(Expire(ann)))

\* The variables of both keep their types.
LiveTypeOK == TypeOK /\ PresTypeOK

\* Ann, who has two devices, stands for all: while one of her sessions runs she
\* is online again and again, and when the last has gone she does not stay so.
SessionKeepsOnline == KeptOnline(ann)
GoneIsNoticed == GoneNoticed(ann)
=============================================================================
