---------------------------- MODULE MCMessageStore ----------------------------
(* Values for the constants of MessageStore, for TLC.                        *)
EXTENDS MessageStore

CONSTANTS ann, bob, cat, m1, m2, m3, m4, k1

\* Two messages from ann to bob and one back, one to herself, and bob reads the
\* conversation.
PairUsers == {ann, bob}
PairMsgs == {m1, m2, m3, m4}
PairSender == m1 :> ann @@ m2 :> bob @@ m3 :> ann @@ m4 :> ann
PairRecipient == m1 :> bob @@ m2 :> ann @@ m3 :> bob @@ m4 :> ann

\* A batch with messages of two conversations, one of which loses a party.
Trio == {ann, bob, cat}
TrioMsgs == {m1, m2, m3}
TrioSender == m1 :> ann @@ m2 :> bob @@ m3 :> cat
TrioRecipient == m1 :> bob @@ m2 :> ann @@ m3 :> ann

MCMarks == {k1}
MCReader == k1 :> bob
MCPeer == k1 :> ann
NoMarks == {}
NoFun == [k \in {} |-> ann]

=============================================================================
