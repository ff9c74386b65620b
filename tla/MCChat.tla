-------------------------------- MODULE MCChat --------------------------------
(* The chat service's parts that share no step: the path of a message to the  *)
(* batcher, the tables that the batch writes, and the cache of query results.  *)
(* TLC picks one of them and runs it.                                          *)
EXTENDS MCMessageStore, ChatPipeline, AsyncLruCache

CONSTANTS bea

VARIABLE part

\* Two equal intros from ann on two connections of one worker, to bea and to
\* bob, while she is typing to bea on the other connection.
ChAll == {m1, m2, m3}
CFrom == [m \in ChAll |-> ann]
CTo == [m \in ChAll |-> IF m = m2 THEN bob ELSE bea]
CText == [m \in ChAll |-> IF m = m3 THEN "hey" ELSE "hi"]
CKind == [m \in ChAll |-> IF m = m3 THEN "typing" ELSE "text"]
CConn == [m \in ChAll |-> IF m = m1 THEN 1 ELSE 2]
CWorker == [c \in {1, 2} |-> 1]
CLimit == [s \in {ann} |-> 1]

ChatInit == part \in {"pipeline", "store", "cache"} /\ Init /\ ChInit /\ LruInit

ChatNext ==
  /\ UNCHANGED part
  /\ \/ part = "pipeline" /\ ChNext /\ UNCHANGED <<vars, lruVars>>
     \/ part = "store" /\ Next /\ UNCHANGED <<chVars, lruVars>>
     \/ part = "cache" /\ LruNext /\ UNCHANGED <<vars, chVars>>

ChatSpec == ChatInit /\ [][ChatNext]_<<part, vars, chVars, lruVars>>

\* The variables of the one that runs keep their types.
ChatTypeOK ==
  CASE part = "pipeline" -> ChTypeOK
    [] part = "store"    -> TypeOK
    [] part = "cache"    -> LruTypeOK
=============================================================================
