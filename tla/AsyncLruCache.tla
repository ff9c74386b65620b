---------------------------- MODULE AsyncLruCache ----------------------------
(***************************************************************************)
(* The decorator of async_lru_cache/__init__.py, through which the chat     *)
(* service reads skips, verification, trust, rate limits and push tokens.   *)
(* All calls run on one event loop and interleave where func is awaited.    *)
(*                                                                         *)
(* A result is identified with the moment at which func read it from the    *)
(* database, so the age of what a call returns can be measured.             *)
(***************************************************************************)
EXTENDS Integers, Sequences, SequencesExt, FiniteSets

CONSTANTS
  Keys,       \* argument tuples
  Calls,      \* calls of the wrapper, each made at most once
  MaxSize,    \* maxsize
  Ttl,        \* ttl in ticks, or NoTtl
  NoTtl,      \* ttl=None
  MaxCompute, \* bound: the longest that func may run, in ticks
  MaxTime     \* bound: the clock stops here

ASSUME AsyncLruCacheAssumption ==
  /\ MaxSize \in Nat \ {0} /\ MaxCompute \in Nat /\ MaxTime \in Nat
  /\ NoTtl \notin Nat /\ Ttl \in Nat \cup {NoTtl}

VARIABLES
  now,      \* the event loop's clock
  call,     \* what each call is doing
  order,    \* the keys of self.cache, least recently used first
  entry,    \* self.cache: function from keys to [result, timer]
  timers    \* TimerHandles that are neither cancelled nor run

lruVars == <<now, call, order, entry, timers>>

\* A call's record.  `at` is when func was entered, `result` when it read its
\* result; a TimerHandle is named after the call that created it.
NewCall == [pc |-> "new", key |-> {}, at |-> 0, result |-> -1]

LruInit ==
  /\ now = 0
  /\ call = [c \in Calls |-> NewCall]
  /\ order = <<>> /\ entry = [k \in {} |-> {}] /\ timers = {}

Cached == ToSet(order)

\* The keys without k: an OrderedDict unlinks the one link of a key.
Without(keys, k) ==
  IF k \in ToSet(keys) THEN RemoveAt(keys, CHOOSE i \in DOMAIN keys : keys[i] = k)
  ELSE keys

\* Mutant of Hit: a hit prolongs the entry's life.
HitProlongs(c, k) ==
  /\ call[c].pc = "new" /\ k \in Cached
  /\ call' = [call EXCEPT ![c] = [pc |-> "hit", key |-> k, at |-> now,
                                  result |-> entry[k].result]]
  /\ order' = Append(Without(order, k), k)
  /\ timers' = {IF t.key = k THEN [t EXCEPT !.due = now + Ttl] ELSE t : t \in timers}
  /\ UNCHANGED <<now, entry>>

\* self.cache[key]: a hit, which returns without giving up the event loop.
Hit(c, k) ==
  /\ call[c].pc = "new" /\ k \in Cached
  /\ call' = [call EXCEPT ![c] = [pc |-> "hit", key |-> k, at |-> now,
                                  result |-> entry[k].result]]
  /\ order' = Append(Without(order, k), k)
  /\ UNCHANGED <<now, entry, timers>>

\* A miss: from here on other calls, for the same key too, run meanwhile.
Miss(c, k) ==
  /\ call[c].pc = "new" /\ k \notin Cached
  /\ call' = [call EXCEPT ![c] = [pc |-> "computing", key |-> k, at |-> now,
                                  result |-> -1]]
  /\ UNCHANGED <<now, order, entry, timers>>

\* Somewhere inside func the database is read.
ReadSource(c) ==
  /\ call[c].pc = "computing" /\ call[c].result = -1
  /\ call' = [call EXCEPT ![c].result = now]
  /\ UNCHANGED <<now, order, entry, timers>>

\* func raises, or cache_condition rejects its result.
ReturnUncached(c) ==
  /\ call[c].pc = "computing"
  /\ call' = [call EXCEPT ![c].pc = "uncached"]
  /\ UNCHANGED <<now, order, entry, timers>>

\* self.cache[key] = (result, timer): a key that is there keeps its position.
Inserted(k) == IF k \in Cached THEN order ELSE Append(order, k)

Set(k, r, c) ==
  [j \in Cached \cup {k} |-> IF j = k THEN [result |-> r, timer |-> c] ELSE entry[j]]

\* Mutant of TimerOf: a key that is there keeps its old timer only.
TimerOfNewKey(c) ==
  IF Ttl = NoTtl \/ call[c].key \in Cached THEN {}
  ELSE {[id |-> c, key |-> call[c].key, due |-> now + Ttl]}

TimerOf(c) ==
  IF Ttl = NoTtl THEN {}
  ELSE {[id |-> c, key |-> call[c].key, due |-> now + Ttl]}

\* Mutant of Overfull: one entry too many.
OverfullByTwo(keys) == Len(keys) > MaxSize + 1

Overfull(keys) == Len(keys) > MaxSize

\* Mutant of HasResult: the coroutine is stored without being awaited.
HasResultAtOnce(c) == call[c].pc = "computing"

HasResult(c) == call[c].pc = "computing" /\ call[c].result # -1

\* Stores the result and evicts the oldest entry, all before the next await.
Store(c) ==
  /\ HasResult(c)
  /\ call' = [call EXCEPT ![c].pc = "stored"]
  /\ LET keys == Inserted(call[c].key)
         full == Set(call[c].key, call[c].result, c)
         oldest == Head(keys)
     IN IF Overfull(keys)
        THEN /\ order' = Tail(keys)
             /\ entry' = [k \in ToSet(Tail(keys)) |-> full[k]]
             /\ timers' = {t \in timers \cup TimerOf(c) : t.id # full[oldest].timer}
        ELSE /\ order' = keys
             /\ entry' = full
             /\ timers' = timers \cup TimerOf(c)
  /\ UNCHANGED now

\* loop.call_later's callback: self.cache.pop(key, None), whichever call's
\* result is there by now.
Fire(t) ==
  /\ t \in timers /\ t.due <= now
  /\ timers' = timers \ {t}
  /\ order' = Without(order, t.key)
  /\ entry' = [k \in Cached \ {t.key} |-> entry[k]]
  /\ UNCHANGED <<now, call>>

\* The loop runs due timers before time goes on, and func is not slower than
\* MaxCompute ticks.
LruTick ==
  /\ now < MaxTime
  /\ \A t \in timers : t.due > now
  /\ \A c \in Calls : call[c].pc = "computing" => now < call[c].at + MaxCompute
  /\ now' = now + 1
  /\ UNCHANGED <<call, order, entry, timers>>

LruNext ==
  \/ \E c \in Calls, k \in Keys : Hit(c, k) \/ Miss(c, k)
  \/ \E c \in Calls : ReadSource(c) \/ ReturnUncached(c) \/ Store(c)
  \/ \E t \in timers : Fire(t)
  \/ LruTick

LruSpec == LruInit /\ [][LruNext]_lruVars

-----------------------------------------------------------------------------
(* Properties.                                                              *)

\* Every variable keeps its type, and order and entry describe one dictionary.
LruTypeOK ==
  /\ now \in Nat
  /\ call \in [Calls -> [pc : {"new", "hit", "computing", "uncached", "stored"},
                         key : Keys \cup {{}}, at : Nat, result : Nat \cup {-1}]]
  /\ order \in Seq(Keys)
  /\ entry \in [Cached -> [result : Nat, timer : Calls]]
  /\ timers \subseteq [id : Calls, key : Keys, due : Nat]

\* However calls overlap, the dictionary never outgrows maxsize and never holds
\* a key twice.
SizeBounded == Len(order) <= MaxSize /\ Len(order) = Cardinality(Cached)

\* With a ttl, each entry's own timer is armed: eviction cancels the timer of
\* the entry it drops and of no other, so no entry stays for good.
EntriesExpire ==
  Ttl # NoTtl => \A k \in Cached :
    \E t \in timers : /\ t.id = entry[k].timer
                      /\ t.key = k

\* What a hit returns was true at most ttl plus one (slow) computation ago, even
\* when a slow call overwrites the result of a faster one.
HitsAreFresh ==
  Ttl # NoTtl => \A c \in Calls :
    call[c].pc = "hit" => call[c].result + Ttl + MaxCompute >= call[c].at

\* All three: overlapping calls leave a bounded cache whose entries expire and
\* whose hits are fresh.
CacheIsSound == SizeBounded /\ EntriesExpire /\ HitsAreFresh

=============================================================================
