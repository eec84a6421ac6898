----------------------------- MODULE OutboundOps -----------------------------
(***************************************************************************)
(* The operations of OutboundQueue (crates/woven-core/src/queue.rs), the   *)
(* bounded queue of one connection, as functions of its state.             *)
(*                                                                         *)
(* A message is told apart by its delivery class, the space (with session  *)
(* and epoch) it is about, its application coalesce key and a stamp that   *)
(* stands for its payload.                                                 *)
(***************************************************************************)
EXTENDS Deques

CONSTANTS
  Scopes,              \* (namespace, session, space, epoch) of a message
  CoalesceKeys,        \* application coalesce keys
  NoKey,               \* coalesce_key = None
  TotalCapacity,       \* OutboundQueueConfig
  CriticalCapacity,
  LatestCapacity,
  BestEffortCapacity

\* OutboundQueueConfig::validate
ASSUME ConfigAssumption ==
  /\ TotalCapacity \in Nat \ {0}
  /\ CriticalCapacity \in Nat \ {0}
  /\ {LatestCapacity, BestEffortCapacity} \subseteq Nat
  /\ \A n \in {CriticalCapacity, LatestCapacity, BestEffortCapacity} : n <= TotalCapacity
  /\ NoKey \notin CoalesceKeys

DeliveryClass ==
  {"ReliableOrdered", "ReliableUnordered", "LatestValue", "UnreliableSequenced",
   "BestEffortEvent"}

IsCritical(d)    == d \in {"ReliableOrdered", "ReliableUnordered"}
IsReplaceable(d) == d \in {"LatestValue", "UnreliableSequenced"}

OutboundMessage ==
  [delivery : DeliveryClass, scope : Scopes, key : CoalesceKeys \cup {NoKey}, stamp : Nat]

\* scoped_coalesce_key: the application key within its space.
ScopedKey(m) == <<m.scope, m.key>>

\* The fields of OutboundQueue; `slow` is critical_capacity_exhausted.
QueueType(q) ==
  /\ q \in [critical : Seq(OutboundMessage),
            order    : Seq(Scopes \X CoalesceKeys),
            latest   : [DOMAIN q.latest -> OutboundMessage],
            best     : Seq(OutboundMessage),
            slow     : BOOLEAN]
  /\ DOMAIN q.latest \subseteq Scopes \X CoalesceKeys

NewQueue ==
  [critical |-> <<>>, order |-> <<>>, latest |-> [k \in {} |-> 0], best |-> <<>>,
   slow |-> FALSE]

\* len()
Size(q) == Len(q.critical) + Cardinality(DOMAIN q.latest) + Len(q.best)

-----------------------------------------------------------------------------
\* evict_oldest_latest, of a queue with a latest value.
EvictOldestLatest(q) ==
  [q EXCEPT !.order = Tail(@),
            !.latest = [k \in DOMAIN @ \ {Head(q.order)} |-> @[k]]]

\* insert_latest
InsertLatest(q, m) ==
  [q EXCEPT !.order = Append(@, ScopedKey(m)),
            !.latest = [k \in DOMAIN @ \cup {ScopedKey(m)} |->
                          IF k = ScopedKey(m) THEN m ELSE @[k]]]

\* A full queue makes room: the oldest latest value goes first, then the
\* oldest best-effort message; reliable messages are never evicted.
MakeRoom(q) ==
  IF Size(q) # TotalCapacity THEN q
  ELSE IF q.order # <<>> THEN EvictOldestLatest(q)
  ELSE IF q.best # <<>>  THEN [q EXCEPT !.best = Tail(@)]
  ELSE q

\* (mutant of PushCritical) At its limit the class drops its oldest message.
PushCriticalRing(q, m) ==
  IF Len(q.critical) = CriticalCapacity
  THEN [q EXCEPT !.critical = Append(Tail(@), m)]
  ELSE [MakeRoom(q) EXCEPT !.critical = Append(@, m)]

\* push_critical
PushCritical(q, m) ==
  IF Len(q.critical) = CriticalCapacity
  THEN [q EXCEPT !.slow = TRUE]
  ELSE [MakeRoom(q) EXCEPT !.critical = Append(@, m)]

\* (mutant of PushLatest) A replaced value's key is queued a second time.
PushLatestTwice(q, m) ==
  IF ScopedKey(m) \in DOMAIN q.latest
  THEN [q EXCEPT !.latest = [q.latest EXCEPT ![ScopedKey(m)] = m],
                 !.order = Append(@, ScopedKey(m))]
  ELSE IF Size(q) = TotalCapacity \/ Cardinality(DOMAIN q.latest) = LatestCapacity
  THEN q
  ELSE InsertLatest(q, m)

\* push_latest, with a key
PushLatest(q, m) ==
  LET k == ScopedKey(m)
  IN  IF k \in DOMAIN q.latest
      THEN [q EXCEPT !.latest = [q.latest EXCEPT ![k] = m],
                     !.order = Append(Retain(@, (Scopes \X CoalesceKeys) \ {k}), k)]
      ELSE IF LatestCapacity = 0 THEN q
      ELSE IF Cardinality(DOMAIN q.latest) = LatestCapacity
      THEN InsertLatest(EvictOldestLatest(q), m)
      ELSE IF Size(MakeRoom(q)) = TotalCapacity THEN q
      ELSE InsertLatest(MakeRoom(q), m)

\* push_best_effort
PushBestEffort(q, m) ==
  IF Len(q.best) = BestEffortCapacity \/ Size(q) = TotalCapacity
  THEN q
  ELSE [q EXCEPT !.best = Append(@, m)]

\* push; a replaceable message without a key is MissingCoalesceKey.
Push(q, m) ==
  IF IsCritical(m.delivery) THEN PushCritical(q, m)
  ELSE IF ~IsReplaceable(m.delivery) THEN PushBestEffort(q, m)
  ELSE IF m.key = NoKey THEN q
  ELSE PushLatest(q, m)

\* push returns CriticalCapacityExhausted.
Exhausts(q, m) == IsCritical(m.delivery) /\ Len(q.critical) = CriticalCapacity

-----------------------------------------------------------------------------
\* What is left of q without the messages in M: purge and drain_matching leave
\* the same queue, and the second hands the messages out.
Without(q, M) ==
  LET kept == {k \in DOMAIN q.latest : q.latest[k] \notin M}
  IN  [q EXCEPT !.critical = Retain(@, Elements(@) \ M),
                !.best = Retain(@, Elements(@) \ M),
                !.latest = [k \in kept |-> @[k]],
                !.order = Retain(@, kept)]

Purge(q, M) == Without(q, M)

\* (mutant of DrainMatching) A reliable message that is held back blocks the rest.
DrainBlockedByHead(q, M) ==
  IF q.critical # <<>> /\ Head(q.critical) \notin M THEN q ELSE Without(q, M)

DrainMatching(q, M) == Without(q, M)

\* The messages that drain_matching returns: reliable ones first, then the
\* latest values from the longest unchanged on, then best effort.
Drained(q, M) ==
  LET keys == Retain(q.order, {k \in DOMAIN q.latest : q.latest[k] \in M})
  IN  Retain(q.critical, M) \o [i \in DOMAIN keys |-> q.latest[keys[i]]] \o Retain(q.best, M)

\* pop of a queue that is not empty: the message, and the queue without it.
Front(q) ==
  IF q.critical # <<>> THEN Head(q.critical)
  ELSE IF q.order # <<>> THEN q.latest[Head(q.order)]
  ELSE Head(q.best)

Pop(q) ==
  IF q.critical # <<>> THEN [q EXCEPT !.critical = Tail(@)]
  ELSE IF q.order # <<>> THEN EvictOldestLatest(q)
  ELSE [q EXCEPT !.best = Tail(@)]

=============================================================================
