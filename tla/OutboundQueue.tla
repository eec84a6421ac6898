---------------------------- MODULE OutboundQueue ----------------------------
(***************************************************************************)
(* One connection's OutboundQueue (crates/woven-core/src/queue.rs) as the  *)
(* core and the transport's worker drive it: publishes push into it, the   *)
(* transport drains the spaces it has activated, unsubscribing and removal *)
(* of entities purge it, and a connection whose reliable capacity is       *)
(* exhausted is taken down by the publish that met the limit.              *)
(***************************************************************************)
EXTENDS OutboundOps

CONSTANTS
  Deliveries,   \* the delivery classes that are published
  MaxStamp      \* bound on the number of publishes

ASSUME DeliveriesAssumption == Deliveries \subseteq DeliveryClass /\ MaxStamp \in Nat

VARIABLES
  q,            \* ConnectionState.outbound
  connected,    \* the connection is in WovenCore.connections
  registered,   \* the transport registered it, so it is drained by active space
  route,        \* of each space: not subscribed, subscribed, or active as well
  out,          \* what the last drain returned
  stamp,        \* publishes so far
  newest        \* history: scoped key -> stamp of the newest message pushed

vars == <<q, connected, registered, route, out, stamp, newest>>

Routes == {"none", "routed", "active"}
ScopedKeys == Scopes \X CoalesceKeys

Init ==
  /\ q = NewQueue
  /\ connected = FALSE
  /\ registered \in BOOLEAN
  /\ route = [s \in Scopes |-> "none"]
  /\ out = <<>>
  /\ stamp = 0
  /\ newest = [k \in ScopedKeys |-> 0]

\* transport_connected: a new connection has a new queue.
TransportConnected ==
  /\ ~connected
  /\ connected' = TRUE
  /\ registered' \in BOOLEAN
  /\ q' = NewQueue
  /\ route' = [s \in Scopes |-> "none"]
  /\ newest' = [k \in ScopedKeys |-> 0]
  /\ out' = <<>>
  /\ UNCHANGED stamp

\* publish_at's push to one recipient; the connection is lost (transport_lost)
\* when its reliable capacity is exhausted.  validate_coalesce_key has made sure
\* of the key of a replaceable message; that of another is not looked at.
Publish(d, s, k) ==
  LET m == [delivery |-> d, scope |-> s, key |-> k, stamp |-> stamp + 1]
  IN  /\ connected /\ route[s] # "none" /\ stamp < MaxStamp
      /\ k # NoKey <=> IsReplaceable(d)
      /\ q' = Push(q, m)
      /\ connected' = ~Exhausts(q, m)
      /\ stamp' = stamp + 1
      /\ newest' = IF k = NoKey THEN newest ELSE [newest EXCEPT ![<<s, k>>] = stamp + 1]
      /\ out' = <<>>
      /\ UNCHANGED <<registered, route>>

Subscribe(s) ==
  /\ connected /\ route[s] = "none"
  /\ route' = [route EXCEPT ![s] = "routed"]
  /\ out' = <<>>
  /\ UNCHANGED <<q, connected, registered, stamp, newest>>

\* ActivateSubscription
Activate(s) ==
  /\ connected /\ registered /\ route[s] = "routed"
  /\ route' = [route EXCEPT ![s] = "active"]
  /\ out' = <<>>
  /\ UNCHANGED <<q, connected, registered, stamp, newest>>

\* unsubscribe (and a space that is removed): its messages are purged.
Unsubscribe(s) ==
  /\ connected /\ route[s] # "none"
  /\ route' = [route EXCEPT ![s] = "none"]
  /\ q' = Purge(q, {m \in OutboundMessage : m.scope = s})
  /\ out' = <<>>
  /\ UNCHANGED <<connected, registered, stamp, newest>>

\* The queued messages of an entity that is removed are purged; which messages
\* those are is the closure's choice.
PurgeEntity(M) ==
  /\ connected
  /\ q' = Purge(q, M)
  /\ out' = <<>>
  /\ UNCHANGED <<connected, registered, route, stamp, newest>>

\* DrainOutbound: of a registered connection only the active spaces.
DrainOutbound ==
  LET M == {m \in OutboundMessage : registered => route[m.scope] = "active"}
  IN  /\ connected
      /\ out' = Drained(q, M)
      /\ q' = DrainMatching(q, M)
      /\ UNCHANGED <<connected, registered, route, stamp, newest>>

\* transport_lost
TransportLost ==
  /\ connected
  /\ connected' = FALSE
  /\ out' = <<>>
  /\ UNCHANGED <<q, registered, route, stamp, newest>>

Next ==
  \/ TransportConnected
  \/ \E d \in Deliveries, s \in Scopes, k \in CoalesceKeys \cup {NoKey} : Publish(d, s, k)
  \/ \E s \in Scopes : Subscribe(s) \/ Activate(s) \/ Unsubscribe(s)
  \/ \E M \in SUBSET (Elements(q.critical) \cup {q.latest[k] : k \in DOMAIN q.latest}
                        \cup Elements(q.best)) : PurgeEntity(M)
  \/ DrainOutbound
  \/ TransportLost

Spec == Init /\ [][Next]_vars

\* The transport drains a connection again and again.
FairSpec == Spec /\ WF_vars(DrainOutbound)

-----------------------------------------------------------------------------
\* The queue and its surroundings have the code's types.
TypeOK ==
  /\ QueueType(q)
  /\ connected \in BOOLEAN /\ registered \in BOOLEAN
  /\ route \in [Scopes -> Routes]
  /\ out \in Seq(OutboundMessage)
  /\ stamp \in Nat
  /\ newest \in [ScopedKeys -> Nat]

\* No class outgrows its capacity and together they stay within the total,
\* through every eviction and replacement.
WithinCapacity ==
  /\ Size(q) <= TotalCapacity
  /\ Len(q.critical) <= CriticalCapacity
  /\ Cardinality(DOMAIN q.latest) <= LatestCapacity
  /\ Len(q.best) <= BestEffortCapacity

\* queue.rs relies on it three times: expect("latest order and values remain
\* synchronized").  latest_order lists each key of `latest` exactly once, and a
\* key finds a message of that key.
OrderSynchronized ==
  /\ Elements(q.order) = DOMAIN q.latest
  /\ \A i, j \in DOMAIN q.order : q.order[i] = q.order[j] => i = j
  /\ \A k \in DOMAIN q.latest : ScopedKey(q.latest[k]) = k

\* A latest value that is queued is the newest one published under its key
\* since the connection came up: coalescing never keeps a stale value.
NewestWins == \A k \in DOMAIN q.latest : q.latest[k].stamp = newest[k]

\* Nothing is queued for a space the connection has left: every way out of a
\* space purges its messages, so none can be delivered after it.
QueuedOnlyForRouted ==
  connected => \A m \in Elements(q.critical) \cup {q.latest[k] : k \in DOMAIN q.latest}
                          \cup Elements(q.best) : route[m.scope] # "none"

\* Emptying the queue with pop, as drain does, hands the messages out in the
\* same order as drain_matching of everything, which the worker uses.
PopAgreesWithDrain ==
  Size(q) > 0 =>
    Drained(q, OutboundMessage) = <<Front(q)>> \o Drained(Pop(q), OutboundMessage)

Contract == INSTANCE DeliveryContract
  WITH reliable <- q.critical, fresh <- q.latest, lossy <- q.best, out <- out, up <- connected

\* The capacities implement the delivery promise of DeliveryContract.
KeepsContract == Contract!Spec

Held(n) ==
  connected /\ \E i \in DOMAIN q.critical :
                 q.critical[i].stamp = n /\ route[q.critical[i].scope] = "active"

\* A reliable message for an active space leaves the queue: messages held back
\* for other spaces never block it.
ReliableLeaves == \A n \in 1..MaxStamp : Held(n) ~> ~Held(n)

\* The queue's structures agree through evictions, purges and partial drains:
\* within the capacities, the map and the order of latest values in step, each
\* value the newest, nothing for a space that was left, and pop in the order of
\* drain_matching.
QueueSound ==
  TypeOK /\ WithinCapacity /\ OrderSynchronized /\ NewestWins /\ QueuedOnlyForRouted /\ PopAgreesWithDrain

=============================================================================
