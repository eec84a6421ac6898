-------------------------------- MODULE Relay --------------------------------
(***************************************************************************)
(* The relay as it runs: the core worker, and for every connection the     *)
(* task that serves it, its drain task and its writer                      *)
(* (crates/woven-transport-quic/src/lib.rs; webtransport.rs is the same    *)
(* code over another library), with what the peer at the other end has     *)
(* read so far.                                                            *)
(*                                                                         *)
(* A request to the worker is one step: a task has one request in the      *)
(* mailbox at a time and waits for the answer, so the order in which the   *)
(* worker takes the requests is the order of these steps.  The handshake's *)
(* replies and error messages are not told apart from silence.             *)
(***************************************************************************)
EXTENDS RelayOps

CONSTANTS
  Served,            \* the connections that are served, and joined, at the start
  Plans,             \* what the outside may do: see Plan
  MaxSpawns,         \* bounds on the entities that are spawned and
  MaxPublishes       \*   on the messages that are published, in any plan

Ask == [op : {"join", "leave", "subscribe", "unsubscribe", "transition", "publish"},
        space : Spaces]

\* What the outside may do: what each client may send, one request after the
\* other, whose peer may leave or be refused, and whether the session may be deleted or
\* the worker stop.
Plan == [send : [Connections -> Seq(Ask)], leavers : SUBSET Connections,
         ends : SUBSET {"delete", "stop"}]

ASSUME TaskAssumption ==
  /\ Plans \subseteq Plan /\ Served \subseteq Connections
  /\ {MaxSpawns, MaxPublishes} \subseteq Nat

VARIABLES
  plan,       \* what the outside may still do
  r,          \* the worker, with the channels it shares
  task,       \* where serve_connection of a connection is
  todo,       \* the envelopes it is about to send
  goal,       \* the space it is subscribing to
  drain,      \* where the connection's drain task is
  held,       \* the messages it has drained and not sent
  writer,     \* where the connection's writer is
  link,       \* the connections whose peer is there
  view,       \* what the peer has read
  published   \* the number of messages published

vars == <<plan, r, task, todo, goal, drain, held, writer, link, view, published>>
connection == <<task, todo, goal>>
draining == <<drain, held>>
client == <<plan, link, view, published>>

View == [accepted : SUBSET Spaces, heard : SUBSET Spaces,
         known : SUBSET ((1..MaxSpawns) \X Spaces), got : SUBSET (1..MaxPublishes)]

NewView == [accepted |-> {}, heard |-> {}, known |-> {}, got |-> {}]

\* The record and the tasks have the code's types, and the queues and channels
\* stay within their capacities.
TypeOK ==
  /\ plan \in Plan
  /\ Relays(r)
  /\ \A c \in Connections : Len(r.queue[c]) <= QueueCapacity /\ Len(r.chan[c]) <= WriteCapacity
  /\ task \in [Connections -> {"absent", "accepting", "registering", "hello", "authenticate", "ready",
                               "replying", "activating", "flush", "flushing",
                               "closing", "awaiting", "closed"}]
  /\ \A c \in Connections : {todo[c], held[c]} \subseteq Seq(Envelope)
  /\ goal \in [Connections -> Spaces]
  /\ drain \in [Connections -> {"none", "idle", "sending", "stopping", "failing", "gone"}]
  /\ writer \in [Connections -> {"none", "running", "failing", "gone"}]
  /\ link \subseteq Connections /\ view \in [Connections -> View]
  /\ published \in 0..MaxPublishes

\* The first connections have been accepted and have joined when this begins.
Init ==
  /\ plan \in Plans
  /\ r = [NewRelay EXCEPT !.up = Served, !.bound = Served, !.member = Served, !.recipients = Served,
                          !.active = [c \in Served |-> {}], !.tracked = Served,
                          !.writing = Served]
  /\ task = [c \in Connections |-> IF c \in Served THEN "ready" ELSE "absent"]
  /\ todo = [c \in Connections |-> <<>>]
  /\ goal = [c \in Connections |-> CHOOSE s \in Spaces : TRUE]
  /\ drain = [c \in Connections |-> IF c \in Served THEN "idle" ELSE "none"]
  /\ held = [c \in Connections |-> <<>>]
  /\ writer = [c \in Connections |-> IF c \in Served THEN "running" ELSE "none"]
  /\ link = Served
  /\ view = [c \in Connections |-> NewView]
  /\ published = 0

Goto(c, pc) == task' = [task EXCEPT ![c] = pc]

\* The peer of c is gone, with all it has read.
Unlink(c) ==
  /\ link' = link \ {c}
  /\ view' = [view EXCEPT ![c] = NewView]
  /\ plan' = [plan EXCEPT !.send[c] = <<>>]

\* What is left of r when a task asks for v and the worker may have stopped.
Asked(v) == IF r.running THEN v ELSE r

-----------------------------------------------------------------------------
\* TransportConnected
Connect(c) ==
  /\ task[c] = "absent"
  /\ IF r.running
     THEN Goto(c, "accepting") /\ r' = [r EXCEPT !.up = @ \cup {c}]
     ELSE Goto(c, "closed") /\ UNCHANGED r
  /\ link' = link \cup {c}
  /\ UNCHANGED <<todo, goal, draining, writer, plan, view, published>>

\* accept_bi gives the client's stream, and the writer starts.
AcceptStream(c) ==
  /\ task[c] = "accepting" /\ c \in link
  /\ Goto(c, "registering")
  /\ writer' = [writer EXCEPT ![c] = "running"]
  /\ r' = [r EXCEPT !.writing = @ \cup {c}]
  /\ UNCHANGED <<todo, goal, draining, client>>

\* INITIAL_STREAM_TIMEOUT, or the connection is lost first.
NoStream(c) ==
  /\ task[c] = "accepting" /\ c \in plan.leavers
  /\ r' = Asked(Lost(r, c))
  /\ Goto(c, "closed")
  /\ Unlink(c)
  /\ UNCHANGED <<todo, goal, draining, writer, published>>

\* register_lifecycle; the drain task starts.  If it fails the writer is aborted.
RegisterLifecycle(c) ==
  /\ task[c] = "registering"
  /\ r' = IF r.running /\ c \in r.up THEN Register(r, c)
          ELSE [Asked(Lost(r, c)) EXCEPT !.writing = @ \ {c}]
  /\ IF r.running /\ c \in r.up
     THEN /\ Goto(c, "hello")
          /\ drain' = [drain EXCEPT ![c] = "idle"]
          /\ UNCHANGED <<writer, plan, link, view>>
     ELSE /\ Goto(c, "closed")
          /\ writer' = [writer EXCEPT ![c] = "gone"]
          /\ Unlink(c)
          /\ UNCHANGED drain
  /\ UNCHANGED <<todo, goal, held, published>>

\* handle_hello, which may refuse.
Hello(c) ==
  /\ task[c] = "hello" /\ c \in link
  /\ \E p \in {"authenticate"} \cup {q \in {"closing"} : c \in plan.leavers} : Goto(c, p)
  /\ UNCHANGED <<r, todo, goal, draining, writer, client>>

\* handle_authenticate; the peer's credential may be refused.
Authenticating(c) ==
  /\ task[c] = "authenticate" /\ c \in link
  /\ \/ /\ r.running /\ CanAuthenticate(r, c)
        /\ r' = Authenticate(r, c)
        /\ Goto(c, "ready")
     \/ /\ ~(r.running /\ CanAuthenticate(r, c)) \/ c \in plan.leavers
        /\ Goto(c, "closing")
        /\ UNCHANGED r
  /\ UNCHANGED <<todo, goal, draining, writer, client>>

-----------------------------------------------------------------------------
\* handle_authenticated_with_capabilities, of a request that becomes a command:
\* the command, then the flush of what it put in the queue; an error closes the
\* connection.
Command(c, ok, v) ==
  /\ r' = IF r.running /\ ok THEN v ELSE r
  /\ Goto(c, IF r.running /\ ok THEN "flush" ELSE "closing")
  /\ UNCHANGED <<todo, goal, draining, writer, link, view>>

\* The connection's task is idle and reads the next request.
Receives(c, op, s) ==
  /\ task[c] = "ready" /\ c \in link
  /\ plan.send[c] # <<>> /\ Head(plan.send[c]) = [op |-> op, space |-> s]
  /\ plan' = [plan EXCEPT !.send[c] = Tail(@)]

JoinSession(c, s) ==
  /\ Receives(c, "join", s)
  /\ Command(c, c \in r.up, Join(r, c))
  /\ UNCHANGED published

LeaveSession(c, s) ==
  /\ Receives(c, "leave", s)
  /\ Command(c, c \in r.member, Leave(r, c))
  /\ UNCHANGED published

UnsubscribeSpace(c, s) ==
  /\ Receives(c, "unsubscribe", s)
  /\ Command(c, c \in r.up, Unsubscribe(r, c, s))
  /\ UNCHANGED published

SpaceTransition(c, s) ==
  /\ Receives(c, "transition", s)
  /\ \E e \in OwnedBy(r, c) :
       Command(c, CanTransition(r, c, e, s), Transition(r, c, e, s))
  /\ UNCHANGED published

\* The channel's persistence class is asked for first and never changes.
PublishEvent(c, s) ==
  /\ Receives(c, "publish", s)
  /\ Command(c, s \in r.subs[c], Publish(r, c, s, published + 1))
  /\ published' = IF r.running /\ s \in r.subs[c] THEN published + 1 ELSE published

SubscribeSpace(c, s) ==
  /\ Receives(c, "subscribe", s)
  /\ r' = Asked(SubscribeAndSpawn(r, c, s))
  /\ IF r.running /\ CanSubscribe(r, c, s) /\ CanSpawn(r)
     THEN /\ todo' = [todo EXCEPT ![c] = <<Accepted(s), EnteredMsg(s, r.nextEntity)>>]
          /\ goal' = [goal EXCEPT ![c] = s]
          /\ Goto(c, "replying")
     ELSE Goto(c, "closing") /\ UNCHANGED <<todo, goal>>
  /\ UNCHANGED <<draining, writer, link, view, published>>

\* send_envelope of the next of the envelopes: replies, or what was flushed.
Send(c) ==
  /\ task[c] \in {"replying", "flushing"}
  /\ IF Refuses(r, c)
     THEN Goto(c, "closing") /\ todo' = [todo EXCEPT ![c] = <<>>] /\ UNCHANGED r
     ELSE /\ r' = Sent(r, c, Head(todo[c]))
          /\ todo' = [todo EXCEPT ![c] = Tail(@)]
          /\ task' = IF Len(todo[c]) > 1 THEN task
                     ELSE [task EXCEPT ![c] = IF @ = "replying" THEN "activating" ELSE "ready"]
  /\ UNCHANGED <<goal, draining, writer, client>>

ActivateSubscription(c) ==
  /\ task[c] = "activating"
  /\ r' = Asked(Activate(r, c, goal[c]))
  /\ Goto(c, IF r.running THEN "flush" ELSE "closing")
  /\ UNCHANGED <<todo, goal, draining, writer, client>>

\* flush_outbound: a connection the core no longer has gets nothing.
FlushOutbound(c) ==
  /\ task[c] = "flush"
  /\ r' = Asked(Drain(r, c))
  /\ todo' = [todo EXCEPT ![c] = IF r.running THEN Drained(r, c) ELSE <<>>]
  /\ Goto(c, IF todo'[c] = <<>> THEN "ready" ELSE "flushing")
  /\ UNCHANGED <<goal, draining, writer, client>>

\* The loop ends: on the shutdown channel, or when the connection is lost.
Break(c) ==
  /\ task[c] \in {"hello", "authenticate", "ready"}
  /\ c \in r.shutdown \/ c \notin link
  /\ Goto(c, "closing")
  /\ UNCHANGED <<r, todo, goal, draining, writer, client>>

\* The drain task is aborted, which stops it where it awaits, and the core loses
\* the connection; the drain before that empties a queue that goes anyway.
Disconnect(c) ==
  /\ task[c] = "closing"
  /\ r' = Asked(Lost(r, c))
  /\ drain' = [drain EXCEPT ![c] = IF @ = "sending" THEN "stopping" ELSE "gone"]
  /\ Goto(c, "awaiting")
  /\ UNCHANGED <<todo, goal, held, writer, client>>

\* writer_task.await, then the connection is closed.
Close(c) ==
  /\ task[c] = "awaiting" /\ writer[c] = "gone"
  /\ Goto(c, "closed")
  /\ Unlink(c)
  /\ r' = [r EXCEPT !.shutdown = @ \ {c}]
  /\ UNCHANGED <<todo, goal, draining, writer, published>>

-----------------------------------------------------------------------------
\* spawn_outbound_drain_quic: every 10 ms what is queued is taken, and sent.
DrainTick(c) ==
  /\ drain[c] = "idle" /\ r.running /\ Drained(r, c) # <<>>
  /\ r' = Drain(r, c)
  /\ held' = [held EXCEPT ![c] = Drained(r, c)]
  /\ drain' = [drain EXCEPT ![c] = "sending"]
  /\ UNCHANGED <<connection, writer, client>>

DrainSend(c) ==
  /\ drain[c] \in {"sending", "stopping"}
  /\ IF Refuses(r, c)
     THEN /\ r' = Told(r, {c})
          /\ held' = [held EXCEPT ![c] = <<>>]
          /\ drain' = [drain EXCEPT ![c] = IF @ = "sending" THEN "failing" ELSE "gone"]
     ELSE /\ r' = Sent(r, c, Head(held[c]))
          /\ held' = [held EXCEPT ![c] = Tail(@)]
          /\ drain' = IF Len(held[c]) > 1 THEN drain
                      ELSE [drain EXCEPT ![c] = IF @ = "sending" THEN "idle" ELSE "gone"]
  /\ UNCHANGED <<connection, writer, client>>

DrainDisconnects(c) ==
  /\ drain[c] = "failing"
  /\ r' = Asked(Lost(r, c))
  /\ drain' = [drain EXCEPT ![c] = "gone"]
  /\ UNCHANGED <<connection, held, writer, client>>

-----------------------------------------------------------------------------
\* What the peer makes of an envelope: it forgets a space when a subscription to
\* it is accepted.
Read(v, m) ==
  CASE m.kind = "accepted" -> [v EXCEPT !.accepted = @ \cup {m.space},
                                        !.known = {k \in @ : k[2] # m.space}]
    [] m.kind = "entered"  -> [v EXCEPT !.heard = @ \cup {m.space},
                                        !.known = @ \cup {<<m.entity, m.space>>}]
    [] m.kind = "left"     -> [v EXCEPT !.heard = @ \cup {m.space},
                                        !.known = @ \ {<<m.entity, m.space>>}]
    [] m.kind = "data"     -> [v EXCEPT !.heard = @ \cup {m.space}, !.got = @ \cup {m.n}]

\* writer_loop: the next envelope is written to the stream.
Write(c) ==
  /\ writer[c] = "running" /\ r.chan[c] # <<>> /\ c \in link
  /\ view' = [view EXCEPT ![c] = Read(@, Head(r.chan[c]))]
  /\ r' = [r EXCEPT !.chan[c] = Tail(@)]
  /\ UNCHANGED <<connection, draining, writer, plan, link, published>>

WriteFails(c) ==
  /\ writer[c] = "running" /\ r.chan[c] # <<>> /\ c \notin link
  /\ r' = [Told(r, {c}) EXCEPT !.chan[c] = Tail(@)]
  /\ writer' = [writer EXCEPT ![c] = "failing"]
  /\ UNCHANGED <<connection, draining, client>>

WriterDisconnects(c) ==
  /\ writer[c] = "failing"
  /\ r' = [Asked(Lost(r, c)) EXCEPT !.writing = @ \ {c}, !.chan[c] = <<>>]
  /\ writer' = [writer EXCEPT ![c] = "gone"]
  /\ UNCHANGED <<connection, draining, client>>

\* The channel is empty and every sending end of it has been dropped: the
\* connection task's, the drain task's and the worker's.
WriterEnds(c) ==
  /\ writer[c] = "running" /\ r.chan[c] = <<>>
  /\ task[c] = "awaiting" /\ drain[c] \in {"none", "gone"} /\ c \notin r.recipients
  /\ r' = [r EXCEPT !.writing = @ \ {c}]
  /\ writer' = [writer EXCEPT ![c] = "gone"]
  /\ UNCHANGED <<connection, draining, client>>

\* The peer closes the connection, or is lost.
PeerLeaves(c) ==
  /\ c \in link \cap plan.leavers
  /\ Unlink(c)
  /\ UNCHANGED <<r, connection, draining, writer, published>>

\* The operator deletes the session.
DeleteSession ==
  /\ "delete" \in plan.ends /\ r.running /\ r.open
  /\ r' = Revoked(r)
  /\ UNCHANGED <<connection, draining, writer, client>>

\* A save of the managed state fails, and the worker stops.
WorkerStops ==
  /\ "stop" \in plan.ends /\ r.running
  /\ r' = Stopped(r)
  /\ UNCHANGED <<connection, draining, writer, client>>

\* What the tasks do of their own accord once they can.
Progress(c) ==
  \/ NoStream(c) \/ RegisterLifecycle(c) \/ Send(c) \/ ActivateSubscription(c)
  \/ FlushOutbound(c) \/ Break(c) \/ Disconnect(c) \/ Close(c)
Drainer(c) == DrainSend(c) \/ DrainDisconnects(c)
Writer(c)  == WriteFails(c) \/ WriterDisconnects(c) \/ WriterEnds(c)

Next ==
  \/ \E c \in Connections :
       \/ Connect(c) \/ AcceptStream(c) \/ Hello(c) \/ Authenticating(c)
       \/ \E s \in Spaces :
            \/ JoinSession(c, s) \/ LeaveSession(c, s) \/ SubscribeSpace(c, s)
            \/ UnsubscribeSpace(c, s) \/ SpaceTransition(c, s) \/ PublishEvent(c, s)
       \/ Progress(c) \/ DrainTick(c) \/ Drainer(c) \/ Writer(c) \/ Write(c) \/ PeerLeaves(c)
  \/ DeleteSession \/ WorkerStops

Spec == Init /\ [][Next]_vars

\* The runtime keeps polling every task that can go on.  Nothing is assumed of
\* the client: it may stop sending, and stop reading.
Fairness == \A c \in Connections :
  WF_vars(Progress(c)) /\ WF_vars(Drainer(c)) /\ WF_vars(Writer(c))

FairSpec == Spec /\ Fairness

-----------------------------------------------------------------------------
\* The worker's tables follow the core: whoever is a recipient is connected, and
\* output is active only for spaces that the core routes to it.  The core drops
\* slow consumers while it publishes, so the loop has to reconcile the two.
TablesFollowCore ==
  r.running => \A c \in r.recipients : c \in r.up /\ Active(r, c) \subseteq r.subs[c]

\* crates/woven-transport/src/lib.rs, at DrainOutbound: "Core routing starts at
\* subscribe, but transport output starts only after the accepted/self-entry
\* replies have been queued."  So a peer reads nothing about a space before the
\* space's SubscriptionAccepted, whoever drains or distributes meanwhile.
NothingBeforeAccepted == \A c \in Connections : view[c].heard \subseteq view[c].accepted

Transit(c) == r.queue[c] \o todo[c] \o held[c] \o r.chan[c]
Sound(c) ==
  /\ r.running /\ c \in r.up \cap link /\ writer[c] = "running" /\ drain[c] \in {"idle", "sending"}
  /\ task[c] \in {"ready", "replying", "activating", "flush", "flushing"}

\* The connection's own flush and its drain task take from the same queue: while
\* the connection is sound, every message the queue took in has been read by the
\* peer or is in exactly one place on its way.
ReadOrOnItsWay ==
  \A c \in Connections :
    Sound(c) =>
      LET onItsWay == SelectSeq(Transit(c), LAMBDA m : m.kind = "data")
          numbers  == {m.n : m \in ToSet(onItsWay)}
      IN  /\ Cardinality(numbers) = Len(onItsWay)
          /\ numbers \cap view[c].got = {}
          /\ r.routed[c] \subseteq numbers \cup view[c].got

Knows(c, e, s) ==
  /\ c \in r.recipients /\ writer[c] = "running" /\ s \in Active(r, c)
  /\ <<e, s>> \in view[c].known /\ ToSet(r.chan[c]) \cap {LeftMsg(s, e), Accepted(s)} = {}
Present(e, s) == e \in DOMAIN r.ents /\ r.ents[e].space = s

\* An entity that a peer knows in a space it is subscribed to is there, or the
\* peer's EntityLeft is on its way; README.md promises "subscriber `EntityLeft`
\* notifications".  Entities of a slow consumer are the exception: publish loses
\* it in the core and drops the list of what went, so nobody is told.
KnownArePresent ==
  r.running =>
    \A c \in Connections, e \in 1..MaxSpawns, s \in Spaces :
      Knows(c, e, s) => Present(e, s) \/ e \in r.evicted

\* A space that the core routes to a connection while its output is not active
\* is being subscribed to, or the connection is closing: after a failed spawn,
\* whose subscription stays, nothing waits in the queue for ever.
PendingIsBrief ==
  r.running =>
    \A c \in r.recipients :
      r.subs[c] # Active(r, c) => task[c] \in {"replying", "activating", "closing"}

\* What is published is read in the order in which it was published.
ReadInOrder ==
  [][\A c \in Connections : \A n \in view'[c].got \ view[c].got, k \in view[c].got : k < n]_vars

Forgotten(c) == c \notin r.up /\ c \notin r.recipients

\* A lost peer is cleaned up: its task ends, though it has to wait for a writer
\* that ends only when every sending end of its channel is gone, and the core and
\* the worker forget the connection.
LossIsCleanedUp ==
  \A c \in Connections :
    (task[c] # "absent" /\ c \notin link) ~> (task[c] = "closed" /\ (r.running => Forgotten(c)))

\* A connection that was told to shut down, by the worker that dropped it or has
\* stopped, by its drain task or by its writer, stops being served and is
\* forgotten, even if its peer stays and reads nothing more.
ShutdownIsHeeded ==
  \A c \in Connections :
    (c \in r.shutdown) ~> (task[c] \in {"awaiting", "closed"} /\ (r.running => Forgotten(c)))

\* The worker follows the core in both directions: it keeps output for nobody
\* the core has lost and for no space the core does not route, and the core
\* routes to no connection whose output is not active or about to be.
WorkerFollowsCore == TypeOK /\ TablesFollowCore /\ PendingIsBrief

\* A peer's output begins with the reply that accepted it, and from then on what
\* the core hands to the worker is read by the peer or still on its way, once.
OutputKept == NothingBeforeAccepted /\ ReadOrOnItsWay

\* Every connection that is lost or told to stop comes to its end: the tasks, the
\* worker and the core forget it, whatever its peer does.
ConnectionsEnd == LossIsCleanedUp /\ ShutdownIsHeeded

=============================================================================
