------------------------------ MODULE RelayOps ------------------------------
(***************************************************************************)
(* The core worker of the relay (crates/woven-transport/src/lib.rs) as a   *)
(* record, and what each of its requests does to it.  The record holds     *)
(* what the worker needs of the core (one session), the worker's own       *)
(* tables, and the bounded write channel and the one-slot shutdown channel *)
(* of every connection, of which the worker holds a sending end.           *)
(*                                                                         *)
(* What is published is reliable; n numbers it in the order in which the   *)
(* core accepted it.  SpaceOps has the rest of the core's session and      *)
(* OutboundOps the rest of its queues.                                     *)
(***************************************************************************)
EXTENDS Naturals, FiniteSets, Sequences, FiniteSetsExt, SequencesExt

CONSTANTS
  Connections,       \* ConnectionId: numbers, in the order of the worker's maps
  Spaces,            \* SpaceKey
  MaxEntities,       \* max_entities_per_session
  QueueCapacity,     \* OutboundQueueConfig.critical_capacity
  WriteCapacity      \* WRITE_CAPACITY

ASSUME RelayAssumption ==
  /\ Connections \subseteq Nat /\ IsFiniteSet(Connections)
  /\ {MaxEntities, QueueCapacity, WriteCapacity} \subseteq Nat \ {0}

\* An Envelope: what it is about, and the number of what was published.
Accepted(s)    == [kind |-> "accepted", space |-> s, entity |-> 0, n |-> 0]
EnteredMsg(s, e) == [kind |-> "entered", space |-> s, entity |-> e, n |-> 0]
LeftMsg(s, e)  == [kind |-> "left", space |-> s, entity |-> e, n |-> 0]
Data(s, n)     == [kind |-> "data", space |-> s, entity |-> 0, n |-> n]

Envelope ==
  [kind : {"accepted", "entered", "left", "data"}, space : Spaces, entity : Nat, n : Nat]

Relays(r) ==
  /\ r \in [up         : SUBSET Connections,              \* WovenCore.connections
            open       : BOOLEAN,                         \* the session exists
            bound      : SUBSET Connections,              \* ManagedState.connections
            member     : SUBSET Connections,              \* memberships
            subs       : [Connections -> SUBSET Spaces],  \* ConnectionState.subscriptions
            ents       : [DOMAIN r.ents -> [owner : Connections, space : Spaces]],
            nextEntity : Nat \ {0},
            queue      : [Connections -> Seq(Envelope)],  \* ConnectionState.outbound
            recipients : SUBSET Connections,              \* recipients
            active     : [DOMAIN r.active -> SUBSET Spaces], \* subscriptions
            tracked    : SUBSET Connections,              \* LogCapture.connections
            chan       : [Connections -> Seq(Envelope)],  \* the write channels
            writing    : SUBSET Connections,              \* whose receiving end is held
            shutdown   : SUBSET Connections,              \* the shutdown channels
            routed     : [Connections -> SUBSET Nat],     \* history: what a queue took in
            evicted    : SUBSET Nat,                      \* history: gone with a slow consumer
            running    : BOOLEAN]                         \* the worker
  /\ DOMAIN r.active \subseteq Connections /\ DOMAIN r.ents \subseteq 1..r.nextEntity

NewRelay ==
  [up |-> {}, open |-> TRUE, bound |-> {}, member |-> {}, subs |-> [c \in Connections |-> {}], ents |-> [e \in {} |-> 0],
   nextEntity |-> 1, queue |-> [c \in Connections |-> <<>>], recipients |-> {},
   active |-> [c \in {} |-> {}], tracked |-> {}, chan |-> [c \in Connections |-> <<>>],
   writing |-> {}, shutdown |-> {}, routed |-> [c \in Connections |-> {}], evicted |-> {},
   running |-> TRUE]

\* The relay that F makes of v, which is evaluated once.
Then(v, F(_)) == CHOOSE y \in {F(x) : x \in {v}} : TRUE

Without(f, S) == [x \in DOMAIN f \ S |-> f[x]]
Active(r, c)  == IF c \in DOMAIN r.active THEN r.active[c] ELSE {}

\* subscriptions.entry(c).or_default()
Activated(r, c, S) ==
  [r EXCEPT !.active = [x \in DOMAIN @ \cup {c} |-> IF x = c THEN Active(r, c) \cup S ELSE @[x]]]

\* try_send on a write channel fails when it is full or nobody receives.
Refuses(r, c) == Len(r.chan[c]) = WriteCapacity \/ c \notin r.writing
Sent(r, c, m) == [r EXCEPT !.chan[c] = Append(@, m)]
Told(r, C)    == [r EXCEPT !.shutdown = @ \cup C]

-----------------------------------------------------------------------------
\* transport_lost, in the core.
OwnedBy(r, c) == {e \in DOMAIN r.ents : r.ents[e].owner = c}
CoreLost(r, c) ==
  [r EXCEPT !.up = @ \ {c}, !.bound = @ \ {c}, !.member = @ \ {c}, !.subs[c] = {},
            !.ents = Without(@, OwnedBy(r, c)), !.queue[c] = <<>>, !.routed[c] = {}]

\* The EntityLeft messages for the entities E, which r still has.
Farewells(r, E) ==
  LET order == SetToSortSeq(E, <)
  IN  [i \in DOMAIN order |-> LeftMsg(r.ents[order[i]].space, order[i])]

RECURSIVE Distribute(_, _, _)
RECURSIVE CleanUp(_, _)

\* distribute_to_space_excluding: every recipient whose subscription is active is
\* sent the message, and those that take nothing more are told to shut down and
\* cleaned up in turn.
DistributeOne(r, m, excluded) ==
  LET to   == {c \in r.recipients \ excluded : m.space \in Active(r, c)}
      dead == {c \in to : Refuses(r, c)}
      sent == [Told(r, dead) EXCEPT
                 !.chan = [c \in Connections |-> IF c \in to \ dead THEN Append(@[c], m) ELSE @[c]]]
  IN  Then(sent, LAMBDA u : CleanUp(u, SetToSortSeq(dead, <)))

\* The messages one after the other, to everyone but the excluded.
Distribute(r, ms, excluded) ==
  IF ms = <<>> THEN r
  ELSE Then(DistributeOne(r, Head(ms), excluded), LAMBDA u : Distribute(u, Tail(ms), excluded))

\* cleanup_dead_connection, of each of cs: the connection's entries go, then the
\* core loses it, and the others are told which entities went.
CleanUp(r, cs) ==
  IF cs = <<>> THEN r
  ELSE LET c == Head(cs)
           v == [r EXCEPT !.recipients = @ \ {c}, !.active = Without(@, {c})]
       IN  Then(IF c \notin r.up THEN v
                ELSE Then(CoreLost(v, c), LAMBDA u : Distribute(u, Farewells(r, OwnedBy(r, c)), {})),
                LAMBDA u : CleanUp(u, Tail(cs)))

\* (mutant of Reconcile) The sending end of the write channel is kept.
ReconcileKeepingSender(r) ==
  LET gone == r.tracked \ r.up
  IN  [Told(r, gone \cap r.recipients) EXCEPT
        !.active = Without(@, gone), !.tracked = @ \ gone]

\* The end of the worker's loop: connections that the core dropped while it
\* handled the request, as far as they were members, lose their entries.
Reconcile(r) ==
  LET gone == r.tracked \ r.up
  IN  [Told(r, gone \cap r.recipients) EXCEPT
        !.recipients = @ \ gone, !.active = Without(@, gone), !.tracked = @ \ gone]

\* observe_connection: who is a member is compared with who was.
Observe(r, c) == [r EXCEPT !.tracked = IF c \in r.member THEN @ \cup {c} ELSE @ \ {c}]

-----------------------------------------------------------------------------
\* RegisterLifecycle
Register(r, c) ==
  IF c \notin r.up THEN Told(r, {c})
  ELSE Activated([r EXCEPT !.recipients = @ \cup {c}], c, {})

\* Command: Authenticate binds the connection to the credential's session.
CanAuthenticate(r, c) == c \in r.up /\ r.open
Authenticate(r, c) == [r EXCEPT !.bound = @ \cup {c}]

\* Command: JoinSession
Join(r, c) == Observe([r EXCEPT !.member = @ \cup {c}], c)

\* subscribe refuses a space that is subscribed to already.
CanSubscribe(r, c, s) == c \in r.member /\ s \notin r.subs[c]
CanSpawn(r) == Cardinality(DOMAIN r.ents) # MaxEntities

\* SubscribeAndSpawn: when the entity cannot be spawned the subscription stays.
SubscribeAndSpawn(r, c, s) ==
  LET v == [r EXCEPT !.subs[c] = @ \cup {s}]
      e == r.nextEntity
      u == [v EXCEPT !.ents = [x \in DOMAIN @ \cup {e} |->
                                 IF x = e THEN [owner |-> c, space |-> s] ELSE @[x]],
                     !.nextEntity = e + 1]
  IN  IF ~CanSubscribe(r, c, s) THEN r
      ELSE IF ~CanSpawn(r) THEN Reconcile(v)
      ELSE Then(Then(u, LAMBDA x : Distribute(x, <<EnteredMsg(s, e)>>, {c})), Reconcile)

\* ActivateSubscription, whatever has become of the connection.
Activate(r, c, s) == Activated(r, c, {s})

\* Command: Unsubscribe, with the queue's purge.
Unsubscribe(r, c, s) ==
  LET kept == SelectSeq(r.queue[c], LAMBDA m : m.space # s)
      cut  == {m.n : m \in ToSet(r.queue[c]) \ ToSet(kept)}
  IN  IF c \notin r.up THEN r
      ELSE Reconcile([r EXCEPT
             !.subs[c] = @ \ {s}, !.queue[c] = kept, !.routed[c] = @ \ cut,
             !.active = [x \in DOMAIN @ |-> IF x = c THEN @[x] \ {s} ELSE @[x]]])

\* Command: LeaveSession; its entities go, and the peers are told.
Leave(r, c) ==
  LET v == [CoreLost(r, c) EXCEPT !.up = r.up, !.bound = r.bound, !.routed = r.routed,
              !.active = [x \in DOMAIN @ |-> IF x = c THEN {} ELSE @[x]]]
      cut == {m.n : m \in ToSet(r.queue[c])}
  IN  IF c \notin r.member THEN r
      ELSE Then(Then(Observe([v EXCEPT !.routed[c] = @ \ cut], c),
                     LAMBDA u : Distribute(u, Farewells(r, OwnedBy(r, c)), {})),
                Reconcile)

\* (mutant of Transition) The source space is not told.
TransitionEnteringOnly(r, c, e, dst) ==
  Then(Then([r EXCEPT !.ents[e].space = dst],
            LAMBDA u : Distribute(u, <<EnteredMsg(dst, e)>>, {})),
       Reconcile)

\* Command: TransitionEntity, with distribute_transition.
Transition(r, c, e, dst) ==
  LET news == <<LeftMsg(r.ents[e].space, e), EnteredMsg(dst, e)>>
  IN  Then(Then([r EXCEPT !.ents[e].space = dst], LAMBDA u : Distribute(u, news, {})), Reconcile)
CanTransition(r, c, e, dst) ==
  /\ e \in OwnedBy(r, c) /\ r.ents[e].space # dst
  /\ {r.ents[e].space, dst} \subseteq r.subs[c]

RECURSIVE CoreLose(_, _)
CoreLose(r, cs) ==
  IF cs = <<>> THEN r ELSE Then(CoreLost(r, Head(cs)), LAMBDA u : CoreLose(u, Tail(cs)))

\* Command: Publish.  A subscriber whose queue takes nothing more is lost in the
\* core, and nobody is told which entities went with it.
Publish(r, c, s, n) ==
  LET to   == {x \in r.up : s \in r.subs[x]}
      slow == {x \in to : Len(r.queue[x]) = QueueCapacity}
      put  == [r EXCEPT
                !.queue  = [x \in Connections |-> IF x \in to \ slow THEN Append(@[x], Data(s, n))
                                                  ELSE @[x]],
                !.routed = [x \in Connections |-> IF x \in to \ slow THEN @[x] \cup {n} ELSE @[x]],
                !.evicted = @ \cup UNION {OwnedBy(r, x) : x \in slow}]
  IN  Then(CoreLose(put, SetToSeq(slow)), Reconcile)

\* (mutant of Drainable) Routing starts at subscribe, and so does the output.
DrainableAtOnce(r, c) == ToSet(r.queue[c])

\* Command: DrainOutbound.  Of a registered connection only the messages of
\* active subscriptions are taken.
Drainable(r, c) ==
  {m \in ToSet(r.queue[c]) : c \in r.recipients => m.space \in Active(r, c)}
Drained(r, c) == SelectSeq(r.queue[c], LAMBDA m : m \in Drainable(r, c))

Drain(r, c) ==
  LET v == IF c \in r.recipients THEN Activated(r, c, {}) ELSE r
  IN  [v EXCEPT !.queue[c] = SelectSeq(@, LAMBDA m : m \notin Drainable(r, c))]

\* (mutant of Lost) The connection keeps its place among the recipients.
LostKeepingSender(r, c) ==
  IF c \notin r.up THEN Then(Observe(r, c), Reconcile)
  ELSE Then(Then([CoreLost(r, c) EXCEPT !.active = Without(@, {c}),
                                        !.tracked = @ \ {c}],
                 LAMBDA u : Distribute(u, Farewells(r, OwnedBy(r, c)), {})),
            Reconcile)

\* Command: TransportLost.  For a connection the core no longer has it is an
\* error, and no entry goes.
Lost(r, c) ==
  IF c \notin r.up THEN Then(Observe(r, c), Reconcile)
  ELSE Then(Then([CoreLost(r, c) EXCEPT !.recipients = @ \ {c}, !.active = Without(@, {c}),
                                        !.tracked = @ \ {c}],
                 LAMBDA u : Distribute(u, Farewells(r, OwnedBy(r, c)), {})),
            Reconcile)

\* Managed: Delete.  The core loses every connection that is bound to the session,
\* and the worker drops their entries.
Revoked(r) ==
  LET drop(u) == [Told(u, r.bound \cap u.recipients) EXCEPT
                    !.recipients = @ \ r.bound, !.active = Without(@, r.bound),
                    !.tracked = @ \ r.bound]
  IN  Then(Then(CoreLose([r EXCEPT !.open = FALSE], SetToSortSeq(r.bound, <)), drop), Reconcile)

\* The worker stops: its recipients are told, and its sending ends are dropped.
Stopped(r) == [Told(r, r.recipients) EXCEPT !.running = FALSE, !.recipients = {}]

=============================================================================
