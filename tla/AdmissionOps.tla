---------------------------- MODULE AdmissionOps ----------------------------
(***************************************************************************)
(* The operations of AdmissionController (crates/woven-core/src/           *)
(* admission.rs) as functions of the controller's state.  The controller   *)
(* is single-owner and synchronous: an operation is one atomic step and    *)
(* its calls of expire_at, prune_terminal_at, apply_pending and promote_at *)
(* are part of it, so each operator below composes them in the code's      *)
(* order.                                                                  *)
(*                                                                         *)
(* Instants are used by the code only through their distance from `now`,   *)
(* so a deadline is kept as the time left until it, counted down by        *)
(* Elapse; a deadline has passed when it is 0.                             *)
(***************************************************************************)
EXTENDS Deques

CONSTANTS
  Principals,        \* PrincipalId
  Keys,              \* IdempotencyKey
  QueueEnabled,      \* QueuePolicy.enabled
  MaxDepth,          \* QueuePolicy.max_depth
  TicketTtl,         \* QueuePolicy.ticket_ttl
  OfferTtl,          \* QueuePolicy.offer_ttl
  HeartbeatTimeout,  \* QueuePolicy.heartbeat_timeout
  ReconnectGrace,    \* QueuePolicy.reconnect_grace
  Retention,         \* the 60 s for which a terminal ticket is kept
  TerminalCap,       \* the 1024 terminal tickets that are kept
  MaxTicket,         \* u64::MAX for next_ticket
  MaxLease           \* u64::MAX for next_lease

ASSUME PolicyAssumption ==
  /\ QueueEnabled \in BOOLEAN
  /\ {MaxDepth, TicketTtl, OfferTtl, HeartbeatTimeout, ReconnectGrace,
      Retention, TerminalCap, MaxTicket, MaxLease} \subseteq Nat

NoTarget == -1       \* pending_target = None
NoTicket == 0        \* absent from idempotency_index; ticket ids start at 1
NoLease  == 0        \* the ticket carries no lease id; lease ids start at 1

TicketStates == {"Waiting", "Offered", "Expired", "Cancelled", "Admitted"}

\* TicketEntry.  ttl and beat are the time left of a Waiting ticket, left the
\* time left of an offer or, once the ticket is terminal, of its retention.
TicketEntry ==
  [principal : Principals, key : Keys, state : TicketStates,
   ttl : Nat, beat : Nat, left : Nat, lease : Nat]

Reservation == [principal : Principals, left : Nat]

\* AdmissionController, with its BTreeMaps as functions on their key sets.
ControllerType(c) ==
  /\ c \in [allocated : Nat, pending : Nat \cup {NoTarget}, revision : Nat,
            nextTicket : Nat \ {0}, nextLease : Nat \ {0},
            active       : [DOMAIN c.active -> Principals],
            reservations : [DOMAIN c.reservations -> Reservation],
            tickets      : [DOMAIN c.tickets -> TicketEntry],
            waiting      : Seq(Nat),
            index        : [Principals \X Keys -> Nat]]
  /\ \A S \in {DOMAIN c.active, DOMAIN c.reservations, DOMAIN c.tickets} :
       S \subseteq Nat /\ IsFiniteSet(S)

NewController(allocated, revision) ==
  [allocated    |-> allocated,
   pending      |-> NoTarget,
   revision     |-> revision,
   nextTicket   |-> 1,
   nextLease    |-> 1,
   active       |-> [l \in {} |-> 0],
   reservations |-> [l \in {} |-> 0],
   tickets      |-> [i \in {} |-> 0],
   waiting      |-> <<>>,
   index        |-> [pk \in Principals \X Keys |-> NoTicket]]

-----------------------------------------------------------------------------
Put(f, x, v)  == [y \in DOMAIN f \cup {x} |-> IF y = x THEN v ELSE f[y]]
Drop(f, S)    == [y \in DOMAIN f \ S |-> f[y]]

IsLive(t)     == t.state \in {"Waiting", "Offered"}
InState(c, s) == {i \in DOMAIN c.tickets : c.tickets[i].state = s}
Live(c)       == {i \in DOMAIN c.tickets : IsLive(c.tickets[i])}
KeyOf(t)      == <<t.principal, t.key>>

\* occupied(): permits held by active leases, reconnect reservations, offers.
Occupied(c) ==
  Cardinality(DOMAIN c.active) + Cardinality(DOMAIN c.reservations)
    + Cardinality(InState(c, "Offered"))

\* admission_limit(): a pending decrease already bounds new admissions.
Limit(c) == IF c.pending = NoTarget THEN c.allocated ELSE c.pending

\* A ticket reaches a terminal state: terminal_at = now.
Ended(t, s, lease) ==
  [t EXCEPT !.state = s, !.ttl = 0, !.beat = 0, !.left = Retention, !.lease = lease]

\* idempotency_index.remove for the key of every ticket in ids.
Unindex(c, ids) ==
  [pk \in Principals \X Keys |->
     IF \E i \in ids : KeyOf(c.tickets[i]) = pk THEN NoTicket ELSE c.index[pk]]

\* prune_terminal_at: terminal tickets go after Retention, and the oldest
\* (by terminal_at, then id) go when more than TerminalCap are kept.
PruneTerminal(c) ==
  LET kept     == {i \in DOMAIN c.tickets : IsLive(c.tickets[i]) \/ c.tickets[i].left > 0}
      terminal == kept \ Live(c)
      Newer(i) == {j \in terminal : \/ c.tickets[j].left > c.tickets[i].left
                                    \/ c.tickets[j].left = c.tickets[i].left /\ j > i}
      excess   == {i \in terminal : Cardinality(Newer(i)) >= TerminalCap}
  IN  [c EXCEPT !.tickets = [i \in kept \ excess |-> c.tickets[i]],
                !.index   = [pk \in Principals \X Keys |->
                               IF c.index[pk] \in kept \ excess THEN c.index[pk] ELSE NoTicket]]

\* (mutant of ApplyPending) `<` for `<=`.
ApplyPendingStrict(c) ==
  IF c.pending # NoTarget /\ Occupied(c) < c.pending
  THEN [c EXCEPT !.allocated = c.pending, !.pending = NoTarget]
  ELSE c

\* apply_pending: a decrease takes effect once occupancy has drained to it.
ApplyPending(c) ==
  IF c.pending # NoTarget /\ Occupied(c) <= c.pending
  THEN [c EXCEPT !.allocated = c.pending, !.pending = NoTarget]
  ELSE c

\* promote_at pops the queue while a permit is free.  Position i is popped iff
\* fewer offers than free permits were made before it; a popped id whose ticket
\* is gone or no longer Waiting gets no offer.
Promote(c) ==
  LET free    == IF Occupied(c) < Limit(c) THEN Limit(c) - Occupied(c) ELSE 0
      eligible == Positions(c.waiting, InState(c, "Waiting"))
      popped  == {i \in DOMAIN c.waiting : Cardinality({j \in eligible : j < i}) < free}
      offered == {c.waiting[i] : i \in popped \cap eligible}
  IN  [c EXCEPT
        !.waiting = SubSeq(@, Cardinality(popped) + 1, Len(@)),
        !.tickets = [i \in DOMAIN c.tickets |->
           IF i \in offered
           THEN [c.tickets[i] EXCEPT !.state = "Offered", !.ttl = 0, !.beat = 0,
                                      !.left = OfferTtl]
           ELSE c.tickets[i]]]

Settle(c) == Promote(ApplyPending(c))

\* (mutant of ExpireOverdue) Offers do not time out.
ExpireWaitingOnly(c) ==
  LET overdue == {i \in InState(c, "Waiting") : c.tickets[i].ttl = 0 \/ c.tickets[i].beat = 0}
  IN  [c EXCEPT
        !.reservations = Drop(@, {l \in DOMAIN @ : @[l].left = 0}),
        !.tickets = [i \in DOMAIN @ |->
                       IF i \in overdue THEN Ended(@[i], "Expired", NoLease) ELSE @[i]],
        !.index   = Unindex(c, overdue),
        !.waiting = Retain(@, InState(c, "Waiting") \ overdue)]

\* The first part of expire_at: overdue reservations, tickets and offers end.
ExpireOverdue(c) ==
  LET overdue == {i \in DOMAIN c.tickets :
                    LET t == c.tickets[i]
                    IN  \/ t.state = "Waiting" /\ (t.ttl = 0 \/ t.beat = 0)
                        \/ t.state = "Offered" /\ t.left = 0}
  IN  [c EXCEPT
        !.reservations = Drop(@, {l \in DOMAIN @ : @[l].left = 0}),
        !.tickets = [i \in DOMAIN @ |->
                       IF i \in overdue THEN Ended(@[i], "Expired", NoLease) ELSE @[i]],
        !.index   = Unindex(c, overdue),
        !.waiting = Retain(@, InState(c, "Waiting") \ overdue)]

\* (mutant of Expire) The permits that expiry frees are not offered.
ExpireWithoutPromote(c) == ApplyPending(PruneTerminal(ExpireOverdue(c)))

\* expire_at, which is also all of maintain_at and of queue_status_at.
Expire(c) == Settle(PruneTerminal(ExpireOverdue(c)))

-----------------------------------------------------------------------------

\* admit: a fresh lease id becomes active.
Admit(c, p) ==
  [c EXCEPT !.active = Put(@, c.nextLease, p), !.nextLease = @ + 1]

\* enqueue: a fresh Waiting ticket at the back of the queue.
Enqueue(c, p, k) ==
  [c EXCEPT !.tickets = Put(@, c.nextTicket,
                          [principal |-> p, key |-> k, state |-> "Waiting",
                           ttl |-> TicketTtl, beat |-> HeartbeatTimeout,
                           left |-> 0, lease |-> NoLease]),
            !.index = [c.index EXCEPT ![<<p, k>>] = c.nextTicket],
            !.waiting = Append(@, c.nextTicket),
            !.nextTicket = @ + 1]

\* has_queued_principal
HasQueued(c, p) == \E i \in Live(c) : c.tickets[i].principal = p

\* The JoinDecision that request_join_at takes on the expired state c: its
\* early returns in order.  The id is the ticket's or the fresh lease's.
JoinDecision(c, p, k) ==
  LET Reply(kind, id) == [kind |-> kind, id |-> id]
      known == c.index[<<p, k>>]
  IN  IF c.nextLease = MaxLease     THEN Reply("QueueFull", 0)
      ELSE IF Limit(c) = 0          THEN Reply("Paused", 0)
      ELSE IF known \in Live(c)     THEN Reply("Queued", known)
      ELSE IF HasQueued(c, p)       THEN Reply("AlreadyQueued", 0)
      ELSE IF Occupied(c) < Limit(c) THEN Reply("Admitted", c.nextLease)
      ELSE IF ~QueueEnabled         THEN Reply("QueueDisabled", 0)
      ELSE IF Cardinality(Live(c)) >= MaxDepth \/ c.nextTicket = MaxTicket
                                    THEN Reply("QueueFull", 0)
      ELSE Reply("Queued", c.nextTicket)

\* request_join_at
RequestJoin(c, p, k) ==
  LET e == Expire(c)
      d == JoinDecision(e, p, k)
  IN  IF d.kind = "Admitted" THEN Admit(e, p)
      ELSE IF d.kind = "Queued" /\ d.id = e.nextTicket THEN Enqueue(e, p, k)
      ELSE e

\* heartbeat_at
Heartbeat(c, i) ==
  LET e == Expire(c)
  IN  IF i \in InState(e, "Waiting")
      THEN [e EXCEPT !.tickets =
              Put(@, i, [e.tickets[i] EXCEPT !.beat = HeartbeatTimeout])]
      ELSE e

\* cancel_at: a waiting or offered ticket is cancelled and its permit, if it
\* was offered one, goes to the queue.
Cancel(c, i) ==
  LET e == Expire(c)
  IN  IF i \in Live(e)
      THEN Settle(PruneTerminal(
             [e EXCEPT !.tickets = Put(@, i, Ended(e.tickets[i], "Cancelled", NoLease)),
                       !.index = Unindex(e, {i}),
                       !.waiting = Retain(@, Nat \ {i})]))
      ELSE e

\* cancel_principal_at.  A principal has at most one live ticket
\* (OneLiveTicket), so the code's loop runs at most once; without one it does
\* not even expire.
CancelPrincipal(c, p) ==
  LET ids == {i \in Live(c) : c.tickets[i].principal = p}
  IN  IF ids = {} THEN c ELSE Cancel(c, CHOOSE i \in ids : TRUE)

\* claim_offer_at: the offer's permit becomes a lease.
ClaimOffer(c, i) ==
  LET e == Expire(c)
  IN  IF i \in InState(e, "Offered")
      THEN Admit(PruneTerminal(
                   [e EXCEPT !.tickets = Put(@, i, Ended(e.tickets[i], "Admitted", e.nextLease)),
                             !.index = Unindex(e, {i})]),
                 e.tickets[i].principal)
      ELSE e

\* has_active_lease
HasActiveLease(c, l, p) == l \in DOMAIN c.active /\ c.active[l] = p

\* (mutant of Release) The freed permit is not offered to the queue.
ReleaseWithoutPromote(c, l, p, reason) ==
  IF HasActiveLease(c, l, p)
  THEN ApplyPending([c EXCEPT
         !.active = Drop(@, {l}),
         !.reservations = IF reason = "Unexpected" /\ ReconnectGrace # 0
                          THEN Put(@, l, [principal |-> p, left |-> ReconnectGrace])
                          ELSE @])
  ELSE c

\* release_at, which does not expire first.
Release(c, l, p, reason) ==
  IF HasActiveLease(c, l, p)
  THEN Settle([c EXCEPT
         !.active = Drop(@, {l}),
         !.reservations = IF reason = "Unexpected" /\ ReconnectGrace # 0
                          THEN Put(@, l, [principal |-> p, left |-> ReconnectGrace])
                          ELSE @])
  ELSE c

\* (mutant of RollbackClaim) The ticket is forgotten, the lease stays active.
RollbackTicketOnly(c, i, l, p) ==
  IF HasActiveLease(c, l, p) THEN [c EXCEPT !.tickets = Drop(@, {i})] ELSE c

\* rollback_claim_at: a claim that could not be bound to a membership is
\* forgotten, ticket and lease together; a pruned ticket is no obstacle.
RollbackClaim(c, i, l, p) ==
  IF ~HasActiveLease(c, l, p) THEN c
  ELSE IF i \notin DOMAIN c.tickets THEN Release(c, l, p, "Intentional")
  ELSE IF /\ c.tickets[i].principal = p
          /\ c.tickets[i].state = "Admitted"
          /\ c.tickets[i].lease = l
       THEN Release([c EXCEPT
                       !.tickets = Drop(@, {i}),
                       !.index = [pk \in Principals \X Keys |->
                                    IF pk = KeyOf(c.tickets[i]) /\ @[pk] = i
                                    THEN NoTicket ELSE @[pk]]],
                    l, p, "Intentional")
  ELSE c

\* (mutant of Resume) The reservation outlives the resumption.
ResumeKeepsReservation(c, l, p) ==
  LET e == Expire(c)
  IN  IF l \in DOMAIN e.reservations /\ e.reservations[l].principal = p
      THEN [e EXCEPT !.active = Put(@, l, p)]
      ELSE e

\* resume_at: the holder's reservation becomes its lease again.
Resume(c, l, p) ==
  LET e == Expire(c)
  IN  IF l \in DOMAIN e.reservations /\ e.reservations[l].principal = p
      THEN [e EXCEPT !.reservations = Drop(@, {l}), !.active = Put(@, l, p)]
      ELSE e

\* (mutant of ApplyCapacity) A decrease takes effect at once.
ApplyCapacityAtOnce(c, allocated, revision) ==
  IF revision <= c.revision THEN c
  ELSE Promote([c EXCEPT !.revision = revision, !.allocated = allocated,
                         !.pending = NoTarget])

\* apply_capacity_at, which does not expire first either.
ApplyCapacity(c, allocated, revision) ==
  IF revision <= c.revision THEN c
  ELSE IF allocated < Occupied(c)
  THEN [c EXCEPT !.revision = revision, !.pending = allocated]
  ELSE Promote([c EXCEPT !.revision = revision, !.allocated = allocated,
                         !.pending = NoTarget])

\* One unit of time passes.
Elapse(c) ==
  LET Less(n) == IF n = 0 THEN 0 ELSE n - 1
  IN  [c EXCEPT
        !.reservations = [l \in DOMAIN c.reservations |->
           [c.reservations[l] EXCEPT !.left = Less(c.reservations[l].left)]],
        !.tickets = [i \in DOMAIN c.tickets |->
           [c.tickets[i] EXCEPT !.ttl  = Less(c.tickets[i].ttl),
                                !.beat = Less(c.tickets[i].beat),
                                !.left = Less(c.tickets[i].left)]]]

=============================================================================
