-------------------------- MODULE SessionAdmission --------------------------
(***************************************************************************)
(* One capacity-managed session of WovenCore (crates/woven-core/src/       *)
(* core.rs): the AdmissionController of AdmissionOps together with the     *)
(* records that tie its leases and tickets to connections                  *)
(* (pending_admissions, admission_leases, admission_tickets) and to the    *)
(* session's membership.  The worker owns the core, so a command is one    *)
(* step.                                                                   *)
(*                                                                         *)
(* Of the sessions a connection joins elsewhere only the slots they take   *)
(* of max_memberships_per_connection matter here.                          *)
(***************************************************************************)
EXTENDS AdmissionOps

CONSTANTS
  Connections,      \* ConnectionId; an id is never used twice
  Nobody,           \* not authenticated
  MaxMemberships,   \* CoreConfig.max_memberships_per_connection
  RetainHistory,    \* the session has had a publish ceiling: retain_after_leave
  Allocations,      \* the values of CapacityUpdate.allocated_ccu
  MaxRevision       \* bound on CapacityUpdate.revision

ASSUME SessionAssumption ==
  /\ Nobody \notin Principals
  /\ MaxMemberships \in Nat \ {0}
  /\ RetainHistory \in BOOLEAN
  /\ Allocations \subseteq Nat
  /\ MaxRevision \in Nat

\* What the core keeps of a connection for this session: `pending` and `bound`
\* are its entries of pending_admissions and admission_leases, `ticket` that of
\* admission_tickets; `limiter` tells whether session_rate_limiters has the
\* session; `elsewhere` and `detached` count its other memberships and the
\* rate limiters it retains of sessions it has left.
Link ==
  [state : {"new", "up", "gone"}, principal : Principals \cup {Nobody},
   member : BOOLEAN, pending : Nat, bound : Nat, ticket : Nat,
   limiter : BOOLEAN, elsewhere : 0..MaxMemberships, detached : 0..MaxMemberships]

NewLink ==
  [state |-> "new", principal |-> Nobody, member |-> FALSE, pending |-> NoLease,
   bound |-> NoLease, ticket |-> NoTicket, limiter |-> FALSE, elsewhere |-> 0,
   detached |-> 0]

VARIABLES
  ctl,     \* WovenCore.admissions of the session
  link     \* [Connections -> Link]

vars == <<ctl, link>>

Authenticated(c) == link[c].state = "up" /\ link[c].principal # Nobody

Init ==
  /\ \E a \in Allocations : ctl = NewController(a, 0)
  /\ link = [c \in Connections |-> NewLink]

-----------------------------------------------------------------------------
\* Connections.
TransportConnected(c) ==
  /\ link[c].state = "new"
  /\ link' = [link EXCEPT ![c].state = "up"]
  /\ UNCHANGED ctl

Authenticate(c, p) ==
  /\ link[c].state = "up" /\ link[c].principal = Nobody
  /\ link' = [link EXCEPT ![c].principal = p]
  /\ UNCHANGED ctl

\* What the pruning of expired histories may leave of those of link l: how many
\* detached ones, and whether the session's own, which a member always keeps.
Prunings(l) == (0..l.detached) \X {own \in BOOLEAN : /\ own => l.limiter
                                                     /\ l.member => own}

\* join_session of a session without admission, whose history the connection
\* retains or not.
JoinElsewhere(c, retained) ==
  LET l == link[c]
  IN  /\ Authenticated(c)
      /\ l.elsewhere + (IF l.member THEN 1 ELSE 0) < MaxMemberships
      /\ \E pruning \in Prunings(l) :
           LET d     == pruning[1]
               slots == l.elsewhere + d + (IF pruning[2] THEN 1 ELSE 0)
           IN  /\ IF retained THEN d > 0 ELSE slots < MaxMemberships
               /\ link' = [link EXCEPT ![c] =
                     [l EXCEPT !.elsewhere = @ + 1, !.limiter = pruning[2],
                               !.detached = IF retained THEN d - 1 ELSE d]]
      /\ UNCHANGED ctl

\* leave_session of such a session
LeaveElsewhere(c, retained) ==
  /\ Authenticated(c) /\ link[c].elsewhere > 0
  /\ link' = [link EXCEPT ![c].elsewhere = @ - 1,
                          ![c].detached = IF retained THEN @ + 1 ELSE @]
  /\ UNCHANGED ctl

-----------------------------------------------------------------------------

\* join_session_unchecked_admission_at on the link l.  The pruning of expired
\* histories leaves d detached ones, and the session's own if own is true; it
\* happens whether or not the join then succeeds.
JoinUnchecked(l, d, own) ==
  IF l.member \/ l.elsewhere = MaxMemberships THEN l
  ELSE IF own \/ l.elsewhere + d < MaxMemberships
  THEN [l EXCEPT !.detached = d, !.limiter = TRUE, !.member = TRUE]
  ELSE [l EXCEPT !.detached = d, !.limiter = FALSE]

\* join_session_with_admission_at of connection c, whose link would be l, with
\* the controller at k: its link afterwards.
JoinWithAdmission(k, c, l, lease, pruning) ==
  LET joined == JoinUnchecked(l, pruning[1], pruning[2])
  IN  IF \/ l.bound # NoLease
         \/ l.pending # lease
         \/ ~HasActiveLease(k, lease, l.principal)
         \/ \E o \in Connections \ {c} : link[o].bound = lease
      THEN l
      ELSE IF joined.member THEN [joined EXCEPT !.pending = NoLease, !.bound = lease]
      ELSE joined

JoinSessionWithAdmission(c) ==
  /\ Authenticated(c) /\ link[c].pending # NoLease
  /\ \E pruning \in Prunings(link[c]) :
       link' = [link EXCEPT ![c] = JoinWithAdmission(ctl, c, @, link[c].pending, pruning)]
  /\ UNCHANGED ctl

-----------------------------------------------------------------------------

\* request_session_admission_at gets to the controller only for a connection
\* without lease or ticket and with a free slot.
AsksController(l) ==
  /\ l.bound = NoLease /\ l.pending = NoLease
  /\ l.ticket = NoTicket
  /\ l.elsewhere + (IF l.member THEN 1 ELSE 0) < MaxMemberships

\* The link after the controller's decision; a ticket that another connection
\* already holds (same principal and key) is refused.
AfterDecision(c, l, d) ==
  IF d.kind = "Admitted" THEN [l EXCEPT !.pending = d.id]
  ELSE IF d.kind = "Queued" /\ \A o \in Connections \ {c} : link[o].ticket # d.id
  THEN [l EXCEPT !.ticket = d.id]
  ELSE l

RequestSessionAdmission(c, k) ==
  LET l == link[c]
  IN  /\ Authenticated(c) /\ AsksController(l)
      /\ ctl' = RequestJoin(ctl, l.principal, k)
      /\ link' = [link EXCEPT ![c] =
                    AfterDecision(c, l, JoinDecision(Expire(ctl), l.principal, k))]

\* admit_and_join_session_at: the request and the join are one worker turn, and
\* a lease whose join fails is released again.
AdmitAndJoin(c, k) ==
  LET l     == link[c]
      d     == JoinDecision(Expire(ctl), l.principal, k)
      k1    == IF AsksController(l) THEN RequestJoin(ctl, l.principal, k) ELSE ctl
      l1    == IF AsksController(l) THEN AfterDecision(c, l, d) ELSE l
      lease == l1.pending
  IN  /\ Authenticated(c)
      /\ \E pruning \in Prunings(l1) :
           LET l2 == JoinWithAdmission(k1, c, l1, lease, pruning)
           IN  IF lease # NoLease /\ l2.bound = NoLease
               THEN /\ ctl' = Release(k1, lease, l.principal, "Intentional")
                    /\ link' = [link EXCEPT ![c] = [l2 EXCEPT !.pending = NoLease]]
               ELSE /\ ctl' = k1
                    /\ link' = [link EXCEPT ![c] = IF lease # NoLease THEN l2 ELSE l1]

-----------------------------------------------------------------------------
\* session_queue_at looks at a ticket only for the connection that holds it
\* (ticket_owned_by); otherwise the answer is Missing.
OwnsTicket(c, i) ==
  /\ Authenticated(c) /\ link[c].ticket = i
  /\ i \in DOMAIN ctl.tickets /\ ctl.tickets[i].principal = link[c].principal

QueueStatus(c, i)    == OwnsTicket(c, i) /\ ctl' = Expire(ctl) /\ UNCHANGED link
QueueHeartbeat(c, i) == OwnsTicket(c, i) /\ ctl' = Heartbeat(ctl, i) /\ UNCHANGED link
QueueCancel(c, i)    == OwnsTicket(c, i) /\ ctl' = Expire(Cancel(ctl, i)) /\ UNCHANGED link

\* The claim of an offer and the join are one worker turn; when the join fails
\* the claim is rolled back and the connection forgets its ticket.  MaxLease
\* bounds the lease ids.
QueueClaim(c, i) ==
  LET e  == Expire(ctl)
      k1 == ClaimOffer(ctl, i)
      l1 == [link[c] EXCEPT !.pending = e.nextLease]
  IN  /\ OwnsTicket(c, i) /\ ctl.nextLease < MaxLease
      /\ IF i \notin InState(e, "Offered")
         THEN ctl' = Expire(k1) /\ UNCHANGED link
         ELSE \E pruning \in Prunings(l1) :
                LET l2 == JoinWithAdmission(k1, c, l1, e.nextLease, pruning)
                IN  IF l2.bound = e.nextLease
                    THEN ctl' = Expire(k1) /\ link' = [link EXCEPT ![c] = l2]
                    ELSE /\ ctl' = RollbackClaim(k1, i, e.nextLease, l2.principal)
                         /\ link' = [link EXCEPT ![c] =
                                       [l2 EXCEPT !.pending = NoLease, !.ticket = NoTicket]]

-----------------------------------------------------------------------------
\* The answers of crates/woven-transport/src/admission.rs.  Remaining lifetimes
\* are never told, so that those fields are left out.

\* (mutant of Status) The first in the queue has position 0.
StatusFromZero(k, i) ==
  LET before == {j \in Positions(k.waiting, InState(k, "Waiting")) :
                   \E h \in Positions(k.waiting, {i}) : j < h}
  IN  IF i \notin DOMAIN k.tickets THEN [state |-> "Missing", position |-> 0]
      ELSE [state |-> k.tickets[i].state,
            position |-> IF k.tickets[i].state = "Waiting" THEN Cardinality(before) ELSE 0]

\* AdmissionController::status: the position among those that still wait, 0 for
\* a ticket that waits outside the deque.
Status(k, i) ==
  LET upTo == {j \in Positions(k.waiting, InState(k, "Waiting")) :
                 \E h \in Positions(k.waiting, {i}) : j <= h}
  IN  IF i \notin DOMAIN k.tickets THEN [state |-> "Missing", position |-> 0]
      ELSE [state |-> k.tickets[i].state,
            position |-> IF k.tickets[i].state = "Waiting" THEN Cardinality(upTo) ELSE 0]

queue_update(i, status) ==
  [ticket |-> i, state |-> status.state, position |-> status.position,
   poll |-> status.state \in {"Waiting", "Offered"}]

admission_result(d) ==
  LET status == IF d.kind \in {"Admitted", "Queued", "Paused"} THEN d.kind ELSE "Rejected"
  IN  [status |-> status, rejection |-> IF status = "Rejected" THEN d.kind ELSE "None",
       ticket |-> IF status = "Queued" THEN {d.id} ELSE {},
       poll |-> status \in {"Queued", "Paused"}]

\* validate_managed, which Codec::encode applies to both; the writer closes the
\* connection over an envelope that it cannot encode.
ValidResult(r) ==
  /\ (r.status = "Rejected") = (r.rejection # "None")
  /\ (r.status = "Queued") = (r.ticket # {}) /\ NoTicket \notin r.ticket
  /\ r.poll => r.status \in {"Queued", "Paused"}

ValidUpdate(u) ==
  /\ u.ticket # NoTicket
  /\ (u.state = "Waiting") = (u.position # 0)
  /\ u.poll => u.state \in {"Waiting", "Offered"}

-----------------------------------------------------------------------------
\* release_session_admission
ReleaseBound(k, l, reason) ==
  IF l.bound = NoLease THEN k ELSE Release(k, l.bound, l.principal, reason)

LeaveSession(c) ==
  /\ Authenticated(c) /\ link[c].member
  /\ ctl' = ReleaseBound(ctl, link[c], "Intentional")
  /\ link' = [link EXCEPT ![c].bound = NoLease, ![c].ticket = NoTicket,
                          ![c].member = FALSE, ![c].limiter = RetainHistory]

\* (mutant of TransportLost) The ticket of a waiter is not cancelled.
TransportLostKeepsTicket(c) ==
  LET l  == link[c]
      k1 == IF l.member THEN ReleaseBound(ctl, l, "Unexpected") ELSE ctl
      k2 == IF l.pending = NoLease THEN k1 ELSE Release(k1, l.pending, l.principal, "Intentional")
  IN  /\ l.state = "up"
      /\ ctl' = k2
      /\ link' = [link EXCEPT ![c] = [NewLink EXCEPT !.state = "gone"]]

\* transport_lost: the bound lease is released with reconnect grace, a pending
\* one without, and the ticket is cancelled.
TransportLost(c) ==
  LET l  == link[c]
      k1 == IF l.member THEN ReleaseBound(ctl, l, "Unexpected") ELSE ctl
      k2 == IF l.pending = NoLease THEN k1 ELSE Release(k1, l.pending, l.principal, "Intentional")
      k3 == IF l.ticket = NoTicket THEN k2 ELSE Cancel(k2, l.ticket)
  IN  /\ l.state = "up"
      /\ ctl' = k3
      /\ link' = [link EXCEPT ![c] = [NewLink EXCEPT !.state = "gone"]]

ApplySessionCapacity(a, r) == ctl' = ApplyCapacity(ctl, a, r) /\ UNCHANGED link
MaintainAdmission          == ctl' = Expire(ctl) /\ UNCHANGED link
Tick                       == ctl' = Elapse(ctl) /\ UNCHANGED link

Next ==
  \/ \E c \in Connections :
       \/ TransportConnected(c) \/ TransportLost(c)
       \/ \E p \in Principals : Authenticate(c, p)
       \/ \E retained \in BOOLEAN : JoinElsewhere(c, retained) \/ LeaveElsewhere(c, retained)
       \/ \E k \in Keys : RequestSessionAdmission(c, k) \/ AdmitAndJoin(c, k)
       \/ JoinSessionWithAdmission(c)
       \/ \E i \in 1..(MaxTicket - 1) :
            QueueStatus(c, i) \/ QueueHeartbeat(c, i) \/ QueueCancel(c, i) \/ QueueClaim(c, i)
       \/ LeaveSession(c)
  \/ \E a \in Allocations, r \in 1..MaxRevision : ApplySessionCapacity(a, r)
  \/ MaintainAdmission
  \/ Tick

Spec == Init /\ [][Next]_vars

-----------------------------------------------------------------------------
Leases(c) == {link[c].pending, link[c].bound} \ {NoLease}

\* The controller and the connections' records have the code's types.
TypeOK == ControllerType(ctl) /\ link \in [Connections -> Link]

\* docs/managed-sessions.md: joins fail "without joining or leaking an admission
\* lease".  Every active lease belongs to exactly one connection that is up, of
\* the lease's principal: none is leaked when a join fails, a claim is rolled
\* back or a connection is lost, and none is shared.
LeasesAccounted ==
  /\ DOMAIN ctl.active = UNION {Leases(c) : c \in Connections}
  /\ \A c \in Connections : \A l \in Leases(c) :
       /\ HasActiveLease(ctl, l, link[c].principal)
       /\ \A o \in Connections \ {c} : l \notin Leases(o)

\* docs/managed-sessions.md: "no compatibility path bypasses admission".  The
\* members of the session are exactly the holders of a bound lease, so there
\* are never more of them than the allocation.
MembersHoldLeases ==
  /\ \A c \in Connections : link[c].member <=> link[c].bound # NoLease
  /\ Cardinality({c \in Connections : link[c].member}) <= ctl.allocated

\* docs/managed-sessions.md: "One connection has at most one live ticket/lease
\* for its scope."
OneClaimPerConnection ==
  \A c \in Connections :
    Cardinality(Leases(c) \X {"lease"} \cup ({link[c].ticket} \cap Live(ctl)) \X {"ticket"}) <= 1

\* docs/managed-sessions.md: "Disconnected waiters are cancelled."  A live ticket
\* is held by exactly one connection that is up, of the ticket's principal.
WaitersConnected ==
  \A i \in Live(ctl) :
    \E c \in Connections :
      /\ link[c].ticket = i /\ link[c].principal = ctl.tickets[i].principal
      /\ \A o \in Connections \ {c} : link[o].ticket # i

\* A connection uses at most max_memberships_per_connection slots, counting
\* memberships and retained histories.
SlotsBounded ==
  \A c \in Connections :
    LET l == link[c]
    IN  l.elsewhere + l.detached + (IF l.limiter THEN 1 ELSE 0) <= MaxMemberships

\* transport admission.rs, sanitized_results_encode_for_every_state, for the
\* states the queue reaches: whatever a connection asks, the answer can be
\* encoded.  Above all a ticket that waits has its place in the queue, and a
\* place of its own; otherwise asking for it would cost the waiter the
\* connection.
AnswersEncodable ==
  LET e == Expire(ctl)
  IN  \A c \in Connections : Authenticated(c) =>
        /\ \A k \in Keys :
             AsksController(link[c]) => ValidResult(admission_result(JoinDecision(e, link[c].principal, k)))
        /\ link[c].ticket # NoTicket =>
             /\ ValidUpdate(queue_update(link[c].ticket, Status(e, link[c].ticket)))
             /\ \A o \in Connections \ {c} :
                  Status(e, link[c].ticket).position = 0
                    \/ Status(e, link[c].ticket).position # Status(e, link[o].ticket).position

\* docs/admission-and-usage.md: "Repeating a request with the same key returns
\* the existing queue state for that ticket."  The core answers Queued with the
\* ticket it remembers for the connection; that ticket is still in the queue.
QueuedAnswerIsCurrent ==
  \A c \in Connections :
    Authenticated(c) /\ Leases(c) = {} /\ link[c].ticket # NoTicket
      => link[c].ticket \in Live(ctl)

\* What a connection holds is accounted for on both sides, whichever of claim,
\* join, leave and loss fails or comes first: every lease has one holder, the
\* members are the holders of bound leases, a connection has one claim, and its
\* memberships and retained histories fit its slots.
BindingsAccounted ==
  TypeOK /\ LeasesAccounted /\ MembersHoldLeases /\ OneClaimPerConnection /\ SlotsBounded

=============================================================================
