------------------------ MODULE AdmissionController -------------------------
(***************************************************************************)
(* One session's AdmissionController (crates/woven-core/src/admission.rs): *)
(* the worker calls its operations one at a time, in any order and with    *)
(* any ticket, lease and principal, while time passes between calls.       *)
(***************************************************************************)
EXTENDS AdmissionOps

CONSTANTS
  Allocations,       \* the values of CapacityUpdate.allocated_ccu
  MaxRevision        \* bound on CapacityUpdate.revision

ASSUME CapacityAssumption ==
  /\ Allocations \subseteq Nat
  /\ MaxRevision \in Nat

VARIABLE ctl         \* the controller

TicketIds == 1..(MaxTicket - 1)   \* the ids that next_ticket and next_lease
LeaseIds  == 1..(MaxLease - 1)    \* can have issued

Init == \E a \in Allocations : ctl = NewController(a, 0)

RequestJoinAt(p, k)     == ctl' = RequestJoin(ctl, p, k)
JoinWithoutKey          == ctl' = Expire(ctl)
QueueStatusAt           == ctl' = Expire(ctl)
MaintainAt              == ctl' = Expire(ctl)
HeartbeatAt(i)          == ctl' = Heartbeat(ctl, i)
CancelAt(i)             == ctl' = Cancel(ctl, i)
CancelPrincipalAt(p)    == ctl' = CancelPrincipal(ctl, p)
ReleaseAt(l, p, reason) == ctl' = Release(ctl, l, p, reason)
RollbackClaimAt(i, l, p) == ctl' = RollbackClaim(ctl, i, l, p)
ResumeAt(l, p)          == ctl' = Resume(ctl, l, p)
ApplyCapacityAt(a, r)   == ctl' = ApplyCapacity(ctl, a, r)
Tick                    == ctl' = Elapse(ctl)

\* The guard is the bound MaxLease: claim_offer_at itself does not look for
\* the end of the lease ids, which takes 2^64 admissions to reach.
ClaimOfferAt(i) ==
  /\ ctl.nextLease < MaxLease
  /\ ctl' = ClaimOffer(ctl, i)

Next ==
  \/ \E p \in Principals, k \in Keys : RequestJoinAt(p, k)
  \/ JoinWithoutKey
  \/ QueueStatusAt
  \/ MaintainAt
  \/ \E i \in TicketIds : HeartbeatAt(i) \/ CancelAt(i) \/ ClaimOfferAt(i)
  \/ \E p \in Principals : CancelPrincipalAt(p)
  \/ \E l \in LeaseIds, p \in Principals, reason \in {"Intentional", "Unexpected"} :
       ReleaseAt(l, p, reason)
  \/ \E i \in TicketIds, l \in LeaseIds, p \in Principals : RollbackClaimAt(i, l, p)
  \/ \E l \in LeaseIds, p \in Principals : ResumeAt(l, p)
  \/ \E a \in Allocations, r \in 1..MaxRevision : ApplyCapacityAt(a, r)
  \/ Tick

Spec == Init /\ [][Next]_ctl

-----------------------------------------------------------------------------
\* The controller is a record of the code's fields with the code's types.
TypeOK == ControllerType(ctl)

\* Permits never exceed the allocation (active leases, reconnect reservations
\* and offers together, across claims, resumes and capacity changes), and a
\* decrease is pending exactly as long as more permits than its target are out.
PermitsWithinAllocation ==
  /\ Occupied(ctl) <= ctl.allocated
  /\ ctl.pending # NoTarget => ctl.pending < Occupied(ctl)

\* No permit is idle while somebody waits: every operation that frees a permit
\* or raises the limit has promoted the queue before it returns.
WorkConserving == ctl.waiting # <<>> => Occupied(ctl) >= Limit(ctl)

\* The three records of the queue agree: `waiting` lists each Waiting ticket
\* once, oldest first, and idempotency_index finds exactly the live tickets.
QueueCoherent ==
  /\ Elements(ctl.waiting) = InState(ctl, "Waiting")
  /\ \A i, j \in DOMAIN ctl.waiting : i < j => ctl.waiting[i] < ctl.waiting[j]
  /\ \A pk \in Principals \X Keys :
       IF ctl.index[pk] = NoTicket
       THEN \A i \in Live(ctl) : KeyOf(ctl.tickets[i]) # pk
       ELSE ctl.index[pk] \in Live(ctl) /\ KeyOf(ctl.tickets[ctl.index[pk]]) = pk

\* docs/admission-and-usage.md: "One principal cannot hold two waiting or
\* offered queue positions for the same server."
OneLiveTicket ==
  \A i, j \in Live(ctl) : ctl.tickets[i].principal = ctl.tickets[j].principal => i = j

\* Every offer is older than every ticket that still waits: the queue is
\* served in order, whatever is cancelled, expires or drains in between.
OffersOldestFirst ==
  \A i \in InState(ctl, "Offered"), j \in InState(ctl, "Waiting") : i < j

\* Lease ids are never reused: a permit is an active lease or a reservation,
\* not both, its id has been issued, and two admitted tickets hold two leases.
LeasesDistinct ==
  /\ DOMAIN ctl.active \cap DOMAIN ctl.reservations = {}
  /\ DOMAIN ctl.active \cup DOMAIN ctl.reservations \subseteq 1..(ctl.nextLease - 1)
  /\ \A i, j \in InState(ctl, "Admitted") :
       /\ ctl.tickets[i].lease \in 1..(ctl.nextLease - 1)
       /\ ctl.tickets[i].lease = ctl.tickets[j].lease => i = j

\* docs/admission-and-usage.md: "Leases are released exactly once."  A lease
\* that has ended (released without grace, or its reservation expired) never
\* holds a permit again.
ReleasedForGood ==
  [][\A l \in 1..(ctl.nextLease - 1) :
       l \notin DOMAIN ctl.active \cup DOMAIN ctl.reservations
         => l \notin DOMAIN ctl'.active \cup DOMAIN ctl'.reservations]_ctl

\* Nobody overtakes the queue: a step that issues a lease while tickets wait
\* issues it for a live ticket that is older than all of them.
NoOvertaking ==
  [][ctl'.nextLease > ctl.nextLease /\ ctl'.waiting # <<>> =>
       \E i \in Live(ctl) \ Live(ctl') :
         /\ ctl.tickets[i].principal = ctl'.active[ctl.nextLease]
         /\ i \in DOMAIN ctl'.tickets => ctl'.tickets[i].state = "Admitted"
         /\ i < Head(ctl'.waiting)]_ctl

\* docs/admission-and-usage.md: "No new client is admitted above the pending
\* target while it drains."  While a decrease stays pending, occupancy never
\* grows and no ticket is offered a permit.
DrainingNeverGrows ==
  [][ctl.pending # NoTarget /\ ctl'.pending = ctl.pending =>
       /\ Occupied(ctl') <= Occupied(ctl)
       /\ \A i \in InState(ctl', "Offered") : i \in InState(ctl, "Offered")]_ctl

\* An ended ticket never becomes live again, and an admitted one keeps its lease.
TerminalIsFinal ==
  [][\A i \in DOMAIN ctl.tickets :
       ~IsLive(ctl.tickets[i]) /\ i \in DOMAIN ctl'.tickets =>
         /\ ctl'.tickets[i].state = ctl.tickets[i].state
         /\ ctl'.tickets[i].lease = ctl.tickets[i].lease]_ctl

\* The 100 ms maintenance tick alone settles every ticket: nobody waits, and
\* no offer holds its permit, for ever.
TicketsSettle == \A i \in TicketIds : i \in Live(ctl) ~> i \notin Live(ctl)

\* No permit is held for an absent client for ever: every reconnect reservation
\* ends, by a resume or by the maintenance tick.  A lease may be released again
\* and again, so each of its reservations ends.
ReservationsEnd ==
  \A l \in LeaseIds : l \in DOMAIN ctl.reservations ~> l \notin DOMAIN ctl.reservations

\* docs/admission-and-usage.md: "Once enough permits drain naturally, the
\* allocation drops to the pending target": if the clients eventually leave,
\* no decrease stays pending for ever, however offers, claims, resumes and
\* further updates interleave.
DrainCompletes ==
  <>[](DOMAIN ctl.active = {}) => (ctl.pending # NoTarget ~> ctl.pending = NoTarget)

\* docs/admission-and-usage.md: an increase "promotes the oldest valid queued
\* clients": a ticket that a capacity update offers a permit has neither
\* outlived its ttl nor missed its heartbeat.
OffersOnlyValid ==
  [][ctl'.revision > ctl.revision => \A i \in InState(ctl, "Waiting") :
       i \in InState(ctl', "Offered") => ctl.tickets[i].ttl > 0 /\ ctl.tickets[i].beat > 0]_ctl

\* The controller's tables agree after every operation, whatever claims, resumes,
\* cancels and expiries came before: their types, the queue with its tickets and
\* index, one live ticket for a principal, offers to the oldest, distinct leases.
ControllerCoherent ==
  TypeOK /\ QueueCoherent /\ OneLiveTicket /\ OffersOldestFirst /\ LeasesDistinct

\* What no operation does, in any order of the others: hand a permit past the
\* queue, let a lease or a ticket that has ended come back, or fill a session
\* that drains to a lower allocation.
StepsKeepOrder == NoOvertaking /\ ReleasedForGood /\ TerminalIsFinal /\ DrainingNeverGrows

\* Nothing that was given a time waits for ever: tickets settle and reservations
\* end by the maintenance tick alone.
WaitsEnd == TicketsSettle /\ ReservationsEnd

=============================================================================
