-------------------------- MODULE AdmissionProofs ---------------------------
(***************************************************************************)
(* For every policy, every set of principals and keys and every sequence   *)
(* of capacity updates: the permits handed out by AdmissionController never *)
(* exceed its allocation, none is idle while somebody waits, its tables    *)
(* agree, and no operation breaks the order of the queue.  None of these   *)
(* is inductive alone; CtlInv of AdmissionOpsProofs, which has the proof   *)
(* of each operation, is.                                                  *)
(***************************************************************************)
EXTENDS AdmissionController, AdmissionOpsProofs

\* Every operation of the controller, and time, preserves the invariant and
\* leaves the past alone.
LEMMA NextInv ==
  ASSUME CtlInv(ctl), [Next]_ctl
  PROVE  CtlInv(ctl') /\ Step(ctl, ctl')
<1>1. CASE \E p \in Principals, k \in Keys : RequestJoinAt(p, k)
  BY <1>1, RequestJoinInv DEF RequestJoinAt
<1>2. CASE JoinWithoutKey \/ QueueStatusAt \/ MaintainAt
  BY <1>2, ExpireStep DEF JoinWithoutKey, QueueStatusAt, MaintainAt
<1>3. CASE \E i \in TicketIds : HeartbeatAt(i) \/ CancelAt(i) \/ ClaimOfferAt(i)
  <2>1. CASE \E i \in TicketIds : HeartbeatAt(i)
    BY <2>1, HeartbeatInv DEF HeartbeatAt
  <2>2. CASE \E i \in TicketIds : CancelAt(i)
    BY <2>2, CancelInv DEF CancelAt
  <2>3. CASE \E i \in TicketIds : ClaimOfferAt(i)
    BY <2>3, ClaimOfferInv DEF ClaimOfferAt
  <2>4. QED
    BY <1>3, <2>1, <2>2, <2>3
<1>4. CASE \E p \in Principals : CancelPrincipalAt(p)
  BY <1>4, CancelPrincipalInv DEF CancelPrincipalAt
<1>5. CASE \E l \in LeaseIds, p \in Principals, reason \in {"Intentional", "Unexpected"} :
             ReleaseAt(l, p, reason)
  <2>1. PICK l \in LeaseIds, p \in Principals, reason \in {"Intentional", "Unexpected"} :
          ctl' = Release(ctl, l, p, reason)
    BY <1>5 DEF ReleaseAt
  <2>2. CtlInv(ctl') /\ Keeps(ctl, ctl') /\ ctl'.nextLease = ctl.nextLease
    BY <2>1, ReleaseInv
  <2>3. QED
    BY <2>2, QuietStep DEF CtlInv, Tables
<1>6. CASE \E i \in TicketIds, l \in LeaseIds, p \in Principals : RollbackClaimAt(i, l, p)
  BY <1>6, RollbackClaimInv DEF RollbackClaimAt
<1>7. CASE \E l \in LeaseIds, p \in Principals : ResumeAt(l, p)
  BY <1>7, ResumeInv DEF ResumeAt
<1>8. CASE \E a \in Allocations, r \in 1..MaxRevision : ApplyCapacityAt(a, r)
  BY <1>8, ApplyCapacityInv, CapacityAssumption DEF ApplyCapacityAt
<1>9. CASE Tick
  BY <1>9, ElapseInv DEF Tick
<1>10. CASE UNCHANGED ctl
  BY <1>10, IdleStep
<1>11. QED
  BY <1>1, <1>2, <1>3, <1>4, <1>5, <1>6, <1>7, <1>8, <1>9, <1>10 DEF Next

\* The inductive invariant holds throughout every behaviour of the controller.
THEOREM Invariant == Spec => []CtlInv(ctl)
<1>1. Init => CtlInv(ctl)
  BY NewControllerInv, CapacityAssumption DEF Init
<1>2. CtlInv(ctl) /\ [Next]_ctl => CtlInv(ctl)'
  BY NextInv
<1>3. QED
  BY <1>1, <1>2, PTL DEF Spec

\* Type correctness of the controller.
THEOREM TypeCorrect == Spec => []TypeOK
<1>1. CtlInv(ctl) => TypeOK
  BY DEF CtlInv, Tables, TypeOK
<1>2. QED
  BY <1>1, Invariant, PTL

\* Whatever the policy and however joins, claims, resumes, disconnects and
\* capacity updates interleave, active leases, reservations and offers never
\* exceed the allocation, and a decrease is pending only while it has to be.
THEOREM PermitsNeverExceedAllocation == Spec => []PermitsWithinAllocation
<1>1. CtlInv(ctl) => PermitsWithinAllocation
  BY DEF CtlInv, Within, PermitsWithinAllocation
<1>2. QED
  BY <1>1, Invariant, PTL

\* No permit is idle while a ticket waits, whatever frees it: a release, a
\* cancel, an expiry, an increase or a decrease that has drained.
THEOREM NoIdlePermit == Spec => []WorkConserving
<1>1. CtlInv(ctl) => WorkConserving
  BY DEF CtlInv, Busy, WorkConserving
<1>2. QED
  BY <1>1, Invariant, PTL

\* The queue, the tickets and the index agree after every operation, a
\* principal has one live ticket, offers are older than whoever waits, and no
\* two admitted tickets share a lease.
THEOREM TablesAgree == Spec => []ControllerCoherent
<1>1. CtlInv(ctl) => ControllerCoherent
  <2>1. SUFFICES ASSUME CtlInv(ctl) PROVE ControllerCoherent
    OBVIOUS
  <2>2. TypeOK /\ QueueInv(ctl) /\ IdsIssued(ctl) /\ AdmittedInv(ctl)
    BY <2>1 DEF CtlInv, Tables, TypeOK
  <2>3. QueueCoherent
    BY <2>2 DEF QueueInv, QueueListed, Sorted, IndexExact, QueueCoherent
  <2>4. OneLiveTicket /\ OffersOldestFirst
    BY <2>2 DEF QueueInv, OneLive, OneLiveTicket, OldestFirst, OffersOldestFirst
  <2>5. LeasesDistinct
    BY <2>2 DEF IdsIssued, AdmittedInv, LeasesDistinct
  <2>6. QED
    BY <2>2, <2>3, <2>4, <2>5 DEF ControllerCoherent
<1>2. QED
  BY <1>1, Invariant, PTL

\* What no operation does, whatever came before it: hand a permit past the
\* queue, revive a lease or a ticket that has ended, or fill a session that
\* drains to a lower allocation.
THEOREM OrderIsKept == Spec => StepsKeepOrder
<1>. DEFINE Ahead ==
              ctl'.nextLease > ctl.nextLease /\ ctl'.waiting # <<>> =>
                \E i \in Live(ctl) \ Live(ctl') :
                  /\ ctl.tickets[i].principal = ctl'.active[ctl.nextLease]
                  /\ i \in DOMAIN ctl'.tickets => ctl'.tickets[i].state = "Admitted"
                  /\ i < Head(ctl'.waiting)
            Released ==
              \A l \in 1..(ctl.nextLease - 1) :
                l \notin DOMAIN ctl.active \cup DOMAIN ctl.reservations
                  => l \notin DOMAIN ctl'.active \cup DOMAIN ctl'.reservations
            Final ==
              \A i \in DOMAIN ctl.tickets :
                ~IsLive(ctl.tickets[i]) /\ i \in DOMAIN ctl'.tickets =>
                  /\ ctl'.tickets[i].state = ctl.tickets[i].state
                  /\ ctl'.tickets[i].lease = ctl.tickets[i].lease
            Drained ==
              ctl.pending # NoTarget /\ ctl'.pending = ctl.pending =>
                /\ Occupied(ctl') <= Occupied(ctl)
                /\ \A i \in InState(ctl', "Offered") : i \in InState(ctl, "Offered")
<1>1. CtlInv(ctl) /\ [Next]_ctl => Ahead /\ Released /\ Final /\ Drained
  <2>1. SUFFICES ASSUME CtlInv(ctl), [Next]_ctl
                 PROVE  Ahead /\ Released /\ Final /\ Drained
    OBVIOUS
  <2>2. Step(ctl, ctl')
    BY <2>1, NextInv
  <2>3. ctl.nextLease \in Nat /\ ctl.nextTicket \in Nat /\ IdsIssued(ctl)
    BY <2>1 DEF CtlInv, Tables, ControllerType
  <2>4. Ahead /\ Drained
    BY ONLY <2>2 DEF Step, InOrder, Draining, Ahead, Drained
  <2>5. Released
    BY ONLY <2>2, <2>3, SMTT(30) DEF Step, LeasesEnd, Released
  <2>6. Final
    <3>1. TicketsEnd(ctl, ctl')
      BY <2>2 DEF Step
    <3>2. \A i \in DOMAIN ctl.tickets : ~(i >= ctl.nextTicket)
      BY ONLY <2>3 DEF IdsIssued
    <3>3. QED
      BY ONLY <3>1, <3>2 DEF TicketsEnd, Final
  <2>7. QED
    BY <2>4, <2>5, <2>6
<1>. HIDE DEF Ahead, Released, Final, Drained
<1>2. Spec => [][Ahead]_ctl /\ [][Released]_ctl /\ [][Final]_ctl /\ [][Drained]_ctl
  BY <1>1, Invariant, PTL DEF Spec
<1>3. QED
  BY <1>2 DEF StepsKeepOrder, NoOvertaking, ReleasedForGood, TerminalIsFinal,
              DrainingNeverGrows, Ahead, Released, Final, Drained

=============================================================================
