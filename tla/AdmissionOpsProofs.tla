------------------------ MODULE AdmissionOpsProofs -------------------------
(***************************************************************************)
(* What every operation of AdmissionOps does to a controller, for every    *)
(* policy and every set of principals and keys: it keeps CtlInv, and it    *)
(* leaves the past alone (Step).                                           *)
(*                                                                         *)
(* That a claim or a resume keeps the number of permits needs the fresh,   *)
(* or the resumed, lease id not to be active already (IdsIssued).  That    *)
(* promotion leaves no permit idle needs every queued id to be a waiting   *)
(* ticket, and that it serves the oldest needs the queue sorted            *)
(* (QueueInv); that a removed ticket leaves the index exact needs one live *)
(* ticket for a principal.  CtlInv is the conjunction.  Tables is the part *)
(* of it that holds between the helpers of one operation too, before       *)
(* Settle has handed out the free permits.                                 *)
(***************************************************************************)
EXTENDS AdmissionOps, DequesProofs

Within(c) ==
  /\ Occupied(c) <= c.allocated
  /\ c.pending # NoTarget => c.pending < Occupied(c)

Busy(c) == c.waiting # <<>> => Occupied(c) >= Limit(c)

IdsIssued(c) ==
  /\ DOMAIN c.active \cap DOMAIN c.reservations = {}
  /\ DOMAIN c.active \cup DOMAIN c.reservations \subseteq 1..(c.nextLease - 1)
  /\ DOMAIN c.tickets \subseteq 1..(c.nextTicket - 1)

Sorted(q) == \A i, j \in DOMAIN q : i < j => q[i] < q[j]

QueueListed(c) == Elements(c.waiting) = InState(c, "Waiting") /\ Sorted(c.waiting)

IndexExact(c) ==
  \A pk \in Principals \X Keys :
    IF c.index[pk] = NoTicket
    THEN \A i \in Live(c) : KeyOf(c.tickets[i]) # pk
    ELSE c.index[pk] \in Live(c) /\ KeyOf(c.tickets[c.index[pk]]) = pk

OneLive(c) ==
  \A i, j \in Live(c) : c.tickets[i].principal = c.tickets[j].principal => i = j

OldestFirst(c) == \A i \in InState(c, "Offered"), j \in InState(c, "Waiting") : i < j

QueueInv(c) == QueueListed(c) /\ IndexExact(c) /\ OneLive(c) /\ OldestFirst(c)

AdmittedInv(c) ==
  \A i, j \in InState(c, "Admitted") :
    /\ c.tickets[i].lease \in 1..(c.nextLease - 1)
    /\ c.tickets[i].lease = c.tickets[j].lease => i = j

Tables(c) == ControllerType(c) /\ IdsIssued(c) /\ QueueInv(c)

CtlInv(c) == Tables(c) /\ AdmittedInv(c) /\ Within(c) /\ Busy(c)

-----------------------------------------------------------------------------
\* What a helper leaves alone: it issues no id and ends no lease.
SameLeases(c, d) ==
  /\ d.active = c.active
  /\ d.reservations = c.reservations
  /\ d.nextLease = c.nextLease
  /\ d.nextTicket = c.nextTicket
  /\ DOMAIN d.tickets \subseteq DOMAIN c.tickets

SameCapacity(c, d) == d.allocated = c.allocated /\ d.pending = c.pending

\* d is c with some tickets ended or forgotten, and the queue and the index
\* brought up to date; a ticket that stays live is the same ticket.
Retires(c, d) ==
  /\ Live(d) \subseteq Live(c)
  /\ \A i \in Live(d) : /\ d.tickets[i].state = c.tickets[i].state
                        /\ KeyOf(d.tickets[i]) = KeyOf(c.tickets[i])
  /\ \A pk \in Principals \X Keys :
       d.index[pk] = IF c.index[pk] \in Live(d) THEN c.index[pk] ELSE NoTicket
  /\ QueueListed(d)

\* The admitted tickets of d were admitted in c, with the same lease.
FewerAdmitted(c, d) ==
  /\ \A i \in InState(d, "Admitted") :
       i \in InState(c, "Admitted") /\ d.tickets[i].lease = c.tickets[i].lease
  /\ c.nextLease <= d.nextLease

\* What every operation, and every helper, does to the past: what has ended
\* stays ended, tickets keep their owner, and a drain is not filled.
LeasesEnd(c, d) ==
  /\ c.nextLease <= d.nextLease
  /\ \A l \in DOMAIN d.active \cup DOMAIN d.reservations :
       l \in DOMAIN c.active \cup DOMAIN c.reservations \/ l >= c.nextLease

TicketsEnd(c, d) ==
  /\ c.nextTicket <= d.nextTicket
  /\ \A i \in DOMAIN d.tickets :
       \/ i >= c.nextTicket
       \/ /\ i \in DOMAIN c.tickets
          /\ d.tickets[i].principal = c.tickets[i].principal
          /\ IsLive(d.tickets[i]) => IsLive(c.tickets[i])
          /\ ~IsLive(c.tickets[i]) => /\ d.tickets[i].state = c.tickets[i].state
                                      /\ d.tickets[i].lease = c.tickets[i].lease

Drains(c, d) ==
  /\ d.pending \in {c.pending, NoTarget}
  /\ d.pending # NoTarget => /\ Occupied(d) <= Occupied(c)
                             /\ InState(d, "Offered") \subseteq InState(c, "Offered")

Keeps(c, d) == LeasesEnd(c, d) /\ TicketsEnd(c, d) /\ Drains(c, d)

-----------------------------------------------------------------------------
\* The three kinds of permit are finite sets, so occupied() is a natural.
LEMMA OccupiedType ==
  ASSUME NEW c, ControllerType(c)
  PROVE  /\ Cardinality(DOMAIN c.active) \in Nat
         /\ Cardinality(DOMAIN c.reservations) \in Nat
         /\ \A s : /\ InState(c, s) \in SUBSET DOMAIN c.tickets
                   /\ IsFiniteSet(InState(c, s))
                   /\ Cardinality(InState(c, s)) \in Nat
         /\ Occupied(c) \in Nat
<1>1. /\ IsFiniteSet(DOMAIN c.active)
      /\ IsFiniteSet(DOMAIN c.reservations)
      /\ IsFiniteSet(DOMAIN c.tickets)
  BY DEF ControllerType
<1>2. \A s : InState(c, s) \in SUBSET DOMAIN c.tickets
  BY DEF InState
<1>3. \A s : IsFiniteSet(InState(c, s)) /\ Cardinality(InState(c, s)) \in Nat
  BY <1>1, <1>2, FS_Subset, FS_CardinalityType
<1>4. Cardinality(DOMAIN c.active) \in Nat /\ Cardinality(DOMAIN c.reservations) \in Nat
  BY <1>1, FS_CardinalityType
<1>5. Occupied(c) \in Nat
  BY <1>3, <1>4 DEF Occupied
<1>6. QED
  BY <1>2, <1>3, <1>4, <1>5

\* Permits that are subsets of other permits are not more.
LEMMA OccupiedMonotone ==
  ASSUME NEW c, NEW d, ControllerType(c), ControllerType(d),
         DOMAIN d.active \subseteq DOMAIN c.active,
         DOMAIN d.reservations \subseteq DOMAIN c.reservations,
         InState(d, "Offered") \subseteq InState(c, "Offered")
  PROVE  Occupied(d) <= Occupied(c)
<1>1. /\ IsFiniteSet(DOMAIN c.active)
      /\ IsFiniteSet(DOMAIN c.reservations)
      /\ IsFiniteSet(InState(c, "Offered"))
  BY OccupiedType DEF ControllerType
<1>2. Cardinality(DOMAIN d.active) <= Cardinality(DOMAIN c.active)
  BY <1>1, FS_Subset
<1>3. Cardinality(DOMAIN d.reservations) <= Cardinality(DOMAIN c.reservations)
  BY <1>1, FS_Subset
<1>4. Cardinality(InState(d, "Offered")) <= Cardinality(InState(c, "Offered"))
  BY <1>1, FS_Subset
<1>5. QED
  BY <1>2, <1>3, <1>4, OccupiedType DEF Occupied

\* The index stays a map to ticket ids when keys are removed from it.
LEMMA UnindexType ==
  ASSUME NEW c, ControllerType(c), NEW ids
  PROVE  Unindex(c, ids) \in [Principals \X Keys -> Nat]
BY DEF Unindex, ControllerType, NoTicket

\* A ticket that ends is still its owner's ticket, and no longer live.
LEMMA EndedType ==
  ASSUME NEW t \in TicketEntry, NEW s \in {"Expired", "Cancelled", "Admitted"}, NEW l \in Nat
  PROVE  /\ Ended(t, s, l) \in TicketEntry
         /\ Ended(t, s, l).state = s /\ Ended(t, s, l).lease = l
         /\ ~IsLive(Ended(t, s, l))
         /\ Ended(t, s, l).principal = t.principal
         /\ KeyOf(Ended(t, s, l)) = KeyOf(t)
BY PolicyAssumption DEF Ended, TicketEntry, TicketStates, IsLive, KeyOf
-----------------------------------------------------------------------------
\* Removing tickets from the index removes exactly their entries: no other live
\* ticket has the key of one of them.
LEMMA UnindexExact ==
  ASSUME NEW c, ControllerType(c), IndexExact(c), OneLive(c), NEW ids \in SUBSET Live(c)
  PROVE  \A pk \in Principals \X Keys :
           Unindex(c, ids)[pk] = IF c.index[pk] \in ids THEN NoTicket ELSE c.index[pk]
<1>1. SUFFICES ASSUME NEW pk \in Principals \X Keys
               PROVE  Unindex(c, ids)[pk]
                        = IF c.index[pk] \in ids THEN NoTicket ELSE c.index[pk]
  OBVIOUS
<1>2. Unindex(c, ids)[pk]
        = IF \E i \in ids : KeyOf(c.tickets[i]) = pk THEN NoTicket ELSE c.index[pk]
  BY DEF Unindex
<1>3. CASE c.index[pk] = NoTicket
  BY <1>2, <1>3
<1>4. CASE c.index[pk] # NoTicket
  <2>1. c.index[pk] \in Live(c) /\ KeyOf(c.tickets[c.index[pk]]) = pk
    BY <1>4 DEF IndexExact
  <2>2. \A i \in ids : KeyOf(c.tickets[i]) = pk => i = c.index[pk]
    BY <2>1 DEF OneLive, KeyOf
  <2>3. QED
    BY <1>2, <2>1, <2>2
<1>5. QED
  BY <1>3, <1>4

\* The queue and its index stay coherent when tickets end.
LEMMA RetireQueue ==
  ASSUME NEW c, NEW d, Tables(c), Retires(c, d)
  PROVE  QueueInv(d)
<1>1. /\ NoTicket \notin Live(c) /\ Live(d) \subseteq Live(c)
      /\ IndexExact(c) /\ OneLive(c) /\ OldestFirst(c)
  BY DEF Tables, QueueInv, IdsIssued, Live, NoTicket, Retires
<1>2. \A i \in Live(d) : /\ d.tickets[i].state = c.tickets[i].state
                         /\ d.tickets[i].principal = c.tickets[i].principal
                         /\ KeyOf(d.tickets[i]) = KeyOf(c.tickets[i])
  BY DEF Retires, KeyOf
<1>3. ASSUME NEW pk \in Principals \X Keys
      PROVE  IF d.index[pk] = NoTicket
             THEN \A i \in Live(d) : KeyOf(d.tickets[i]) # pk
             ELSE d.index[pk] \in Live(d) /\ KeyOf(d.tickets[d.index[pk]]) = pk
  <2>1. /\ d.index[pk] = IF c.index[pk] \in Live(d) THEN c.index[pk] ELSE NoTicket
        /\ IF c.index[pk] = NoTicket
           THEN \A i \in Live(c) : KeyOf(c.tickets[i]) # pk
           ELSE c.index[pk] \in Live(c) /\ KeyOf(c.tickets[c.index[pk]]) = pk
    BY <1>1 DEF Retires, IndexExact
  <2>2. CASE c.index[pk] \in Live(d)
    BY <1>1, <1>2, <2>1, <2>2
  <2>3. CASE c.index[pk] \notin Live(d)
    <3>1. ASSUME NEW i \in Live(d), KeyOf(d.tickets[i]) = pk
          PROVE  FALSE
      <4>1. i \in Live(c) /\ KeyOf(c.tickets[i]) = pk
        BY <1>1, <1>2, <3>1
      <4>2. c.index[pk] \in Live(c) /\ KeyOf(c.tickets[c.index[pk]]) = pk
        BY <2>1, <4>1
      <4>3. c.index[pk] = i
        BY <1>1, <4>1, <4>2 DEF OneLive, KeyOf
      <4>4. QED
        BY <2>3, <4>3
    <3>2. QED
      BY <2>1, <2>3, <3>1
  <2>4. QED
    BY <2>2, <2>3
<1>4. IndexExact(d)
  BY <1>3 DEF IndexExact
<1>5. OneLive(d)
  BY <1>1, <1>2 DEF OneLive
<1>6. OldestFirst(d)
  <2>1. /\ \A i \in InState(d, "Offered") : i \in InState(c, "Offered")
        /\ \A i \in InState(d, "Waiting") : i \in InState(c, "Waiting")
    BY <1>1, <1>2 DEF InState, Live, IsLive
  <2>2. QED
    BY <1>1, <2>1 DEF OldestFirst
<1>7. QED
  BY <1>4, <1>5, <1>6 DEF QueueInv, Retires

\* No two admitted tickets share a lease when admitted tickets are forgotten.
LEMMA AdmittedFewer ==
  ASSUME NEW c, NEW d, ControllerType(c), ControllerType(d), AdmittedInv(c),
         FewerAdmitted(c, d)
  PROVE  AdmittedInv(d)
<1>1. c.nextLease \in Nat /\ d.nextLease \in Nat
  BY DEF ControllerType
<1>2. QED
  BY <1>1 DEF AdmittedInv, FewerAdmitted

\* An operation does what its helpers do, one after the other.
LEMMA KeepsTrans ==
  ASSUME NEW c, NEW e, NEW d, ControllerType(c), ControllerType(e), ControllerType(d),
         Keeps(c, e), Keeps(e, d)
  PROVE  Keeps(c, d)
<1>1. /\ c.nextLease \in Nat /\ e.nextLease \in Nat /\ d.nextLease \in Nat
      /\ c.nextTicket \in Nat /\ e.nextTicket \in Nat /\ d.nextTicket \in Nat
      /\ DOMAIN d.active \cup DOMAIN d.reservations \subseteq Nat
      /\ DOMAIN d.tickets \subseteq Nat
      /\ Occupied(c) \in Nat /\ Occupied(e) \in Nat /\ Occupied(d) \in Nat
  BY OccupiedType DEF ControllerType
<1>2. LeasesEnd(c, d)
  BY <1>1 DEF Keeps, LeasesEnd
<1>3. TicketsEnd(c, d)
  BY <1>1 DEF Keeps, TicketsEnd
<1>4. Drains(c, d)
  BY <1>1 DEF Keeps, Drains
<1>5. QED
  BY <1>2, <1>3, <1>4 DEF Keeps

\* The same, in the form Retires asks for.
LEMMA UnindexRetires ==
  ASSUME NEW c, Tables(c), NEW ids \in SUBSET Live(c)
  PROVE  \A pk \in Principals \X Keys :
           Unindex(c, ids)[pk] = IF c.index[pk] \in Live(c) \ ids THEN c.index[pk] ELSE NoTicket
<1>1. \A pk \in Principals \X Keys :
        Unindex(c, ids)[pk] = IF c.index[pk] \in ids THEN NoTicket ELSE c.index[pk]
  BY UnindexExact DEF Tables, QueueInv
<1>2. \A pk \in Principals \X Keys : c.index[pk] \in Live(c) \/ c.index[pk] = NoTicket
  BY DEF Tables, QueueInv, IndexExact
<1>3. QED
  BY <1>1, <1>2

-----------------------------------------------------------------------------
\* ExpireOverdue only takes permits away.
LEMMA ExpireOverdueInv ==
  ASSUME NEW c, Tables(c)
  PROVE  LET d == ExpireOverdue(c)
         IN  /\ Tables(d)
             /\ Keeps(c, d) /\ FewerAdmitted(c, d)
             /\ SameCapacity(c, d)
             /\ d.active = c.active
             /\ d.nextLease = c.nextLease
             /\ d.nextTicket = c.nextTicket
             /\ Occupied(d) <= Occupied(c)
<1>. DEFINE overdue == {i \in DOMAIN c.tickets :
                    LET t == c.tickets[i]
                    IN  \/ t.state = "Waiting" /\ (t.ttl = 0 \/ t.beat = 0)
                        \/ t.state = "Offered" /\ t.left = 0}
            res == Drop(c.reservations, {l \in DOMAIN c.reservations : c.reservations[l].left = 0})
            tks == [i \in DOMAIN c.tickets |->
                      IF i \in overdue THEN Ended(c.tickets[i], "Expired", NoLease)
                      ELSE c.tickets[i]]
            idx == Unindex(c, overdue)
            wait == Retain(c.waiting, InState(c, "Waiting") \ overdue)
            d == [c EXCEPT !.reservations = res, !.tickets = tks,
                           !.index = idx, !.waiting = wait]
<1>. USE DEF Tables
<1>1. d = ExpireOverdue(c)
  BY DEF ExpireOverdue
<1>2. /\ res \in [DOMAIN res -> Reservation]
      /\ DOMAIN res \in SUBSET DOMAIN c.reservations
  BY DEF ControllerType, Drop
<1>3. overdue \in SUBSET Live(c)
  BY DEF Live, IsLive
<1>. HIDE DEF overdue
<1>4. /\ tks \in [DOMAIN c.tickets -> TicketEntry]
      /\ DOMAIN tks = DOMAIN c.tickets
      /\ \A i \in DOMAIN tks : tks[i].principal = c.tickets[i].principal
      /\ \A i \in DOMAIN tks : i \in overdue => tks[i].state = "Expired"
      /\ \A i \in DOMAIN tks : i \notin overdue => tks[i] = c.tickets[i]
  <2>1. c.tickets \in [DOMAIN c.tickets -> TicketEntry]
    BY DEF ControllerType
  <2>2. \A i \in DOMAIN c.tickets :
          /\ Ended(c.tickets[i], "Expired", NoLease) \in TicketEntry
          /\ Ended(c.tickets[i], "Expired", NoLease).state = "Expired"
          /\ Ended(c.tickets[i], "Expired", NoLease).principal = c.tickets[i].principal
    <3>1. SUFFICES ASSUME NEW i \in DOMAIN c.tickets
                   PROVE  /\ Ended(c.tickets[i], "Expired", NoLease) \in TicketEntry
                          /\ Ended(c.tickets[i], "Expired", NoLease).state = "Expired"
                          /\ Ended(c.tickets[i], "Expired", NoLease).principal = c.tickets[i].principal
      OBVIOUS
    <3>2. c.tickets[i] \in TicketEntry /\ NoLease \in Nat /\ "Expired" \in {"Expired", "Cancelled", "Admitted"}
      BY <2>1 DEF NoLease
    <3>3. Ended(c.tickets[i], "Expired", NoLease) \in TicketEntry
      BY ONLY <3>2, EndedType
    <3>4. /\ Ended(c.tickets[i], "Expired", NoLease).state = "Expired"
          /\ Ended(c.tickets[i], "Expired", NoLease).principal = c.tickets[i].principal
      BY ONLY <3>2, EndedType, ZenonT(30)
    <3>5. QED
      BY ONLY <3>3, <3>4
  <2>3. QED
    BY <2>1, <2>2
<1>5. /\ wait \in Seq(Nat)
      /\ Elements(wait) = InState(c, "Waiting") \ overdue
      /\ Sorted(wait)
  <2>1. c.waiting \in Seq(Nat) /\ Elements(c.waiting) = InState(c, "Waiting") /\ Sorted(c.waiting)
    BY DEF ControllerType, QueueInv, QueueListed
  <2>2. Elements(wait) = Elements(c.waiting) \cap (InState(c, "Waiting") \ overdue)
    BY <2>1, RetainElements
  <2>3. \A m, n \in DOMAIN wait : m < n => wait[m] < wait[n]
    BY <2>1, RetainSorted DEF Sorted
  <2>4. wait \in Seq(Nat)
    BY <2>1, RetainType
  <2>5. QED
    BY <2>1, <2>2, <2>3, <2>4 DEF Sorted
<1>6. /\ idx \in [Principals \X Keys -> Nat]
      /\ \A pk \in Principals \X Keys :
           idx[pk] = IF c.index[pk] \in Live(c) \ overdue THEN c.index[pk] ELSE NoTicket
  BY <1>3, UnindexType, UnindexRetires
<1>7. IsFiniteSet(DOMAIN res) /\ DOMAIN res \subseteq Nat
  BY <1>2, FS_Subset DEF ControllerType
<1>. HIDE DEF res, tks, wait, idx
<1>8. ControllerType(d)
  <2>1. /\ ControllerType(c)
        /\ res \in [DOMAIN res -> Reservation] /\ DOMAIN res \subseteq Nat
        /\ IsFiniteSet(DOMAIN res)
        /\ tks \in [DOMAIN tks -> TicketEntry] /\ DOMAIN tks = DOMAIN c.tickets
        /\ wait \in Seq(Nat) /\ idx \in [Principals \X Keys -> Nat]
    BY <1>2, <1>4, <1>5, <1>6, <1>7
  <2>2. QED
    BY ONLY <2>1 DEF ControllerType, d
<1>9. /\ SameCapacity(c, d) /\ d.active = c.active /\ d.nextLease = c.nextLease
      /\ d.nextTicket = c.nextTicket /\ d.reservations = res /\ d.tickets = tks
      /\ d.index = idx /\ d.waiting = wait
  BY DEF ControllerType, SameCapacity
<1>. HIDE DEF d
<1>10. /\ Live(d) = Live(c) \ overdue
       /\ \A s \in {"Waiting", "Offered", "Admitted"} : InState(d, s) = InState(c, s) \ overdue
  BY <1>4, <1>9 DEF InState, Live, IsLive
<1>11. Occupied(d) <= Occupied(c)
  BY <1>2, <1>8, <1>9, <1>10, OccupiedMonotone
<1>12. Retires(c, d)
  BY <1>4, <1>5, <1>6, <1>9, <1>10 DEF Retires, QueueListed, Live
<1>13. FewerAdmitted(c, d)
  BY <1>4, <1>9, <1>10 DEF FewerAdmitted, InState, ControllerType
<1>14. Tables(d)
  BY <1>2, <1>4, <1>8, <1>9, <1>12, RetireQueue DEF IdsIssued
<1>15. Keeps(c, d)
  <2>1. LeasesEnd(c, d)
    BY <1>2, <1>9 DEF LeasesEnd, ControllerType
  <2>2. TicketsEnd(c, d)
    <3>1. c.nextTicket \in Nat
      BY DEF ControllerType
    <3>2. \A i \in DOMAIN d.tickets : ~IsLive(c.tickets[i]) => d.tickets[i] = c.tickets[i]
      BY <1>3, <1>4, <1>9 DEF Live
    <3>3. \A i \in DOMAIN d.tickets : IsLive(d.tickets[i]) => IsLive(c.tickets[i])
      BY <3>2
    <3>4. QED
      BY <1>4, <1>9, <3>1, <3>2, <3>3 DEF TicketsEnd
  <2>3. Drains(c, d)
    BY <1>9, <1>10, <1>11 DEF Drains, SameCapacity
  <2>4. QED
    BY <2>1, <2>2, <2>3 DEF Keeps
<1>16. QED
  BY <1>1, <1>9, <1>11, <1>13, <1>14, <1>15

\* PruneTerminal only forgets tickets that hold no permit.
LEMMA PruneTerminalInv ==
  ASSUME NEW c, Tables(c)
  PROVE  LET d == PruneTerminal(c)
         IN  /\ Tables(d)
             /\ Keeps(c, d) /\ FewerAdmitted(c, d)
             /\ SameCapacity(c, d)
             /\ SameLeases(c, d)
             /\ d.waiting = c.waiting
             /\ Live(d) = Live(c)
             /\ \A i \in DOMAIN d.tickets : d.tickets[i] = c.tickets[i]
             /\ Occupied(d) = Occupied(c)
<1>. DEFINE kept     == {i \in DOMAIN c.tickets : IsLive(c.tickets[i]) \/ c.tickets[i].left > 0}
            terminal == kept \ Live(c)
            Newer(i) == {j \in terminal : \/ c.tickets[j].left > c.tickets[i].left
                                          \/ c.tickets[j].left = c.tickets[i].left /\ j > i}
            excess   == {i \in terminal : Cardinality(Newer(i)) >= TerminalCap}
            tks      == [i \in kept \ excess |-> c.tickets[i]]
            idx      == [pk \in Principals \X Keys |->
                           IF c.index[pk] \in kept \ excess THEN c.index[pk] ELSE NoTicket]
            d        == [c EXCEPT !.tickets = tks, !.index = idx]
<1>1. d = PruneTerminal(c)
  BY DEF PruneTerminal
<1>2. kept \ excess \in SUBSET DOMAIN c.tickets /\ Live(c) \subseteq kept \ excess
  BY DEF Live
<1>. HIDE DEF kept, excess
<1>3. ControllerType(c) /\ IdsIssued(c) /\ QueueInv(c)
  BY DEF Tables
<1>4. /\ tks \in [DOMAIN tks -> TicketEntry]
      /\ DOMAIN tks = kept \ excess
      /\ \A i \in DOMAIN tks : tks[i] = c.tickets[i]
  BY <1>2, <1>3 DEF ControllerType
<1>5. IsFiniteSet(DOMAIN tks) /\ DOMAIN tks \subseteq Nat
  BY <1>2, <1>3, <1>4, FS_Subset DEF ControllerType
<1>6. idx \in [Principals \X Keys -> Nat]
  BY <1>3 DEF ControllerType, NoTicket
<1>7. \A pk \in Principals \X Keys :
        idx[pk] = IF c.index[pk] \in Live(c) THEN c.index[pk] ELSE NoTicket
  BY <1>2, <1>3 DEF QueueInv, IndexExact
<1>. HIDE DEF tks, idx
<1>8. ControllerType(d)
  BY <1>3, <1>4, <1>5, <1>6 DEF ControllerType
<1>9. /\ SameCapacity(c, d) /\ SameLeases(c, d) /\ d.tickets = tks /\ d.index = idx
      /\ d.waiting = c.waiting
  BY <1>2, <1>3, <1>4 DEF ControllerType, SameCapacity, SameLeases
<1>. HIDE DEF d
<1>10. /\ Live(d) = Live(c)
       /\ \A s \in {"Waiting", "Offered"} : InState(d, s) = InState(c, s)
  BY <1>2, <1>4, <1>9 DEF InState, Live, IsLive
<1>11. Occupied(d) = Occupied(c)
  BY <1>9, <1>10 DEF Occupied, SameLeases
<1>12. Retires(c, d)
  <2>1. \A i \in Live(d) : d.tickets[i] = c.tickets[i]
    BY <1>2, <1>4, <1>9, <1>10
  <2>2. QueueListed(d)
    BY <1>3, <1>9, <1>10 DEF QueueInv, QueueListed
  <2>3. QED
    BY <1>7, <1>9, <1>10, <2>1, <2>2 DEF Retires
<1>13. FewerAdmitted(c, d)
  BY <1>2, <1>3, <1>4, <1>9 DEF FewerAdmitted, InState, SameLeases, ControllerType
<1>14. Tables(d)
  <2>1. IdsIssued(d)
    BY <1>3, <1>9 DEF IdsIssued, SameLeases
  <2>2. QED
    BY <1>3, <1>8, <1>12, <2>1, RetireQueue DEF Tables
<1>15. Keeps(c, d)
  <2>1. c.nextLease \in Nat /\ c.nextTicket \in Nat /\ Occupied(c) \in Nat
    BY <1>3, OccupiedType DEF ControllerType
  <2>2. LeasesEnd(c, d)
    BY <1>9, <2>1 DEF LeasesEnd, SameLeases
  <2>3. TicketsEnd(c, d)
    BY <1>2, <1>4, <1>9, <2>1 DEF TicketsEnd, SameLeases
  <2>4. Drains(c, d)
    BY <1>9, <1>10, <1>11, <2>1 DEF Drains, SameCapacity
  <2>5. QED
    BY <2>2, <2>3, <2>4 DEF Keeps
<1>16. QED
  BY <1>1, <1>4, <1>9, <1>10, <1>11, <1>13, <1>14, <1>15

\* A step that leaves the tickets, the queue and the index alone.
SameQueue(c, d) ==
  /\ d.tickets = c.tickets
  /\ d.waiting = c.waiting
  /\ d.index = c.index
  /\ d.nextTicket = c.nextTicket

\* Such a step leaves the queue coherent and its tickets as they were.
LEMMA SameQueueInv ==
  ASSUME NEW c, NEW d, Tables(c), SameQueue(c, d), c.nextLease <= d.nextLease,
         d.nextLease \in Nat
  PROVE  QueueInv(d) /\ FewerAdmitted(c, d) /\ TicketsEnd(c, d)
<1>1. ControllerType(c) /\ QueueInv(c)
  BY DEF Tables
<1>2. c.nextTicket \in Nat /\ c.nextLease \in Nat
  BY <1>1 DEF ControllerType
<1>3. Live(d) = Live(c) /\ \A s : InState(d, s) = InState(c, s)
  BY DEF Live, InState, SameQueue
<1>4. QueueInv(d)
  BY <1>1, <1>3 DEF QueueInv, QueueListed, IndexExact, OneLive, OldestFirst, SameQueue
<1>5. FewerAdmitted(c, d)
  BY <1>3 DEF FewerAdmitted, SameQueue
<1>6. TicketsEnd(c, d)
  BY <1>2 DEF TicketsEnd, SameQueue
<1>7. QED
  BY <1>4, <1>5, <1>6

\* ApplyPending completes a decrease as soon as it can: afterwards a pending
\* target is below the occupancy.
LEMMA ApplyPendingInv ==
  ASSUME NEW c, Tables(c), Occupied(c) <= c.allocated
  PROVE  LET d == ApplyPending(c)
         IN  /\ Tables(d)
             /\ Keeps(c, d) /\ FewerAdmitted(c, d)
             /\ SameLeases(c, d)
             /\ Within(d)
<1>1. /\ Occupied(c) \in Nat /\ c.pending \in Nat \cup {NoTarget} /\ c.allocated \in Nat
      /\ ControllerType(c) /\ c.nextLease \in Nat /\ c.nextTicket \in Nat
  BY OccupiedType DEF Tables, ControllerType
<1>2. CASE c.pending # NoTarget /\ Occupied(c) <= c.pending
  <2>. DEFINE d == [c EXCEPT !.allocated = c.pending, !.pending = NoTarget]
  <2>1. d = ApplyPending(c)
    BY <1>2 DEF ApplyPending
  <2>2. ControllerType(d)
    BY <1>1, <1>2 DEF ControllerType
  <2>3. /\ SameLeases(c, d) /\ SameQueue(c, d)
        /\ d.allocated = c.pending /\ d.pending = NoTarget
    BY <1>1 DEF ControllerType, SameLeases, SameQueue
  <2>. HIDE DEF d
  <2>4. Occupied(d) = Occupied(c)
    BY <2>3 DEF Occupied, SameLeases, SameQueue, InState
  <2>5. Tables(d) /\ TicketsEnd(c, d) /\ FewerAdmitted(c, d)
    <3>1. QueueInv(d) /\ FewerAdmitted(c, d) /\ TicketsEnd(c, d)
      BY <1>1, <2>3, SameQueueInv DEF SameLeases
    <3>2. IdsIssued(d)
      BY <2>3 DEF Tables, IdsIssued, SameLeases
    <3>3. QED
      BY <2>2, <3>1, <3>2 DEF Tables
  <2>6. Keeps(c, d)
    BY <1>1, <2>3, <2>5 DEF Keeps, LeasesEnd, SameLeases, Drains
  <2>7. QED
    BY <1>2, <2>1, <2>3, <2>4, <2>5, <2>6 DEF Within
<1>3. CASE ~(c.pending # NoTarget /\ Occupied(c) <= c.pending)
  <2>1. ApplyPending(c) = c
    BY <1>3 DEF ApplyPending
  <2>2. Keeps(c, c) /\ FewerAdmitted(c, c)
    BY <1>1 DEF Keeps, LeasesEnd, TicketsEnd, Drains, FewerAdmitted
  <2>3. QED
    BY <1>1, <1>3, <2>1, <2>2 DEF Within, SameLeases
<1>4. QED
  BY <1>2, <1>3

\* Promote hands out the free permits, none while a decrease is pending, to the
\* oldest waiting tickets: afterwards either nobody waits or no permit is free.
LEMMA PromoteInv ==
  ASSUME NEW c, Tables(c), Within(c)
  PROVE  LET d == Promote(c)
         IN  /\ Tables(d) /\ Within(d) /\ Busy(d)
             /\ Keeps(c, d) /\ FewerAdmitted(c, d)
             /\ SameLeases(c, d)
<1>. DEFINE free     == IF Occupied(c) < Limit(c) THEN Limit(c) - Occupied(c) ELSE 0
            eligible == Positions(c.waiting, InState(c, "Waiting"))
            popped   == {i \in DOMAIN c.waiting : Cardinality({j \in eligible : j < i}) < free}
            offered  == {c.waiting[i] : i \in popped \cap eligible}
            rest     == SubSeq(c.waiting, Cardinality(popped) + 1, Len(c.waiting))
            n        == IF Len(c.waiting) <= free THEN Len(c.waiting) ELSE free
            Offer(t) == [t EXCEPT !.state = "Offered", !.ttl = 0, !.beat = 0,
                                  !.left = OfferTtl]
            tks      == [i \in DOMAIN c.tickets |->
                           IF i \in offered THEN Offer(c.tickets[i]) ELSE c.tickets[i]]
            d        == [c EXCEPT !.waiting = rest, !.tickets = tks]
<1>1. d = Promote(c)
  BY DEF Promote
<1>2. /\ Occupied(c) \in Nat /\ c.allocated \in Nat /\ c.pending \in Nat \cup {NoTarget}
      /\ c.waiting \in Seq(Nat) /\ c.tickets \in [DOMAIN c.tickets -> TicketEntry]
      /\ ControllerType(c) /\ IdsIssued(c) /\ QueueInv(c)
      /\ c.nextLease \in Nat /\ c.nextTicket \in Nat
  BY OccupiedType DEF Tables, ControllerType
<1>3. Limit(c) \in Nat /\ free \in Nat /\ Len(c.waiting) \in Nat /\ n \in 0..Len(c.waiting)
      /\ n <= free
  <2>1. Limit(c) \in Nat
    BY <1>2 DEF Limit, NoTarget
  <2>2. free \in Nat /\ Len(c.waiting) \in Nat
    BY <1>2, <2>1
  <2>. HIDE DEF free
  <2>3. n \in 0..Len(c.waiting) /\ n <= free
    BY ONLY <2>2 DEF n
  <2>4. QED
    BY <2>1, <2>2, <2>3
<1>4. c.pending # NoTarget => free = 0
  BY <1>2, <1>3 DEF Within, Limit, NoTarget
<1>5. c.pending = NoTarget => Occupied(c) + free <= c.allocated
  BY <1>2, <1>3 DEF Within, Limit
<1>6. Occupied(c) + free >= Limit(c)
  BY <1>2, <1>3
<1>. HIDE DEF free
<1>7. eligible = DOMAIN c.waiting
  BY <1>2 DEF Positions, QueueInv, QueueListed, Elements
<1>8. popped = 1..n /\ Cardinality(popped) = n
  <2>. HIDE DEF eligible
  <2>1. popped = {i \in DOMAIN c.waiting : Cardinality({j \in DOMAIN c.waiting : j < i}) < free}
    BY <1>7
  <2>. HIDE DEF popped
  <2>2. QED
    BY <1>2, <1>3, <2>1, PrefixAll
<1>9. offered = {c.waiting[i] : i \in 1..n}
  <2>1. 1..n \subseteq DOMAIN c.waiting
    BY <1>2, <1>3
  <2>2. popped \cap eligible = 1..n
    BY <1>7, <1>8, <2>1
  <2>3. QED
    BY <2>2
<1>10. rest = SubSeq(c.waiting, n + 1, Len(c.waiting))
  BY <1>8
<1>. HIDE DEF eligible, popped, n, offered, rest
<1>11. /\ rest \in Seq(Nat) /\ Len(rest) = Len(c.waiting) - n
       /\ Elements(rest) = InState(c, "Waiting") \ offered
       /\ offered \subseteq InState(c, "Waiting")
       /\ IsFiniteSet(offered) /\ Cardinality(offered) = n
       /\ \A x \in offered, y \in Elements(rest) : x < y
       /\ Sorted(rest)
  <2>1. \A i, j \in DOMAIN c.waiting : i < j => c.waiting[i] < c.waiting[j]
    BY <1>2 DEF QueueInv, QueueListed, Sorted
  <2>2. Elements(c.waiting) = InState(c, "Waiting")
    BY <1>2 DEF QueueInv, QueueListed
  <2>3. LET r == SubSeq(c.waiting, n + 1, Len(c.waiting))
            f == {c.waiting[i] : i \in 1..n}
        IN  /\ r \in Seq(Nat) /\ Len(r) = Len(c.waiting) - n
            /\ Elements(r) = Elements(c.waiting) \ f
            /\ f \subseteq Elements(c.waiting)
            /\ IsFiniteSet(f) /\ Cardinality(f) = n
            /\ \A x \in f, y \in Elements(r) : x < y
            /\ \A i, j \in DOMAIN r : i < j => r[i] < r[j]
    BY <1>2, <1>3, <2>1, PopPrefix
  <2>4. QED
    BY <1>9, <1>10, <2>2, <2>3, Zenon DEF Sorted
<1>12. /\ tks \in [DOMAIN c.tickets -> TicketEntry]
       /\ DOMAIN tks = DOMAIN c.tickets
       /\ \A i \in offered : /\ tks[i].state = "Offered"
                             /\ tks[i].principal = c.tickets[i].principal
                             /\ KeyOf(tks[i]) = KeyOf(c.tickets[i])
       /\ \A i \in DOMAIN tks : i \notin offered => tks[i] = c.tickets[i]
  <2>1. OfferTtl \in Nat
    BY PolicyAssumption
  <2>2. \A t \in TicketEntry :
          /\ Offer(t) \in TicketEntry
          /\ Offer(t).state = "Offered"
          /\ Offer(t).principal = t.principal
          /\ KeyOf(Offer(t)) = KeyOf(t)
    BY <2>1 DEF TicketEntry, TicketStates, KeyOf
  <2>3. \A i \in offered : i \in DOMAIN c.tickets
    BY <1>11 DEF InState
  <2>. HIDE DEF Offer
  <2>4. QED
    BY <1>2, <2>2, <2>3
<1>. HIDE DEF tks
<1>13. ControllerType(d)
  <2>1. /\ ControllerType(c) /\ rest \in Seq(Nat)
        /\ tks \in [DOMAIN tks -> TicketEntry] /\ DOMAIN tks = DOMAIN c.tickets
    BY <1>2, <1>11, <1>12
  <2>2. QED
    BY ONLY <2>1 DEF ControllerType, d
<1>14. /\ SameLeases(c, d) /\ SameCapacity(c, d) /\ d.tickets = tks
       /\ d.waiting = rest /\ d.index = c.index
  BY <1>2, <1>12 DEF ControllerType, SameLeases, SameCapacity
<1>. HIDE DEF d
<1>15. /\ Live(d) = Live(c)
       /\ InState(d, "Waiting") = InState(c, "Waiting") \ offered
       /\ InState(d, "Offered") = InState(c, "Offered") \cup offered
       /\ InState(d, "Offered") \cap offered = offered
       /\ InState(c, "Offered") \cap offered = {}
       /\ InState(d, "Admitted") = InState(c, "Admitted")
  BY <1>11, <1>12, <1>14 DEF InState, Live, IsLive
<1>16. Occupied(d) = Occupied(c) + n
  <2>1. /\ IsFiniteSet(InState(c, "Offered")) /\ Cardinality(InState(c, "Offered")) \in Nat
        /\ Cardinality(DOMAIN c.active) \in Nat /\ Cardinality(DOMAIN c.reservations) \in Nat
    BY <1>2, OccupiedType
  <2>2. Cardinality(InState(c, "Offered") \cup offered)
          = Cardinality(InState(c, "Offered")) + Cardinality(offered)
              - Cardinality(InState(c, "Offered") \cap offered)
    BY <1>11, <2>1, FS_Union
  <2>3. Cardinality(InState(c, "Offered") \cap offered) = 0
    BY <1>15, FS_EmptySet
  <2>4. Cardinality(InState(d, "Offered")) = Cardinality(InState(c, "Offered")) + n
    <3>1. Cardinality(offered) = n /\ n \in Nat
      BY <1>3, <1>11
    <3>2. Cardinality(InState(d, "Offered")) = Cardinality(InState(c, "Offered") \cup offered)
      BY <1>15
    <3>3. QED
      BY ONLY <2>1, <2>2, <2>3, <3>1, <3>2
  <2>5. QED
    BY <1>3, <1>14, <2>1, <2>4 DEF Occupied, SameLeases
<1>17. Limit(d) = Limit(c)
  BY <1>14 DEF Limit, SameCapacity
<1>18. Within(d)
  <2>1. /\ Occupied(c) \in Nat /\ c.allocated \in Nat /\ n \in Nat /\ free \in Nat /\ n <= free
        /\ d.allocated = c.allocated /\ d.pending = c.pending
        /\ c.pending # NoTarget => c.pending < Occupied(c)
        /\ Occupied(c) <= c.allocated
    BY <1>2, <1>3, <1>14 DEF Within, SameCapacity
  <2>. HIDE DEF n
  <2>2. QED
    BY ONLY <1>4, <1>5, <1>16, <2>1 DEF Within
<1>19. Busy(d)
  <2>1. SUFFICES ASSUME d.waiting # <<>> PROVE Occupied(d) >= Limit(d)
    BY DEF Busy
  <2>2. Len(rest) # 0
    BY <1>11, <1>14, <2>1
  <2>3. n = free
    BY <1>3, <1>11, <2>2 DEF n
  <2>4. QED
    BY <1>6, <1>16, <1>17, <2>3
<1>20. QueueInv(d)
  <2>1. QueueListed(d)
    BY <1>11, <1>14, <1>15 DEF QueueListed
  <2>2. \A i \in Live(c) : /\ d.tickets[i].principal = c.tickets[i].principal
                           /\ KeyOf(d.tickets[i]) = KeyOf(c.tickets[i])
    BY <1>12, <1>14 DEF Live
  <2>3. IndexExact(d)
    BY <1>2, <1>14, <1>15, <2>2 DEF QueueInv, IndexExact
  <2>4. OneLive(d)
    BY <1>2, <1>15, <2>2 DEF QueueInv, OneLive
  <2>5. OldestFirst(d)
    BY <1>2, <1>11, <1>15 DEF QueueInv, OldestFirst
  <2>6. QED
    BY <2>1, <2>3, <2>4, <2>5 DEF QueueInv
<1>21. FewerAdmitted(c, d)
  BY <1>2, <1>11, <1>12, <1>14, <1>15 DEF FewerAdmitted, InState, SameLeases
<1>22. IdsIssued(d)
  BY <1>2, <1>14 DEF IdsIssued, SameLeases
<1>23. Keeps(c, d)
  <2>1. LeasesEnd(c, d)
    BY <1>2, <1>14 DEF LeasesEnd, SameLeases
  <2>2. TicketsEnd(c, d)
    <3>1. \A i \in offered : IsLive(c.tickets[i])
      BY <1>11 DEF InState, IsLive
    <3>2. QED
      BY <1>2, <1>12, <1>14, <3>1 DEF TicketsEnd, SameLeases
  <2>3. Drains(c, d)
    <3>1. c.pending # NoTarget => n = 0
      BY <1>3, <1>4
    <3>2. n = 0 => offered = {}
      BY <1>11, FS_EmptySet
    <3>3. QED
      BY <1>2, <1>14, <1>15, <1>16, <3>1, <3>2 DEF Drains, SameCapacity
  <2>4. QED
    BY <2>1, <2>2, <2>3 DEF Keeps
<1>24. QED
  BY <1>1, <1>13, <1>14, <1>18, <1>19, <1>20, <1>21, <1>22, <1>23 DEF Tables

\* Settle, the end of every operation that frees a permit, re-establishes the
\* whole invariant from the tables and the bound.
LEMMA SettleInv ==
  ASSUME NEW c, Tables(c), AdmittedInv(c), Occupied(c) <= c.allocated
  PROVE  CtlInv(Settle(c)) /\ Keeps(c, Settle(c)) /\ SameLeases(c, Settle(c))
<1>. DEFINE e == ApplyPending(c)
            d == Promote(e)
<1>1. /\ Tables(e) /\ Keeps(c, e) /\ FewerAdmitted(c, e) /\ SameLeases(c, e)
      /\ Within(e)
  BY ApplyPendingInv
<1>. HIDE DEF e
<1>2. /\ Tables(d) /\ Within(d) /\ Busy(d)
      /\ Keeps(e, d) /\ FewerAdmitted(e, d) /\ SameLeases(e, d)
  BY <1>1, PromoteInv
<1>. HIDE DEF d
<1>3. ControllerType(c) /\ ControllerType(e) /\ ControllerType(d)
  BY <1>1, <1>2 DEF Tables
<1>4. AdmittedInv(d)
  BY <1>1, <1>2, <1>3, AdmittedFewer
<1>5. Keeps(c, d)
  BY <1>1, <1>2, <1>3, KeepsTrans
<1>6. SameLeases(c, d)
  BY <1>1, <1>2 DEF SameLeases
<1>7. QED
  BY <1>2, <1>4, <1>5, <1>6 DEF Settle, d, e, CtlInv

\* expire_at keeps the invariant, and leaves the active leases alone.
LEMMA ExpireInv ==
  ASSUME NEW c, CtlInv(c)
  PROVE  /\ CtlInv(Expire(c)) /\ Keeps(c, Expire(c))
         /\ Expire(c).active = c.active /\ Expire(c).nextLease = c.nextLease
         /\ Expire(c).nextTicket = c.nextTicket
<1>. DEFINE a == ExpireOverdue(c)
            b == PruneTerminal(a)
            d == Settle(b)
<1>1. /\ Tables(a) /\ Keeps(c, a) /\ FewerAdmitted(c, a) /\ SameCapacity(c, a) /\ a.active = c.active
      /\ a.nextLease = c.nextLease /\ a.nextTicket = c.nextTicket
      /\ Occupied(a) <= Occupied(c)
  BY ExpireOverdueInv DEF CtlInv
<1>. HIDE DEF a
<1>2. /\ Tables(b) /\ Keeps(a, b) /\ FewerAdmitted(a, b) /\ SameCapacity(a, b) /\ SameLeases(a, b)
      /\ Occupied(b) = Occupied(a)
  BY <1>1, PruneTerminalInv
<1>. HIDE DEF b
<1>3. ControllerType(c) /\ ControllerType(a) /\ ControllerType(b)
  BY <1>1, <1>2 DEF CtlInv, Tables
<1>4. Occupied(b) <= b.allocated
  <2>1. Occupied(a) \in Nat /\ Occupied(c) \in Nat /\ c.allocated \in Nat
    BY <1>3, OccupiedType DEF ControllerType
  <2>2. QED
    BY <1>1, <1>2, <2>1 DEF CtlInv, Within, SameCapacity
<1>5. CtlInv(d) /\ Keeps(b, d) /\ SameLeases(b, d)
  <2>1. AdmittedInv(b)
    BY <1>1, <1>2, <1>3, AdmittedFewer DEF CtlInv
  <2>2. QED
    BY <1>2, <1>4, <2>1, SettleInv
<1>. HIDE DEF d
<1>6. Keeps(c, b)
  BY <1>1, <1>2, <1>3, KeepsTrans
<1>7. Keeps(c, d)
  BY <1>3, <1>5, <1>6, KeepsTrans DEF CtlInv, Tables
<1>8. d.active = c.active /\ d.nextLease = c.nextLease /\ d.nextTicket = c.nextTicket
  BY <1>1, <1>2, <1>5 DEF SameLeases
<1>9. d = Expire(c)
  BY DEF d, b, a, Expire
<1>10. QED
  BY <1>5, <1>7, <1>8, <1>9

-----------------------------------------------------------------------------
\* What one operation does: beside Keeps, a lease that it issues while tickets
\* wait goes to a live ticket older than all of them.
InOrder(c, d) ==
  d.nextLease > c.nextLease /\ d.waiting # <<>> =>
    \E i \in Live(c) \ Live(d) :
      /\ c.tickets[i].principal = d.active[c.nextLease]
      /\ i \in DOMAIN d.tickets => d.tickets[i].state = "Admitted"
      /\ i < Head(d.waiting)

Draining(c, d) ==
  c.pending # NoTarget /\ d.pending = c.pending =>
    /\ Occupied(d) <= Occupied(c)
    /\ \A i \in InState(d, "Offered") : i \in InState(c, "Offered")

Step(c, d) == LeasesEnd(c, d) /\ TicketsEnd(c, d) /\ InOrder(c, d) /\ Draining(c, d)

\* What an operation leaves alone that begins and ends no lease and issues no
\* ticket.
SameClaims(c, d) ==
  d.active = c.active /\ d.nextLease = c.nextLease /\ d.nextTicket = c.nextTicket

\* An operation that issues no lease overtakes nobody.
LEMMA QuietStep ==
  ASSUME NEW c, NEW d, ControllerType(c), Keeps(c, d), d.nextLease = c.nextLease
  PROVE  Step(c, d)
<1>1. c.nextLease \in Nat
  BY DEF ControllerType
<1>2. QED
  BY <1>1 DEF Step, Keeps, InOrder, Draining, Drains

\* The operations that begin with expire_at.
LEMMA ExpireThenQuiet ==
  ASSUME NEW c, CtlInv(c), NEW d, ControllerType(d), Keeps(Expire(c), d),
         d.nextLease = Expire(c).nextLease
  PROVE  Step(c, d)
<1>1. CtlInv(Expire(c)) /\ Keeps(c, Expire(c)) /\ Expire(c).nextLease = c.nextLease
  BY ExpireInv
<1>2. Keeps(c, d)
  BY <1>1, KeepsTrans DEF CtlInv, Tables
<1>3. QED
  BY <1>1, <1>2, QuietStep DEF CtlInv, Tables

\* expire_at itself.
LEMMA ExpireStep ==
  ASSUME NEW c, CtlInv(c)
  PROVE  CtlInv(Expire(c)) /\ Step(c, Expire(c)) /\ SameClaims(c, Expire(c))
<1>1. /\ CtlInv(Expire(c)) /\ Keeps(c, Expire(c)) /\ Expire(c).nextLease = c.nextLease
      /\ ControllerType(c) /\ SameClaims(c, Expire(c))
  BY ExpireInv DEF CtlInv, Tables, SameClaims
<1>2. QED
  BY <1>1, QuietStep

\* A fresh lease takes a permit that is free: admit keeps the tables, and
\* occupancy grows by one.
LEMMA AdmitInv ==
  ASSUME NEW c, Tables(c), NEW p \in Principals
  PROVE  LET d == Admit(c, p)
         IN  /\ Tables(d) /\ SameCapacity(c, d) /\ SameQueue(c, d)
             /\ FewerAdmitted(c, d) /\ LeasesEnd(c, d) /\ TicketsEnd(c, d)
             /\ d.nextLease = c.nextLease + 1 /\ d.active[c.nextLease] = p
             /\ d.active = Put(c.active, c.nextLease, p)
             /\ Occupied(d) = Occupied(c) + 1
<1>. DEFINE act == Put(c.active, c.nextLease, p)
            d   == [c EXCEPT !.active = act, !.nextLease = c.nextLease + 1]
<1>1. d = Admit(c, p)
  BY DEF Admit
<1>2. c.nextLease \in Nat \ {0} /\ c.active \in [DOMAIN c.active -> Principals]
      /\ DOMAIN c.active \subseteq Nat /\ IsFiniteSet(DOMAIN c.active)
      /\ ControllerType(c) /\ IdsIssued(c)
  BY DEF Tables, ControllerType
<1>3. c.nextLease \notin DOMAIN c.active /\ c.nextLease \notin DOMAIN c.reservations
  BY <1>2 DEF IdsIssued
<1>4. /\ act \in [DOMAIN act -> Principals]
      /\ DOMAIN act = DOMAIN c.active \cup {c.nextLease}
      /\ act[c.nextLease] = p
  BY <1>2 DEF Put
<1>5. /\ IsFiniteSet(DOMAIN act) /\ DOMAIN act \subseteq Nat
      /\ Cardinality(DOMAIN act) = Cardinality(DOMAIN c.active) + 1
  BY <1>2, <1>3, <1>4, FS_AddElement
<1>. HIDE DEF act
<1>6. ControllerType(d)
  <2>1. c.nextLease + 1 \in Nat \ {0}
    BY <1>2
  <2>2. QED
    BY <1>2, <1>4, <1>5, <2>1 DEF ControllerType
<1>7. /\ d.active = act /\ d.reservations = c.reservations /\ SameQueue(c, d)
      /\ d.nextLease = c.nextLease + 1 /\ SameCapacity(c, d)
  BY <1>2 DEF ControllerType, SameCapacity, SameQueue
<1>. HIDE DEF d
<1>8. IdsIssued(d)
  BY <1>2, <1>3, <1>4, <1>7 DEF IdsIssued, SameQueue
<1>9. Occupied(d) = Occupied(c) + 1
  <2>1. InState(d, "Offered") = InState(c, "Offered")
    BY <1>7 DEF InState, SameQueue
  <2>2. QED
    BY <1>2, <1>5, <1>7, <2>1, OccupiedType DEF Occupied
<1>10. QueueInv(d) /\ FewerAdmitted(c, d) /\ TicketsEnd(c, d)
  BY <1>2, <1>7, SameQueueInv
<1>11. LeasesEnd(c, d)
  BY <1>2, <1>4, <1>7 DEF LeasesEnd
<1>12. d.active = Put(c.active, c.nextLease, p)
  BY <1>7 DEF act
<1>13. QED
  BY <1>1, <1>4, <1>6, <1>7, <1>8, <1>9, <1>10, <1>11, <1>12 DEF Tables

\* A new waiting ticket holds no permit and is the youngest; request_join_at
\* enqueues only where nobody of the principal queues and no permit is free.
LEMMA EnqueueInv ==
  ASSUME NEW c, CtlInv(c), NEW p \in Principals, NEW k \in Keys,
         ~HasQueued(c, p), ~(Occupied(c) < Limit(c))
  PROVE  LET d == Enqueue(c, p, k)
         IN  /\ CtlInv(d) /\ Keeps(c, d) /\ d.nextLease = c.nextLease
             /\ d.active = c.active /\ d.nextTicket = c.nextTicket + 1
             /\ c.nextTicket \in Live(d) /\ d.tickets[c.nextTicket].principal = p
<1>. DEFINE t   == [principal |-> p, key |-> k, state |-> "Waiting",
                    ttl |-> TicketTtl, beat |-> HeartbeatTimeout,
                    left |-> 0, lease |-> NoLease]
            new == c.nextTicket
            tks == Put(c.tickets, new, t)
            idx == [c.index EXCEPT ![<<p, k>>] = new]
            wait == Append(c.waiting, new)
            d   == [c EXCEPT !.tickets = tks, !.index = idx, !.waiting = wait,
                             !.nextTicket = c.nextTicket + 1]
<1>1. d = Enqueue(c, p, k)
  BY DEF Enqueue
<1>2. /\ ControllerType(c) /\ IdsIssued(c) /\ QueueInv(c) /\ AdmittedInv(c)
      /\ new \in Nat \ {0} /\ c.waiting \in Seq(Nat)
      /\ c.tickets \in [DOMAIN c.tickets -> TicketEntry]
      /\ c.index \in [Principals \X Keys -> Nat]
      /\ DOMAIN c.tickets \subseteq Nat /\ IsFiniteSet(DOMAIN c.tickets)
      /\ c.nextLease \in Nat /\ c.allocated \in Nat
      /\ c.pending \in Nat \cup {NoTarget}
  BY DEF CtlInv, Tables, ControllerType
<1>3. t \in TicketEntry /\ t.state = "Waiting" /\ t.principal = p /\ KeyOf(t) = <<p, k>>
  BY PolicyAssumption DEF TicketEntry, TicketStates, NoLease, KeyOf
<1>. HIDE DEF t
<1>4. \A i \in DOMAIN c.tickets : i \in Nat /\ i < new /\ i # new
  BY <1>2 DEF IdsIssued
<1>5. /\ tks \in [DOMAIN tks -> TicketEntry]
      /\ DOMAIN tks = DOMAIN c.tickets \cup {new}
      /\ tks[new] = t
      /\ \A i \in DOMAIN c.tickets : tks[i] = c.tickets[i]
  BY <1>2, <1>3, <1>4 DEF Put
<1>6. IsFiniteSet(DOMAIN tks) /\ DOMAIN tks \subseteq Nat
  <2>1. IsFiniteSet(DOMAIN c.tickets \cup {new})
    BY <1>2, FS_AddElement
  <2>2. QED
    BY <1>2, <1>5, <2>1
<1>7. /\ idx \in [Principals \X Keys -> Nat]
      /\ idx[<<p, k>>] = new
      /\ \A pk \in Principals \X Keys : pk # <<p, k>> => idx[pk] = c.index[pk]
  BY <1>2
<1>8. /\ wait \in Seq(Nat)
      /\ Elements(wait) = InState(c, "Waiting") \cup {new}
      /\ Sorted(wait) /\ wait # <<>>
  <2>1. /\ Elements(c.waiting) = InState(c, "Waiting") /\ Sorted(c.waiting)
        /\ \A i \in DOMAIN c.waiting : c.waiting[i] < new
    BY <1>2, <1>4 DEF QueueInv, QueueListed, Elements, InState
  <2>2. /\ wait \in Seq(Nat) /\ Len(c.waiting) \in Nat
        /\ DOMAIN c.waiting = 1..Len(c.waiting)
        /\ DOMAIN wait = 1..(Len(c.waiting) + 1)
        /\ \A i \in DOMAIN c.waiting : wait[i] = c.waiting[i]
        /\ wait[Len(c.waiting) + 1] = new
    BY <1>2
  <2>. HIDE DEF wait
  <2>3. Elements(wait) = Elements(c.waiting) \cup {new}
    BY <2>2, SMTT(30) DEF Elements
  <2>4. Sorted(wait)
    <3>1. SUFFICES ASSUME NEW i \in DOMAIN wait, NEW j \in DOMAIN wait, i < j
                   PROVE  wait[i] < wait[j]
      BY DEF Sorted
    <3>2. i \in DOMAIN c.waiting
      BY <2>2, <3>1
    <3>3. CASE j \in DOMAIN c.waiting
      BY <2>1, <2>2, <3>1, <3>2, <3>3 DEF Sorted
    <3>4. CASE j = Len(c.waiting) + 1
      BY <2>1, <2>2, <3>2, <3>4
    <3>5. QED
      BY <2>2, <3>3, <3>4
  <2>5. wait # <<>>
    BY <2>2
  <2>6. QED
    BY <2>1, <2>2, <2>3, <2>4, <2>5
<1>. HIDE DEF tks, idx, wait
<1>9. ControllerType(d)
  <2>1. /\ c.nextTicket + 1 \in Nat \ {0} /\ ControllerType(c)
        /\ tks \in [DOMAIN tks -> TicketEntry]
        /\ IsFiniteSet(DOMAIN tks) /\ DOMAIN tks \subseteq Nat
        /\ idx \in [Principals \X Keys -> Nat] /\ wait \in Seq(Nat)
    BY <1>2, <1>5, <1>6, <1>7, <1>8
  <2>2. QED
    BY ONLY <2>1 DEF ControllerType, d
<1>10. /\ d.active = c.active /\ d.reservations = c.reservations /\ d.tickets = tks
       /\ d.index = idx /\ d.waiting = wait
       /\ d.nextLease = c.nextLease /\ d.nextTicket = new + 1 /\ SameCapacity(c, d)
  BY <1>2 DEF ControllerType, SameCapacity
<1>. HIDE DEF d
<1>11. IdsIssued(d)
  BY <1>2, <1>5, <1>10 DEF IdsIssued
<1>12. /\ Live(d) = Live(c) \cup {new} /\ new \notin Live(c)
       /\ InState(d, "Waiting") = InState(c, "Waiting") \cup {new}
       /\ \A s \in {"Offered", "Admitted"} : InState(d, s) = InState(c, s)
  BY <1>3, <1>4, <1>5, <1>10 DEF InState, Live, IsLive
<1>13. /\ Occupied(d) = Occupied(c) /\ Limit(d) = Limit(c)
       /\ Occupied(c) \in Nat /\ Limit(c) \in Int
  <2>1. Occupied(c) \in Nat /\ Limit(c) \in Int
    <3>1. c.pending \in Nat \cup {NoTarget} /\ c.allocated \in Nat
      BY <1>2 DEF ControllerType
    <3>2. Limit(c) \in Int
      BY ONLY <3>1 DEF Limit, NoTarget
    <3>3. QED
      BY <1>2, <3>2, OccupiedType
  <2>2. QED
    BY <1>10, <1>12, <2>1 DEF Occupied, Limit, SameCapacity
<1>14. QueueInv(d)
  <2>1. QueueListed(d)
    BY <1>8, <1>10, <1>12 DEF QueueListed
  <2>2. \A i \in Live(c) : d.tickets[i] = c.tickets[i] /\ i < new
    BY <1>4, <1>5, <1>10 DEF Live
  <2>3. d.tickets[new] = t
    BY <1>5, <1>10
  <2>4. IndexExact(d)
    <3>1. SUFFICES ASSUME NEW pk \in Principals \X Keys
                   PROVE  IF d.index[pk] = NoTicket
                          THEN \A i \in Live(d) : KeyOf(d.tickets[i]) # pk
                          ELSE d.index[pk] \in Live(d) /\ KeyOf(d.tickets[d.index[pk]]) = pk
      BY DEF IndexExact
    <3>2. CASE pk = <<p, k>>
      BY <1>2, <1>3, <1>7, <1>10, <1>12, <2>3, <3>2 DEF NoTicket
    <3>3. CASE pk # <<p, k>>
      <4>1. d.index[pk] = c.index[pk]
        BY <1>7, <1>10, <3>3
      <4>2. IF c.index[pk] = NoTicket
            THEN \A i \in Live(c) : KeyOf(c.tickets[i]) # pk
            ELSE c.index[pk] \in Live(c) /\ KeyOf(c.tickets[c.index[pk]]) = pk
        BY <1>2 DEF QueueInv, IndexExact
      <4>3. KeyOf(t) # pk
        BY <1>3, <3>3
      <4>4. QED
        BY ONLY <1>12, <2>2, <2>3, <4>1, <4>2, <4>3
    <3>4. QED
      BY <3>2, <3>3
  <2>5. OneLive(d)
    <3>1. OneLive(c)
      BY <1>2 DEF QueueInv
    <3>2. QED
      BY <1>3, <1>12, <2>2, <2>3, <3>1 DEF OneLive, HasQueued
  <2>6. OldestFirst(d)
    <3>1. OldestFirst(c)
      BY <1>2 DEF QueueInv
    <3>2. QED
      BY ONLY <1>2, <1>4, <1>12, <3>1, SMTT(30) DEF OldestFirst, InState
  <2>7. QED
    BY <2>1, <2>4, <2>5, <2>6 DEF QueueInv
<1>15. AdmittedInv(d)
  <2>1. FewerAdmitted(c, d)
    BY <1>2, <1>5, <1>10, <1>12 DEF FewerAdmitted, InState
  <2>2. QED
    BY <1>2, <1>9, <2>1, AdmittedFewer
<1>16. Within(d) /\ Busy(d)
  BY <1>10, <1>13 DEF CtlInv, Within, Busy, SameCapacity
<1>17. Keeps(c, d)
  <2>1. LeasesEnd(c, d)
    BY <1>2, <1>10 DEF LeasesEnd
  <2>2. TicketsEnd(c, d)
    BY <1>2, <1>5, <1>10 DEF TicketsEnd
  <2>3. Drains(c, d)
    BY <1>2, <1>10, <1>12, <1>13 DEF Drains, SameCapacity
  <2>4. QED
    BY <2>1, <2>2, <2>3 DEF Keeps
<1>18. new \in Live(d) /\ d.tickets[new].principal = p
  BY <1>3, <1>5, <1>10, <1>12
<1>19. QED
  BY <1>1, <1>9, <1>10, <1>18, <1>11, <1>14, <1>15, <1>16, <1>17 DEF CtlInv, Tables

\* request_join_at, deciding r for principal p, takes c to d: a fresh lease, or
\* a fresh ticket, or neither; a ticket told is live and the principal's.
Requested(c, d, p, r) ==
  /\ d.active = IF r.kind = "Admitted" THEN Put(c.active, c.nextLease, p) ELSE c.active
  /\ d.nextTicket = IF r.kind = "Queued" /\ r.id = c.nextTicket
                    THEN c.nextTicket + 1 ELSE c.nextTicket
  /\ r.kind = "Admitted" => r.id = c.nextLease
  /\ r.kind = "Queued" => r.id \in Live(d) /\ d.tickets[r.id].principal = p

\* request_join_at
LEMMA RequestJoinInv ==
  ASSUME NEW c, CtlInv(c), NEW p \in Principals, NEW k \in Keys
  PROVE  /\ CtlInv(RequestJoin(c, p, k)) /\ Step(c, RequestJoin(c, p, k))
         /\ Requested(c, RequestJoin(c, p, k), p, JoinDecision(Expire(c), p, k))
<1>. DEFINE e == Expire(c)
            r == JoinDecision(e, p, k)
            d == Admit(e, p)
<1>1. /\ CtlInv(e) /\ Keeps(c, e) /\ e.nextLease = c.nextLease
      /\ e.nextTicket = c.nextTicket /\ e.active = c.active
  BY ExpireInv
<1>2. /\ Occupied(e) \in Nat /\ e.allocated \in Nat /\ e.pending \in Nat \cup {NoTarget}
      /\ ControllerType(c) /\ ControllerType(e) /\ Tables(e) /\ e.nextLease \in Nat
  BY <1>1, OccupiedType DEF CtlInv, Tables, ControllerType
<1>3. CASE r.kind = "Admitted"
  <2>1. RequestJoin(c, p, k) = d
    BY <1>3 DEF RequestJoin
  <2>. HIDE DEF e
  <2>2. Occupied(e) < Limit(e)
    BY <1>3 DEF JoinDecision
  <2>3. e.pending = NoTarget /\ Occupied(e) + 1 <= e.allocated
    BY <1>1, <1>2, <2>2 DEF CtlInv, Within, Limit
  <2>4. e.waiting = <<>>
    BY <1>1, <1>2, <2>2, <2>3 DEF CtlInv, Busy, Limit
  <2>5. /\ Tables(d) /\ SameCapacity(e, d) /\ SameQueue(e, d)
        /\ FewerAdmitted(e, d) /\ LeasesEnd(e, d) /\ TicketsEnd(e, d)
        /\ Occupied(d) = Occupied(e) + 1 /\ d.active = Put(e.active, e.nextLease, p)
    BY <1>2, AdmitInv
  <2>. HIDE DEF d
  <2>6. ControllerType(d)
    BY <2>5 DEF Tables
  <2>7. d.waiting = <<>> /\ d.pending = NoTarget /\ d.allocated = e.allocated
    BY <2>3, <2>4, <2>5 DEF SameQueue, SameCapacity
  <2>8. CtlInv(d)
    <3>1. AdmittedInv(d)
      BY <1>1, <1>2, <2>5, <2>6, AdmittedFewer DEF CtlInv
    <3>2. Within(d)
      BY <2>3, <2>5, <2>7 DEF Within
    <3>3. QED
      BY <2>5, <2>7, <3>1, <3>2 DEF CtlInv, Busy
  <2>9. Keeps(c, d)
    <3>1. Keeps(e, d)
      BY <2>5, <2>7 DEF Keeps, Drains
    <3>2. QED
      BY <1>1, <1>2, <2>6, <3>1, KeepsTrans
  <2>10. Step(c, d)
    BY <2>7, <2>9 DEF Step, Keeps, InOrder, Draining
  <2>11. Requested(c, d, p, r)
    <3>1. r.kind = "Admitted" => r.id = e.nextLease
      BY DEF JoinDecision
    <3>. HIDE DEF r
    <3>2. QED
      BY <1>1, <1>3, <2>5, <3>1 DEF Requested, SameQueue
  <2>12. QED
    BY <2>1, <2>8, <2>10, <2>11 DEF e
<1>4. CASE r.kind # "Admitted" /\ r.kind = "Queued" /\ r.id = e.nextTicket
  <2>1. RequestJoin(c, p, k) = Enqueue(e, p, k)
    BY <1>4 DEF RequestJoin
  <2>2. ~HasQueued(e, p) /\ ~(Occupied(e) < Limit(e))
    <3>. HIDE DEF e
    <3>1. e.nextTicket \notin Live(e)
      BY <1>2 DEF Tables, IdsIssued, Live, ControllerType
    <3>2. QED
      BY <1>4, <3>1 DEF JoinDecision
  <2>3. /\ CtlInv(Enqueue(e, p, k)) /\ Keeps(e, Enqueue(e, p, k))
        /\ Enqueue(e, p, k).nextLease = e.nextLease
        /\ Requested(c, Enqueue(e, p, k), p, r)
    <3>. HIDE DEF e
    <3>1. LET g == Enqueue(e, p, k)
          IN  /\ CtlInv(g) /\ Keeps(e, g) /\ g.nextLease = e.nextLease
              /\ g.active = e.active /\ g.nextTicket = e.nextTicket + 1
              /\ e.nextTicket \in Live(g) /\ g.tickets[e.nextTicket].principal = p
      BY <1>1, <2>2, EnqueueInv
    <3>. HIDE DEF r
    <3>2. QED
      BY <1>1, <1>4, <3>1 DEF Requested
  <2>4. QED
    BY <2>1, <2>3, ExpireThenQuiet DEF CtlInv, Tables
<1>5. CASE r.kind # "Admitted" /\ ~(r.kind = "Queued" /\ r.id = e.nextTicket)
  <2>1. RequestJoin(c, p, k) = e
    BY <1>5 DEF RequestJoin
  <2>2. Requested(c, e, p, r)
    <3>. HIDE DEF e
    <3>1. r.kind = "Queued" => r.id \in Live(e) /\ e.tickets[r.id].principal = p
      <4>1. r.kind = "Queued" => r.id = e.index[<<p, k>>] /\ r.id \in Live(e)
        BY <1>5 DEF JoinDecision
      <4>2. \A i \in Live(e) : i # NoTicket
        BY <1>2 DEF Tables, IdsIssued, Live, NoTicket
      <4>3. <<p, k>> \in Principals \X Keys /\ IndexExact(e)
        BY <1>2 DEF Tables, QueueInv
      <4>. HIDE DEF r
      <4>4. QED
        BY <4>1, <4>2, <4>3 DEF IndexExact, KeyOf
    <3>. HIDE DEF r
    <3>2. QED
      BY <1>1, <1>5, <3>1 DEF Requested
  <2>3. QED
    BY <2>1, <2>2, ExpireStep
<1>6. QED
  BY <1>3, <1>4, <1>5

\* The deadlines of tickets change and nothing else about them.
Retouched(c, d) ==
  /\ DOMAIN d.tickets = DOMAIN c.tickets
  /\ \A i \in DOMAIN c.tickets : /\ d.tickets[i].state = c.tickets[i].state
                                 /\ d.tickets[i].principal = c.tickets[i].principal
                                 /\ KeyOf(d.tickets[i]) = KeyOf(c.tickets[i])
                                 /\ d.tickets[i].lease = c.tickets[i].lease
  /\ d.waiting = c.waiting
  /\ d.index = c.index
  /\ d.nextTicket = c.nextTicket
  /\ d.active = c.active
  /\ DOMAIN d.reservations = DOMAIN c.reservations
  /\ d.nextLease = c.nextLease
  /\ SameCapacity(c, d)

\* A heartbeat and the passing of time change deadlines only.
LEMMA RetouchedInv ==
  ASSUME NEW c, CtlInv(c), NEW d, ControllerType(d), Retouched(c, d)
  PROVE  CtlInv(d) /\ Keeps(c, d)
<1>1. /\ ControllerType(c) /\ IdsIssued(c) /\ QueueInv(c) /\ AdmittedInv(c)
      /\ c.nextTicket \in Nat /\ c.nextLease \in Nat /\ Occupied(c) \in Nat
  BY OccupiedType DEF CtlInv, Tables, ControllerType
<1>2. Live(d) = Live(c) /\ \A s : InState(d, s) = InState(c, s)
  BY DEF Live, IsLive, InState, Retouched
<1>3. Occupied(d) = Occupied(c) /\ Limit(d) = Limit(c)
  BY <1>2 DEF Occupied, Limit, Retouched, SameCapacity
<1>4. QueueInv(d)
  <2>1. \A i \in Live(c) : /\ d.tickets[i].principal = c.tickets[i].principal
                           /\ KeyOf(d.tickets[i]) = KeyOf(c.tickets[i])
    BY DEF Retouched, Live
  <2>2. d.waiting = c.waiting /\ d.index = c.index
    BY DEF Retouched
  <2>3. IndexExact(d)
    BY <1>1, <1>2, <2>1, <2>2 DEF QueueInv, IndexExact
  <2>4. QED
    BY <1>1, <1>2, <2>1, <2>2, <2>3 DEF QueueInv, QueueListed, OneLive, OldestFirst
<1>5. AdmittedInv(d)
  <2>1. FewerAdmitted(c, d)
    BY <1>1, <1>2 DEF FewerAdmitted, Retouched, InState
  <2>2. QED
    BY <1>1, <2>1, AdmittedFewer
<1>6. IdsIssued(d)
  BY <1>1 DEF IdsIssued, Retouched
<1>7. Within(d) /\ Busy(d)
  BY <1>3 DEF CtlInv, Within, Busy, Retouched, SameCapacity
<1>8. Keeps(c, d)
  <2>1. LeasesEnd(c, d)
    BY <1>1 DEF LeasesEnd, Retouched
  <2>2. TicketsEnd(c, d)
    BY <1>1 DEF TicketsEnd, Retouched, IsLive
  <2>3. Drains(c, d)
    BY <1>1, <1>2, <1>3 DEF Drains, Retouched, SameCapacity
  <2>4. QED
    BY <2>1, <2>2, <2>3 DEF Keeps
<1>9. QED
  BY <1>4, <1>5, <1>6, <1>7, <1>8 DEF CtlInv, Tables

\* heartbeat_at
LEMMA HeartbeatInv ==
  ASSUME NEW c, CtlInv(c), NEW i
  PROVE  CtlInv(Heartbeat(c, i)) /\ Step(c, Heartbeat(c, i)) /\ SameClaims(c, Heartbeat(c, i))
<1>. DEFINE e == Expire(c)
            u == [e.tickets[i] EXCEPT !.beat = HeartbeatTimeout]
            tks == Put(e.tickets, i, u)
            d == [e EXCEPT !.tickets = tks]
<1>1. CtlInv(e) /\ SameClaims(c, e)
  BY ExpireStep
<1>2. CASE i \notin InState(e, "Waiting")
  BY <1>2, ExpireStep DEF Heartbeat
<1>3. CASE i \in InState(e, "Waiting")
  <2>1. d = Heartbeat(c, i)
    BY <1>3 DEF Heartbeat
  <2>. HIDE DEF e
  <2>2. e.tickets \in [DOMAIN e.tickets -> TicketEntry] /\ i \in DOMAIN e.tickets
        /\ ControllerType(e)
    BY <1>1, <1>3 DEF CtlInv, Tables, ControllerType, InState
  <2>3. /\ u \in TicketEntry
        /\ u.state = e.tickets[i].state /\ u.principal = e.tickets[i].principal
        /\ KeyOf(u) = KeyOf(e.tickets[i]) /\ u.lease = e.tickets[i].lease
    <3>1. e.tickets[i] \in TicketEntry /\ HeartbeatTimeout \in Nat
      BY <2>2, PolicyAssumption
    <3>2. QED
      BY <3>1 DEF TicketEntry, KeyOf
  <2>. HIDE DEF u
  <2>4. /\ DOMAIN tks = DOMAIN e.tickets /\ tks \in [DOMAIN e.tickets -> TicketEntry]
        /\ \A j \in DOMAIN tks : tks[j] = IF j = i THEN u ELSE e.tickets[j]
    BY <2>2, <2>3 DEF Put
  <2>. HIDE DEF tks
  <2>5. ControllerType(d)
    BY <2>2, <2>4 DEF ControllerType
  <2>6. SameLeases(e, d) /\ SameCapacity(e, d) /\ d.tickets = tks
        /\ d.waiting = e.waiting /\ d.index = e.index
    BY <2>2, <2>4 DEF ControllerType, SameLeases, SameCapacity
  <2>. HIDE DEF d
  <2>7. Retouched(e, d)
    BY <2>3, <2>4, <2>6 DEF Retouched, SameLeases
  <2>8. CtlInv(d) /\ Keeps(e, d)
    BY <1>1, <2>5, <2>7, RetouchedInv
  <2>9. Step(c, d) /\ SameClaims(c, d)
    BY <1>1, <2>5, <2>6, <2>8, ExpireThenQuiet DEF e, SameLeases, SameClaims
  <2>10. QED
    BY <2>1, <2>8, <2>9
<1>4. QED
  BY <1>2, <1>3

\* Time alone changes no permit: what is overdue counts until it is expired.
LEMMA ElapseInv ==
  ASSUME NEW c, CtlInv(c)
  PROVE  CtlInv(Elapse(c)) /\ Step(c, Elapse(c)) /\ SameClaims(c, Elapse(c))
<1>. DEFINE Less(n) == IF n = 0 THEN 0 ELSE n - 1
            res == [l \in DOMAIN c.reservations |->
                      [c.reservations[l] EXCEPT !.left = Less(c.reservations[l].left)]]
            tks == [i \in DOMAIN c.tickets |->
                      [c.tickets[i] EXCEPT !.ttl  = Less(c.tickets[i].ttl),
                                           !.beat = Less(c.tickets[i].beat),
                                           !.left = Less(c.tickets[i].left)]]
            d == [c EXCEPT !.reservations = res, !.tickets = tks]
<1>1. d = Elapse(c)
  BY DEF Elapse
<1>2. /\ ControllerType(c)
      /\ c.reservations \in [DOMAIN c.reservations -> Reservation]
      /\ c.tickets \in [DOMAIN c.tickets -> TicketEntry]
  BY DEF CtlInv, Tables, ControllerType
<1>3. \A n \in Nat : Less(n) \in Nat
  OBVIOUS
<1>. HIDE DEF Less
<1>4. DOMAIN res = DOMAIN c.reservations /\ res \in [DOMAIN c.reservations -> Reservation]
  BY <1>2, <1>3 DEF Reservation
<1>5. /\ DOMAIN tks = DOMAIN c.tickets /\ tks \in [DOMAIN c.tickets -> TicketEntry]
      /\ \A i \in DOMAIN tks : /\ tks[i].state = c.tickets[i].state
                               /\ tks[i].principal = c.tickets[i].principal
                               /\ tks[i].key = c.tickets[i].key
                               /\ tks[i].lease = c.tickets[i].lease
  BY <1>2, <1>3 DEF TicketEntry
<1>. HIDE DEF res, tks
<1>6. ControllerType(d)
  BY <1>2, <1>4, <1>5 DEF ControllerType
<1>7. /\ d.active = c.active /\ d.reservations = res /\ d.tickets = tks
      /\ d.nextLease = c.nextLease /\ d.nextTicket = c.nextTicket /\ SameCapacity(c, d)
      /\ d.waiting = c.waiting /\ d.index = c.index
  BY <1>2 DEF ControllerType, SameCapacity
<1>. HIDE DEF d
<1>8. Retouched(c, d)
  BY <1>4, <1>5, <1>7 DEF Retouched, KeyOf
<1>9. CtlInv(d) /\ Keeps(c, d)
  BY <1>6, <1>8, RetouchedInv
<1>10. QED
  BY <1>1, <1>2, <1>7, <1>9, QuietStep DEF SameClaims

-----------------------------------------------------------------------------
\* d is c with ticket i ended in state s, out of the index and the queue.
Ends(c, d, i, s, l) ==
  /\ d.tickets = Put(c.tickets, i, Ended(c.tickets[i], s, l))
  /\ d.index = Unindex(c, {i})
  /\ Elements(d.waiting) = InState(c, "Waiting") \ {i}
  /\ Sorted(d.waiting)
  /\ SameLeases(c, d)
  /\ SameCapacity(c, d)

\* tks is the ticket table of c with entry i ended in state s.
EntryEnds(c, tks, i, s, l) ==
  /\ tks \in [DOMAIN c.tickets -> TicketEntry]
  /\ DOMAIN tks = DOMAIN c.tickets
  /\ tks[i].state = s /\ tks[i].lease = l
  /\ tks[i].principal = c.tickets[i].principal
  /\ \A j \in DOMAIN c.tickets : j # i => tks[j] = c.tickets[j]

\* Ending ticket i in the ticket table changes entry i and nothing else.
LEMMA EndEntry ==
  ASSUME NEW c, ControllerType(c), NEW i \in DOMAIN c.tickets,
         NEW s \in {"Expired", "Cancelled", "Admitted"}, NEW l \in Nat,
         NEW tks, tks = Put(c.tickets, i, Ended(c.tickets[i], s, l))
  PROVE  EntryEnds(c, tks, i, s, l)
<1>. DEFINE u == Ended(c.tickets[i], s, l)
<1>1. c.tickets \in [DOMAIN c.tickets -> TicketEntry]
  BY DEF ControllerType
<1>2. u \in TicketEntry /\ u.state = s /\ u.lease = l /\ u.principal = c.tickets[i].principal
  <2>1. c.tickets[i] \in TicketEntry /\ s \in {"Expired", "Cancelled", "Admitted"} /\ l \in Nat
    BY <1>1
  <2>2. Ended(c.tickets[i], s, l) \in TicketEntry
    BY ONLY <2>1, EndedType
  <2>3. /\ Ended(c.tickets[i], s, l).state = s /\ Ended(c.tickets[i], s, l).lease = l
        /\ Ended(c.tickets[i], s, l).principal = c.tickets[i].principal
    BY ONLY <2>1, EndedType, SMTT(30)
  <2>4. QED
    BY ONLY <2>2, <2>3 DEF u
<1>3. tks = Put(c.tickets, i, u)
  OBVIOUS
<1>. HIDE DEF u
<1>4. DOMAIN tks = DOMAIN c.tickets /\ tks \in [DOMAIN c.tickets -> TicketEntry]
  BY ONLY <1>1, <1>2, <1>3, i \in DOMAIN c.tickets DEF Put
<1>5. \A j \in DOMAIN c.tickets : tks[j] = IF j = i THEN u ELSE c.tickets[j]
  BY ONLY <1>3 DEF Put
<1>6. QED
  BY <1>2, <1>4, <1>5 DEF EntryEnds

\* d has the live and the admitted tickets of c, except that i has ended.
TicketGone(c, d, i, s, l) ==
  /\ Live(d) = Live(c) \ {i}
  /\ InState(d, "Offered") = InState(c, "Offered") \ {i}
  /\ \A j \in InState(d, "Admitted") :
       \/ j \in InState(c, "Admitted") /\ d.tickets[j].lease = c.tickets[j].lease
       \/ j = i /\ s = "Admitted" /\ d.tickets[j].lease = l

\* When a live ticket ends the tables agree again.
LEMMA EndTicket ==
  ASSUME NEW c, Tables(c), NEW i \in Live(c), NEW s \in {"Cancelled", "Admitted"},
         NEW l \in Nat, NEW d, ControllerType(d), Ends(c, d, i, s, l)
  PROVE  Tables(d) /\ TicketsEnd(c, d) /\ LeasesEnd(c, d) /\ TicketGone(c, d, i, s, l)
<1>1. /\ ControllerType(c) /\ IdsIssued(c) /\ i \in DOMAIN c.tickets /\ IsLive(c.tickets[i])
      /\ c.nextLease \in Nat /\ c.nextTicket \in Nat
  BY DEF Tables, Live, ControllerType
<1>2. /\ DOMAIN d.tickets = DOMAIN c.tickets
      /\ d.tickets[i].state = s /\ d.tickets[i].lease = l
      /\ d.tickets[i].principal = c.tickets[i].principal
      /\ \A j \in DOMAIN c.tickets : j # i => d.tickets[j] = c.tickets[j]
  <2>1. /\ s \in {"Expired", "Cancelled", "Admitted"} /\ l \in Nat
        /\ ControllerType(c) /\ i \in DOMAIN c.tickets
    BY <1>1
  <2>2. d.tickets = Put(c.tickets, i, Ended(c.tickets[i], s, l))
    BY DEF Ends
  <2>3. EntryEnds(c, d.tickets, i, s, l)
    BY ONLY <2>1, <2>2, EndEntry
  <2>4. QED
    BY <2>3 DEF EntryEnds
<1>3. /\ Live(d) = Live(c) \ {i}
      /\ \A t \in {"Waiting", "Offered"} : InState(d, t) = InState(c, t) \ {i}
  BY <1>2 DEF Live, IsLive, InState
<1>4. Retires(c, d)
  <2>1. \A pk \in Principals \X Keys :
          d.index[pk] = IF c.index[pk] \in Live(c) \ {i} THEN c.index[pk] ELSE NoTicket
    <3>1. {i} \in SUBSET Live(c) /\ Tables(c)
      OBVIOUS
    <3>2. \A pk \in Principals \X Keys :
            Unindex(c, {i})[pk] = IF c.index[pk] \in Live(c) \ {i} THEN c.index[pk] ELSE NoTicket
      BY ONLY <3>1, UnindexRetires
    <3>3. d.index = Unindex(c, {i})
      BY DEF Ends
    <3>4. QED
      BY ONLY <3>2, <3>3
  <2>2. \A j \in Live(d) : d.tickets[j] = c.tickets[j]
    BY <1>2, <1>3 DEF Live
  <2>3. QueueListed(d)
    BY <1>3 DEF Ends, QueueListed
  <2>4. QED
    BY <1>3, <2>1, <2>2, <2>3 DEF Retires
<1>5. QueueInv(d)
  BY <1>4, RetireQueue
<1>6. IdsIssued(d)
  BY <1>1 DEF IdsIssued, Ends, SameLeases
<1>7. LeasesEnd(c, d)
  BY <1>1 DEF LeasesEnd, Ends, SameLeases
<1>8. TicketsEnd(c, d)
  <2>1. ~IsLive(d.tickets[i])
    BY <1>2 DEF IsLive
  <2>2. QED
    <3>1. d.nextTicket = c.nextTicket
      BY DEF Ends, SameLeases
    <3>2. QED
      BY ONLY <1>1, <1>2, <2>1, <3>1 DEF TicketsEnd
<1>9. TicketGone(c, d, i, s, l)
  BY <1>2, <1>3 DEF TicketGone, InState
<1>10. QED
  BY <1>1, <1>5, <1>6, <1>7, <1>8, <1>9 DEF Tables

\* The common end of the operations that take permits away: prune or not, the
\* state before Settle has the allocation of an invariant state e and at most
\* its permits.
LEMMA SettleAfter ==
  ASSUME NEW e, CtlInv(e), NEW d, Tables(d), AdmittedInv(d), Keeps(e, d),
         d.allocated = e.allocated, Occupied(d) <= Occupied(e)
  PROVE  CtlInv(Settle(d)) /\ Keeps(e, Settle(d)) /\ SameClaims(d, Settle(d))
<1>1. ControllerType(e) /\ ControllerType(d)
  BY DEF CtlInv, Tables
<1>2. Occupied(d) <= d.allocated
  <2>1. Occupied(d) \in Nat /\ Occupied(e) \in Nat /\ e.allocated \in Nat
    BY <1>1, OccupiedType DEF ControllerType
  <2>2. QED
    BY <2>1 DEF CtlInv, Within
<1>3. CtlInv(Settle(d)) /\ Keeps(d, Settle(d)) /\ SameLeases(d, Settle(d))
  BY <1>2, SettleInv
<1>4. Keeps(e, Settle(d))
  BY <1>1, <1>3, KeepsTrans DEF CtlInv, Tables
<1>5. QED
  BY <1>3, <1>4 DEF SameLeases, SameClaims

\* cancel_at
LEMMA CancelInv ==
  ASSUME NEW c, CtlInv(c), NEW i
  PROVE  /\ CtlInv(Cancel(c, i)) /\ Step(c, Cancel(c, i))
         /\ SameClaims(c, Cancel(c, i)) /\ i \notin Live(Cancel(c, i))
<1>. DEFINE e    == Expire(c)
            tks  == Put(e.tickets, i, Ended(e.tickets[i], "Cancelled", NoLease))
            idx  == Unindex(e, {i})
            wait == Retain(e.waiting, Nat \ {i})
            d    == [e EXCEPT !.tickets = tks, !.index = idx, !.waiting = wait]
            f    == PruneTerminal(d)
<1>1. CtlInv(e) /\ SameClaims(c, e)
  BY ExpireStep
<1>2. CASE i \notin Live(e)
  BY <1>2, ExpireStep DEF Cancel
<1>3. CASE i \in Live(e)
  <2>1. Cancel(c, i) = Settle(f)
    BY <1>3 DEF Cancel
  <2>. HIDE DEF e
  <2>2. /\ i \in DOMAIN e.tickets /\ ControllerType(e) /\ Tables(e) /\ QueueInv(e)
        /\ e.waiting \in Seq(Nat)
    <3>1. ControllerType(e) /\ Tables(e) /\ QueueInv(e)
      BY <1>1 DEF CtlInv, Tables
    <3>2. i \in DOMAIN e.tickets
      BY <1>3 DEF Live
    <3>3. e.waiting \in Seq(Nat)
      BY <3>1 DEF ControllerType
    <3>4. QED
      BY <3>1, <3>2, <3>3
  <2>3. tks \in [DOMAIN e.tickets -> TicketEntry] /\ DOMAIN tks = DOMAIN e.tickets
    <3>1. NoLease \in Nat /\ "Cancelled" \in {"Expired", "Cancelled", "Admitted"}
      BY DEF NoLease
    <3>2. tks = Put(e.tickets, i, Ended(e.tickets[i], "Cancelled", NoLease))
      BY DEF tks
    <3>3. ControllerType(e) /\ i \in DOMAIN e.tickets
      BY <2>2
    <3>. HIDE DEF tks
    <3>4. EntryEnds(e, tks, i, "Cancelled", NoLease)
      BY ONLY <3>1, <3>2, <3>3, EndEntry
    <3>5. QED
      BY <3>4 DEF EntryEnds
  <2>4. idx \in [Principals \X Keys -> Nat]
    BY <2>2, UnindexType
  <2>5. wait \in Seq(Nat) /\ Elements(wait) = InState(e, "Waiting") \ {i} /\ Sorted(wait)
    <3>1. /\ Elements(e.waiting) = InState(e, "Waiting") /\ Sorted(e.waiting)
          /\ InState(e, "Waiting") \subseteq Nat
      BY <2>2 DEF QueueInv, QueueListed, InState, ControllerType
    <3>2. wait \in Seq(Nat)
      BY <2>2, RetainType
    <3>3. Elements(wait) = Elements(e.waiting) \cap (Nat \ {i})
      BY <2>2, RetainElements
    <3>4. \A m, n \in DOMAIN wait : m < n => wait[m] < wait[n]
      BY <2>2, <3>1, RetainSorted DEF Sorted
    <3>5. QED
      BY <3>1, <3>2, <3>3, <3>4 DEF Sorted
  <2>. HIDE DEF tks, idx, wait
  <2>6. ControllerType(d)
    BY <2>2, <2>3, <2>4, <2>5 DEF ControllerType
  <2>7. SameLeases(e, d) /\ SameCapacity(e, d) /\ d.tickets = tks
        /\ d.index = idx /\ d.waiting = wait
    BY <2>2, <2>3 DEF ControllerType, SameLeases, SameCapacity
  <2>. HIDE DEF d
  <2>8. Ends(e, d, i, "Cancelled", NoLease)
    BY <2>5, <2>7 DEF Ends, tks, idx
  <2>9. /\ Tables(d) /\ TicketsEnd(e, d) /\ LeasesEnd(e, d) /\ Live(d) = Live(e) \ {i}
        /\ InState(d, "Offered") = InState(e, "Offered") \ {i}
        /\ \A j \in InState(d, "Admitted") :
             j \in InState(e, "Admitted") /\ d.tickets[j].lease = e.tickets[j].lease
    <3>1. NoLease \in Nat /\ "Cancelled" \in {"Cancelled", "Admitted"} /\ "Cancelled" # "Admitted"
      BY DEF NoLease
    <3>2. /\ Tables(e) /\ i \in Live(e) /\ ControllerType(d)
          /\ Ends(e, d, i, "Cancelled", NoLease)
      BY <1>3, <2>2, <2>6, <2>8
    <3>3. /\ Tables(d) /\ TicketsEnd(e, d) /\ LeasesEnd(e, d)
          /\ TicketGone(e, d, i, "Cancelled", NoLease)
      BY ONLY <3>1, <3>2, EndTicket
    <3>4. QED
      BY <3>1, <3>3 DEF TicketGone
  <2>10. Occupied(d) <= Occupied(e)
    BY <2>2, <2>6, <2>7, <2>9, OccupiedMonotone DEF SameLeases
  <2>11. Keeps(e, d)
    BY <2>7, <2>9, <2>10 DEF Keeps, Drains, SameCapacity
  <2>12. AdmittedInv(d)
    <3>1. FewerAdmitted(e, d)
      BY <2>9 DEF FewerAdmitted, LeasesEnd
    <3>2. QED
      BY <1>1, <2>2, <2>6, <3>1, AdmittedFewer DEF CtlInv
  <2>13. /\ Tables(f) /\ Keeps(d, f) /\ FewerAdmitted(d, f) /\ SameCapacity(d, f)
         /\ SameLeases(d, f) /\ Occupied(f) = Occupied(d) /\ Live(f) = Live(d)
    BY <2>9, PruneTerminalInv
  <2>. HIDE DEF f
  <2>14. AdmittedInv(f) /\ Keeps(e, f)
    BY <2>2, <2>6, <2>11, <2>12, <2>13, AdmittedFewer, KeepsTrans DEF Tables
  <2>15. /\ CtlInv(Settle(f)) /\ Keeps(e, Settle(f)) /\ Settle(f).nextLease = e.nextLease
         /\ SameClaims(e, Settle(f)) /\ Keeps(f, Settle(f))
    <3>1. f.allocated = e.allocated /\ Occupied(f) <= Occupied(e) /\ SameClaims(e, f)
      BY <2>7, <2>10, <2>13 DEF SameCapacity, SameLeases, SameClaims
    <3>2. Occupied(f) <= f.allocated
      <4>1. Occupied(f) \in Nat /\ Occupied(e) \in Nat /\ e.allocated \in Nat
        BY <2>2, <2>13, OccupiedType DEF Tables, ControllerType
      <4>2. QED
        BY <1>1, <3>1, <4>1 DEF CtlInv, Within
    <3>3. Keeps(f, Settle(f))
      BY <2>13, <2>14, <3>2, SettleInv
    <3>4. CtlInv(Settle(f)) /\ Keeps(e, Settle(f)) /\ SameClaims(f, Settle(f))
      BY <1>1, <2>13, <2>14, <3>1, SettleAfter
    <3>5. QED
      BY <3>1, <3>3, <3>4 DEF SameClaims
  <2>16. Step(c, Settle(f))
    BY <2>15, ExpireThenQuiet DEF e, CtlInv, Tables
  <2>17. SameClaims(c, Settle(f))
    BY <1>1, <2>15 DEF SameClaims
  <2>18. i \notin Live(Settle(f))
    <3>1. i \in DOMAIN f.tickets => ~IsLive(f.tickets[i])
      BY <2>9, <2>13 DEF Live
    <3>2. i < f.nextTicket /\ i \in Nat /\ f.nextTicket \in Nat
      <4>1. i \in 1..(e.nextTicket - 1) /\ f.nextTicket = e.nextTicket /\ e.nextTicket \in Nat
        BY <2>2, <2>7, <2>13 DEF Tables, IdsIssued, SameLeases, ControllerType
      <4>2. QED
        BY <4>1
    <3>3. QED
      <4>1. TicketsEnd(f, Settle(f))
        BY <2>15 DEF Keeps
      <4>2. QED
        BY ONLY <3>1, <3>2, <4>1, SMTT(30) DEF TicketsEnd, Live
  <2>19. QED
    BY <2>1, <2>15, <2>16, <2>17, <2>18
<1>4. QED
  BY <1>2, <1>3

\* A step that does nothing.
LEMMA IdleStep ==
  ASSUME NEW c, CtlInv(c)
  PROVE  Step(c, c) /\ SameClaims(c, c)
<1>1. ControllerType(c) /\ c.nextLease \in Nat /\ c.nextTicket \in Nat /\ Occupied(c) \in Nat
  BY OccupiedType DEF CtlInv, Tables, ControllerType
<1>2. SameClaims(c, c)
  BY DEF SameClaims
<1>3. LeasesEnd(c, c)
  BY ONLY <1>1 DEF LeasesEnd
<1>4. TicketsEnd(c, c)
  BY ONLY <1>1 DEF TicketsEnd
<1>5. QED
  BY <1>1, <1>2, <1>3, <1>4 DEF Step, InOrder, Draining

\* cancel_principal_at
LEMMA CancelPrincipalInv ==
  ASSUME NEW c, CtlInv(c), NEW p
  PROVE  CtlInv(CancelPrincipal(c, p)) /\ Step(c, CancelPrincipal(c, p))
BY CancelInv, IdleStep DEF CancelPrincipal

\* The claim of ticket i takes c to d: the offer ends and a lease of its owner
\* begins.
Claimed(c, d, i) ==
  /\ i \in Live(c) \ Live(d)
  /\ d.active = Put(c.active, c.nextLease, c.tickets[i].principal)
  /\ d.nextTicket = c.nextTicket
  /\ i \in DOMAIN d.tickets => /\ d.tickets[i].principal = c.tickets[i].principal
                               /\ d.tickets[i].state = "Admitted"
                               /\ d.tickets[i].lease = c.nextLease

\* claim_offer_at: the offer that ends and the lease that begins balance.
LEMMA ClaimOfferInv ==
  ASSUME NEW c, CtlInv(c), NEW i
  PROVE  LET d == ClaimOffer(c, i)
         IN  /\ CtlInv(d) /\ Step(c, d)
             /\ IF i \in InState(Expire(c), "Offered") THEN Claimed(c, d, i) ELSE SameClaims(c, d)
<1>. DEFINE e   == Expire(c)
            p   == e.tickets[i].principal
            tks == Put(e.tickets, i, Ended(e.tickets[i], "Admitted", e.nextLease))
            idx == Unindex(e, {i})
            d   == [e EXCEPT !.tickets = tks, !.index = idx]
            f   == PruneTerminal(d)
            g   == Admit(f, p)
<1>1. /\ CtlInv(e) /\ Keeps(c, e)
      /\ e.nextLease = c.nextLease /\ e.nextTicket = c.nextTicket /\ e.active = c.active
  BY ExpireInv
<1>2. CASE i \notin InState(e, "Offered")
  BY <1>2, ExpireStep DEF ClaimOffer
<1>3. CASE i \in InState(e, "Offered")
  <2>1. ClaimOffer(c, i) = g
    BY <1>3 DEF ClaimOffer
  <2>. HIDE DEF e
  <2>2. /\ i \in DOMAIN e.tickets /\ i \in Live(e) /\ i \notin InState(e, "Waiting")
        /\ ControllerType(e) /\ Tables(e) /\ QueueInv(e) /\ e.nextLease \in Nat \ {0}
        /\ ControllerType(c)
    <3>1. ControllerType(c) /\ ControllerType(e) /\ Tables(e) /\ QueueInv(e)
      BY <1>1 DEF CtlInv, Tables
    <3>2. i \in DOMAIN e.tickets /\ i \in Live(e) /\ i \notin InState(e, "Waiting")
      BY <1>3 DEF InState, Live, IsLive
    <3>3. e.nextLease \in Nat \ {0}
      BY <3>1 DEF ControllerType
    <3>4. QED
      BY <3>1, <3>2, <3>3
  <2>3. p \in Principals
    BY <2>2 DEF ControllerType, TicketEntry
  <2>4. /\ tks \in [DOMAIN e.tickets -> TicketEntry] /\ DOMAIN tks = DOMAIN e.tickets
        /\ tks[i].state = "Admitted" /\ tks[i].lease = e.nextLease
        /\ tks[i].principal = e.tickets[i].principal
    <3>1. e.nextLease \in Nat /\ "Admitted" \in {"Expired", "Cancelled", "Admitted"}
      BY <2>2
    <3>2. tks = Put(e.tickets, i, Ended(e.tickets[i], "Admitted", e.nextLease))
      BY DEF tks
    <3>3. ControllerType(e) /\ i \in DOMAIN e.tickets
      BY <2>2
    <3>. HIDE DEF tks
    <3>4. EntryEnds(e, tks, i, "Admitted", e.nextLease)
      BY ONLY <3>1, <3>2, <3>3, EndEntry
    <3>5. QED
      BY <3>4 DEF EntryEnds
  <2>5. idx \in [Principals \X Keys -> Nat]
    BY <2>2, UnindexType
  <2>. HIDE DEF tks, idx
  <2>6. ControllerType(d)
    BY <2>2, <2>4, <2>5 DEF ControllerType
  <2>7. SameLeases(e, d) /\ SameCapacity(e, d) /\ d.tickets = tks
        /\ d.index = idx /\ d.waiting = e.waiting
    BY <2>2, <2>4 DEF ControllerType, SameLeases, SameCapacity
  <2>. HIDE DEF d, p
  <2>8. Ends(e, d, i, "Admitted", e.nextLease)
    <3>1. /\ Elements(d.waiting) = InState(e, "Waiting") \ {i}
          /\ Sorted(d.waiting)
      BY <2>2, <2>7 DEF QueueInv, QueueListed
    <3>2. QED
      BY <2>7, <3>1 DEF Ends, tks, idx
  <2>9. /\ Tables(d) /\ TicketsEnd(e, d) /\ LeasesEnd(e, d)
        /\ Live(d) = Live(e) \ {i}
        /\ InState(d, "Offered") = InState(e, "Offered") \ {i}
        /\ \A j \in InState(d, "Admitted") :
             \/ j \in InState(e, "Admitted") /\ d.tickets[j].lease = e.tickets[j].lease
             \/ j = i /\ d.tickets[j].lease = e.nextLease
    <3>1. e.nextLease \in Nat /\ "Admitted" \in {"Cancelled", "Admitted"}
      BY <2>2
    <3>2. /\ Tables(e) /\ i \in Live(e) /\ ControllerType(d)
          /\ Ends(e, d, i, "Admitted", e.nextLease)
      BY <2>2, <2>6, <2>8
    <3>3. /\ Tables(d) /\ TicketsEnd(e, d) /\ LeasesEnd(e, d)
          /\ TicketGone(e, d, i, "Admitted", e.nextLease)
      BY ONLY <3>1, <3>2, EndTicket
    <3>4. QED
      BY <3>3 DEF TicketGone
  <2>10. Occupied(d) + 1 = Occupied(e)
    <3>1. Cardinality(InState(d, "Offered")) = Cardinality(InState(e, "Offered")) - 1
      BY <1>3, <2>2, <2>9, OccupiedType, FS_RemoveElement
    <3>2. d.active = e.active /\ d.reservations = e.reservations
      BY <2>7 DEF SameLeases
    <3>3. /\ Cardinality(DOMAIN e.active) \in Nat /\ Cardinality(DOMAIN e.reservations) \in Nat
          /\ Cardinality(InState(e, "Offered")) \in Nat
      BY <2>2, OccupiedType
    <3>4. QED
      BY ONLY <3>1, <3>2, <3>3 DEF Occupied
  <2>11. /\ Tables(f) /\ Keeps(d, f) /\ FewerAdmitted(d, f) /\ SameCapacity(d, f)
         /\ SameLeases(d, f) /\ Live(f) = Live(d) /\ f.waiting = d.waiting
         /\ \A j \in DOMAIN f.tickets : f.tickets[j] = d.tickets[j]
         /\ Occupied(f) = Occupied(d)
    BY <2>9, PruneTerminalInv
  <2>. HIDE DEF f
  <2>12. /\ Tables(g) /\ SameCapacity(f, g) /\ SameQueue(f, g)
         /\ LeasesEnd(f, g) /\ TicketsEnd(f, g)
         /\ g.nextLease = f.nextLease + 1 /\ g.active[f.nextLease] = p
         /\ g.active = Put(f.active, f.nextLease, p)
         /\ Occupied(g) = Occupied(f) + 1
    BY <2>3, <2>11, AdmitInv
  <2>. HIDE DEF g
  <2>13. /\ ControllerType(f) /\ ControllerType(g) /\ Occupied(e) \in Nat /\ Occupied(d) \in Nat
         /\ f.nextLease = e.nextLease /\ g.nextLease = e.nextLease + 1
         /\ Occupied(g) = Occupied(e) /\ g.waiting = e.waiting /\ SameCapacity(e, g)
         /\ Live(g) = Live(e) \ {i} /\ g.active[e.nextLease] = p
    <3>1. ControllerType(f) /\ ControllerType(g) /\ Occupied(e) \in Nat /\ Occupied(d) \in Nat
      BY <2>2, <2>6, <2>11, <2>12, OccupiedType DEF Tables
    <3>2. Live(g) = Live(f)
      BY <2>12 DEF Live, SameQueue
    <3>3. QED
      BY <2>7, <2>9, <2>10, <2>11, <2>12, <3>1, <3>2 DEF SameLeases, SameCapacity, SameQueue
  <2>14. AdmittedInv(g)
    <3>1. \A j \in InState(g, "Admitted") :
            \/ j \in InState(e, "Admitted") /\ g.tickets[j].lease = e.tickets[j].lease
            \/ j = i /\ g.tickets[j].lease = e.nextLease
      BY <2>9, <2>11, <2>12 DEF InState, FewerAdmitted, SameQueue
    <3>2. \A j \in InState(e, "Admitted") : e.tickets[j].lease \in 1..(e.nextLease - 1)
      BY <1>1 DEF CtlInv, AdmittedInv
    <3>3. /\ \A j, h \in InState(e, "Admitted") : e.tickets[j].lease = e.tickets[h].lease => j = h
          /\ e.nextLease \in Nat \ {0} /\ g.nextLease = e.nextLease + 1
      BY <1>1, <2>2, <2>13 DEF CtlInv, AdmittedInv
    <3>4. \A j \in InState(g, "Admitted") : g.tickets[j].lease \in 1..e.nextLease
      BY ONLY <3>1, <3>2, <3>3
    <3>5. \A j, h \in InState(g, "Admitted") : g.tickets[j].lease = g.tickets[h].lease => j = h
      BY ONLY <3>1, <3>2, <3>3
    <3>6. QED
      BY ONLY <3>3, <3>4, <3>5 DEF AdmittedInv
  <2>15. CtlInv(g)
    <3>1. Limit(g) = Limit(e)
      BY <2>13 DEF Limit, SameCapacity
    <3>2. Within(g) /\ Busy(g)
      BY <1>1, <2>13, <3>1 DEF CtlInv, Within, Busy, SameCapacity
    <3>3. QED
      BY <2>12, <2>14, <3>2 DEF CtlInv
  <2>16. Keeps(e, g)
    <3>1. LeasesEnd(e, g)
      BY <2>2, <2>7, <2>11, <2>12, <2>13 DEF LeasesEnd, SameLeases
    <3>2. TicketsEnd(e, g)
      <4>1. e.nextTicket \in Nat
        BY <2>2 DEF ControllerType
      <4>2. /\ d.nextTicket = e.nextTicket /\ f.nextTicket = e.nextTicket
            /\ g.nextTicket = e.nextTicket /\ g.tickets = f.tickets
            /\ DOMAIN f.tickets \subseteq DOMAIN d.tickets
        BY <2>7, <2>11, <2>12 DEF SameLeases, SameQueue
      <4>3. QED
        BY <2>9, <2>11, <4>1, <4>2 DEF TicketsEnd
    <3>3. InState(g, "Offered") \subseteq InState(e, "Offered")
      <4>1. InState(g, "Offered") \subseteq InState(d, "Offered")
        BY <2>11, <2>12 DEF InState, SameLeases, SameQueue
      <4>2. QED
        BY <2>9, <4>1
    <3>4. QED
      <4>1. Drains(e, g)
        BY <2>13, <3>3 DEF Drains, SameCapacity
      <4>2. QED
        BY <3>1, <3>2, <4>1 DEF Keeps
  <2>17. Keeps(c, g)
    BY <1>1, <2>2, <2>13, <2>16, KeepsTrans
  <2>18. InOrder(c, g)
    <3>1. SUFFICES ASSUME g.waiting # <<>>
                   PROVE  /\ i \in Live(c) \ Live(g)
                          /\ c.tickets[i].principal = g.active[c.nextLease]
                          /\ i \in DOMAIN g.tickets => g.tickets[i].state = "Admitted"
                          /\ i < Head(g.waiting)
      BY DEF InOrder
    <3>2. /\ i \in DOMAIN c.tickets /\ IsLive(c.tickets[i])
          /\ e.tickets[i].principal = c.tickets[i].principal
      <4>1. c.nextTicket \in Nat /\ i \in 1..(c.nextTicket - 1) /\ IsLive(e.tickets[i])
        BY <1>1, <2>2 DEF Live, CtlInv, Tables, IdsIssued, ControllerType
      <4>2. ~(i >= c.nextTicket)
        BY <4>1
      <4>3. QED
        BY <1>1, <2>2, <4>1, <4>2 DEF Keeps, TicketsEnd
    <3>3. i \notin Live(g)
      BY <2>13
    <3>4. i \in DOMAIN g.tickets => g.tickets[i].state = "Admitted"
      BY <2>4, <2>7, <2>11, <2>12 DEF SameQueue
    <3>5. Head(g.waiting) \in InState(e, "Waiting")
      <4>1. e.waiting \in Seq(Nat) /\ e.waiting # <<>> /\ Elements(e.waiting) = InState(e, "Waiting")
        BY <2>2, <2>13, <3>1 DEF ControllerType, QueueInv, QueueListed
      <4>2. 1 \in DOMAIN e.waiting /\ Head(e.waiting) = e.waiting[1]
        BY <4>1
      <4>3. QED
        BY <2>13, <4>1, <4>2 DEF Elements
    <3>6. i < Head(g.waiting)
      BY <1>3, <2>2, <3>5 DEF QueueInv, OldestFirst
    <3>7. QED
      BY <1>1, <2>13, <3>2, <3>3, <3>4, <3>6 DEF Live, p
  <2>19. Step(c, g)
    BY <2>17, <2>18 DEF Step, Keeps, Drains, Draining
  <2>20. Claimed(c, g, i)
    <3>1. /\ i \in Live(c) /\ e.tickets[i].principal = c.tickets[i].principal
      <4>1. c.nextTicket \in Nat /\ i \in 1..(c.nextTicket - 1) /\ IsLive(e.tickets[i])
        BY <1>1, <2>2 DEF Live, CtlInv, Tables, IdsIssued, ControllerType
      <4>2. ~(i >= c.nextTicket)
        BY <4>1
      <4>3. QED
        BY <1>1, <2>2, <4>1, <4>2 DEF Keeps, TicketsEnd, Live
    <3>2. i \notin Live(g)
      BY <2>13
    <3>3. /\ g.active = Put(c.active, c.nextLease, c.tickets[i].principal)
          /\ g.nextTicket = c.nextTicket
      BY <1>1, <2>7, <2>11, <2>12, <3>1 DEF SameLeases, SameQueue, p
    <3>4. i \in DOMAIN g.tickets => /\ g.tickets[i].principal = c.tickets[i].principal
                                   /\ g.tickets[i].state = "Admitted"
                                   /\ g.tickets[i].lease = c.nextLease
      BY <1>1, <2>4, <2>7, <2>11, <2>12, <3>1 DEF SameQueue
    <3>5. QED
      BY <3>1, <3>2, <3>3, <3>4 DEF Claimed
  <2>21. QED
    BY <1>3, <2>1, <2>15, <2>19, <2>20 DEF e
<1>4. QED
  BY <1>2, <1>3

\* Lease l, and no other, has left the table.
GivesBack(c, d, l) == d.active = Drop(c.active, {l})

\* release_at: a lease that ends leaves its permit free or to a reservation.
LEMMA ReleaseInv ==
  ASSUME NEW c, CtlInv(c), NEW l, NEW p, NEW reason
  PROVE  LET d == Release(c, l, p, reason)
         IN  /\ CtlInv(d) /\ Keeps(c, d) /\ d.nextLease = c.nextLease
             /\ d.nextTicket = c.nextTicket
             /\ HasActiveLease(c, l, p) => GivesBack(c, d, l)
<1>. DEFINE kept == reason = "Unexpected" /\ ReconnectGrace # 0
            act == Drop(c.active, {l})
            res == IF kept
                   THEN Put(c.reservations, l, [principal |-> p, left |-> ReconnectGrace])
                   ELSE c.reservations
            d   == [c EXCEPT !.active = act, !.reservations = res]
<1>1. CASE ~HasActiveLease(c, l, p)
  <2>1. ControllerType(c) /\ c.nextLease \in Nat /\ c.nextTicket \in Nat /\ Occupied(c) \in Nat
    BY OccupiedType DEF CtlInv, Tables, ControllerType
  <2>2. Keeps(c, c)
    BY <2>1 DEF Keeps, LeasesEnd, TicketsEnd, Drains
  <2>3. QED
    BY <1>1, <2>2 DEF Release
<1>2. CASE HasActiveLease(c, l, p)
  <2>1. Release(c, l, p, reason) = Settle(d)
    BY <1>2 DEF Release
  <2>2. /\ ControllerType(c) /\ Tables(c) /\ AdmittedInv(c) /\ IdsIssued(c)
        /\ l \in DOMAIN c.active /\ p \in Principals
        /\ c.active \in [DOMAIN c.active -> Principals]
        /\ c.reservations \in [DOMAIN c.reservations -> Reservation]
        /\ IsFiniteSet(DOMAIN c.active) /\ IsFiniteSet(DOMAIN c.reservations)
        /\ DOMAIN c.active \subseteq Nat /\ DOMAIN c.reservations \subseteq Nat
        /\ l \notin DOMAIN c.reservations /\ c.nextLease \in Nat
    BY <1>2 DEF HasActiveLease, CtlInv, Tables, ControllerType, IdsIssued
  <2>3. /\ DOMAIN act = DOMAIN c.active \ {l} /\ act \in [DOMAIN act -> Principals]
        /\ IsFiniteSet(DOMAIN act)
        /\ Cardinality(DOMAIN act) = Cardinality(DOMAIN c.active) - 1
    <3>1. DOMAIN act = DOMAIN c.active \ {l} /\ act \in [DOMAIN act -> Principals]
      BY <2>2 DEF Drop
    <3>2. QED
      BY <2>2, <3>1, FS_RemoveElement
  <2>4. /\ DOMAIN res \subseteq DOMAIN c.reservations \cup {l}
        /\ res \in [DOMAIN res -> Reservation]
        /\ IsFiniteSet(DOMAIN res)
        /\ Cardinality(DOMAIN res) <= Cardinality(DOMAIN c.reservations) + 1
    <3>1. Cardinality(DOMAIN c.reservations) \in Nat
      BY <2>2, OccupiedType
    <3>2. CASE ~kept
      BY <2>2, <3>1, <3>2
    <3>3. CASE kept
      <4>1. res = Put(c.reservations, l, [principal |-> p, left |-> ReconnectGrace])
        BY <3>3
      <4>2. [principal |-> p, left |-> ReconnectGrace] \in Reservation
        BY <2>2, PolicyAssumption DEF Reservation
      <4>3. /\ DOMAIN res = DOMAIN c.reservations \cup {l}
            /\ res \in [DOMAIN res -> Reservation]
        BY <2>2, <4>1, <4>2 DEF Put
      <4>4. IsFiniteSet(DOMAIN c.reservations \cup {l})
            /\ Cardinality(DOMAIN c.reservations \cup {l}) = Cardinality(DOMAIN c.reservations) + 1
        BY <2>2, FS_AddElement
      <4>. HIDE DEF res
      <4>5. QED
        BY <3>1, <4>3, <4>4
    <3>4. QED
      BY <3>2, <3>3
  <2>. HIDE DEF act, res
  <2>5. ControllerType(d)
    <3>1. /\ DOMAIN act \subseteq Nat /\ DOMAIN res \subseteq Nat /\ ControllerType(c)
          /\ IsFiniteSet(DOMAIN act) /\ IsFiniteSet(DOMAIN res)
          /\ act \in [DOMAIN act -> Principals] /\ res \in [DOMAIN res -> Reservation]
      BY <2>2, <2>3, <2>4
    <3>2. QED
      BY ONLY <3>1 DEF ControllerType, d
  <2>6. /\ d.active = act /\ d.reservations = res /\ SameQueue(c, d)
        /\ d.nextLease = c.nextLease /\ SameCapacity(c, d)
    BY <2>2 DEF ControllerType, SameQueue, SameCapacity
  <2>. HIDE DEF d
  <2>7. IdsIssued(d)
    BY <2>2, <2>3, <2>4, <2>6 DEF IdsIssued, SameQueue
  <2>8. InState(d, "Offered") = InState(c, "Offered")
    BY <2>6 DEF InState, SameQueue
  <2>9. Occupied(d) <= Occupied(c)
    <3>1. /\ Cardinality(DOMAIN act) \in Nat /\ Cardinality(DOMAIN res) \in Nat
      BY <2>5, <2>6, OccupiedType
    <3>2. QED
      BY <2>2, <2>3, <2>4, <2>6, <2>8, <3>1, OccupiedType DEF Occupied
  <2>10. QueueInv(d) /\ FewerAdmitted(c, d) /\ TicketsEnd(c, d)
    BY <2>2, <2>6, SameQueueInv
  <2>11. LeasesEnd(c, d)
    BY <2>2, <2>3, <2>4, <2>6 DEF LeasesEnd
  <2>12. Keeps(c, d)
    BY <2>6, <2>8, <2>9, <2>10, <2>11 DEF Keeps, Drains, SameCapacity
  <2>13. AdmittedInv(d)
    BY <2>2, <2>5, <2>10, AdmittedFewer
  <2>14. CtlInv(Settle(d)) /\ Keeps(c, Settle(d)) /\ SameClaims(d, Settle(d))
    BY <2>5, <2>6, <2>7, <2>9, <2>10, <2>12, <2>13, SettleAfter DEF Tables, SameCapacity
  <2>15. /\ d.active = Drop(c.active, {l}) /\ d.nextLease = c.nextLease
         /\ d.nextTicket = c.nextTicket
    BY <2>6 DEF SameQueue, act
  <2>. DEFINE r == Settle(d)
  <2>16. CtlInv(r) /\ Keeps(c, r) /\ SameClaims(d, r) /\ Release(c, l, p, reason) = r
    BY <2>1, <2>14
  <2>. HIDE DEF r
  <2>17. r.nextLease = c.nextLease /\ r.nextTicket = c.nextTicket /\ GivesBack(c, r, l)
    BY ONLY <2>15, <2>16 DEF SameClaims, GivesBack
  <2>18. QED
    BY <2>16, <2>17, Zenon
<1>3. QED
  BY <1>1, <1>2

\* Ticket i, if it is still kept, carries the active lease l of p.
RollsBack(c, i, l, p) ==
  /\ HasActiveLease(c, l, p)
  /\ i \in DOMAIN c.tickets => /\ c.tickets[i].principal = p
                               /\ c.tickets[i].state = "Admitted"
                               /\ c.tickets[i].lease = l

\* rollback_claim_at: an admitted ticket holds no offer, so forgetting it
\* changes no permit; the release does.
LEMMA RollbackClaimInv ==
  ASSUME NEW c, CtlInv(c), NEW i, NEW l, NEW p
  PROVE  LET g == RollbackClaim(c, i, l, p)
         IN  /\ CtlInv(g) /\ Step(c, g)
             /\ g.nextLease = c.nextLease /\ g.nextTicket = c.nextTicket
             /\ RollsBack(c, i, l, p) => GivesBack(c, g, l)
<1>. DEFINE tks == Drop(c.tickets, {i})
            idx == [pk \in Principals \X Keys |->
                      IF pk = KeyOf(c.tickets[i]) /\ c.index[pk] = i THEN NoTicket ELSE c.index[pk]]
            d   == [c EXCEPT !.tickets = tks, !.index = idx]
            hit == /\ c.tickets[i].principal = p
                   /\ c.tickets[i].state = "Admitted"
                   /\ c.tickets[i].lease = l
<1>1. CASE ~HasActiveLease(c, l, p)
  BY <1>1, IdleStep DEF RollbackClaim, SameClaims, RollsBack, GivesBack
<1>2. CASE HasActiveLease(c, l, p) /\ i \notin DOMAIN c.tickets
  <2>. DEFINE r == Release(c, l, p, "Intentional")
  <2>1. RollbackClaim(c, i, l, p) = r
    BY <1>2 DEF RollbackClaim
  <2>2. /\ CtlInv(r) /\ Keeps(c, r) /\ r.nextLease = c.nextLease /\ r.nextTicket = c.nextTicket
        /\ GivesBack(c, r, l)
    BY ONLY <1>2, CtlInv(c), ReleaseInv
  <2>. HIDE DEF r
  <2>3. QED
    BY <2>1, <2>2, QuietStep DEF CtlInv, Tables
<1>3. CASE HasActiveLease(c, l, p) /\ i \in DOMAIN c.tickets /\ ~hit
  BY <1>3, IdleStep DEF RollbackClaim, SameClaims, RollsBack, GivesBack
<1>4. CASE HasActiveLease(c, l, p) /\ i \in DOMAIN c.tickets /\ hit
  <2>. DEFINE g == Release(d, l, p, "Intentional")
  <2>1. RollbackClaim(c, i, l, p) = g
    BY <1>4 DEF RollbackClaim
  <2>2. /\ ControllerType(c) /\ Tables(c) /\ QueueInv(c) /\ IdsIssued(c) /\ AdmittedInv(c)
        /\ c.tickets \in [DOMAIN c.tickets -> TicketEntry]
        /\ c.index \in [Principals \X Keys -> Nat]
        /\ IsFiniteSet(DOMAIN c.tickets) /\ DOMAIN c.tickets \subseteq Nat
        /\ c.nextLease \in Nat /\ c.nextTicket \in Nat
    BY DEF CtlInv, Tables, ControllerType
  <2>3. /\ DOMAIN tks = DOMAIN c.tickets \ {i}
        /\ tks \in [DOMAIN tks -> TicketEntry]
        /\ \A j \in DOMAIN tks : tks[j] = c.tickets[j]
    BY <2>2 DEF Drop
  <2>4. IsFiniteSet(DOMAIN tks) /\ DOMAIN tks \subseteq Nat
    <3>1. IsFiniteSet(DOMAIN c.tickets \ {i})
      BY <2>2, FS_RemoveElement
    <3>2. QED
      BY <2>2, <2>3, <3>1
  <2>5. i \notin Live(c)
    BY <1>4 DEF Live, IsLive
  <2>6. /\ idx \in [Principals \X Keys -> Nat]
        /\ \A pk \in Principals \X Keys :
             idx[pk] = IF c.index[pk] \in Live(c) THEN c.index[pk] ELSE NoTicket
    <3>1. \A pk \in Principals \X Keys : c.index[pk] \in Live(c) \/ c.index[pk] = NoTicket
      BY <2>2 DEF QueueInv, IndexExact
    <3>2. QED
      BY <2>2, <2>5, <3>1 DEF NoTicket
  <2>. HIDE DEF tks, idx
  <2>7. ControllerType(d)
    BY <2>2, <2>3, <2>4, <2>6 DEF ControllerType
  <2>8. /\ SameLeases(c, d) /\ SameCapacity(c, d) /\ d.tickets = tks
        /\ d.waiting = c.waiting /\ d.index = idx
    BY <2>2, <2>3 DEF ControllerType, SameLeases, SameCapacity
  <2>. HIDE DEF d
  <2>9. Live(d) = Live(c) /\ \A s \in {"Waiting", "Offered"} : InState(d, s) = InState(c, s)
    BY <1>4, <2>3, <2>5, <2>8 DEF Live, IsLive, InState
  <2>10. /\ Occupied(d) = Occupied(c) /\ Limit(d) = Limit(c) /\ Occupied(c) \in Nat
    BY <2>2, <2>8, <2>9, OccupiedType DEF Occupied, Limit, SameLeases, SameCapacity
  <2>11. QueueInv(d)
    <3>1. QueueListed(d)
      BY <2>2, <2>8, <2>9 DEF QueueInv, QueueListed
    <3>2. \A j \in Live(d) : d.tickets[j] = c.tickets[j]
      BY <2>3, <2>8 DEF Live
    <3>3. Retires(c, d)
      BY <2>6, <2>8, <2>9, <3>1, <3>2 DEF Retires
    <3>4. QED
      BY <2>2, <3>3, RetireQueue
  <2>12. AdmittedInv(d)
    <3>1. FewerAdmitted(c, d)
      BY <2>2, <2>3, <2>8 DEF FewerAdmitted, InState, SameLeases
    <3>2. QED
      BY <2>2, <2>7, <3>1, AdmittedFewer
  <2>13. CtlInv(d)
    <3>1. IdsIssued(d)
      BY <2>2, <2>8 DEF IdsIssued, SameLeases
    <3>2. Within(d) /\ Busy(d)
      BY <2>8, <2>10 DEF CtlInv, Within, Busy, SameCapacity
    <3>3. QED
      BY <2>7, <2>11, <2>12, <3>1, <3>2 DEF CtlInv, Tables
  <2>14. Keeps(c, d)
    <3>1. LeasesEnd(c, d)
      BY <2>2, <2>8 DEF LeasesEnd, SameLeases
    <3>2. TicketsEnd(c, d)
      BY <2>2, <2>3, <2>8 DEF TicketsEnd, SameLeases
    <3>3. Drains(c, d)
      BY <2>8, <2>9, <2>10 DEF Drains, SameCapacity
    <3>4. QED
      BY <3>1, <3>2, <3>3 DEF Keeps
  <2>15. /\ CtlInv(g) /\ Keeps(d, g) /\ g.nextLease = d.nextLease
         /\ g.nextTicket = c.nextTicket /\ GivesBack(c, g, l)
    <3>1. HasActiveLease(d, l, p) /\ d.active = c.active /\ d.nextTicket = c.nextTicket
      BY <1>4, <2>8 DEF HasActiveLease, SameLeases
    <3>2. /\ CtlInv(g) /\ Keeps(d, g) /\ g.nextLease = d.nextLease
          /\ g.nextTicket = d.nextTicket /\ GivesBack(d, g, l)
      BY ONLY <2>13, <3>1, ReleaseInv
    <3>. HIDE DEF g
    <3>3. QED
      BY <3>1, <3>2 DEF GivesBack
  <2>. HIDE DEF g
  <2>16. Keeps(c, g) /\ g.nextLease = c.nextLease
    BY <2>2, <2>7, <2>8, <2>14, <2>15, KeepsTrans DEF CtlInv, Tables, SameLeases
  <2>17. Step(c, g)
    BY <2>2, <2>16, QuietStep
  <2>18. QED
    BY <2>1, <2>15, <2>16, <2>17, Zenon
<1>5. QED
  BY <1>1, <1>2, <1>3, <1>4

\* resume_at: the reservation that ends and the lease that returns balance.
LEMMA ResumeInv ==
  ASSUME NEW c, CtlInv(c), NEW l, NEW p \in Principals
  PROVE  CtlInv(Resume(c, l, p)) /\ Step(c, Resume(c, l, p))
<1>. DEFINE e   == Expire(c)
            res == Drop(e.reservations, {l})
            act == Put(e.active, l, p)
            d   == [e EXCEPT !.reservations = res, !.active = act]
            hit == l \in DOMAIN e.reservations /\ e.reservations[l].principal = p
<1>1. CtlInv(e)
  BY ExpireInv
<1>2. CASE ~hit
  BY <1>2, ExpireStep DEF Resume
<1>3. CASE hit
  <2>1. Resume(c, l, p) = d
    BY <1>3 DEF Resume
  <2>. HIDE DEF e
  <2>2. /\ ControllerType(e) /\ Tables(e) /\ AdmittedInv(e) /\ IdsIssued(e)
        /\ l \in DOMAIN e.reservations /\ l \notin DOMAIN e.active
        /\ e.active \in [DOMAIN e.active -> Principals]
        /\ e.reservations \in [DOMAIN e.reservations -> Reservation]
        /\ IsFiniteSet(DOMAIN e.active) /\ IsFiniteSet(DOMAIN e.reservations)
        /\ DOMAIN e.active \subseteq Nat /\ DOMAIN e.reservations \subseteq Nat
        /\ e.nextLease \in Nat
    BY <1>1, <1>3 DEF CtlInv, Tables, ControllerType, IdsIssued
  <2>3. /\ DOMAIN res = DOMAIN e.reservations \ {l} /\ res \in [DOMAIN res -> Reservation]
        /\ DOMAIN act = DOMAIN e.active \cup {l} /\ act \in [DOMAIN act -> Principals]
    BY <2>2 DEF Drop, Put
  <2>4. /\ IsFiniteSet(DOMAIN res)
        /\ Cardinality(DOMAIN res) = Cardinality(DOMAIN e.reservations) - 1
    BY <2>2, <2>3, FS_RemoveElement
  <2>5. /\ IsFiniteSet(DOMAIN act)
        /\ Cardinality(DOMAIN act) = Cardinality(DOMAIN e.active) + 1
    BY <2>2, <2>3, FS_AddElement
  <2>. HIDE DEF res, act
  <2>6. ControllerType(d)
    <3>1. /\ DOMAIN act \subseteq Nat /\ DOMAIN res \subseteq Nat /\ ControllerType(e)
          /\ IsFiniteSet(DOMAIN act) /\ IsFiniteSet(DOMAIN res)
          /\ act \in [DOMAIN act -> Principals] /\ res \in [DOMAIN res -> Reservation]
      BY <2>2, <2>3, <2>4, <2>5
    <3>2. QED
      BY ONLY <3>1 DEF ControllerType, d
  <2>7. /\ d.active = act /\ d.reservations = res /\ SameQueue(e, d)
        /\ d.nextLease = e.nextLease /\ SameCapacity(e, d)
    BY <2>2 DEF ControllerType, SameCapacity, SameQueue
  <2>. HIDE DEF d
  <2>8. IdsIssued(d)
    BY <2>2, <2>3, <2>7 DEF IdsIssued, SameQueue
  <2>9. InState(d, "Offered") = InState(e, "Offered")
    BY <2>7 DEF InState, SameQueue
  <2>10. Occupied(d) = Occupied(e) /\ Occupied(e) \in Nat /\ Limit(d) = Limit(e)
    <3>1. /\ Cardinality(DOMAIN e.active) \in Nat /\ Cardinality(DOMAIN e.reservations) \in Nat
          /\ Cardinality(InState(e, "Offered")) \in Nat /\ Occupied(e) \in Nat
      BY <2>2, OccupiedType
    <3>2. Occupied(d) = Occupied(e)
      BY ONLY <2>4, <2>5, <2>7, <2>9, <3>1 DEF Occupied
    <3>3. Limit(d) = Limit(e)
      BY <2>7 DEF Limit, SameCapacity
    <3>4. QED
      BY <3>1, <3>2, <3>3
  <2>11. QueueInv(d) /\ FewerAdmitted(e, d) /\ TicketsEnd(e, d)
    <3>1. /\ Tables(e) /\ SameQueue(e, d) /\ e.nextLease <= d.nextLease /\ d.nextLease \in Nat
      BY <2>2, <2>7
    <3>2. QED
      BY ONLY <3>1, SameQueueInv
  <2>12. CtlInv(d)
    <3>1. AdmittedInv(d)
      BY <2>2, <2>6, <2>11, AdmittedFewer
    <3>2. Within(d) /\ Busy(d)
      BY <1>1, <2>7, <2>10 DEF CtlInv, Within, Busy, SameCapacity, SameQueue
    <3>3. QED
      BY <2>6, <2>8, <2>11, <3>1, <3>2 DEF CtlInv, Tables
  <2>13. Keeps(e, d)
    <3>1. LeasesEnd(e, d)
      BY <2>2, <2>3, <2>7 DEF LeasesEnd
    <3>2. QED
      BY <2>7, <2>9, <2>10, <2>11, <3>1 DEF Keeps, Drains, SameCapacity
  <2>14. Step(c, d)
    BY <2>6, <2>7, <2>13, ExpireThenQuiet DEF e
  <2>15. QED
    BY <2>1, <2>12, <2>14
<1>4. QED
  BY <1>2, <1>3

\* apply_capacity_at: an update below the occupancy becomes the pending target,
\* any other becomes the allocation.
LEMMA ApplyCapacityInv ==
  ASSUME NEW c, CtlInv(c), NEW a \in Nat, NEW r \in Nat
  PROVE  /\ CtlInv(ApplyCapacity(c, a, r)) /\ Step(c, ApplyCapacity(c, a, r))
         /\ SameClaims(c, ApplyCapacity(c, a, r))
<1>1. /\ ControllerType(c) /\ Occupied(c) \in Nat /\ c.allocated \in Nat
      /\ Tables(c) /\ IdsIssued(c) /\ AdmittedInv(c) /\ c.nextLease \in Nat
  BY OccupiedType DEF CtlInv, Tables, ControllerType
<1>2. CASE r <= c.revision
  BY <1>2, IdleStep DEF ApplyCapacity
<1>3. CASE ~(r <= c.revision) /\ a < Occupied(c)
  <2>. DEFINE d == [c EXCEPT !.revision = r, !.pending = a]
  <2>1. ApplyCapacity(c, a, r) = d
    BY <1>3 DEF ApplyCapacity
  <2>2. ControllerType(d)
    BY <1>1 DEF ControllerType
  <2>3. SameLeases(c, d) /\ SameQueue(c, d) /\ d.allocated = c.allocated /\ d.pending = a
    BY <1>1 DEF ControllerType, SameLeases, SameQueue
  <2>. HIDE DEF d
  <2>4. InState(d, "Offered") = InState(c, "Offered") /\ Occupied(d) = Occupied(c)
    BY <2>3 DEF Occupied, InState, SameLeases, SameQueue
  <2>5. QueueInv(d) /\ FewerAdmitted(c, d) /\ TicketsEnd(c, d)
    <3>1. /\ Tables(c) /\ SameQueue(c, d) /\ c.nextLease <= d.nextLease /\ d.nextLease \in Nat
      BY <1>1, <2>3 DEF SameLeases
    <3>2. QED
      BY ONLY <3>1, SameQueueInv
  <2>6. AdmittedInv(d)
    BY <1>1, <2>2, <2>5, AdmittedFewer
  <2>7. IdsIssued(d)
    BY <1>1, <2>3 DEF IdsIssued, SameLeases
  <2>8. Within(d) /\ Busy(d)
    <3>1. /\ Occupied(c) \in Nat /\ a \in Nat /\ a < Occupied(c) /\ Occupied(c) <= c.allocated
          /\ Occupied(d) = Occupied(c) /\ d.allocated = c.allocated /\ d.pending = a
      BY <1>1, <1>3, <2>3, <2>4 DEF CtlInv, Within
    <3>2. QED
      BY ONLY <3>1 DEF Within, Busy, Limit, NoTarget
  <2>9. Step(c, d)
    <3>1. /\ c.nextLease \in Nat /\ d.nextLease = c.nextLease
          /\ d.active = c.active /\ d.reservations = c.reservations
      BY <1>1, <2>3 DEF SameLeases
    <3>2. LeasesEnd(c, d) /\ InOrder(c, d)
      BY ONLY <3>1 DEF LeasesEnd, InOrder
    <3>3. Draining(c, d)
      BY ONLY <1>1, <2>4 DEF Draining
    <3>4. QED
      BY ONLY <2>5, <3>2, <3>3 DEF Step
  <2>10. QED
    BY <2>1, <2>2, <2>3, <2>5, <2>6, <2>7, <2>8, <2>9 DEF CtlInv, Tables, SameClaims, SameLeases
<1>4. CASE ~(r <= c.revision) /\ ~(a < Occupied(c))
  <2>. DEFINE d == [c EXCEPT !.revision = r, !.allocated = a, !.pending = NoTarget]
              g == Promote(d)
  <2>1. ApplyCapacity(c, a, r) = g
    BY <1>4 DEF ApplyCapacity
  <2>2. ControllerType(d)
    BY <1>1 DEF ControllerType
  <2>3. SameLeases(c, d) /\ SameQueue(c, d) /\ d.allocated = a /\ d.pending = NoTarget
    BY <1>1 DEF ControllerType, SameLeases, SameQueue
  <2>. HIDE DEF d
  <2>4. Occupied(d) = Occupied(c)
    BY <2>3 DEF Occupied, InState, SameLeases, SameQueue
  <2>5. QueueInv(d) /\ FewerAdmitted(c, d) /\ TicketsEnd(c, d)
    <3>1. /\ Tables(c) /\ SameQueue(c, d) /\ c.nextLease <= d.nextLease /\ d.nextLease \in Nat
      BY <1>1, <2>3 DEF SameLeases
    <3>2. QED
      BY ONLY <3>1, SameQueueInv
  <2>6. Within(d) /\ IdsIssued(d)
    <3>1. Within(d)
      BY <1>1, <1>4, <2>3, <2>4 DEF Within
    <3>2. IdsIssued(d)
      BY ONLY <1>1, <2>3, SMTT(30) DEF IdsIssued, SameLeases
    <3>3. QED
      BY <3>1, <3>2
  <2>7. Keeps(c, d)
    <3>1. /\ c.nextLease \in Nat /\ d.nextLease = c.nextLease
          /\ d.active = c.active /\ d.reservations = c.reservations
      BY <1>1, <2>3 DEF SameLeases
    <3>2. LeasesEnd(c, d)
      BY ONLY <3>1 DEF LeasesEnd
    <3>3. Drains(c, d)
      BY <2>3 DEF Drains
    <3>4. QED
      BY ONLY <2>5, <3>2, <3>3 DEF Keeps
  <2>8. /\ Tables(g) /\ Within(g) /\ Busy(g)
        /\ Keeps(d, g) /\ FewerAdmitted(d, g) /\ SameLeases(d, g)
    BY <2>2, <2>5, <2>6, PromoteInv DEF Tables
  <2>. HIDE DEF g
  <2>9. AdmittedInv(g)
    BY <1>1, <2>2, <2>5, <2>8, AdmittedFewer DEF Tables
  <2>10. Keeps(c, g) /\ g.nextLease = c.nextLease
    BY <1>1, <2>2, <2>3, <2>7, <2>8, KeepsTrans DEF Tables, SameLeases
  <2>11. SameClaims(c, g)
    BY <2>3, <2>8 DEF SameClaims, SameLeases
  <2>12. QED
    BY <1>1, <2>1, <2>8, <2>9, <2>10, <2>11, QuietStep DEF CtlInv
<1>5. QED
  BY <1>2, <1>3, <1>4

-----------------------------------------------------------------------------
\* A new controller has handed out nothing.
LEMMA NewControllerInv ==
  ASSUME NEW a \in Nat
  PROVE  CtlInv(NewController(a, 0))
<1>. DEFINE c == NewController(a, 0)
<1>1. /\ DOMAIN c.active = {} /\ DOMAIN c.reservations = {} /\ DOMAIN c.tickets = {}
      /\ c.allocated = a /\ c.pending = NoTarget
  BY DEF NewController
<1>2. IsFiniteSet({}) /\ Cardinality({}) = 0
  BY FS_EmptySet
<1>3. ControllerType(c)
  <2>1. \A S \in {DOMAIN c.active, DOMAIN c.reservations, DOMAIN c.tickets} :
          S \subseteq Nat /\ IsFiniteSet(S)
    BY <1>1, <1>2
  <2>2. c.index \in [Principals \X Keys -> Nat] /\ c.waiting \in Seq(Nat)
    BY DEF NewController, NoTicket
  <2>3. /\ c.active \in [DOMAIN c.active -> Principals]
        /\ c.reservations \in [DOMAIN c.reservations -> Reservation]
        /\ c.tickets \in [DOMAIN c.tickets -> TicketEntry]
    BY DEF NewController
  <2>4. c \in [allocated : Nat, pending : Nat \cup {NoTarget}, revision : Nat,
               nextTicket : Nat \ {0}, nextLease : Nat \ {0},
               active       : [DOMAIN c.active -> Principals],
               reservations : [DOMAIN c.reservations -> Reservation],
               tickets      : [DOMAIN c.tickets -> TicketEntry],
               waiting      : Seq(Nat),
               index        : [Principals \X Keys -> Nat]]
    <3>1. 0 \in Nat /\ 1 \in Nat \ {0} /\ a \in Nat
      OBVIOUS
    <3>2. QED
      BY ONLY <2>2, <2>3, <3>1 DEF NewController, c
  <2>5. QED
    BY <2>1, <2>4 DEF ControllerType
<1>4. InState(c, "Offered") = {}
  BY <1>1 DEF InState
<1>5. Occupied(c) = 0
  BY <1>1, <1>2, <1>4 DEF Occupied
<1>. HIDE DEF c
<1>6. Within(c)
  BY <1>1, <1>5 DEF Within
<1>7. IdsIssued(c)
  BY <1>1 DEF IdsIssued
<1>8. c.waiting = <<>> /\ \A pk \in Principals \X Keys : c.index[pk] = NoTicket
  BY DEF c, NewController
<1>9. Live(c) = {} /\ \A s : InState(c, s) = {}
  BY <1>1 DEF Live, InState
<1>10. QueueInv(c)
  <2>1. QueueListed(c)
    BY <1>8, <1>9 DEF QueueListed, Elements, Sorted
  <2>2. QED
    BY <1>8, <1>9, <2>1 DEF QueueInv, IndexExact, OneLive, OldestFirst
<1>11. AdmittedInv(c) /\ Busy(c)
  BY <1>8, <1>9 DEF AdmittedInv, Busy
<1>12. QED
  BY <1>3, <1>6, <1>7, <1>10, <1>11 DEF CtlInv, Tables, c

=============================================================================
