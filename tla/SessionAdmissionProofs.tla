----------------------- MODULE SessionAdmissionProofs ------------------------
(***************************************************************************)
(* For every policy and any number of connections, principals and keys:    *)
(* every active lease of the session has exactly one holder and every      *)
(* holder's lease is active, the members are the holders of bound leases   *)
(* and never more than the allocation, a live ticket belongs to exactly    *)
(* one connection that is up, and whatever a connection asks, the answer   *)
(* can be encoded.                                                         *)
(*                                                                         *)
(* What makes them inductive is what the core's records assume of each     *)
(* other: a connection never has a pending and a bound lease, none at all  *)
(* beside a live ticket, and nothing before it is authenticated or after   *)
(* it is lost; a ticket it remembers was issued, to it alone.              *)
(***************************************************************************)
EXTENDS SessionAdmission, AdmissionOpsProofs

LeasesOf(l) == {l.pending, l.bound} \ {NoLease}

\* What the record of one connection obeys.
LinkInv(l) ==
  /\ l \in Link
  /\ l.state # "up" => l.principal = Nobody
  /\ l.principal = Nobody => LeasesOf(l) = {} /\ l.ticket = NoTicket
  /\ l.member <=> l.bound # NoLease
  /\ l.pending = NoLease \/ l.bound = NoLease
  /\ l.member => l.limiter
  /\ l.elsewhere + l.detached + (IF l.limiter THEN 1 ELSE 0) <= MaxMemberships

\* The active leases of controller k are those of the links m, one holder each.
Held(k, m) ==
  /\ \A x \in DOMAIN k.active : \E c \in Connections : x \in LeasesOf(m[c])
  /\ \A c \in Connections : \A x \in LeasesOf(m[c]) :
       /\ HasActiveLease(k, x, m[c].principal)
       /\ \A o \in Connections \ {c} : x \notin LeasesOf(m[o])

\* The live tickets of k are among those of the links m, one holder each.
Queued(k, m) ==
  /\ \A i \in Live(k) : \E c \in Connections : m[c].ticket = i
  /\ \A c \in Connections :
       /\ m[c].ticket < k.nextTicket
       /\ m[c].ticket \in Live(k) => /\ LeasesOf(m[c]) = {}
                                     /\ m[c].principal = k.tickets[m[c].ticket].principal
       /\ \A o \in Connections \ {c} : m[c].ticket # NoTicket => m[o].ticket # m[c].ticket

LinksInv(k, m) ==
  /\ m \in [Connections -> Link]
  /\ \A c \in Connections : LinkInv(m[c])
  /\ Held(k, m)
  /\ Queued(k, m)

SessionInv == CtlInv(ctl) /\ LinksInv(ctl, link)
-----------------------------------------------------------------------------
\* What the record l of a connection says of controller k.
Owns(k, l) == \A x \in LeasesOf(l) : HasActiveLease(k, x, l.principal)

Waits(k, l) ==
  /\ l.ticket < k.nextTicket
  /\ l.ticket \in Live(k) => /\ LeasesOf(l) = {}
                             /\ l.principal = k.tickets[l.ticket].principal

\* k becomes d and issues no ticket; those that stay live keep their owner.
TicketsFewer(k, d) ==
  /\ d.nextTicket = k.nextTicket
  /\ \A i \in Live(d) : i \in Live(k) /\ d.tickets[i].principal = k.tickets[i].principal

\* As controller k becomes d, record l becomes n: the leases that l holds and n
\* does not are ended, those that n holds and l does not begin, nothing else.
LeaseMove(k, d, l, n) ==
  /\ DOMAIN d.active = (DOMAIN k.active \ LeasesOf(l)) \cup LeasesOf(n)
  /\ \A x \in DOMAIN k.active \ LeasesOf(l) : d.active[x] = k.active[x] /\ x \notin LeasesOf(n)
  /\ \A x \in LeasesOf(n) : d.active[x] = n.principal

\* The same for the ticket, which l forgets only once it is not live.
TicketMove(k, d, l, n) ==
  /\ k.nextTicket <= d.nextTicket
  /\ \A i \in Live(d) : \/ i = n.ticket
                        \/ i \in Live(k) /\ d.tickets[i].principal = k.tickets[i].principal
  /\ l.ticket \in Live(d) => n.ticket = l.ticket
  /\ n.ticket \in {NoTicket, l.ticket} \/ n.ticket = k.nextTicket
  /\ Waits(d, n)

\* The ids that the controller's tables hold.
LEMMA CtlIds ==
  ASSUME NEW k, CtlInv(k)
  PROVE  /\ k.nextTicket \in Nat \ {0} /\ k.nextLease \in Nat \ {0}
         /\ \A i \in Live(k) : /\ i \in Nat /\ i # NoTicket /\ i < k.nextTicket
                               /\ k.tickets[i].principal \in Principals
         /\ k.nextLease \notin DOMAIN k.active /\ NoLease \notin DOMAIN k.active
<1>1. ControllerType(k) /\ IdsIssued(k)
  BY DEF CtlInv, Tables
<1>2. k.nextTicket \in Nat \ {0} /\ k.nextLease \in Nat \ {0}
  BY <1>1 DEF ControllerType
<1>3. k.tickets \in [DOMAIN k.tickets -> TicketEntry]
  BY <1>1 DEF ControllerType
<1>4. \A i \in DOMAIN k.tickets : /\ i \in Nat /\ i # 0 /\ i < k.nextTicket
                                  /\ k.tickets[i].principal \in Principals
  BY <1>1, <1>2, <1>3 DEF IdsIssued, TicketEntry
<1>5. \A x \in DOMAIN k.active : x \in 1..(k.nextLease - 1)
  BY <1>1 DEF IdsIssued
<1>6. k.nextLease \notin DOMAIN k.active /\ 0 \notin DOMAIN k.active
  BY <1>2, <1>5
<1>7. QED
  BY <1>2, <1>4, <1>6 DEF Live, NoTicket, NoLease

\* An operation of the controller that issues no ticket.
LEMMA FewerTickets ==
  ASSUME NEW k, CtlInv(k), NEW d, CtlInv(d), TicketsEnd(k, d), d.nextTicket = k.nextTicket
  PROVE  TicketsFewer(k, d)
<1>1. SUFFICES ASSUME NEW i \in Live(d)
               PROVE  i \in Live(k) /\ d.tickets[i].principal = k.tickets[i].principal
  BY DEF TicketsFewer
<1>2. i \in Nat /\ i < k.nextTicket /\ k.nextTicket \in Nat
  BY CtlIds
<1>3. ~(i >= k.nextTicket)
  BY <1>2
<1>4. i \in DOMAIN d.tickets /\ IsLive(d.tickets[i])
  BY <1>1 DEF Live
<1>5. QED
  BY <1>3, <1>4 DEF TicketsEnd, Live

\* The controller's operations that begin and end no lease.
LEMMA CalmOps ==
  ASSUME NEW k, CtlInv(k), NEW d, CtlInv(d), Step(k, d), SameClaims(k, d)
  PROVE  d.active = k.active /\ TicketsFewer(k, d)
BY FewerTickets DEF Step, SameClaims

\* One of the records follows the controller: the leases.
LEMMA HeldStep ==
  ASSUME NEW k, NEW d, NEW m \in [Connections -> Link], NEW c \in Connections, NEW n \in Link,
         Held(k, m), LeaseMove(k, d, m[c], n)
  PROVE  Held(d, [m EXCEPT ![c] = n])
<1>. DEFINE m2 == [m EXCEPT ![c] = n]
<1>1. m2[c] = n /\ \A o \in Connections \ {c} : m2[o] = m[o]
  OBVIOUS
<1>. HIDE DEF m2
<1>2. ASSUME NEW x \in DOMAIN d.active PROVE \E o \in Connections : x \in LeasesOf(m2[o])
  <2>1. CASE x \in LeasesOf(n)
    BY <1>1, <2>1
  <2>2. CASE x \notin LeasesOf(n)
    <3>1. x \in DOMAIN k.active /\ x \notin LeasesOf(m[c])
      BY <1>2, <2>2 DEF LeaseMove
    <3>2. PICK o \in Connections : x \in LeasesOf(m[o])
      BY <3>1 DEF Held
    <3>3. QED
      BY <1>1, <3>1, <3>2
  <2>3. QED
    BY <2>1, <2>2
<1>3. ASSUME NEW o \in Connections, NEW x \in LeasesOf(m2[o])
      PROVE  /\ HasActiveLease(d, x, m2[o].principal)
             /\ \A q \in Connections \ {o} : x \notin LeasesOf(m2[q])
  <2>1. CASE o = c
    <3>1. x \in LeasesOf(n) /\ x \in DOMAIN d.active /\ d.active[x] = n.principal
      BY <1>1, <1>3, <2>1 DEF LeaseMove
    <3>2. ASSUME NEW q \in Connections \ {c}, x \in LeasesOf(m[q]) PROVE FALSE
      <4>1. x \in DOMAIN k.active /\ x \notin LeasesOf(m[c])
        BY <3>2 DEF Held, HasActiveLease
      <4>2. QED
        BY <3>1, <4>1 DEF LeaseMove
    <3>3. QED
      BY <1>1, <2>1, <3>1, <3>2 DEF HasActiveLease
  <2>2. CASE o # c
    <3>1. x \in LeasesOf(m[o]) /\ m2[o] = m[o]
      BY <1>1, <1>3, <2>2
    <3>2. /\ x \in DOMAIN k.active /\ k.active[x] = m[o].principal
          /\ \A q \in Connections \ {o} : x \notin LeasesOf(m[q])
      BY <3>1 DEF Held, HasActiveLease
    <3>3. x \in DOMAIN k.active \ LeasesOf(m[c])
      BY <2>2, <3>2
    <3>4. x \in DOMAIN d.active /\ d.active[x] = k.active[x] /\ x \notin LeasesOf(n)
      BY <3>3 DEF LeaseMove
    <3>5. QED
      BY <1>1, <3>1, <3>2, <3>4 DEF HasActiveLease
  <2>3. QED
    BY <2>1, <2>2
<1>4. QED
  BY <1>2, <1>3 DEF Held, m2

\* One of the records follows the controller: the tickets.
LEMMA QueuedStep ==
  ASSUME NEW k, NEW d, NEW m \in [Connections -> Link], NEW c \in Connections, NEW n \in Link,
         CtlInv(k), CtlInv(d), Queued(k, m), TicketMove(k, d, m[c], n)
  PROVE  Queued(d, [m EXCEPT ![c] = n])
<1>. DEFINE m2 == [m EXCEPT ![c] = n]
<1>1. m2[c] = n /\ \A o \in Connections \ {c} : m2[o] = m[o]
  OBVIOUS
<1>2. \A o \in Connections : m[o].ticket \in Nat
  BY DEF Link
<1>. HIDE DEF m2
<1>3. k.nextTicket \in Nat /\ d.nextTicket \in Nat /\ k.nextTicket <= d.nextTicket /\ n.ticket \in Nat
  BY CtlIds DEF TicketMove, Link
<1>4. \A o \in Connections \ {c} : m[o].ticket = n.ticket => n.ticket = NoTicket
  <2>1. SUFFICES ASSUME NEW o \in Connections \ {c}, m[o].ticket = n.ticket, n.ticket # NoTicket
                 PROVE  FALSE
    OBVIOUS
  <2>2. m[o].ticket < k.nextTicket /\ m[o].ticket # m[c].ticket
    BY <2>1 DEF Queued
  <2>3. n.ticket = k.nextTicket
    BY <2>1, <2>2 DEF TicketMove
  <2>4. QED
    BY <1>2, <1>3, <2>1, <2>2, <2>3
<1>5. ASSUME NEW i \in Live(d) PROVE \E o \in Connections : m2[o].ticket = i
  <2>1. CASE i = n.ticket
    BY <1>1, <2>1
  <2>2. CASE i # n.ticket
    <3>1. i \in Live(k)
      BY <1>5, <2>2 DEF TicketMove
    <3>2. PICK o \in Connections : m[o].ticket = i
      BY <3>1 DEF Queued
    <3>3. o # c
      BY <1>5, <2>2, <3>2 DEF TicketMove
    <3>4. QED
      BY <1>1, <3>2, <3>3
  <2>3. QED
    BY <2>1, <2>2
<1>6. ASSUME NEW o \in Connections PROVE Waits(d, m2[o])
  <2>1. CASE o = c
    BY <1>1, <2>1 DEF TicketMove
  <2>2. CASE o # c
    <3>1. m2[o] = m[o] /\ m[o].ticket < k.nextTicket
      BY <1>1, <2>2 DEF Queued
    <3>2. m[o].ticket < d.nextTicket
      BY <1>2, <1>3, <3>1
    <3>3. ASSUME m[o].ticket \in Live(d)
          PROVE  LeasesOf(m[o]) = {} /\ m[o].principal = d.tickets[m[o].ticket].principal
      <4>1. m[o].ticket # NoTicket
        BY <3>3, CtlIds
      <4>2. m[o].ticket # n.ticket
        BY <1>4, <2>2, <4>1
      <4>3. /\ m[o].ticket \in Live(k)
            /\ d.tickets[m[o].ticket].principal = k.tickets[m[o].ticket].principal
        BY <3>3, <4>2 DEF TicketMove
      <4>4. QED
        BY <4>3 DEF Queued
    <3>4. QED
      BY <3>1, <3>2, <3>3 DEF Waits
  <2>3. QED
    BY <2>1, <2>2
<1>7. ASSUME NEW o \in Connections, NEW q \in Connections \ {o}, m2[o].ticket # NoTicket
      PROVE  m2[q].ticket # m2[o].ticket
  <2>1. CASE o = c
    BY <1>1, <1>4, <1>7, <2>1
  <2>2. CASE q = c
    BY <1>1, <1>4, <1>7, <2>2
  <2>3. CASE o # c /\ q # c
    BY <1>1, <1>7, <2>3 DEF Queued
  <2>4. QED
    BY <2>1, <2>2, <2>3
<1>8. QED
  BY <1>5, <1>6, <1>7 DEF Queued, Waits, m2

\* One record follows the controller.
LEMMA LinksStep ==
  ASSUME NEW k, NEW d, NEW m, NEW c \in Connections, NEW n,
         CtlInv(k), CtlInv(d), LinksInv(k, m), LinkInv(n),
         LeaseMove(k, d, m[c], n), TicketMove(k, d, m[c], n)
  PROVE  LinksInv(d, [m EXCEPT ![c] = n])
<1>1. m \in [Connections -> Link] /\ n \in Link /\ Held(k, m) /\ Queued(k, m)
  BY DEF LinksInv, LinkInv
<1>2. Held(d, [m EXCEPT ![c] = n]) /\ Queued(d, [m EXCEPT ![c] = n])
  BY <1>1, HeldStep, QueuedStep
<1>3. /\ [m EXCEPT ![c] = n] \in [Connections -> Link]
      /\ \A o \in Connections : LinkInv([m EXCEPT ![c] = n][o])
  BY <1>1 DEF LinksInv
<1>4. QED
  BY <1>2, <1>3 DEF LinksInv

\* No record changes, and the controller's leases do not either.
LEMMA LinksSame ==
  ASSUME NEW k, NEW d, NEW m, CtlInv(k), CtlInv(d), LinksInv(k, m),
         Step(k, d), SameClaims(k, d)
  PROVE  LinksInv(d, m)
<1>1. d.active = k.active /\ TicketsFewer(k, d)
  BY CalmOps
<1>2. Held(d, m)
  BY <1>1 DEF LinksInv, Held, HasActiveLease
<1>3. Queued(d, m)
  BY <1>1 DEF LinksInv, Queued, TicketsFewer
<1>4. QED
  BY <1>2, <1>3 DEF LinksInv

\* What LinksInv says of one record.
LEMMA LinkFacts ==
  ASSUME NEW k, NEW m, LinksInv(k, m), NEW c \in Connections
  PROVE  LinkInv(m[c]) /\ m[c] \in Link /\ Owns(k, m[c]) /\ Waits(k, m[c])
BY DEF LinksInv, LinkInv, Held, Queued, Owns, Waits

\* Record l becomes n and keeps its claims; only one without any gets an owner.
Relinks(l, n) ==
  /\ LinkInv(n)
  /\ LeasesOf(n) = LeasesOf(l)
  /\ n.ticket = l.ticket
  /\ \/ n.principal = l.principal
     \/ LeasesOf(l) = {} /\ l.ticket = NoTicket

\* The record changes and keeps its leases and its ticket.
LEMMA KeepMove ==
  ASSUME NEW k, NEW d, NEW l, NEW n, CtlInv(k), CtlInv(d), Owns(k, l), Waits(k, l),
         d.active = k.active, TicketsFewer(k, d), Relinks(l, n)
  PROVE  LeaseMove(k, d, l, n) /\ TicketMove(k, d, l, n)
<1>1. LeaseMove(k, d, l, n)
  BY DEF LeaseMove, Owns, HasActiveLease, Relinks
<1>2. Waits(d, n)
  <2>1. NoTicket \notin Live(d)
    BY CtlIds
  <2>2. QED
    BY <2>1 DEF Waits, TicketsFewer, Relinks
<1>3. k.nextTicket <= d.nextTicket
  BY CtlIds DEF TicketsFewer
<1>4. QED
  BY <1>1, <1>2, <1>3 DEF TicketMove, TicketsFewer, Relinks

\* The record's only lease ends with it, and with that its ticket, which was
\* not live beside a lease.
LEMMA EndMove ==
  ASSUME NEW k, NEW d, NEW l, NEW n, CtlInv(k), CtlInv(d), Owns(k, l), Waits(k, l),
         NEW x, LeasesOf(l) = {x}, d.active = Drop(k.active, {x}), TicketsFewer(k, d),
         LeasesOf(n) = {}, n.ticket \in {NoTicket, l.ticket}
  PROVE  LeaseMove(k, d, l, n) /\ TicketMove(k, d, l, n)
<1>1. LeaseMove(k, d, l, n)
  BY DEF LeaseMove, Drop
<1>2. k.nextTicket <= d.nextTicket /\ NoTicket < d.nextTicket /\ NoTicket \notin Live(d)
  BY CtlIds DEF TicketsFewer, NoTicket
<1>3. l.ticket \notin Live(k) /\ l.ticket \notin Live(d)
  BY DEF Waits, TicketsFewer
<1>4. Waits(d, n)
  BY <1>2, <1>3 DEF Waits, TicketsFewer
<1>5. QED
  BY <1>1, <1>2, <1>3, <1>4 DEF TicketMove, TicketsFewer

-----------------------------------------------------------------------------
\* A join takes a slot only where one is free, or the session's history has it.
LEMMA JoinUncheckedInv ==
  ASSUME NEW l, LinkInv(l), l.bound = NoLease, NEW pr \in Prunings(l)
  PROVE  LET j == JoinUnchecked(l, pr[1], pr[2])
         IN  /\ j \in Link
             /\ j.state = l.state /\ j.principal = l.principal /\ j.ticket = l.ticket
             /\ j.pending = l.pending /\ j.bound = l.bound /\ j.elsewhere = l.elsewhere
             /\ j.member => j.limiter
             /\ j.elsewhere + j.detached + (IF j.limiter THEN 1 ELSE 0) <= MaxMemberships
<1>. DEFINE d   == pr[1]
            own == pr[2]
            j   == JoinUnchecked(l, d, own)
<1>1. /\ l \in Link /\ l.elsewhere \in 0..MaxMemberships /\ l.detached \in 0..MaxMemberships
      /\ l.limiter \in BOOLEAN /\ MaxMemberships \in Nat
      /\ l.elsewhere + l.detached + (IF l.limiter THEN 1 ELSE 0) <= MaxMemberships
      /\ ~l.member
  BY SessionAssumption DEF LinkInv, Link
<1>2. d \in 0..l.detached /\ own \in BOOLEAN /\ (own => l.limiter)
  BY DEF Prunings
<1>3. d \in 0..MaxMemberships
  BY <1>1, <1>2
<1>. HIDE DEF d, own
<1>4. CASE l.elsewhere = MaxMemberships
  <2>1. j = l
    BY <1>4 DEF JoinUnchecked
  <2>2. QED
    BY <1>1, <2>1 DEF d, own
<1>5. CASE l.elsewhere # MaxMemberships /\ (own \/ l.elsewhere + d < MaxMemberships)
  <2>1. j = [l EXCEPT !.detached = d, !.limiter = TRUE, !.member = TRUE]
    BY <1>1, <1>5 DEF JoinUnchecked
  <2>2. /\ j \in Link
        /\ j.state = l.state /\ j.principal = l.principal /\ j.ticket = l.ticket
        /\ j.pending = l.pending /\ j.bound = l.bound /\ j.elsewhere = l.elsewhere
        /\ j.limiter = TRUE /\ j.detached = d
    BY <1>1, <1>3, <2>1 DEF Link
  <2>3. l.elsewhere + d + 1 <= MaxMemberships
    BY <1>1, <1>2, <1>5
  <2>. HIDE DEF j
  <2>4. QED
    BY <2>2, <2>3 DEF d, own, j
<1>6. CASE l.elsewhere # MaxMemberships /\ ~(own \/ l.elsewhere + d < MaxMemberships)
  <2>1. j = [l EXCEPT !.detached = d, !.limiter = FALSE]
    BY <1>1, <1>6 DEF JoinUnchecked
  <2>2. /\ j \in Link
        /\ j.state = l.state /\ j.principal = l.principal /\ j.ticket = l.ticket
        /\ j.pending = l.pending /\ j.bound = l.bound /\ j.elsewhere = l.elsewhere
        /\ j.limiter = FALSE /\ j.detached = d /\ j.member = l.member
    BY <1>1, <1>3, <2>1 DEF Link
  <2>3. l.elsewhere + d + 0 <= MaxMemberships
    BY <1>1, <1>2
  <2>. HIDE DEF j
  <2>4. QED
    BY <1>1, <2>2, <2>3 DEF d, own, j
<1>7. QED
  BY <1>4, <1>5, <1>6

\* join_session_with_admission_at binds the pending lease or changes no lease.
LEMMA JoinWithAdmissionInv ==
  ASSUME NEW k, NEW c, NEW l, LinkInv(l), NEW lease \in Nat \ {NoLease},
         NEW pr \in Prunings(l)
  PROVE  LET n == JoinWithAdmission(k, c, l, lease, pr)
         IN  /\ LinkInv(n)
             /\ LeasesOf(n) = LeasesOf(l) /\ n.ticket = l.ticket /\ n.principal = l.principal
             /\ n.bound = l.bound \/ (n.bound = lease /\ lease = l.pending)
             /\ n.bound = l.bound => n.pending = l.pending
<1>. DEFINE j == JoinUnchecked(l, pr[1], pr[2])
            n == JoinWithAdmission(k, c, l, lease, pr)
            refused == \/ l.bound # NoLease
                       \/ l.pending # lease
                       \/ ~HasActiveLease(k, lease, l.principal)
                       \/ \E o \in Connections \ {c} : link[o].bound = lease
<1>1. CASE refused
  <2>1. n = l
    BY <1>1 DEF JoinWithAdmission
  <2>2. QED
    BY <2>1
<1>2. CASE ~refused
  <2>1. l.bound = NoLease /\ l.pending = lease
    BY <1>2
  <2>2. /\ j \in Link
        /\ j.state = l.state /\ j.principal = l.principal /\ j.ticket = l.ticket
        /\ j.pending = l.pending /\ j.bound = l.bound /\ j.elsewhere = l.elsewhere
        /\ j.member => j.limiter
        /\ j.elsewhere + j.detached + (IF j.limiter THEN 1 ELSE 0) <= MaxMemberships
    BY <2>1, JoinUncheckedInv
  <2>3. /\ l.state # "up" => l.principal = Nobody
        /\ l.principal # Nobody
    BY <2>1 DEF LinkInv, LeasesOf
  <2>4. CASE j.member
    <3>1. n = [j EXCEPT !.pending = NoLease, !.bound = lease]
      BY <1>2, <2>4 DEF JoinWithAdmission
    <3>. HIDE DEF j, n
    <3>2. /\ n \in Link /\ n.pending = NoLease /\ n.bound = lease
          /\ n.state = j.state /\ n.principal = j.principal /\ n.ticket = j.ticket
          /\ n.member = j.member /\ n.limiter = j.limiter
          /\ n.elsewhere = j.elsewhere /\ n.detached = j.detached
      BY <2>2, <3>1 DEF Link, NoLease
    <3>3. LinkInv(n)
      <4>1. n.pending = NoLease \/ n.bound = NoLease
        BY <3>2
      <4>2. n.member <=> n.bound # NoLease
        BY <2>4, <3>2
      <4>3. /\ n.state # "up" => n.principal = Nobody
            /\ n.principal # Nobody
        BY <2>2, <2>3, <3>2
      <4>4. /\ n.member => n.limiter
            /\ n.elsewhere + n.detached + (IF n.limiter THEN 1 ELSE 0) <= MaxMemberships
        BY <2>2, <3>2
      <4>5. QED
        BY <3>2, <4>1, <4>2, <4>3, <4>4 DEF LinkInv
    <3>4. LeasesOf(n) = LeasesOf(l)
      BY <2>1, <3>2 DEF LeasesOf
    <3>5. QED
      BY <2>1, <2>2, <3>2, <3>3, <3>4 DEF n
  <2>5. CASE ~j.member
    <3>1. n = j
      BY <1>2, <2>5 DEF JoinWithAdmission
    <3>. HIDE DEF j, n
    <3>2. LinkInv(n)
      BY <2>1, <2>2, <2>3, <2>5, <3>1 DEF LinkInv
    <3>3. LeasesOf(n) = LeasesOf(l)
      BY <2>2, <3>1 DEF LeasesOf
    <3>4. QED
      BY <2>2, <3>1, <3>2, <3>3 DEF n
  <2>6. QED
    BY <2>4, <2>5
<1>3. QED
  BY <1>1, <1>2

-----------------------------------------------------------------------------
\* A command that changes one record, and neither a lease nor a ticket.
LEMMA RelinkStep ==
  ASSUME SessionInv, NEW c \in Connections, NEW n, Relinks(link[c], n),
         ctl' = ctl, link' = [link EXCEPT ![c] = n]
  PROVE  SessionInv'
<1>1. CtlInv(ctl) /\ LinksInv(ctl, link) /\ Owns(ctl, link[c]) /\ Waits(ctl, link[c])
  BY LinkFacts DEF SessionInv
<1>2. TicketsFewer(ctl, ctl)
  BY DEF TicketsFewer
<1>3. LinkInv(n) /\ LeaseMove(ctl, ctl, link[c], n) /\ TicketMove(ctl, ctl, link[c], n)
  BY <1>1, <1>2, KeepMove DEF Relinks
<1>4. LinksInv(ctl, [link EXCEPT ![c] = n])
  BY <1>1, <1>3, LinksStep
<1>5. QED
  BY <1>1, <1>4 DEF SessionInv

\* A connection comes up; it has claimed nothing.
LEMMA TransportConnectedStep ==
  ASSUME SessionInv, NEW c \in Connections, TransportConnected(c)
  PROVE  SessionInv'
<1>. DEFINE l == link[c]
            n == [l EXCEPT !.state = "up"]
<1>1. LinkInv(l) /\ l \in Link /\ link \in [Connections -> Link] /\ l.state = "new"
  BY LinkFacts DEF SessionInv, LinksInv, TransportConnected
<1>2. link' = [link EXCEPT ![c] = n] /\ ctl' = ctl
  BY <1>1 DEF TransportConnected
<1>. HIDE DEF l
<1>3. /\ n \in Link /\ n.state = "up" /\ n.principal = l.principal
      /\ n.ticket = l.ticket /\ n.pending = l.pending /\ n.bound = l.bound
      /\ n.member = l.member /\ n.limiter = l.limiter
      /\ n.elsewhere = l.elsewhere /\ n.detached = l.detached
  BY <1>1 DEF Link
<1>. HIDE DEF n
<1>4. LinkInv(n) /\ LeasesOf(n) = LeasesOf(l)
  BY <1>1, <1>3 DEF LinkInv, LeasesOf
<1>5. Relinks(link[c], n)
  BY <1>3, <1>4 DEF Relinks, l
<1>6. QED
  BY <1>2, <1>5, RelinkStep

\* It authenticates; until then it has claimed nothing.
LEMMA AuthenticateStep ==
  ASSUME SessionInv, NEW c \in Connections, NEW p \in Principals, Authenticate(c, p)
  PROVE  SessionInv'
<1>. DEFINE l == link[c]
            n == [l EXCEPT !.principal = p]
<1>1. /\ LinkInv(l) /\ l \in Link /\ link \in [Connections -> Link]
      /\ l.state = "up" /\ l.principal = Nobody
  BY LinkFacts DEF SessionInv, LinksInv, Authenticate
<1>2. link' = [link EXCEPT ![c] = n] /\ ctl' = ctl
  BY <1>1 DEF Authenticate
<1>. HIDE DEF l
<1>3. /\ n \in Link /\ n.principal = p /\ n.state = l.state
      /\ n.ticket = l.ticket /\ n.pending = l.pending /\ n.bound = l.bound
      /\ n.member = l.member /\ n.limiter = l.limiter
      /\ n.elsewhere = l.elsewhere /\ n.detached = l.detached
  BY <1>1 DEF Link
<1>. HIDE DEF n
<1>4. p # Nobody
  BY SessionAssumption
<1>5. LinkInv(n) /\ LeasesOf(n) = LeasesOf(l) /\ LeasesOf(l) = {} /\ l.ticket = NoTicket
  BY <1>1, <1>3, <1>4 DEF LinkInv, LeasesOf
<1>6. Relinks(link[c], n)
  BY <1>3, <1>5 DEF Relinks, l
<1>7. QED
  BY <1>2, <1>6, RelinkStep

\* A command that changes only the slots of the other sessions' memberships
\* and histories, within max_memberships_per_connection.
LEMMA SlotsStep ==
  ASSUME SessionInv, NEW c \in Connections, Authenticated(c), NEW n \in Link,
         n.state = link[c].state, n.principal = link[c].principal,
         n.ticket = link[c].ticket, n.pending = link[c].pending,
         n.bound = link[c].bound, n.member = link[c].member,
         n.member => n.limiter,
         n.elsewhere + n.detached + (IF n.limiter THEN 1 ELSE 0) <= MaxMemberships,
         ctl' = ctl, link' = [link EXCEPT ![c] = n]
  PROVE  SessionInv'
<1>. DEFINE l == link[c]
<1>1. LinkInv(l) /\ l.principal # Nobody
  BY LinkFacts DEF SessionInv, Authenticated
<1>. HIDE DEF l
<1>2. LinkInv(n) /\ LeasesOf(n) = LeasesOf(l)
  BY <1>1 DEF LinkInv, LeasesOf, l
<1>3. Relinks(link[c], n)
  BY <1>2 DEF Relinks, l
<1>4. QED
  BY <1>3, RelinkStep

\* join_session of another session: a retained history gives its slot to the
\* membership, otherwise a free one is taken.
LEMMA JoinElsewhereStep ==
  ASSUME SessionInv, NEW c \in Connections, NEW retained \in BOOLEAN, JoinElsewhere(c, retained)
  PROVE  SessionInv'
<1>. DEFINE l == link[c]
<1>1. PICK pr \in Prunings(l) :
        LET d     == pr[1]
            slots == l.elsewhere + d + (IF pr[2] THEN 1 ELSE 0)
        IN  /\ IF retained THEN d > 0 ELSE slots < MaxMemberships
            /\ link' = [link EXCEPT ![c] =
                 [l EXCEPT !.elsewhere = @ + 1, !.limiter = pr[2],
                           !.detached = IF retained THEN d - 1 ELSE d]]
  BY DEF JoinElsewhere
<1>. DEFINE d   == pr[1]
            own == pr[2]
            e   == l.elsewhere + 1
            t   == IF retained THEN d - 1 ELSE d
            n   == [l EXCEPT !.elsewhere = e, !.limiter = own, !.detached = t]
<1>2. /\ link' = [link EXCEPT ![c] = n] /\ ctl' = ctl /\ Authenticated(c)
      /\ IF retained THEN d > 0 ELSE l.elsewhere + d + (IF own THEN 1 ELSE 0) < MaxMemberships
  BY <1>1 DEF JoinElsewhere
<1>3. LinkInv(l) /\ l \in Link
  BY LinkFacts DEF SessionInv
<1>. HIDE DEF l
<1>4. /\ l.elsewhere \in 0..MaxMemberships /\ l.detached \in 0..MaxMemberships
      /\ l.limiter \in BOOLEAN /\ l.member \in BOOLEAN /\ MaxMemberships \in Nat
      /\ l.elsewhere + l.detached + (IF l.limiter THEN 1 ELSE 0) <= MaxMemberships
  BY <1>3, SessionAssumption DEF LinkInv, Link
<1>5. d \in 0..l.detached /\ own \in BOOLEAN /\ (own => l.limiter) /\ (l.member => own)
  BY DEF Prunings
<1>. HIDE DEF d, own
<1>6. /\ e \in 0..MaxMemberships /\ t \in 0..MaxMemberships
      /\ e + t + (IF own THEN 1 ELSE 0) <= MaxMemberships
  BY <1>2, <1>4, <1>5
<1>. HIDE DEF e, t
<1>7. /\ n \in Link /\ n.elsewhere = e /\ n.limiter = own /\ n.detached = t
      /\ n.state = l.state /\ n.principal = l.principal /\ n.ticket = l.ticket
      /\ n.pending = l.pending /\ n.bound = l.bound /\ n.member = l.member
  BY <1>3, <1>5, <1>6 DEF Link
<1>. HIDE DEF n
<1>8. n.member => n.limiter
  BY <1>5, <1>7
<1>9. n.elsewhere + n.detached + (IF n.limiter THEN 1 ELSE 0) <= MaxMemberships
  BY <1>6, <1>7
<1>10. QED
  BY <1>2, <1>7, <1>8, <1>9, SlotsStep DEF l

\* leave_session of another session keeps the slot for its history, or frees it.
LEMMA LeaveElsewhereStep ==
  ASSUME SessionInv, NEW c \in Connections, NEW retained \in BOOLEAN, LeaveElsewhere(c, retained)
  PROVE  SessionInv'
<1>. DEFINE l == link[c]
            e == l.elsewhere - 1
            t == IF retained THEN l.detached + 1 ELSE l.detached
            n == [l EXCEPT !.elsewhere = e, !.detached = t]
<1>1. LinkInv(l) /\ l \in Link /\ link \in [Connections -> Link]
  BY LinkFacts DEF SessionInv, LinksInv
<1>2. link' = [link EXCEPT ![c] = n] /\ ctl' = ctl /\ Authenticated(c) /\ l.elsewhere > 0
  BY <1>1 DEF LeaveElsewhere
<1>. HIDE DEF l
<1>3. /\ l.elsewhere \in 0..MaxMemberships /\ l.detached \in 0..MaxMemberships
      /\ l.limiter \in BOOLEAN /\ l.member \in BOOLEAN /\ MaxMemberships \in Nat
      /\ l.elsewhere + l.detached + (IF l.limiter THEN 1 ELSE 0) <= MaxMemberships
      /\ l.member => l.limiter
  BY <1>1, SessionAssumption DEF LinkInv, Link
<1>4. /\ e \in 0..MaxMemberships /\ t \in 0..MaxMemberships
      /\ e + t + (IF l.limiter THEN 1 ELSE 0) <= MaxMemberships
  BY <1>2, <1>3
<1>. HIDE DEF e, t
<1>5. /\ n \in Link /\ n.elsewhere = e /\ n.detached = t /\ n.limiter = l.limiter
      /\ n.state = l.state /\ n.principal = l.principal /\ n.ticket = l.ticket
      /\ n.pending = l.pending /\ n.bound = l.bound /\ n.member = l.member
  BY <1>1, <1>4 DEF Link
<1>. HIDE DEF n
<1>6. n.member => n.limiter
  BY <1>3, <1>5
<1>7. n.elsewhere + n.detached + (IF n.limiter THEN 1 ELSE 0) <= MaxMemberships
  BY <1>4, <1>5
<1>8. QED
  BY <1>2, <1>5, <1>6, <1>7, SlotsStep DEF l

\* A connection that asks has no lease and no ticket.
LEMMA AskingLink ==
  ASSUME SessionInv, NEW c \in Connections, Authenticated(c)
  PROVE  /\ CtlInv(ctl) /\ LinksInv(ctl, link) /\ LinkInv(link[c]) /\ link[c] \in Link
         /\ link[c].principal \in Principals /\ link[c].principal # Nobody
         /\ link[c].state = "up" /\ Owns(ctl, link[c]) /\ Waits(ctl, link[c])
<1>1. /\ CtlInv(ctl) /\ LinksInv(ctl, link) /\ LinkInv(link[c]) /\ link[c] \in Link
      /\ Owns(ctl, link[c]) /\ Waits(ctl, link[c])
  BY LinkFacts DEF SessionInv
<1>2. link[c].principal # Nobody /\ link[c].state = "up"
  BY DEF Authenticated
<1>3. link[c].principal \in Principals
  BY <1>1, <1>2 DEF Link
<1>4. QED
  BY <1>1, <1>2, <1>3

\* The decision begins a lease, or a ticket, for the asker and nobody else; the
\* ticket it repeats is another connection's, and the asker gets nothing.
LEMMA DecisionStep ==
  ASSUME SessionInv, NEW c \in Connections, Authenticated(c), AsksController(link[c]),
         NEW key \in Keys
  PROVE  LET l  == link[c]
             k1 == RequestJoin(ctl, l.principal, key)
             l1 == AfterDecision(c, l, JoinDecision(Expire(ctl), l.principal, key))
         IN  /\ CtlInv(k1) /\ LinkInv(l1) /\ l1.principal = l.principal
             /\ LinksInv(k1, [link EXCEPT ![c] = l1])
<1>. DEFINE l  == link[c]
            p  == l.principal
            k1 == RequestJoin(ctl, p, key)
            r  == JoinDecision(Expire(ctl), p, key)
            l1 == AfterDecision(c, l, r)
<1>1. /\ CtlInv(ctl) /\ LinksInv(ctl, link) /\ LinkInv(l) /\ l \in Link
      /\ p \in Principals /\ p # Nobody /\ l.state = "up" /\ Owns(ctl, l) /\ Waits(ctl, l)
  BY AskingLink
<1>2. l.bound = NoLease /\ l.pending = NoLease /\ l.ticket = NoTicket /\ LeasesOf(l) = {}
  BY DEF AsksController, LeasesOf
<1>3. CtlInv(k1) /\ Step(ctl, k1) /\ Requested(ctl, k1, p, r)
  BY <1>1, RequestJoinInv
<1>4. /\ ctl.nextTicket \in Nat \ {0} /\ ctl.nextLease \in Nat \ {0}
      /\ \A i \in Live(ctl) : i \in Nat /\ i # NoTicket /\ i < ctl.nextTicket
      /\ \A i \in Live(k1) : i \in Nat /\ i # NoTicket /\ i < k1.nextTicket
      /\ ctl.nextLease \notin DOMAIN ctl.active
  BY <1>1, <1>3, CtlIds
<1>5. \A o \in Connections : link[o].ticket \in Nat /\ link[o].ticket < ctl.nextTicket
  BY <1>1 DEF LinksInv, Link, Queued
<1>6. \A i \in Live(ctl) : \E o \in Connections : link[o].ticket = i
  BY <1>1 DEF LinksInv, Queued
<1>7. NoTicket < k1.nextTicket
  BY <1>3, <1>4 DEF Requested, NoTicket
<1>8. \A i \in Live(k1) : \/ i >= ctl.nextTicket
                          \/ /\ i \in Live(ctl)
                             /\ k1.tickets[i].principal = ctl.tickets[i].principal
  BY <1>3 DEF Step, TicketsEnd, Live
<1>9. l1 = IF r.kind = "Admitted" THEN [l EXCEPT !.pending = r.id]
           ELSE IF r.kind = "Queued" /\ \A o \in Connections \ {c} : link[o].ticket # r.id
           THEN [l EXCEPT !.ticket = r.id] ELSE l
  BY DEF AfterDecision
<1>. HIDE DEF l, p, k1, r, l1
<1>10. LinkInv(l1) /\ l1.principal = p /\ LeaseMove(ctl, k1, l, l1) /\ TicketMove(ctl, k1, l, l1)
  <2>1. CASE r.kind = "Admitted"
    <3>1. l1 = [l EXCEPT !.pending = r.id] /\ r.id = ctl.nextLease
      BY <1>3, <1>9, <2>1 DEF Requested
    <3>2. /\ l1 \in Link /\ l1.pending = ctl.nextLease /\ l1.bound = l.bound
          /\ l1.ticket = l.ticket /\ l1.principal = l.principal /\ l1.state = l.state
          /\ l1.member = l.member /\ l1.limiter = l.limiter
          /\ l1.elsewhere = l.elsewhere /\ l1.detached = l.detached
      BY <1>1, <1>4, <3>1 DEF Link
    <3>3. LeasesOf(l1) = {ctl.nextLease}
      BY <1>2, <1>4, <3>2 DEF LeasesOf, NoLease
    <3>4. LinkInv(l1)
      BY <1>1, <1>2, <3>2 DEF LinkInv, p
    <3>5. k1.active = Put(ctl.active, ctl.nextLease, p) /\ k1.nextTicket = ctl.nextTicket
      BY <1>3, <2>1 DEF Requested
    <3>6. LeaseMove(ctl, k1, l, l1)
      BY <1>2, <1>4, <3>2, <3>3, <3>5 DEF LeaseMove, Put, p
    <3>7. TicketMove(ctl, k1, l, l1)
      BY <1>2, <1>4, <1>7, <1>8, <3>2, <3>5 DEF TicketMove, Waits
    <3>8. QED
      BY <3>2, <3>4, <3>6, <3>7 DEF p
  <2>2. CASE r.kind = "Queued" /\ r.id = ctl.nextTicket
    <3>1. \A o \in Connections \ {c} : link[o].ticket # r.id
      BY <1>4, <1>5, <2>2
    <3>2. l1 = [l EXCEPT !.ticket = r.id]
      BY <1>9, <2>2, <3>1
    <3>3. /\ l1 \in Link /\ l1.ticket = ctl.nextTicket /\ l1.pending = l.pending
          /\ l1.bound = l.bound /\ l1.principal = l.principal /\ l1.state = l.state
          /\ l1.member = l.member /\ l1.limiter = l.limiter
          /\ l1.elsewhere = l.elsewhere /\ l1.detached = l.detached
      BY <1>1, <1>4, <2>2, <3>2 DEF Link
    <3>4. LeasesOf(l1) = {} /\ LinkInv(l1)
      BY <1>1, <1>2, <3>3 DEF LinkInv, LeasesOf, p
    <3>5. /\ k1.active = ctl.active /\ k1.nextTicket = ctl.nextTicket + 1
          /\ r.id \in Live(k1) /\ k1.tickets[r.id].principal = p
      BY <1>3, <2>2 DEF Requested
    <3>6. LeaseMove(ctl, k1, l, l1)
      BY <1>2, <3>4, <3>5 DEF LeaseMove
    <3>7. \A i \in Live(k1) : i >= ctl.nextTicket => i = ctl.nextTicket
      BY <1>4, <3>5
    <3>8. Waits(k1, l1)
      BY <1>4, <2>2, <3>3, <3>4, <3>5 DEF Waits, p
    <3>9. ctl.nextTicket <= k1.nextTicket /\ l.ticket \notin Live(k1)
      BY <1>2, <1>4, <3>5
    <3>10. TicketMove(ctl, k1, l, l1)
      BY <1>8, <3>3, <3>7, <3>8, <3>9 DEF TicketMove
    <3>11. QED
      BY <3>3, <3>4, <3>6, <3>10 DEF p
  <2>3. CASE r.kind # "Admitted" /\ ~(r.kind = "Queued" /\ r.id = ctl.nextTicket)
    <3>1. k1.active = ctl.active /\ k1.nextTicket = ctl.nextTicket
      BY <1>3, <2>3 DEF Requested
    <3>2. TicketsFewer(ctl, k1)
      BY <1>1, <1>3, <3>1, FewerTickets DEF Step
    <3>3. r.kind = "Queued" => \E o \in Connections \ {c} : link[o].ticket = r.id
      <4>1. SUFFICES ASSUME r.kind = "Queued" PROVE \E o \in Connections \ {c} : link[o].ticket = r.id
        OBVIOUS
      <4>2. r.id \in Live(k1)
        BY <1>3, <4>1 DEF Requested
      <4>3. r.id \in Live(ctl) /\ r.id # NoTicket
        BY <1>4, <3>2, <4>2 DEF TicketsFewer
      <4>4. QED
        BY <1>2, <1>6, <4>3 DEF l
    <3>4. l1 = l
      BY <1>9, <2>3, <3>3
    <3>5. Relinks(l, l1)
      BY <1>1, <3>4 DEF Relinks
    <3>6. QED
      BY <1>1, <1>3, <3>1, <3>2, <3>4, <3>5, KeepMove DEF p
  <2>4. QED
    BY <2>1, <2>2, <2>3
<1>11. LinksInv(k1, [link EXCEPT ![c] = l1])
  BY <1>1, <1>3, <1>10, LinksStep DEF l
<1>12. QED
  BY <1>3, <1>10, <1>11 DEF l, p, k1, r, l1

\* request_session_admission_at
LEMMA RequestStep ==
  ASSUME SessionInv, NEW c \in Connections, NEW key \in Keys, RequestSessionAdmission(c, key)
  PROVE  SessionInv'
<1>1. Authenticated(c) /\ AsksController(link[c])
  BY DEF RequestSessionAdmission
<1>2. /\ CtlInv(ctl')
      /\ LinksInv(ctl', link')
  BY <1>1, DecisionStep DEF RequestSessionAdmission
<1>3. QED
  BY <1>2 DEF SessionInv

\* The release of a lease that a record holds ends that lease and no ticket.
LEMMA ReleaseFacts ==
  ASSUME NEW k, CtlInv(k), NEW l, Owns(k, l), NEW x \in LeasesOf(l), NEW reason
  PROVE  LET d == Release(k, x, l.principal, reason)
         IN  CtlInv(d) /\ d.active = Drop(k.active, {x}) /\ TicketsFewer(k, d)
<1>. DEFINE d == Release(k, x, l.principal, reason)
<1>1. HasActiveLease(k, x, l.principal)
  BY DEF Owns
<1>2. CtlInv(d) /\ Keeps(k, d) /\ d.nextTicket = k.nextTicket /\ GivesBack(k, d, x)
  BY <1>1, ReleaseInv
<1>. HIDE DEF d
<1>3. TicketsFewer(k, d)
  BY <1>2, FewerTickets DEF Keeps
<1>4. d.active = Drop(k.active, {x})
  BY <1>2 DEF GivesBack
<1>5. QED
  BY <1>2, <1>3, <1>4 DEF d

\* The join of a pending lease.
LEMMA JoinSessionStep ==
  ASSUME SessionInv, NEW c \in Connections, JoinSessionWithAdmission(c)
  PROVE  SessionInv'
<1>. DEFINE l == link[c]
<1>1. /\ LinkInv(l) /\ l \in Link /\ l.pending # NoLease /\ ctl' = ctl
      /\ link \in [Connections -> Link]
  BY LinkFacts DEF SessionInv, LinksInv, JoinSessionWithAdmission
<1>2. PICK pr \in Prunings(l) :
        link' = [link EXCEPT ![c] = JoinWithAdmission(ctl, c, l, l.pending, pr)]
  BY <1>1 DEF JoinSessionWithAdmission
<1>. DEFINE n == JoinWithAdmission(ctl, c, l, l.pending, pr)
<1>3. l.pending \in Nat \ {NoLease}
  BY <1>1 DEF Link
<1>4. LinkInv(n) /\ LeasesOf(n) = LeasesOf(l) /\ n.ticket = l.ticket /\ n.principal = l.principal
  BY <1>1, <1>3, JoinWithAdmissionInv
<1>5. link' = [link EXCEPT ![c] = n]
  BY <1>2
<1>. HIDE DEF n
<1>6. Relinks(link[c], n)
  BY <1>4 DEF Relinks
<1>7. QED
  BY <1>1, <1>5, <1>6, RelinkStep

\* admit_and_join_session_at: a lease that the join does not bind is released in
\* the same turn.
LEMMA AdmitAndJoinStep ==
  ASSUME SessionInv, NEW c \in Connections, NEW key \in Keys, AdmitAndJoin(c, key)
  PROVE  SessionInv'
<1>. DEFINE l     == link[c]
            r     == JoinDecision(Expire(ctl), l.principal, key)
            k1    == IF AsksController(l) THEN RequestJoin(ctl, l.principal, key) ELSE ctl
            l1    == IF AsksController(l) THEN AfterDecision(c, l, r) ELSE l
            m1    == [link EXCEPT ![c] = l1]
            lease == l1.pending
<1>1. Authenticated(c)
  BY DEF AdmitAndJoin
<1>2. /\ CtlInv(ctl) /\ LinksInv(ctl, link) /\ LinkInv(l) /\ link \in [Connections -> Link]
  BY <1>1, AskingLink DEF LinksInv
<1>3. /\ CtlInv(k1) /\ LinkInv(l1) /\ l1.principal = l.principal /\ LinksInv(k1, m1)
  <2>1. CASE AsksController(l)
    BY <1>1, <2>1, DecisionStep
  <2>2. CASE ~AsksController(l)
    <3>1. k1 = ctl /\ l1 = l /\ m1 = link
      BY <1>2, <2>2
    <3>2. QED
      BY <1>2, <3>1
  <2>3. QED
    BY <2>1, <2>2
<1>4. PICK pr \in Prunings(l1) :
        LET l2 == JoinWithAdmission(k1, c, l1, lease, pr)
        IN  IF lease # NoLease /\ l2.bound = NoLease
            THEN /\ ctl' = Release(k1, lease, l.principal, "Intentional")
                 /\ link' = [link EXCEPT ![c] = [l2 EXCEPT !.pending = NoLease]]
            ELSE /\ ctl' = k1
                 /\ link' = [link EXCEPT ![c] = IF lease # NoLease THEN l2 ELSE l1]
  BY DEF AdmitAndJoin
<1>. DEFINE l2 == JoinWithAdmission(k1, c, l1, lease, pr)
            n  == [l2 EXCEPT !.pending = NoLease]
<1>5. /\ lease # NoLease /\ l2.bound = NoLease
           => /\ ctl' = Release(k1, lease, l.principal, "Intentional")
              /\ link' = [link EXCEPT ![c] = n]
      /\ lease # NoLease /\ l2.bound # NoLease => ctl' = k1 /\ link' = [link EXCEPT ![c] = l2]
      /\ lease = NoLease => ctl' = k1 /\ link' = m1
  BY <1>4
<1>6. /\ m1[c] = l1 /\ Owns(k1, l1) /\ Waits(k1, l1) /\ l1 \in Link /\ l1.pending \in Nat
      /\ \A v : [m1 EXCEPT ![c] = v] = [link EXCEPT ![c] = v]
  <2>1. m1[c] = l1 /\ \A v : [m1 EXCEPT ![c] = v] = [link EXCEPT ![c] = v]
    BY <1>2
  <2>. HIDE DEF m1, l1, k1
  <2>2. QED
    BY <1>3, <2>1, LinkFacts DEF Link
<1>. HIDE DEF k1, l1, m1, l, r
<1>7. CASE lease = NoLease
  BY <1>3, <1>5, <1>7 DEF SessionInv
<1>8. CASE lease # NoLease
  <2>1. lease \in Nat \ {NoLease} /\ lease \in LeasesOf(l1) /\ l1.bound = NoLease
        /\ LeasesOf(l1) = {lease}
    BY <1>3, <1>6, <1>8 DEF LeasesOf, LinkInv
  <2>. HIDE DEF lease
  <2>2. /\ LinkInv(l2) /\ LeasesOf(l2) = LeasesOf(l1)
        /\ l2.ticket = l1.ticket /\ l2.principal = l1.principal
        /\ l2.bound = l1.bound => l2.pending = l1.pending
    BY <1>3, <2>1, JoinWithAdmissionInv
  <2>. HIDE DEF l2
  <2>3. CASE l2.bound # NoLease
    <3>1. Relinks(l1, l2) /\ TicketsFewer(k1, k1)
      BY <2>2 DEF Relinks, TicketsFewer
    <3>2. LeaseMove(k1, k1, l1, l2) /\ TicketMove(k1, k1, l1, l2)
      BY <1>3, <1>6, <3>1, KeepMove
    <3>3. LinksInv(k1, [m1 EXCEPT ![c] = l2])
      BY <1>3, <1>6, <2>2, <3>2, LinksStep
    <3>4. QED
      BY <1>3, <1>5, <1>6, <1>8, <2>3, <3>3 DEF SessionInv
  <2>4. CASE l2.bound = NoLease
    <3>. DEFINE d == Release(k1, lease, l.principal, "Intentional")
    <3>1. CtlInv(d) /\ d.active = Drop(k1.active, {lease}) /\ TicketsFewer(k1, d)
      BY <1>3, <1>6, <2>1, ReleaseFacts
    <3>2. ctl' = d /\ link' = [link EXCEPT ![c] = n]
      BY <1>5, <1>8, <2>4
    <3>. HIDE DEF d
    <3>3. /\ n \in Link /\ n.pending = NoLease /\ n.bound = l2.bound /\ n.state = l2.state
          /\ n.ticket = l2.ticket /\ n.principal = l2.principal
          /\ n.member = l2.member /\ n.limiter = l2.limiter
          /\ n.elsewhere = l2.elsewhere /\ n.detached = l2.detached
      BY <2>2 DEF Link, LinkInv, NoLease
    <3>. HIDE DEF n
    <3>4. LeasesOf(n) = {} /\ LinkInv(n)
      <4>1. LeasesOf(n) = {}
        BY <2>4, <3>3 DEF LeasesOf
      <4>2. n.principal # Nobody
        BY <2>1, <2>2, <3>3 DEF LinkInv
      <4>3. QED
        BY <2>2, <2>4, <3>3, <4>1, <4>2 DEF LinkInv
    <3>5. LeaseMove(k1, d, l1, n) /\ TicketMove(k1, d, l1, n)
      <4>1. n.ticket \in {NoTicket, l1.ticket}
        BY <2>2, <3>3
      <4>2. QED
        BY <1>3, <1>6, <2>1, <3>1, <3>4, <4>1, EndMove
    <3>6. LinksInv(d, [m1 EXCEPT ![c] = n])
      BY <1>3, <1>6, <3>1, <3>4, <3>5, LinksStep
    <3>7. QED
      BY <1>6, <3>1, <3>2, <3>6 DEF SessionInv
  <2>5. QED
    BY <2>3, <2>4
<1>9. QED
  BY <1>7, <1>8

-----------------------------------------------------------------------------
\* The commands after which no record has changed.
LEMMA QuietStatusStep ==
  ASSUME SessionInv, NEW d, CtlInv(d), Step(ctl, d), SameClaims(ctl, d), ctl' = d, link' = link
  PROVE  SessionInv'
BY LinksSame DEF SessionInv

\* queue status and heartbeat, the capacity updates, maintenance and time
LEMMA ControllerOnlyStep ==
  ASSUME SessionInv,
         \/ \E c \in Connections, i \in 1..(MaxTicket - 1) :
              QueueStatus(c, i) \/ QueueHeartbeat(c, i)
         \/ \E a \in Allocations, r \in 1..MaxRevision : ApplySessionCapacity(a, r)
         \/ MaintainAdmission
         \/ Tick
  PROVE  SessionInv'
<1>1. CtlInv(ctl)
  BY DEF SessionInv
<1>2. CASE MaintainAdmission \/ \E c \in Connections, i \in 1..(MaxTicket - 1) : QueueStatus(c, i)
  BY <1>1, <1>2, ExpireStep, QuietStatusStep DEF MaintainAdmission, QueueStatus
<1>3. CASE \E c \in Connections, i \in 1..(MaxTicket - 1) : QueueHeartbeat(c, i)
  BY <1>1, <1>3, HeartbeatInv, QuietStatusStep DEF QueueHeartbeat
<1>4. CASE \E a \in Allocations, r \in 1..MaxRevision : ApplySessionCapacity(a, r)
  <2>1. PICK a \in Allocations, r \in 1..MaxRevision : ApplySessionCapacity(a, r)
    BY <1>4
  <2>2. a \in Nat /\ r \in Nat
    BY SessionAssumption
  <2>3. QED
    BY <1>1, <2>1, <2>2, ApplyCapacityInv, QuietStatusStep DEF ApplySessionCapacity
<1>5. CASE Tick
  BY <1>1, <1>5, ElapseInv, QuietStatusStep DEF Tick
<1>6. QED
  BY <1>2, <1>3, <1>4, <1>5

\* An operation followed by expire_at.
LEMMA ThenExpire ==
  ASSUME NEW k, CtlInv(k), NEW m, LinksInv(k, m)
  PROVE  CtlInv(Expire(k)) /\ LinksInv(Expire(k), m)
BY ExpireStep, LinksSame

\* Cancelling changes no record: the connection remembers a ticket that has ended.
LEMMA QueueCancelStep ==
  ASSUME SessionInv, NEW c \in Connections, NEW i, QueueCancel(c, i)
  PROVE  SessionInv'
<1>1. CtlInv(ctl) /\ LinksInv(ctl, link)
  BY DEF SessionInv
<1>2. CtlInv(Cancel(ctl, i)) /\ LinksInv(Cancel(ctl, i), link)
  BY <1>1, CancelInv, LinksSame
<1>3. CtlInv(Expire(Cancel(ctl, i))) /\ LinksInv(Expire(Cancel(ctl, i)), link)
  BY <1>2, ThenExpire
<1>4. QED
  BY <1>3 DEF QueueCancel, SessionInv

\* The claim and the join in one turn; a claim that the join does not bind is
\* rolled back, ticket and lease together.
LEMMA QueueClaimStep ==
  ASSUME SessionInv, NEW c \in Connections, NEW i, QueueClaim(c, i)
  PROVE  SessionInv'
<1>. DEFINE l  == link[c]
            e  == Expire(ctl)
            x  == e.nextLease
            k1 == ClaimOffer(ctl, i)
            l1 == [l EXCEPT !.pending = x]
            m1 == [link EXCEPT ![c] = l1]
<1>1. /\ Authenticated(c) /\ l.ticket = i /\ i \in DOMAIN ctl.tickets
      /\ ctl.tickets[i].principal = l.principal
  BY DEF QueueClaim, OwnsTicket
<1>2. /\ CtlInv(ctl) /\ LinksInv(ctl, link) /\ LinkInv(l) /\ l \in Link
      /\ l.principal \in Principals /\ l.principal # Nobody /\ l.state = "up"
      /\ Owns(ctl, l) /\ Waits(ctl, l) /\ link \in [Connections -> Link]
  BY <1>1, AskingLink DEF LinksInv
<1>3. /\ CtlInv(k1) /\ Step(ctl, k1)
      /\ IF i \in InState(e, "Offered") THEN Claimed(ctl, k1, i) ELSE SameClaims(ctl, k1)
  BY <1>2, ClaimOfferInv
<1>4. x = ctl.nextLease
  BY <1>2, ExpireInv
<1>5. CASE i \notin InState(e, "Offered")
  <2>1. ctl' = Expire(k1) /\ link' = link
    BY <1>5 DEF QueueClaim
  <2>2. LinksInv(k1, link)
    BY <1>2, <1>3, <1>5, LinksSame
  <2>. HIDE DEF k1
  <2>3. QED
    BY <1>3, <2>1, <2>2, ThenExpire DEF SessionInv
<1>6. CASE i \in InState(e, "Offered")
  <2>1. PICK pr \in Prunings(l1) :
          LET l2 == JoinWithAdmission(k1, c, l1, x, pr)
          IN  IF l2.bound = x
              THEN ctl' = Expire(k1) /\ link' = [link EXCEPT ![c] = l2]
              ELSE /\ ctl' = RollbackClaim(k1, i, x, l2.principal)
                   /\ link' = [link EXCEPT ![c] =
                                 [l2 EXCEPT !.pending = NoLease, !.ticket = NoTicket]]
    BY <1>6 DEF QueueClaim
  <2>. DEFINE l2 == JoinWithAdmission(k1, c, l1, x, pr)
              n  == [l2 EXCEPT !.pending = NoLease, !.ticket = NoTicket]
              d  == RollbackClaim(k1, i, x, l.principal)
  <2>2. /\ l2.bound = x => ctl' = Expire(k1) /\ link' = [link EXCEPT ![c] = l2]
        /\ l2.bound # x => /\ ctl' = RollbackClaim(k1, i, x, l2.principal)
                           /\ link' = [link EXCEPT ![c] = n]
    BY <2>1
  <2>3. Claimed(ctl, k1, i)
    BY <1>3, <1>6
  <2>4. /\ m1[c] = l1 /\ \A v : [m1 EXCEPT ![c] = v] = [link EXCEPT ![c] = v]
    BY <1>2
  <2>. HIDE DEF l, e, x, k1, m1
  <2>5. /\ LeasesOf(l) = {} /\ i \in Live(ctl) /\ i \notin Live(k1) /\ i # NoTicket
        /\ k1.active = Put(ctl.active, x, l.principal)
        /\ k1.nextTicket = ctl.nextTicket
        /\ x \in Nat \ {0} /\ x \notin DOMAIN ctl.active /\ ctl.nextTicket \in Nat
    <3>1. i \in Live(ctl) /\ i \notin Live(k1)
      BY <2>3 DEF Claimed
    <3>2. LeasesOf(l) = {}
      BY <1>1, <1>2, <3>1 DEF Waits
    <3>3. i # NoTicket /\ x \in Nat \ {0} /\ x \notin DOMAIN ctl.active /\ ctl.nextTicket \in Nat
      BY <1>2, <1>4, <3>1, CtlIds
    <3>4. QED
      BY <1>1, <1>4, <2>3, <3>1, <3>2, <3>3 DEF Claimed
  <2>6. /\ l1 \in Link /\ l1.pending = x /\ l1.bound = l.bound /\ l1.ticket = l.ticket
        /\ l1.principal = l.principal /\ l1.state = l.state
        /\ l1.member = l.member /\ l1.limiter = l.limiter
        /\ l1.elsewhere = l.elsewhere /\ l1.detached = l.detached
    BY <1>2, <2>5 DEF Link
  <2>. HIDE DEF l1
  <2>7. l.bound = NoLease /\ LeasesOf(l1) = {x} /\ LinkInv(l1)
    <3>1. l.bound = NoLease /\ l.pending = NoLease
      BY <2>5 DEF LeasesOf
    <3>2. LeasesOf(l1) = {x}
      BY <2>5, <2>6, <3>1 DEF LeasesOf, NoLease
    <3>3. QED
      BY <1>2, <2>6, <3>1, <3>2 DEF LinkInv
  <2>8. TicketsFewer(ctl, k1)
    BY <1>2, <1>3, <2>5, FewerTickets DEF Step
  <2>9. LeaseMove(ctl, k1, l, l1)
    BY <2>5, <2>6, <2>7 DEF LeaseMove, Put
  <2>10. TicketMove(ctl, k1, l, l1)
    <3>1. Waits(k1, l1)
      BY <1>1, <1>2, <2>5, <2>6 DEF Waits
    <3>2. QED
      BY <2>5, <2>6, <2>8, <3>1 DEF TicketMove, TicketsFewer
  <2>11. LinksInv(k1, m1)
    BY <1>2, <1>3, <2>7, <2>9, <2>10, LinksStep DEF l, m1
  <2>12. Owns(k1, l1) /\ Waits(k1, l1)
    BY <2>4, <2>11, LinkFacts
  <2>13. /\ LinkInv(l2) /\ LeasesOf(l2) = LeasesOf(l1)
         /\ l2.ticket = l1.ticket /\ l2.principal = l1.principal
         /\ l2.bound = l1.bound \/ l2.bound = x
         /\ l2.bound = l1.bound => l2.pending = l1.pending
    <3>1. x \in Nat \ {NoLease}
      BY <2>5 DEF NoLease
    <3>2. QED
      BY <2>7, <3>1, JoinWithAdmissionInv
  <2>. HIDE DEF l2
  <2>14. CASE l2.bound = x
    <3>1. Relinks(l1, l2) /\ TicketsFewer(k1, k1)
      BY <2>13 DEF Relinks, TicketsFewer
    <3>2. LeaseMove(k1, k1, l1, l2) /\ TicketMove(k1, k1, l1, l2)
      BY <1>3, <2>12, <3>1, KeepMove
    <3>3. LinksInv(k1, [m1 EXCEPT ![c] = l2])
      BY <1>3, <2>4, <2>11, <2>13, <3>2, LinksStep
    <3>4. CtlInv(Expire(k1)) /\ LinksInv(Expire(k1), [link EXCEPT ![c] = l2])
      BY <1>3, <2>4, <3>3, ThenExpire
    <3>5. QED
      BY <2>2, <2>14, <3>4 DEF SessionInv
  <2>15. CASE l2.bound # x
    <3>1. l2.bound = NoLease
      BY <2>6, <2>7, <2>13, <2>15
    <3>2. HasActiveLease(k1, x, l.principal)
      BY <2>6, <2>7, <2>12 DEF Owns
    <3>3. i \in DOMAIN k1.tickets => /\ k1.tickets[i].principal = l.principal
                                     /\ k1.tickets[i].state = "Admitted"
                                     /\ k1.tickets[i].lease = x
      BY <1>1, <1>4, <2>3 DEF Claimed
    <3>4. /\ CtlInv(d) /\ Step(k1, d) /\ d.nextTicket = k1.nextTicket
          /\ d.active = Drop(k1.active, {x})
      <4>1. RollsBack(k1, i, x, l.principal)
        BY <3>2, <3>3 DEF RollsBack
      <4>2. CtlInv(k1)
        BY <1>3
      <4>3. CtlInv(d) /\ Step(k1, d) /\ d.nextTicket = k1.nextTicket /\ GivesBack(k1, d, x)
        BY ONLY <4>1, <4>2, RollbackClaimInv
      <4>. HIDE DEF d
      <4>4. QED
        BY <4>3 DEF GivesBack
    <3>5. ctl' = d /\ link' = [link EXCEPT ![c] = n]
      BY <2>2, <2>6, <2>13, <2>15
    <3>. HIDE DEF d
    <3>6. TicketsFewer(k1, d)
      BY <1>3, <3>4, FewerTickets DEF Step
    <3>7. /\ n \in Link /\ n.pending = NoLease /\ n.bound = l2.bound /\ n.state = l2.state
          /\ n.ticket = NoTicket /\ n.principal = l2.principal
          /\ n.member = l2.member /\ n.limiter = l2.limiter
          /\ n.elsewhere = l2.elsewhere /\ n.detached = l2.detached
      BY <2>13 DEF Link, LinkInv, NoLease, NoTicket
    <3>. HIDE DEF n
    <3>8. LeasesOf(n) = {} /\ LinkInv(n)
      <4>1. LeasesOf(n) = {}
        BY <3>1, <3>7 DEF LeasesOf
      <4>2. n.principal # Nobody
        BY <1>2, <2>6, <2>13, <3>7
      <4>3. QED
        BY <2>13, <3>1, <3>7, <4>1, <4>2 DEF LinkInv
    <3>9. LeaseMove(k1, d, l1, n) /\ TicketMove(k1, d, l1, n)
      <4>1. n.ticket \in {NoTicket, l1.ticket}
        BY <3>7
      <4>2. QED
        BY <1>3, <2>7, <2>12, <3>4, <3>6, <3>8, <4>1, EndMove
    <3>10. LinksInv(d, [m1 EXCEPT ![c] = n])
      BY <1>3, <2>4, <2>11, <3>4, <3>8, <3>9, LinksStep
    <3>11. QED
      BY <2>4, <3>4, <3>5, <3>10 DEF SessionInv
  <2>16. QED
    BY <2>14, <2>15
<1>7. QED
  BY <1>5, <1>6
\* leave_session gives the lease back and forgets the ticket, which has ended.
LEMMA LeaveSessionStep ==
  ASSUME SessionInv, NEW c \in Connections, LeaveSession(c)
  PROVE  SessionInv'
<1>. DEFINE l == link[c]
            x == l.bound
            d == Release(ctl, x, l.principal, "Intentional")
            n == [l EXCEPT !.bound = NoLease, !.ticket = NoTicket, !.member = FALSE,
                           !.limiter = RetainHistory]
<1>1. /\ CtlInv(ctl) /\ LinksInv(ctl, link) /\ LinkInv(l) /\ l \in Link
      /\ l.principal # Nobody /\ l.state = "up" /\ Owns(ctl, l) /\ Waits(ctl, l)
      /\ link \in [Connections -> Link] /\ l.member
  BY AskingLink DEF LeaveSession, LinksInv
<1>2. x # NoLease /\ LeasesOf(l) = {x} /\ l.pending = NoLease
  <2>1. x # NoLease /\ l.pending = NoLease
    BY <1>1 DEF LinkInv
  <2>2. QED
    BY <2>1 DEF LeasesOf
<1>3. ctl' = d
  BY <1>2 DEF LeaveSession, ReleaseBound
<1>4. link' = [link EXCEPT ![c] = n]
  BY <1>1 DEF LeaveSession
<1>5. CtlInv(d) /\ d.active = Drop(ctl.active, {x}) /\ TicketsFewer(ctl, d)
  <2>1. x \in LeasesOf(l)
    BY <1>2
  <2>. HIDE DEF x
  <2>2. QED
    BY <1>1, <2>1, ReleaseFacts
<1>6. /\ n \in Link /\ n.pending = l.pending /\ n.bound = NoLease /\ n.state = l.state
      /\ n.ticket = NoTicket /\ n.principal = l.principal
      /\ n.member = FALSE /\ n.limiter = RetainHistory
      /\ n.elsewhere = l.elsewhere /\ n.detached = l.detached
  BY <1>1, SessionAssumption DEF Link, NoLease, NoTicket
<1>. HIDE DEF d, n
<1>7. LeasesOf(n) = {} /\ LinkInv(n)
  <2>1. LeasesOf(n) = {}
    BY <1>2, <1>6 DEF LeasesOf
  <2>2. n.elsewhere + n.detached + (IF n.limiter THEN 1 ELSE 0) <= MaxMemberships
    <3>1. /\ l.elsewhere \in 0..MaxMemberships /\ l.detached \in 0..MaxMemberships
          /\ l.elsewhere + l.detached + 1 <= MaxMemberships /\ MaxMemberships \in Nat
      BY <1>1, SessionAssumption DEF LinkInv, Link
    <3>2. QED
      BY <1>6, <3>1, SessionAssumption
  <2>3. QED
    BY <1>1, <1>6, <2>1, <2>2 DEF LinkInv
<1>8. LeaseMove(ctl, d, l, n) /\ TicketMove(ctl, d, l, n)
  <2>1. n.ticket \in {NoTicket, l.ticket}
    BY <1>6
  <2>. HIDE DEF l, x
  <2>2. QED
    BY <1>1, <1>2, <1>5, <1>7, <2>1, EndMove
<1>9. LinksInv(d, [link EXCEPT ![c] = n])
  BY <1>1, <1>5, <1>7, <1>8, LinksStep
<1>10. QED
  BY <1>3, <1>4, <1>5, <1>9 DEF SessionInv

\* transport_lost: whatever the connection holds ends with it.
LEMMA TransportLostStep ==
  ASSUME SessionInv, NEW c \in Connections, TransportLost(c)
  PROVE  SessionInv'
<1>. DEFINE l  == link[c]
            k1 == IF l.member THEN ReleaseBound(ctl, l, "Unexpected") ELSE ctl
            k2 == IF l.pending = NoLease THEN k1
                  ELSE Release(k1, l.pending, l.principal, "Intentional")
            k3 == IF l.ticket = NoTicket THEN k2 ELSE Cancel(k2, l.ticket)
            n  == [NewLink EXCEPT !.state = "gone"]
<1>1. /\ CtlInv(ctl) /\ LinksInv(ctl, link) /\ LinkInv(l) /\ l \in Link
      /\ Owns(ctl, l) /\ Waits(ctl, l)
  BY LinkFacts DEF SessionInv
<1>2. ctl' = k3 /\ link' = [link EXCEPT ![c] = n]
  BY ZenonT(30) DEF TransportLost
<1>3. /\ CtlInv(k2) /\ TicketsFewer(ctl, k2)
      /\ DOMAIN k2.active = DOMAIN ctl.active \ LeasesOf(l)
      /\ \A x \in DOMAIN k2.active : k2.active[x] = ctl.active[x]
  <2>1. CASE l.pending # NoLease
    <3>. DEFINE x == l.pending
                d == Release(ctl, x, l.principal, "Intentional")
    <3>1. k2 = d /\ LeasesOf(l) = {x}
      BY <1>1, <2>1 DEF LinkInv, LeasesOf
    <3>2. CtlInv(d) /\ d.active = Drop(ctl.active, {x}) /\ TicketsFewer(ctl, d)
      <4>1. x \in LeasesOf(l)
        BY <3>1
      <4>. HIDE DEF x
      <4>2. QED
        BY <1>1, <4>1, ReleaseFacts
    <3>. HIDE DEF d, k2
    <3>3. QED
      BY <3>1, <3>2 DEF Drop
  <2>2. CASE l.pending = NoLease /\ l.bound # NoLease
    <3>. DEFINE x == l.bound
                d == Release(ctl, x, l.principal, "Unexpected")
    <3>1. k2 = d /\ LeasesOf(l) = {x}
      BY <1>1, <2>2 DEF LinkInv, LeasesOf, ReleaseBound
    <3>2. CtlInv(d) /\ d.active = Drop(ctl.active, {x}) /\ TicketsFewer(ctl, d)
      <4>1. x \in LeasesOf(l)
        BY <3>1
      <4>. HIDE DEF x
      <4>2. QED
        BY <1>1, <4>1, ReleaseFacts
    <3>. HIDE DEF d, k2
    <3>3. QED
      BY <3>1, <3>2 DEF Drop
  <2>3. CASE l.pending = NoLease /\ l.bound = NoLease
    <3>1. k2 = ctl /\ LeasesOf(l) = {}
      BY <1>1, <2>3 DEF LinkInv, LeasesOf
    <3>. HIDE DEF k2
    <3>2. QED
      BY <1>1, <3>1 DEF TicketsFewer
  <2>4. QED
    BY <2>1, <2>2, <2>3
<1>. HIDE DEF k1, k2
<1>4. CtlInv(k3) /\ k3.active = k2.active /\ TicketsFewer(k2, k3) /\ l.ticket \notin Live(k3)
  <2>1. CASE l.ticket = NoTicket
    BY <1>3, <2>1, CtlIds DEF TicketsFewer
  <2>2. CASE l.ticket # NoTicket
    <3>. DEFINE d == Cancel(k2, l.ticket)
    <3>1. CtlInv(d) /\ Step(k2, d) /\ SameClaims(k2, d) /\ l.ticket \notin Live(d)
      BY <1>3, CancelInv
    <3>2. k3 = d
      BY <2>2
    <3>. HIDE DEF d, k3
    <3>3. QED
      BY <1>3, <3>1, <3>2, CalmOps
  <2>3. QED
    BY <2>1, <2>2
<1>. HIDE DEF k3
<1>5. /\ n \in Link /\ n.state = "gone" /\ n.principal = Nobody /\ n.member = FALSE
      /\ n.pending = NoLease /\ n.bound = NoLease /\ n.ticket = NoTicket
      /\ n.limiter = FALSE /\ n.elsewhere = 0 /\ n.detached = 0
  <2>1. 0 \in 0..MaxMemberships
    BY SessionAssumption
  <2>2. QED
    BY <2>1 DEF NewLink, Link, NoLease, NoTicket
<1>. HIDE DEF n
<1>6. LeasesOf(n) = {} /\ LinkInv(n)
  BY <1>5, SessionAssumption DEF LinkInv, LeasesOf
<1>7. LeaseMove(ctl, k3, l, n)
  BY <1>3, <1>4, <1>6 DEF LeaseMove
<1>8. TicketMove(ctl, k3, l, n)
  <2>1. k3.nextTicket = ctl.nextTicket /\ ctl.nextTicket \in Nat \ {0} /\ NoTicket \notin Live(k3)
    BY <1>1, <1>3, <1>4, CtlIds DEF TicketsFewer
  <2>2. \A i \in Live(k3) : i \in Live(ctl) /\ k3.tickets[i].principal = ctl.tickets[i].principal
    BY <1>3, <1>4 DEF TicketsFewer
  <2>3. Waits(k3, n)
    BY <1>5, <2>1 DEF Waits, NoTicket
  <2>4. QED
    BY <1>4, <1>5, <2>1, <2>2, <2>3 DEF TicketMove
<1>9. LinksInv(k3, [link EXCEPT ![c] = n])
  BY <1>1, <1>4, <1>6, <1>7, <1>8, LinksStep
<1>10. QED
  BY <1>2, <1>4, <1>9 DEF SessionInv
-----------------------------------------------------------------------------
\* A new session: nobody holds anything.
LEMMA InitInv ==
  ASSUME Init
  PROVE  SessionInv
<1>1. PICK a \in Allocations : ctl = NewController(a, 0)
  BY DEF Init
<1>2. CtlInv(ctl)
  <2>1. a \in Nat
    BY SessionAssumption
  <2>2. QED
    BY <1>1, <2>1, NewControllerInv
<1>3. DOMAIN ctl.active = {} /\ Live(ctl) = {} /\ ctl.nextTicket = 1
  BY <1>1 DEF NewController, Live
<1>. DEFINE n == NewLink
<1>4. /\ n \in Link /\ n.state = "new" /\ n.principal = Nobody /\ n.member = FALSE
      /\ n.pending = NoLease /\ n.bound = NoLease /\ n.ticket = NoTicket
      /\ n.limiter = FALSE /\ n.elsewhere = 0 /\ n.detached = 0
  <2>1. 0 \in 0..MaxMemberships
    BY SessionAssumption
  <2>2. QED
    BY <2>1 DEF NewLink, Link, NoLease, NoTicket
<1>5. link = [c \in Connections |-> n]
  BY DEF Init
<1>. HIDE DEF n
<1>6. LeasesOf(n) = {} /\ LinkInv(n)
  BY <1>4, SessionAssumption DEF LinkInv, LeasesOf
<1>7. link \in [Connections -> Link] /\ \A c \in Connections : link[c] = n
  BY <1>4, <1>5
<1>8. Held(ctl, link)
  BY <1>3, <1>6, <1>7 DEF Held
<1>9. Queued(ctl, link)
  BY <1>3, <1>4, <1>7 DEF Queued, NoTicket
<1>10. QED
  BY <1>2, <1>6, <1>7, <1>8, <1>9 DEF SessionInv, LinksInv

\* Every command and timer preserves it.
LEMMA NextInv ==
  ASSUME SessionInv, [Next]_vars
  PROVE  SessionInv'
<1>1. CASE UNCHANGED vars
  BY <1>1 DEF vars, SessionInv, LinksInv, Held, Queued, CtlInv
<1>2. ASSUME NEW c \in Connections, TransportConnected(c)
      PROVE  SessionInv'
  BY <1>2, TransportConnectedStep
<1>3. ASSUME NEW c \in Connections, TransportLost(c)
      PROVE  SessionInv'
  BY <1>3, TransportLostStep
<1>4. ASSUME NEW c \in Connections, NEW p \in Principals, Authenticate(c, p)
      PROVE  SessionInv'
  BY <1>4, AuthenticateStep
<1>5. ASSUME NEW c \in Connections, NEW retained \in BOOLEAN, JoinElsewhere(c, retained)
      PROVE  SessionInv'
  BY <1>5, JoinElsewhereStep
<1>6. ASSUME NEW c \in Connections, NEW retained \in BOOLEAN, LeaveElsewhere(c, retained)
      PROVE  SessionInv'
  BY <1>6, LeaveElsewhereStep
<1>7. ASSUME NEW c \in Connections, NEW k \in Keys, RequestSessionAdmission(c, k)
      PROVE  SessionInv'
  BY <1>7, RequestStep
<1>8. ASSUME NEW c \in Connections, NEW k \in Keys, AdmitAndJoin(c, k)
      PROVE  SessionInv'
  BY <1>8, AdmitAndJoinStep
<1>9. ASSUME NEW c \in Connections, JoinSessionWithAdmission(c)
      PROVE  SessionInv'
  BY <1>9, JoinSessionStep
<1>10. ASSUME NEW c \in Connections, NEW i \in 1..(MaxTicket - 1),
              QueueStatus(c, i) \/ QueueHeartbeat(c, i)
       PROVE  SessionInv'
  BY <1>10, ControllerOnlyStep
<1>11. ASSUME NEW c \in Connections, NEW i \in 1..(MaxTicket - 1), QueueCancel(c, i)
       PROVE  SessionInv'
  BY <1>11, QueueCancelStep
<1>12. ASSUME NEW c \in Connections, NEW i \in 1..(MaxTicket - 1), QueueClaim(c, i)
       PROVE  SessionInv'
  BY <1>12, QueueClaimStep
<1>13. ASSUME NEW c \in Connections, LeaveSession(c)
       PROVE  SessionInv'
  BY <1>13, LeaveSessionStep
<1>14. ASSUME NEW a \in Allocations, NEW r \in 1..MaxRevision, ApplySessionCapacity(a, r)
       PROVE  SessionInv'
  BY <1>14, ControllerOnlyStep
<1>15. CASE MaintainAdmission \/ Tick
  BY <1>15, ControllerOnlyStep
<1>16. QED
  BY <1>1, <1>2, <1>3, <1>4, <1>5, <1>6, <1>7, <1>8, <1>9, <1>10, <1>11, <1>12, <1>13, <1>14,
     <1>15 DEF Next

\* What the controller, the connections' records and the membership assume of
\* each other holds in every reachable state of the session.
THEOREM Invariant == Spec => []SessionInv
<1>1. Init => SessionInv
  BY InitInv
<1>2. SessionInv /\ [Next]_vars => SessionInv'
  BY NextInv
<1>3. QED
  BY <1>1, <1>2, PTL DEF Spec

\* Every active lease has one holder, the members are the holders of bound
\* leases and no more than the allocation, a connection has one claim, and its
\* memberships and histories fit its slots: in every reachable state, for any
\* number of connections (BindingsAccounted).
THEOREM EveryLeaseHasOneHolder == Spec => []BindingsAccounted
<1>1. ASSUME SessionInv
      PROVE  BindingsAccounted
  <2>1. /\ CtlInv(ctl) /\ link \in [Connections -> Link] /\ Held(ctl, link) /\ Queued(ctl, link)
        /\ \A c \in Connections : LinkInv(link[c])
        /\ ControllerType(ctl) /\ Within(ctl)
    BY <1>1 DEF SessionInv, LinksInv, CtlInv, Tables
  <2>2. \A c \in Connections : Leases(c) = LeasesOf(link[c])
    BY DEF Leases, LeasesOf
  <2>3. TypeOK
    BY <2>1 DEF TypeOK
  <2>4. LeasesAccounted
    <3>1. \A c \in Connections : \A x \in Leases(c) :
            /\ HasActiveLease(ctl, x, link[c].principal)
            /\ \A o \in Connections \ {c} : x \notin Leases(o)
      BY <2>1, <2>2 DEF Held
    <3>2. \A x \in DOMAIN ctl.active : \E c \in Connections : x \in Leases(c)
      BY <2>1, <2>2 DEF Held
    <3>3. \A c \in Connections : Leases(c) \subseteq DOMAIN ctl.active
      BY <3>1 DEF HasActiveLease
    <3>4. DOMAIN ctl.active = UNION {Leases(c) : c \in Connections}
      BY <3>2, <3>3
    <3>5. QED
      BY <3>1, <3>4 DEF LeasesAccounted
  <2>5. MembersHoldLeases
    <3>. DEFINE M == {c \in Connections : link[c].member}
                T == DOMAIN ctl.active
                f == [c \in M |-> link[c].bound]
    <3>1. \A c \in Connections : link[c].member <=> link[c].bound # NoLease
      BY <2>1 DEF LinkInv
    <3>2. \A c \in M : link[c].bound \in LeasesOf(link[c])
      BY <3>1 DEF LeasesOf
    <3>3. \A c \in M : link[c].bound \in T
      BY <2>1, <3>2 DEF Held, HasActiveLease
    <3>4. \A c, o \in M : link[c].bound = link[o].bound => c = o
      BY <2>1, <3>2 DEF Held
    <3>5. f \in Injection(M, T)
      BY <3>3, <3>4 DEF Injection, IsInjective
    <3>6. IsFiniteSet(T)
      BY <2>1 DEF ControllerType
    <3>7. IsFiniteSet(M) /\ Cardinality(M) <= Cardinality(T)
      <4>. HIDE DEF M, T, f
      <4>1. QED
        BY <3>5, <3>6, FS_Injection
    <3>8. Cardinality(M) \in Nat
      BY <3>7, FS_CardinalityType
    <3>9. /\ Cardinality(T) \in Nat /\ Cardinality(DOMAIN ctl.reservations) \in Nat
          /\ Cardinality(InState(ctl, "Offered")) \in Nat
      BY <2>1, OccupiedType
    <3>10. Cardinality(T) + Cardinality(DOMAIN ctl.reservations)
             + Cardinality(InState(ctl, "Offered")) <= ctl.allocated /\ ctl.allocated \in Nat
      BY <2>1 DEF Within, Occupied, ControllerType
    <3>11. Cardinality(M) <= ctl.allocated
      <4>. HIDE DEF M, T
      <4>1. QED
        BY <3>7, <3>8, <3>9, <3>10
    <3>12. QED
      BY <3>1, <3>11 DEF MembersHoldLeases
  <2>6. OneClaimPerConnection
    <3>1. SUFFICES ASSUME NEW c \in Connections
                   PROVE  Cardinality(Leases(c) \X {"lease"}
                            \cup ({link[c].ticket} \cap Live(ctl)) \X {"ticket"}) <= 1
      BY DEF OneClaimPerConnection
    <3>. DEFINE l == link[c]
                L == Leases(c)
                W == {l.ticket} \cap Live(ctl)
                S == L \X {"lease"} \cup W \X {"ticket"}
    <3>2. L = {} \/ \E x : L = {x}
      <4>1. l.pending = NoLease \/ l.bound = NoLease
        BY <2>1 DEF LinkInv
      <4>2. L = {l.pending, l.bound} \ {NoLease}
        BY DEF Leases
      <4>3. CASE l.pending = NoLease /\ l.bound = NoLease
        BY ONLY <4>2, <4>3
      <4>4. CASE l.pending = NoLease /\ l.bound # NoLease
        <5>1. L = {l.bound}
          BY ONLY <4>2, <4>4
        <5>2. QED
          BY ONLY <5>1
      <4>5. CASE l.pending # NoLease
        <5>1. L = {l.pending}
          BY ONLY <4>1, <4>2, <4>5
        <5>2. QED
          BY ONLY <5>1
      <4>6. QED
        BY <4>1, <4>3, <4>4, <4>5
    <3>3. W # {} => L = {}
      BY <2>1, <2>2 DEF Queued
    <3>4. W = {} \/ W = {l.ticket}
      OBVIOUS
    <3>. HIDE DEF L, W
    <3>5. S = {} \/ \E x : S = {x}
      BY <3>2, <3>3, <3>4
    <3>6. Cardinality(S) \in {0, 1}
      <4>. HIDE DEF S
      <4>1. QED
        BY <3>5, FS_EmptySet, FS_Singleton
    <3>7. QED
      BY <3>6 DEF L, W
  <2>7. SlotsBounded
    BY <2>1 DEF SlotsBounded, LinkInv
  <2>8. QED
    BY <2>3, <2>4, <2>5, <2>6, <2>7 DEF BindingsAccounted
<1>2. QED
  BY <1>1, Invariant, PTL

\* A live ticket is held by exactly one connection, of the ticket's principal,
\* in every reachable state: nobody waits for a connection that is gone
\* (WaitersConnected).
THEOREM EveryWaiterIsConnected == Spec => []WaitersConnected
<1>1. ASSUME SessionInv
      PROVE  WaitersConnected
  <2>1. CtlInv(ctl) /\ Queued(ctl, link)
    BY <1>1 DEF SessionInv, LinksInv
  <2>2. \A i \in Live(ctl) : i # NoTicket
    BY <2>1, CtlIds
  <2>3. SUFFICES ASSUME NEW i \in Live(ctl)
                 PROVE  \E c \in Connections :
                          /\ link[c].ticket = i /\ link[c].principal = ctl.tickets[i].principal
                          /\ \A o \in Connections \ {c} : link[o].ticket # i
    BY DEF WaitersConnected
  <2>4. PICK c \in Connections : link[c].ticket = i
    BY <2>1 DEF Queued
  <2>5. /\ link[c].principal = ctl.tickets[i].principal
        /\ \A o \in Connections \ {c} : link[o].ticket # i
    BY <2>1, <2>2, <2>4 DEF Queued
  <2>6. QED
    BY <2>4, <2>5
<1>2. QED
  BY <1>1, Invariant, PTL

-----------------------------------------------------------------------------
\* The position told for a ticket is its place in the deque, all of which waits.
LEMMA PositionIsPlace ==
  ASSUME NEW k, CtlInv(k), NEW i
  PROVE  /\ i \in InState(k, "Waiting") =>
              \E h \in DOMAIN k.waiting : k.waiting[h] = i /\ Status(k, i).position = h
         /\ i \notin InState(k, "Waiting") => Status(k, i).position = 0
         /\ Status(k, i).state = "Waiting" <=> i \in InState(k, "Waiting")
<1>. DEFINE q    == k.waiting
            P    == Positions(q, InState(k, "Waiting"))
            H    == Positions(q, {i})
            upTo == {j \in P : \E h \in H : j <= h}
<1>1. q \in Seq(Nat) /\ Elements(q) = InState(k, "Waiting") /\ Sorted(q)
  BY DEF CtlInv, Tables, ControllerType, QueueInv, QueueListed
<1>2. /\ Status(k, i).state = IF i \notin DOMAIN k.tickets THEN "Missing" ELSE k.tickets[i].state
      /\ Status(k, i).position = IF i \in InState(k, "Waiting") THEN Cardinality(upTo) ELSE 0
  BY DEF Status, InState
<1>. HIDE DEF q
<1>3. ASSUME i \in InState(k, "Waiting")
      PROVE  \E h \in DOMAIN q : q[h] = i /\ Cardinality(upTo) = h
  <2>1. PICK h \in DOMAIN q : q[h] = i
    BY <1>1, <1>3 DEF Elements
  <2>2. DOMAIN q = 1..Len(q) /\ Len(q) \in Nat
    BY <1>1
  <2>3. \A j \in DOMAIN q : q[j] \in Nat
    BY <1>1
  <2>4. \A j \in DOMAIN q : q[j] = i => j = h
    BY <2>1, <2>2, <2>3, <1>1 DEF Sorted
  <2>5. H = {h}
    BY <2>1, <2>4 DEF Positions
  <2>6. P = DOMAIN q
    BY <1>1 DEF Positions, Elements
  <2>. HIDE DEF P, H
  <2>7. upTo = {j \in DOMAIN q : j <= h}
    BY <2>5, <2>6
  <2>8. upTo = 1..h
    BY <2>1, <2>2, <2>7
  <2>9. h \in Nat
    BY <2>1, <2>2
  <2>. HIDE DEF upTo
  <2>10. Cardinality(upTo) = h
    BY <2>8, <2>9, IntervalCount
  <2>11. QED
    BY <2>1, <2>10
<1>. HIDE DEF upTo
<1>4. Status(k, i).state = "Waiting" <=> i \in InState(k, "Waiting")
  BY <1>2 DEF InState
<1>5. QED
  BY <1>2, <1>3, <1>4 DEF q

\* Whatever the controller decides, the result can be encoded.
LEMMA ResultValid ==
  ASSUME NEW k, CtlInv(k), NEW p \in Principals, NEW key \in Keys
  PROVE  ValidResult(admission_result(JoinDecision(k, p, key)))
<1>. DEFINE d == JoinDecision(k, p, key)
            r == admission_result(d)
<1>1. d.kind \in {"Admitted", "Queued", "Paused", "QueueFull", "AlreadyQueued", "QueueDisabled"}
  BY DEF JoinDecision
<1>2. d.kind = "Queued" => d.id # NoTicket
  <2>1. k.nextTicket # NoTicket /\ \A i \in Live(k) : i # NoTicket
    BY CtlIds DEF NoTicket
  <2>2. QED
    BY <2>1 DEF JoinDecision
<1>. HIDE DEF d
<1>3. /\ r.status = IF d.kind \in {"Admitted", "Queued", "Paused"} THEN d.kind ELSE "Rejected"
      /\ r.rejection = IF r.status = "Rejected" THEN d.kind ELSE "None"
      /\ r.ticket = IF r.status = "Queued" THEN {d.id} ELSE {}
      /\ r.poll = (r.status \in {"Queued", "Paused"})
  BY DEF admission_result
<1>. HIDE DEF r
<1>4. (r.status = "Rejected") = (r.rejection # "None")
  BY <1>1, <1>3
<1>5. (r.status = "Queued") = (r.ticket # {}) /\ NoTicket \notin r.ticket
  BY <1>1, <1>2, <1>3
<1>6. QED
  BY <1>3, <1>4, <1>5 DEF ValidResult, r, d

\* In every reachable state, whatever a connection asks of the queue, the answer
\* can be encoded, and no two waiters are told the same place (AnswersEncodable).
THEOREM EveryAnswerEncodes == Spec => []AnswersEncodable
<1>1. ASSUME SessionInv
      PROVE  AnswersEncodable
  <2>. DEFINE e == Expire(ctl)
  <2>1. CtlInv(e) /\ LinksInv(e, link)
    BY <1>1, ThenExpire DEF SessionInv
  <2>2. SUFFICES ASSUME NEW c \in Connections, Authenticated(c)
                 PROVE  /\ \A k \in Keys :
                             ValidResult(admission_result(JoinDecision(e, link[c].principal, k)))
                        /\ link[c].ticket # NoTicket =>
                             /\ ValidUpdate(queue_update(link[c].ticket, Status(e, link[c].ticket)))
                             /\ \A o \in Connections \ {c} :
                                  \/ Status(e, link[c].ticket).position = 0
                                  \/ Status(e, link[c].ticket).position
                                       # Status(e, link[o].ticket).position
    BY DEF AnswersEncodable
  <2>. HIDE DEF e
  <2>3. link[c].principal \in Principals
    BY <1>1, <2>2, AskingLink
  <2>4. ASSUME NEW k \in Keys
        PROVE  ValidResult(admission_result(JoinDecision(e, link[c].principal, k)))
    BY <2>1, <2>3, ResultValid
  <2>5. ASSUME link[c].ticket # NoTicket
        PROVE  ValidUpdate(queue_update(link[c].ticket, Status(e, link[c].ticket)))
    <3>. DEFINE i  == link[c].ticket
                st == Status(e, i)
                u  == queue_update(i, st)
    <3>1. /\ i \in InState(e, "Waiting") =>
               \E h \in DOMAIN e.waiting : e.waiting[h] = i /\ st.position = h
          /\ i \notin InState(e, "Waiting") => st.position = 0
          /\ st.state = "Waiting" <=> i \in InState(e, "Waiting")
      BY <2>1, PositionIsPlace
    <3>2. \A h \in DOMAIN e.waiting : h # 0
      <4>1. e.waiting \in Seq(Nat)
        BY <2>1 DEF CtlInv, Tables, ControllerType
      <4>2. QED
        BY <4>1
    <3>. HIDE DEF st, i
    <3>3. /\ u.ticket = i /\ u.state = st.state /\ u.position = st.position
          /\ u.poll = (st.state \in {"Waiting", "Offered"})
      BY DEF queue_update
    <3>. HIDE DEF u
    <3>4. (u.state = "Waiting") = (u.position # 0)
      BY <3>1, <3>2, <3>3
    <3>5. i # NoTicket
      BY <2>5 DEF i
    <3>6. QED
      BY <3>3, <3>4, <3>5 DEF ValidUpdate, u, st, i
  <2>6. ASSUME link[c].ticket # NoTicket, NEW o \in Connections \ {c},
               Status(e, link[c].ticket).position # 0
        PROVE  Status(e, link[c].ticket).position # Status(e, link[o].ticket).position
    <3>. DEFINE i == link[c].ticket
                j == link[o].ticket
    <3>1. i # j
      BY <2>1, <2>6 DEF LinksInv, Queued
    <3>. HIDE DEF i, j
    <3>2. Status(e, i).position # 0
      BY <2>6 DEF i
    <3>3. i \in InState(e, "Waiting")
      BY <2>1, <3>2, PositionIsPlace
    <3>4. PICK h \in DOMAIN e.waiting : e.waiting[h] = i /\ Status(e, i).position = h
      BY <2>1, <3>3, PositionIsPlace
    <3>5. CASE j \notin InState(e, "Waiting")
      BY <2>1, <3>2, <3>5, PositionIsPlace DEF i, j
    <3>6. CASE j \in InState(e, "Waiting")
      <4>1. PICK g \in DOMAIN e.waiting : e.waiting[g] = j /\ Status(e, j).position = g
        BY <2>1, <3>6, PositionIsPlace
      <4>2. g # h
        BY <3>1, <3>4, <4>1
      <4>3. QED
        BY <3>4, <4>1, <4>2 DEF i, j
    <3>7. QED
      BY <3>5, <3>6
  <2>7. QED
    BY <2>4, <2>5, <2>6
<1>2. QED
  BY <1>1, Invariant, PTL

=============================================================================
