-------------------------- MODULE DeliveryContract --------------------------
(***************************************************************************)
(* What a connection's outbound path promises, whatever its capacities:    *)
(*   - a reliable message that was accepted is handed out, in order, unless*)
(*     it is discarded explicitly or the connection is taken down;         *)
(*   - of a coalesce key only the newest message is ever kept; it may be   *)
(*     lost but never replaced by an older one;                            *)
(*   - a best-effort message may be lost but is never overtaken by a later *)
(*     one.                                                                *)
(***************************************************************************)
EXTENDS Deques

VARIABLES
  reliable,   \* accepted reliable messages, oldest first
  fresh,      \* coalesce key -> its newest message
  lossy,      \* best-effort messages, oldest first
  out,        \* the messages the last step handed to the transport
  up          \* the connection is up

vars == <<reliable, fresh, lossy, out, up>>

Init == reliable = <<>> /\ fresh = [k \in {} |-> 0] /\ lossy = <<>> /\ out = <<>> /\ up = FALSE

Contents == Elements(reliable) \cup {fresh[k] : k \in DOMAIN fresh} \cup Elements(lossy)

\* g is f with some keys lost.
Loses(f, g) == DOMAIN g \subseteq DOMAIN f /\ \A k \in DOMAIN g : g[k] = f[k]

\* s with its first n elements lost.
LosesFirst(s, t) == \E n \in 0..Len(s) : t = SubSeq(s, n + 1, Len(s))

AcceptReliable ==
  /\ reliable' # <<>> /\ reliable' = Append(reliable, reliable'[Len(reliable')])
  /\ Loses(fresh, fresh')
  /\ LosesFirst(lossy, lossy')

\* The newest message of key k arrives: an older one of the same key is gone
\* whether or not there is room for the new one.
AcceptFresh ==
  /\ reliable' = reliable
  /\ LosesFirst(lossy, lossy')
  /\ \E k \in DOMAIN fresh' :
       Loses([j \in DOMAIN fresh \ {k} |-> fresh[j]], [j \in DOMAIN fresh' \ {k} |-> fresh'[j]])

AcceptLossy ==
  /\ lossy' # <<>> /\ lossy' = Append(lossy, lossy'[Len(lossy')])
  /\ UNCHANGED <<reliable, fresh>>

\* A step without output on a connection that stays up.
Accept ==
  /\ up /\ UNCHANGED up /\ out' = <<>>
  /\ \/ AcceptReliable
     \/ AcceptFresh
     \/ AcceptLossy
     \/ UNCHANGED <<reliable, fresh, lossy>>

\* The messages of M are taken out of the three stores.
Remove(M) ==
  /\ reliable' = Retain(reliable, Elements(reliable) \ M)
  /\ lossy' = Retain(lossy, Elements(lossy) \ M)
  /\ fresh' = [k \in {j \in DOMAIN fresh : fresh[j] \notin M} |-> fresh[k]]

\* Exactly the messages of M are handed out: reliable ones first and in order,
\* then the newest of each key, then best effort in order.
Deliver(M) ==
  LET r    == Retain(reliable, M)
      l    == Retain(lossy, M)
      keys == {k \in DOMAIN fresh : fresh[k] \in M}
      rest == SubSeq(out', Len(r) + 1, Len(out') - Len(l))
  IN  /\ up /\ UNCHANGED up
      /\ out' = r \o rest \o l
      /\ Len(rest) = Cardinality(keys)
      /\ Elements(rest) = {fresh[k] : k \in keys}
      /\ Remove(M)

Discard(M) == up /\ UNCHANGED up /\ out' = <<>> /\ Remove(M)

Disconnect == up /\ ~up' /\ out' = <<>> /\ UNCHANGED <<reliable, fresh, lossy>>

Connect ==
  /\ ~up /\ up' /\ out' = <<>>
  /\ reliable' = <<>> /\ fresh' = [k \in {} |-> 0] /\ lossy' = <<>>

Next ==
  \/ Accept
  \/ \E M \in SUBSET Contents : Deliver(M) \/ Discard(M)
  \/ Disconnect
  \/ Connect

Spec == Init /\ [][Next]_vars

=============================================================================
