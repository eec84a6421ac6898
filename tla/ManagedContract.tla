--------------------------- MODULE ManagedContract ---------------------------
(***************************************************************************)
(* What the durable management of a node promises its operator, with no    *)
(* files, no processes and no saves: one registry of scopes, changed by    *)
(* one proposal at a time.  A proposal becomes the registry or is dropped; *)
(* a crash may only decide which.  What a serving node shows is never      *)
(* ahead of what a crash would leave.                                      *)
(***************************************************************************)
EXTENDS Naturals

VARIABLES
  committed,   \* the registry that survives every crash: {} or {registry}
  proposed,    \* the registries that may replace it: none or one
  shown        \* the registry a serving node answers from: {} or {registry}

vars == <<committed, proposed, shown>>

\* A registry: a function from scopes to their records.  One request changes
\* one scope; its verifier stays, its revision never falls and a retired
\* scope stays as it is.
OneScopeChanges(old, new) ==
  /\ DOMAIN old \subseteq DOMAIN new
  /\ \E s \in DOMAIN new :
       /\ \A t \in DOMAIN new \ {s} : t \in DOMAIN old /\ new[t] = old[t]
       /\ s \in DOMAIN old =>
            /\ new[s].verifier = old[s].verifier
            /\ new[s].revision >= old[s].revision
            /\ old[s].retired => new[s] = old[s]

Init == committed = {} /\ proposed = {} /\ shown = {}

\* The import of a first registry: nothing is replaced.
Import ==
  /\ committed = {} /\ proposed = {}
  /\ \E r \in proposed' : proposed' = {r}
  /\ UNCHANGED <<committed, shown>>

\* A node answers from the committed registry only, and only when no other
\* registry could come to replace it.
Show ==
  /\ proposed = {} /\ committed # {}
  /\ shown' = committed
  /\ UNCHANGED <<committed, proposed>>

\* A request: nothing is shown until its outcome is known.
Propose ==
  /\ shown = committed /\ proposed = {}
  /\ \E old \in shown : \E new \in proposed' :
       /\ proposed' = {new}
       /\ new = old \/ OneScopeChanges(old, new)
  /\ shown' = {}
  /\ UNCHANGED committed

\* The proposal is the registry; the node that proposed it may answer from it.
Commit ==
  /\ proposed # {}
  /\ committed' = proposed
  /\ shown' \in {{}, proposed}
  /\ proposed' = {}

\* The proposal is lost, or the node stops.
Drop ==
  /\ proposed' \in {{}, proposed}
  /\ shown' = {}
  /\ UNCHANGED committed

Next == Import \/ Show \/ Propose \/ Commit \/ Drop

Spec == Init /\ [][Next]_vars
=============================================================================
