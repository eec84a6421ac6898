-------------------------- MODULE ManagedCoreProofs --------------------------
(***************************************************************************)
(* The managed core alone, for every inventory: CoreInv is kept by every   *)
(* request that succeeds (ManageKeeps), which changes one scope and never  *)
(* undoes one (Grows) and can be repeated; a core restored from the        *)
(* checkpoint of another has the same scopes (RestoredCore).               *)
(***************************************************************************)
EXTENDS ManagedOps, FiniteSetTheorems, TLAPS

\* A live session of the core.
IsSession(l) ==
  l \in [revision : Nat, target : {l.target}, rate : {l.rate}, spaces : {l.spaces}]

IsCore(c) ==
  c \in [scopes : {c.scopes}, live : {c.live}, bound : {c.bound}, grants : {c.grants},
        closed : {c.closed}]

\* Grants are kept for the bound connections.
PerClient(bound, grants) == grants = [x \in DOMAIN bound |-> grants[x]]

CoreType(c) ==
  /\ IsCore(c)
  /\ IsCheckpoint(Export(c))
  /\ c.live = [s \in DOMAIN c.live |-> c.live[s]]
  /\ \A s \in DOMAIN c.live : IsSession(c.live[s])
  /\ c.bound = [x \in DOMAIN c.bound |-> c.bound[x]]
  /\ PerClient(c.bound, c.grants)
  /\ DOMAIN c.bound \subseteq Clients

\* LiveMatchesScopes of any core.
LiveMatches(c) ==
  /\ DOMAIN c.live = LiveScopes(Export(c))
  /\ \A s \in DOMAIN c.live :
       /\ c.live[s].target = c.scopes[s].ccu
       /\ c.live[s].rate = c.scopes[s].rate
       /\ c.live[s].spaces = SystemSpaces \cup DOMAIN c.scopes[s].spatial
  /\ \A x \in DOMAIN c.bound :
       /\ c.bound[x] \in DOMAIN c.live
       /\ c.grants[x] = c.live[c.bound[x]].spaces

\* The controller is never ahead of the scope, so that it takes every target.
ControllerFollows(c) == \A s \in DOMAIN c.live : c.live[s].revision <= c.scopes[s].revision

CoreInv(c) ==
  CoreType(c) /\ Restorable(Export(c)) /\ LiveMatches(c) /\ ControllerFollows(c)

\* What one request may do to the scopes: nothing, or it changes one and
\* undoes nothing of it.
OneChanges(old, new) ==
  /\ DOMAIN old \subseteq DOMAIN new
  /\ \E s \in DOMAIN new :
       /\ \A t \in DOMAIN new \ {s} : t \in DOMAIN old /\ new[t] = old[t]
       /\ s \in DOMAIN old =>
            /\ new[s].verifier = old[s].verifier /\ new[s].revision >= old[s].revision
            /\ old[s].retired => new[s] = old[s]

Grows(old, new) == new = old \/ OneChanges(old, new)

\* The outcome of a request that succeeded: its scope has its revision.
Recorded(m, q) ==
  /\ q.session \in DOMAIN m
  /\ m[q.session].revision = q.revision
  /\ q.op = "delete" => m[q.session].retired

-----------------------------------------------------------------------------
\* A valid scope in the place of one of the checkpoint's, or beside them where
\* there is room, leaves a checkpoint that start-up accepts.
LEMMA ScopeReplaced ==
  ASSUME NEW cp, IsCheckpoint(cp), Restorable(cp), NEW s \in Sessions, NEW sc, IsScope(sc),
         sc.revision > 0, sc.ccu <= MaxCcu, (s[1] <= cp.closed) = (s[2] <= cp.closed),
         ValidScope(sc, Historical(cp, s)), sc.verifier # AdminVerifier,
         \A t \in DOMAIN cp.scopes \ {s} : cp.scopes[t].verifier # sc.verifier,
         s \in DOMAIN cp.scopes \/ Cardinality(DOMAIN cp.scopes) < MaxHistory,
         sc.retired \/ s \in LiveScopes(cp) \/ Cardinality(LiveScopes(cp)) < MaxScopes
  PROVE  LET new == [closed |-> cp.closed, scopes |-> Assign(cp.scopes, s, sc)]
         IN  IsCheckpoint(new) /\ Restorable(new)
<1> DEFINE new == [closed |-> cp.closed, scopes |-> Assign(cp.scopes, s, sc)]
<1>1. /\ new.closed = cp.closed
      /\ DOMAIN new.scopes = DOMAIN cp.scopes \cup {s}
      /\ \A t \in DOMAIN new.scopes : new.scopes[t] = IF t = s THEN sc ELSE cp.scopes[t]
      /\ new.scopes = [t \in DOMAIN new.scopes |-> new.scopes[t]]
      /\ new \in [closed : {cp.closed}, scopes : {new.scopes}]
  BY DEF Assign
<1>2. /\ cp.closed \in Nat /\ IsFiniteSet(DOMAIN cp.scopes) /\ DOMAIN cp.scopes \subseteq Sessions
      /\ \A t \in DOMAIN cp.scopes : IsScope(cp.scopes[t])
  BY DEF IsCheckpoint
<1> HIDE DEF new
<1>3. /\ IsFiniteSet(DOMAIN new.scopes)
      /\ s \in DOMAIN cp.scopes => DOMAIN new.scopes = DOMAIN cp.scopes
      /\ s \notin DOMAIN cp.scopes =>
           Cardinality(DOMAIN new.scopes) = Cardinality(DOMAIN cp.scopes) + 1
      /\ Cardinality(DOMAIN cp.scopes) \in Nat
  BY <1>1, <1>2, FS_AddElement, FS_CardinalityType
<1>4. IsCheckpoint(new)
  BY <1>1, <1>2, <1>3 DEF IsCheckpoint
<1>5. Cardinality(DOMAIN new.scopes) <= MaxHistory
  BY <1>3, ManagedAssumption DEF Restorable
<1>6. LiveScopes(new) = IF sc.retired THEN LiveScopes(cp) \ {s} ELSE LiveScopes(cp) \cup {s}
  BY <1>1 DEF LiveScopes, IsScope
<1>7. LiveScopes(cp) \in SUBSET DOMAIN cp.scopes
  BY DEF LiveScopes
<1>8. IsFiniteSet(LiveScopes(cp)) /\ Cardinality(LiveScopes(cp)) \in Nat
  BY <1>2, <1>7, FS_Subset, FS_CardinalityType
<1>9. Cardinality(LiveScopes(new)) <= MaxScopes
  <2>1. CASE sc.retired
    BY <1>6, <1>8, <2>1, FS_RemoveElement, FS_Subset, ManagedAssumption DEF Restorable
  <2>2. CASE ~sc.retired
    <3>1. Cardinality(LiveScopes(cp) \cup {s}) =
            IF s \in LiveScopes(cp) THEN Cardinality(LiveScopes(cp)) ELSE Cardinality(LiveScopes(cp)) + 1
      BY <1>8, FS_AddElement
    <3>2. Cardinality(LiveScopes(cp)) <= MaxScopes
      BY DEF Restorable
    <3>3. QED
      BY <1>6, <1>8, <2>2, <3>1, <3>2, ManagedAssumption
  <2>3. QED BY <2>1, <2>2
<1>10. ASSUME NEW t \in DOMAIN new.scopes
       PROVE  /\ new.scopes[t].revision > 0
              /\ new.scopes[t].ccu <= MaxCcu
              /\ (t[1] <= new.closed) = (t[2] <= new.closed)
              /\ ValidScope(new.scopes[t], Historical(new, t))
              /\ new.scopes[t].verifier # AdminVerifier
  <2>1. Historical(new, t) = Historical(cp, t)
    BY <1>1 DEF Historical
  <2>2. QED
    BY <1>1, <1>10, <2>1 DEF Restorable
<1>11. ASSUME NEW t \in DOMAIN new.scopes, NEW u \in DOMAIN new.scopes \ {t}
       PROVE  new.scopes[u].verifier # new.scopes[t].verifier
  BY <1>1, <1>11 DEF Restorable
<1>12. Restorable(new)
  BY <1>5, <1>9, <1>10, <1>11 DEF Restorable
<1>13. QED
  BY <1>4, <1>12 DEF new

-----------------------------------------------------------------------------
\* What a request carries.
LEMMA RequestFields ==
  ASSUME NEW q \in Requests
  PROVE  /\ q.op \in {"put", "patch", "put_space", "delete"}
         /\ q.session \in Sessions /\ q.revision \in Nat /\ q.revision > 0
         /\ q.op \in {"put", "patch"} => q.ccu \in Nat /\ q.rate \in Nat
         /\ q.op = "put" => q.verifier \in Verifiers
         /\ q.op = "put_space" => q.id \in SpatialIds /\ q.shape \in Shapes
<1>1. /\ \A n \in Revisions : n \in Nat /\ n > 0
      /\ Ccus \subseteq Nat /\ TickRates \subseteq Nat
  BY ManagedAssumption DEF Revisions, TickRates, Unlimited
<1>2. CASE q \in [op : {"put"}, session : Sessions, revision : Revisions, ccu : Ccus,
                  rate : TickRates, verifier : Verifiers]
  BY <1>1, <1>2
<1>3. CASE q \in [op : {"patch"}, session : Sessions, revision : Revisions, ccu : Ccus,
                  rate : TickRates]
  BY <1>1, <1>3
<1>4. CASE q \in [op : {"put_space"}, session : Sessions, revision : Revisions, id : SpatialIds,
                  shape : Shapes]
  BY <1>1, <1>4
<1>5. CASE q \in [op : {"delete"}, session : Sessions, revision : Revisions]
  BY <1>1, <1>5
<1>6. QED
  BY <1>2, <1>3, <1>4, <1>5 DEF Requests

\* A core is known by its fields.
LEMMA SameCore ==
  ASSUME NEW c, NEW d, IsCore(c), IsCore(d), c.scopes = d.scopes, c.live = d.live,
         c.bound = d.bound, c.grants = d.grants, c.closed = d.closed
  PROVE  c = d
  BY DEF IsCore

\* A core whose live sessions and scopes are replaced.
LEMMA CoreOf ==
  ASSUME NEW c, IsCore(c), NEW l, NEW m
  PROVE  [c EXCEPT !.live = l, !.scopes = m] =
           [scopes |-> m, live |-> l, bound |-> c.bound, grants |-> c.grants, closed |-> c.closed]
<1> DEFINE new == [scopes |-> m, live |-> l, bound |-> c.bound, grants |-> c.grants, closed |-> c.closed]
           d   == [c EXCEPT !.live = l, !.scopes = m]
<1>1. IsCore(d) /\ d.live = l /\ d.scopes = m /\ d.bound = c.bound /\ d.grants = c.grants
      /\ d.closed = c.closed
  BY DEF IsCore
<1>2. IsCore(new) /\ new.live = l /\ new.scopes = m /\ new.bound = c.bound
      /\ new.grants = c.grants /\ new.closed = c.closed
  BY DEF IsCore
<1> HIDE DEF d, new
<1>3. d = new
  BY <1>1, <1>2, SameCore
<1>4. QED
  BY <1>3 DEF d, new

\* A core whose grants are replaced as well.
LEMMA CoreWithGrants ==
  ASSUME NEW c, IsCore(c), NEW l, NEW m, NEW g
  PROVE  [c EXCEPT !.live = l, !.grants = g, !.scopes = m] =
           [scopes |-> m, live |-> l, bound |-> c.bound, grants |-> g, closed |-> c.closed]
<1> DEFINE new == [scopes |-> m, live |-> l, bound |-> c.bound, grants |-> g, closed |-> c.closed]
           d   == [c EXCEPT !.live = l, !.grants = g, !.scopes = m]
<1>1. IsCore(d) /\ d.live = l /\ d.scopes = m /\ d.bound = c.bound /\ d.grants = g
      /\ d.closed = c.closed
  BY DEF IsCore
<1>2. IsCore(new) /\ new.live = l /\ new.scopes = m /\ new.bound = c.bound
      /\ new.grants = g /\ new.closed = c.closed
  BY DEF IsCore
<1> HIDE DEF d, new
<1>3. d = new
  BY <1>1, <1>2, SameCore
<1>4. QED
  BY <1>3 DEF d, new

\* managed_put of a new scope: it joins the others, live, with no spaces.
LEMMA PutNew ==
  ASSUME NEW c, CoreInv(c), NEW q \in Requests, q.op = "put", q.ccu <= MaxCcu,
         Put(c, q).reply = "ok", q.session \notin DOMAIN c.scopes
  PROVE  LET d == Put(c, q).core
         IN  /\ CoreInv(d) /\ Grows(c.scopes, d.scopes) /\ d.closed = c.closed
             /\ Recorded(d.scopes, q)
             /\ \A x : x.scopes = d.scopes => Put(x, q) = Answer("ok", x)
<1> DEFINE s  == q.session
           l  == Configured(q.revision, q.ccu, q.rate)
           sc == [verifier |-> q.verifier, revision |-> q.revision, last |-> Provision, ccu |-> q.ccu,
                  rate |-> q.rate, spatial |-> Nothing, retired |-> FALSE]
           d  == [scopes |-> Assign(c.scopes, s, sc), live |-> Assign(c.live, s, l),
                  bound |-> c.bound, grants |-> c.grants, closed |-> c.closed]
<1>1. /\ s \in Sessions /\ q.revision \in Nat /\ q.revision > 0 /\ q.ccu \in Nat /\ q.rate \in Nat
      /\ q.verifier \in Verifiers
  BY ManagedAssumption, RequestFields
<1>2. CoreType(c) /\ Restorable(Export(c)) /\ LiveMatches(c) /\ ControllerFollows(c)
  BY DEF CoreInv
<1>3. /\ Put(c, q).core = d
      /\ ~ClosedScope(c, s) /\ q.verifier # AdminVerifier
      /\ \A t \in DOMAIN c.scopes : c.scopes[t].verifier # q.verifier
      /\ Cardinality(DOMAIN c.scopes) < MaxHistory
      /\ Cardinality(DOMAIN c.live) < MaxScopes
  <2>1. /\ IsFiniteSet(DOMAIN c.scopes) /\ DOMAIN c.live \in SUBSET DOMAIN c.scopes
    BY <1>2 DEF CoreType, IsCheckpoint, Export, LiveMatches, LiveScopes
  <2>2. /\ Cardinality(DOMAIN c.scopes) \in Nat /\ Cardinality(DOMAIN c.live) \in Nat
    BY <2>1, FS_Subset, FS_CardinalityType
  <2>3. /\ ~ClosedScope(c, s)
        /\ ~(q.verifier = AdminVerifier \/ \E t \in DOMAIN c.scopes : c.scopes[t].verifier = q.verifier)
        /\ ~(Cardinality(DOMAIN c.scopes) >= MaxHistory \/ Cardinality(DOMAIN c.live) >= MaxScopes)
        /\ Put(c, q) = Answer("ok", [c EXCEPT !.live = Assign(@, s, l), !.scopes = Assign(@, s, sc)])
    BY DEF Put, Answer
  <2>4. Put(c, q).core = d
    <3>1. IsCore(c)
      BY <1>2 DEF CoreType
    <3> HIDE DEF l, sc, s
    <3>2. [c EXCEPT !.live = Assign(c.live, s, l), !.scopes = Assign(c.scopes, s, sc)] = d
      BY <3>1, CoreOf
    <3>3. QED
      BY <2>3, <3>2 DEF Answer, s, l, sc
  <2>5. QED
    BY <2>2, <2>3, <2>4, ManagedAssumption
<1>4. IsScope(sc) /\ IsSession(l) /\ DOMAIN sc.spatial = {}
  BY <1>1, FS_EmptySet DEF IsScope, IsSession, Configured, Mutation, Provision, Nothing
<1>5. IsCheckpoint(Export(c)) /\ Export(c).closed = c.closed /\ Export(c).scopes = c.scopes
  BY <1>2 DEF CoreType, Export
<1>6. /\ (s[1] <= c.closed) = (s[2] <= c.closed)
      /\ ValidScope(sc, Historical(Export(c), s))
  <2>1. c.closed \in Nat /\ s[1] \in Nat /\ s[2] \in Nat
    BY <1>1, <1>5, ManagedAssumption DEF IsCheckpoint
  <2>2. Cardinality(DOMAIN sc.spatial) = 0
    BY <1>4, FS_EmptySet
  <2>3. sc.last.kind = "provision" /\ sc.revision = q.revision
    BY DEF Provision
  <2> HIDE DEF sc, s
  <2>4. (s[1] <= c.closed) = (s[2] <= c.closed)
    BY <1>3, <2>1 DEF ClosedScope
  <2>5. QED
    BY <1>1, <2>2, <2>3, <2>4, ManagedAssumption DEF ValidScope, s
<1>7. Export(d) = [closed |-> Export(c).closed, scopes |-> Assign(Export(c).scopes, s, sc)]
  BY DEF Export
<1>8. /\ DOMAIN d.scopes = DOMAIN c.scopes \cup {s} /\ DOMAIN d.live = DOMAIN c.live \cup {s}
      /\ \A t \in DOMAIN d.scopes : d.scopes[t] = IF t = s THEN sc ELSE c.scopes[t]
      /\ \A t \in DOMAIN d.live : d.live[t] = IF t = s THEN l ELSE c.live[t]
      /\ d.live = [t \in DOMAIN d.live |-> d.live[t]]
      /\ d.bound = c.bound /\ d.grants = c.grants /\ d.closed = c.closed
      /\ IsCore(d)
  BY DEF Assign, IsCore
<1>9. DOMAIN c.live = LiveScopes(Export(c))
  BY <1>2 DEF LiveMatches
<1>10. sc.revision > 0 /\ sc.ccu <= MaxCcu /\ sc.verifier # AdminVerifier
      /\ \A t \in DOMAIN Export(c).scopes \ {s} : Export(c).scopes[t].verifier # sc.verifier
  BY <1>1, <1>3, <1>5
<1>11. sc = [verifier |-> q.verifier, revision |-> q.revision, last |-> Provision, ccu |-> q.ccu,
            rate |-> q.rate, spatial |-> Nothing, retired |-> FALSE]
       /\ l = Configured(q.revision, q.ccu, q.rate)
  OBVIOUS
<1> HIDE DEF sc, l, d, s
<1>12. IsCheckpoint(Export(d)) /\ Restorable(Export(d))
  BY <1>1, <1>2, <1>3, <1>4, <1>5, <1>6, <1>7, <1>9, <1>10, ScopeReplaced
<1>13. CoreType(d)
  BY <1>2, <1>4, <1>8, <1>12 DEF CoreType
<1>14. LiveScopes(Export(d)) = LiveScopes(Export(c)) \cup {s}
  BY <1>5, <1>8, <1>11 DEF LiveScopes, Export
<1>15. /\ l.target = sc.ccu /\ l.rate = sc.rate /\ l.spaces = SystemSpaces \cup DOMAIN sc.spatial
       /\ l.revision = sc.revision /\ sc.revision \in Nat
  BY <1>1, <1>4, <1>11 DEF Configured
<1>16. s \notin DOMAIN c.live
  BY <1>5, <1>9 DEF LiveScopes, s
<1>17. LiveMatches(d) /\ ControllerFollows(d)
  <2>1. \A t \in DOMAIN c.live : t # s /\ t \in DOMAIN c.scopes
    BY <1>5, <1>9, <1>16 DEF LiveScopes
  <2>2. DOMAIN d.live = LiveScopes(Export(d))
    BY <1>8, <1>9, <1>14
  <2>3. ASSUME NEW t \in DOMAIN d.live
        PROVE  /\ d.live[t].target = d.scopes[t].ccu
               /\ d.live[t].rate = d.scopes[t].rate
               /\ d.live[t].spaces = SystemSpaces \cup DOMAIN d.scopes[t].spatial
               /\ d.live[t].revision <= d.scopes[t].revision
    BY <1>2, <1>8, <1>15, <2>1, <2>3 DEF LiveMatches, ControllerFollows
  <2>4. ASSUME NEW x \in DOMAIN d.bound
        PROVE  d.bound[x] \in DOMAIN d.live /\ d.grants[x] = d.live[d.bound[x]].spaces
    BY <1>2, <1>8, <2>1, <2>4 DEF LiveMatches
  <2>5. QED
    BY <2>2, <2>3, <2>4 DEF LiveMatches, ControllerFollows
<1>18. OneChanges(c.scopes, d.scopes)
  BY <1>8 DEF s, OneChanges
<1>19. Recorded(d.scopes, q)
  BY <1>8, <1>11 DEF Recorded, s
<1>20. ASSUME NEW x, x.scopes = d.scopes
       PROVE  Put(x, q) = Answer("ok", x)
  BY <1>8, <1>11, <1>20 DEF Put, s, Provision, MigrationBaseline
<1>21. QED
  BY <1>3, <1>8, <1>12, <1>13, <1>17, <1>18, <1>19, <1>20 DEF CoreInv, Grows, s

\* The grants g of the connections of c once the session of s is l.
Granted(c, s, l, g) ==
  /\ PerClient(c.bound, g)
  /\ \A x \in DOMAIN c.bound : g[x] = IF c.bound[x] = s THEN l.spaces ELSE c.grants[x]

\* sc may take the place of the scope s, which is not retired.
ScopeFollows(c, s, sc) ==
  /\ s \in DOMAIN c.scopes /\ ~c.scopes[s].retired
  /\ IsScope(sc) /\ ~sc.retired /\ sc.verifier = c.scopes[s].verifier
  /\ sc.revision >= c.scopes[s].revision /\ sc.ccu <= MaxCcu
  /\ ValidScope(sc, Historical(Export(c), s))

\* l is a session of a scope like sc.
SessionFollows(l, sc) ==
  /\ IsSession(l) /\ l.revision <= sc.revision /\ l.target = sc.ccu /\ l.rate = sc.rate
  /\ l.spaces = SystemSpaces \cup DOMAIN sc.spatial

\* A scope that is not retired changes together with its session, and the
\* grants of its connections are those of the new session.
LEMMA ScopeChanged ==
  ASSUME NEW c, CoreInv(c), NEW s, NEW sc, NEW l, NEW g,
         ScopeFollows(c, s, sc), SessionFollows(l, sc), Granted(c, s, l, g)
  PROVE  LET d == [scopes |-> Assign(c.scopes, s, sc), live |-> Assign(c.live, s, l),
                   bound |-> c.bound, grants |-> g, closed |-> c.closed]
         IN  CoreInv(d) /\ Grows(c.scopes, d.scopes) /\ d.scopes[s] = sc /\ s \in DOMAIN d.scopes
<1> DEFINE d == [scopes |-> Assign(c.scopes, s, sc), live |-> Assign(c.live, s, l),
                 bound |-> c.bound, grants |-> g, closed |-> c.closed]
<1>0. /\ s \in DOMAIN c.scopes /\ ~c.scopes[s].retired /\ IsScope(sc) /\ ~sc.retired
      /\ sc.verifier = c.scopes[s].verifier /\ sc.revision >= c.scopes[s].revision
      /\ sc.ccu <= MaxCcu /\ ValidScope(sc, Historical(Export(c), s))
      /\ IsSession(l) /\ l.revision <= sc.revision /\ l.target = sc.ccu /\ l.rate = sc.rate
      /\ l.spaces = SystemSpaces \cup DOMAIN sc.spatial
  BY DEF ScopeFollows, SessionFollows
<1>1. CoreType(c) /\ Restorable(Export(c)) /\ LiveMatches(c) /\ ControllerFollows(c)
  BY DEF CoreInv
<1>2. IsCheckpoint(Export(c)) /\ Export(c).closed = c.closed /\ Export(c).scopes = c.scopes
  BY <1>0, <1>1 DEF CoreType, Export
<1>3. /\ s \in Sessions /\ s \in LiveScopes(Export(c)) /\ DOMAIN c.live = LiveScopes(Export(c))
      /\ DOMAIN c.live \subseteq DOMAIN c.scopes
  BY <1>0, <1>1, <1>2 DEF LiveScopes, IsCheckpoint, LiveMatches
<1>4. /\ DOMAIN d.scopes = DOMAIN c.scopes /\ DOMAIN d.live = DOMAIN c.live
      /\ \A t \in DOMAIN d.scopes : d.scopes[t] = IF t = s THEN sc ELSE c.scopes[t]
      /\ \A t \in DOMAIN d.live : d.live[t] = IF t = s THEN l ELSE c.live[t]
      /\ d.live = [t \in DOMAIN d.live |-> d.live[t]]
      /\ d.bound = c.bound /\ d.grants = g /\ d.closed = c.closed
      /\ IsCore(d)
  BY <1>0, <1>3 DEF Assign, IsCore
<1>5. Export(d) = [closed |-> Export(c).closed, scopes |-> Assign(Export(c).scopes, s, sc)]
  BY DEF Export
<1>6. Export(d).scopes = d.scopes
  BY DEF Export
<1> HIDE DEF d
<1>7. /\ sc.revision > 0 /\ sc.verifier # AdminVerifier
      /\ \A t \in DOMAIN Export(c).scopes \ {s} : Export(c).scopes[t].verifier # sc.verifier
      /\ (s[1] <= Export(c).closed) = (s[2] <= Export(c).closed)
  <2>1. c.scopes[s].revision \in Nat /\ sc.revision \in Nat
    BY <1>0, <1>2 DEF IsCheckpoint, IsScope
  <2>2. QED
    BY <1>0, <1>1, <1>2, <2>1 DEF Restorable
<1>8. IsCheckpoint(Export(d)) /\ Restorable(Export(d))
  BY <1>0, <1>1, <1>2, <1>3, <1>5, <1>7, ScopeReplaced
<1>9. CoreType(d)
  BY <1>0, <1>1, <1>4, <1>8 DEF CoreType, Granted
<1>10. DOMAIN d.live = LiveScopes(Export(d))
  BY <1>0, <1>2, <1>3, <1>4, <1>6 DEF LiveScopes
<1>11. ASSUME NEW t \in DOMAIN d.live
       PROVE  /\ d.live[t].target = d.scopes[t].ccu
              /\ d.live[t].rate = d.scopes[t].rate
              /\ d.live[t].spaces = SystemSpaces \cup DOMAIN d.scopes[t].spatial
              /\ d.live[t].revision <= d.scopes[t].revision
  BY <1>0, <1>1, <1>3, <1>4, <1>11 DEF LiveMatches, ControllerFollows
<1>12. ASSUME NEW x \in DOMAIN d.bound
       PROVE  d.bound[x] \in DOMAIN d.live /\ d.grants[x] = d.live[d.bound[x]].spaces
  <2>1. d.bound[x] = c.bound[x] /\ x \in DOMAIN c.bound /\ d.grants[x] = g[x]
    BY <1>0, <1>4, <1>12
  <2>2. c.bound[x] \in DOMAIN c.live /\ c.grants[x] = c.live[c.bound[x]].spaces
    BY <1>0, <1>1, <2>1 DEF LiveMatches
  <2>3. CASE c.bound[x] = s
    BY <1>0, <1>4, <2>1, <2>2, <2>3 DEF Granted
  <2>4. CASE c.bound[x] # s
    BY <1>0, <1>4, <2>1, <2>2, <2>4 DEF Granted
  <2>5. QED
    BY <1>0, <2>3, <2>4
<1>13. OneChanges(c.scopes, d.scopes)
  BY <1>0, <1>4 DEF OneChanges
<1>14. CoreInv(d)
  BY <1>0, <1>8, <1>9, <1>10, <1>11, <1>12 DEF CoreInv, LiveMatches, ControllerFollows
<1>15. QED
  BY <1>0, <1>4, <1>13, <1>14 DEF Grows, d

\* What managed_patch resolves a request to.
LEMMA PatchKeeps ==
  ASSUME NEW c, CoreInv(c), NEW q \in Requests, q.op = "patch", q.ccu <= MaxCcu,
         Patch(c, q).reply = "ok"
  PROVE  LET d == Patch(c, q).core
         IN  /\ CoreInv(d) /\ Grows(c.scopes, d.scopes) /\ d.closed = c.closed
             /\ Recorded(d.scopes, q)
             /\ \A x : x.scopes = d.scopes => Patch(x, q) = Answer("ok", x)
<1> DEFINE s   == q.session
           old == c.scopes[s]
           resolved == IF q.rate = Unlimited THEN old.rate ELSE q.rate
           l  == [Retarget(c.live[s], q.revision, q.ccu) EXCEPT !.rate = resolved]
           sc == [old EXCEPT !.revision = q.revision, !.last = Configuration(q.ccu, q.rate),
                             !.ccu = q.ccu, !.rate = resolved]
           d  == [scopes |-> Assign(c.scopes, s, sc), live |-> Assign(c.live, s, l),
                  bound |-> c.bound, grants |-> c.grants, closed |-> c.closed]
<1>1. /\ s \in Sessions /\ q.revision \in Nat /\ q.revision > 0 /\ q.ccu \in Nat /\ q.rate \in Nat
  BY RequestFields
<1>2. CoreType(c) /\ Restorable(Export(c)) /\ LiveMatches(c) /\ ControllerFollows(c)
  BY DEF CoreInv
<1>3. IsCheckpoint(Export(c)) /\ Export(c).closed = c.closed /\ Export(c).scopes = c.scopes
  BY <1>2 DEF CoreType, Export
<1>4. s \in DOMAIN c.scopes /\ ~old.retired
  BY DEF Patch, Answer
<1>5. IsScope(old) /\ s \in DOMAIN c.live /\ IsSession(c.live[s])
  BY <1>2, <1>3, <1>4 DEF IsCheckpoint, CoreType, LiveMatches, LiveScopes
<1>6. CASE q.revision = old.revision
  <2>1. Patch(c, q) = Answer("ok", c) /\ old.last = Configuration(q.ccu, q.rate)
    BY <1>4, <1>6 DEF Patch, Answer
  <2>2. ASSUME NEW x, x.scopes = c.scopes
        PROVE  Patch(x, q) = Answer("ok", x)
    BY <1>4, <1>6, <2>1, <2>2 DEF Patch, Answer
  <2>3. QED
    BY <1>4, <1>6, <2>1, <2>2 DEF Answer, Grows, Recorded
<1>7. CASE q.revision # old.revision
  <2>1. /\ ~(q.revision < old.revision)
        /\ Patch(c, q) = Answer("ok", [c EXCEPT !.live = Assign(@, s, l), !.scopes = Assign(@, s, sc)])
    BY <1>4, <1>7 DEF Patch, Answer
  <2>2. Patch(c, q).core = d
    <3>1. IsCore(c)
      BY <1>2 DEF CoreType
    <3> HIDE DEF l, sc, s
    <3>2. [c EXCEPT !.live = Assign(c.live, s, l), !.scopes = Assign(c.scopes, s, sc)] = d
      BY <3>1, CoreOf
    <3>3. QED
      BY <2>1, <3>2 DEF Answer, s, l, sc
  <2>3. old.revision \in Nat /\ old.revision > 0 /\ q.revision > old.revision
    BY <1>1, <1>2, <1>3, <1>4, <1>5, <1>7, <2>1 DEF Restorable, IsScope
  <2>4. /\ IsScope(sc) /\ ~sc.retired /\ sc.verifier = old.verifier /\ sc.revision = q.revision
        /\ sc.ccu = q.ccu /\ sc.rate = resolved /\ sc.spatial = old.spatial
        /\ sc.last = Configuration(q.ccu, q.rate)
    BY <1>1, <1>4, <1>5 DEF IsScope, Mutation, Configuration
  <2>5. c.live[s].revision < q.revision
    BY <1>1, <1>2, <1>5, <2>3 DEF ControllerFollows, IsSession
  <2>6. /\ IsSession(l) /\ l.revision = q.revision /\ l.target = q.ccu /\ l.rate = resolved
        /\ l.spaces = c.live[s].spaces
    <3> DEFINE m == [c.live[s] EXCEPT !.revision = q.revision, !.target = q.ccu]
    <3>1. Retarget(c.live[s], q.revision, q.ccu) = m
      BY <1>1, <1>5, <2>5 DEF IsSession, Retarget
    <3>2. /\ IsSession(m) /\ m.revision = q.revision /\ m.target = q.ccu
          /\ m.spaces = c.live[s].spaces
      BY <1>1, <1>5 DEF IsSession
    <3> HIDE DEF m, resolved
    <3>3. QED
      BY <3>1, <3>2 DEF IsSession
  <2>7. ValidScope(sc, Historical(Export(c), s))
    <3>1. ValidScope(old, Historical(Export(c), s))
      BY <1>2, <1>3, <1>4 DEF Restorable
    <3>2. /\ sc.last.kind = "configuration" /\ sc.last.ccu = q.ccu /\ sc.last.rate = q.rate
      BY <2>4 DEF Configuration
    <3>3. Cardinality(DOMAIN old.spatial) \in Nat
      BY <1>5, FS_CardinalityType DEF IsScope
    <3>4. sc.last.rate = Unlimited \/ sc.last.rate = sc.rate
      BY <2>4, <3>2
    <3> HIDE DEF sc, old, s
    <3>5. QED
      BY <1>1, <2>3, <2>4, <3>1, <3>2, <3>3, <3>4 DEF ValidScope
  <2>8. Granted(c, s, l, c.grants)
    BY <1>2, <2>6 DEF CoreType, LiveMatches, Granted
  <2>9. l.spaces = SystemSpaces \cup DOMAIN sc.spatial
    BY <1>2, <1>5, <2>4, <2>6 DEF LiveMatches
  <2>10. /\ sc.revision >= c.scopes[s].revision /\ sc.ccu <= MaxCcu /\ sc.verifier = c.scopes[s].verifier
        /\ l.revision <= sc.revision /\ l.target = sc.ccu /\ l.rate = sc.rate
        /\ s \in DOMAIN c.scopes /\ ~c.scopes[s].retired
    BY <1>1, <1>4, <2>3, <2>4, <2>6
  <2> HIDE DEF sc, l, s, old
  <2>11. /\ CoreInv(d) /\ Grows(c.scopes, d.scopes) /\ s \in DOMAIN d.scopes /\ d.scopes[s] = sc
    <3>1. ScopeFollows(c, s, sc)
      BY <2>4, <2>7, <2>10 DEF ScopeFollows
    <3>2. SessionFollows(l, sc)
      BY <2>6, <2>9, <2>10 DEF SessionFollows
    <3>3. QED
      BY <2>8, <3>1, <3>2, ScopeChanged
  <2> HIDE DEF d
  <2>12. ASSUME NEW x, x.scopes = d.scopes
         PROVE  Patch(x, q) = Answer("ok", x)
    BY <2>4, <2>11, <2>12 DEF Patch, Answer, s
  <2>13. QED
    BY <2>2, <2>4, <2>11, <2>12 DEF Recorded, d, s
<1>8. QED
  BY <1>6, <1>7

\* managed_put_space: one space more, and one revision.
LEMMA PutSpaceKeeps ==
  ASSUME NEW c, CoreInv(c), NEW q \in Requests, q.op = "put_space", PutSpace(c, q).reply = "ok"
  PROVE  LET d == PutSpace(c, q).core
         IN  /\ CoreInv(d) /\ Grows(c.scopes, d.scopes) /\ d.closed = c.closed
             /\ Recorded(d.scopes, q)
             /\ \A x : x.scopes = d.scopes => PutSpace(x, q) = Answer("ok", x)
<1> DEFINE s   == q.session
           old == c.scopes[s]
           l   == Installed(c.live[s], {q.id})
           sc  == [old EXCEPT !.revision = q.revision, !.last = Space(q.id),
                              !.spatial = Assign(@, q.id, q.shape)]
           g   == [x \in DOMAIN c.grants |->
                     IF c.bound[x] = s THEN c.grants[x] \cup {q.id} ELSE c.grants[x]]
           d   == [scopes |-> Assign(c.scopes, s, sc), live |-> Assign(c.live, s, l),
                   bound |-> c.bound, grants |-> g, closed |-> c.closed]
<1>1. s \in Sessions /\ q.revision \in Nat /\ q.revision > 0 /\ q.id \in SpatialIds /\ q.shape \in Shapes
  BY RequestFields
<1>2. CoreType(c) /\ Restorable(Export(c)) /\ LiveMatches(c) /\ ControllerFollows(c)
  BY DEF CoreInv
<1>3. IsCheckpoint(Export(c)) /\ Export(c).closed = c.closed /\ Export(c).scopes = c.scopes
  BY <1>2 DEF CoreType, Export
<1>4. s \in DOMAIN c.scopes /\ ~old.retired
  BY DEF PutSpace, Answer
<1>5. IsScope(old) /\ s \in DOMAIN c.live /\ IsSession(c.live[s])
  BY <1>2, <1>3, <1>4 DEF IsCheckpoint, CoreType, LiveMatches, LiveScopes
<1>6. CASE q.revision = old.revision
  <2>1. /\ PutSpace(c, q) = Answer("ok", c)
        /\ old.last = Space(q.id) /\ q.id \in DOMAIN old.spatial /\ old.spatial[q.id] = q.shape
    BY <1>4, <1>6 DEF PutSpace, Answer
  <2>2. ASSUME NEW x, x.scopes = c.scopes
        PROVE  PutSpace(x, q) = Answer("ok", x)
    BY <1>4, <1>6, <2>1, <2>2 DEF PutSpace, Answer
  <2>3. QED
    BY <1>4, <1>6, <2>1, <2>2 DEF Answer, Grows, Recorded
<1>7. CASE q.revision # old.revision
  <2>1. /\ q.revision = old.revision + 1 /\ q.id \notin DOMAIN old.spatial
        /\ Cardinality(DOMAIN old.spatial) # MaxSpatial
        /\ PutSpace(c, q) = Answer("ok", [c EXCEPT !.live = Assign(@, s, l), !.grants = g,
                                                   !.scopes = Assign(@, s, sc)])
    BY <1>4, <1>7 DEF PutSpace, Answer
  <2>2. PutSpace(c, q).core = d
    <3>1. IsCore(c)
      BY <1>2 DEF CoreType
    <3> HIDE DEF l, sc, s, g
    <3> DEFINE live == Assign(c.live, s, l)
               scopes == Assign(c.scopes, s, sc)
    <3> HIDE DEF live, scopes
    <3>2. [c EXCEPT !.live = live, !.grants = g, !.scopes = scopes] =
            [scopes |-> scopes, live |-> live, bound |-> c.bound, grants |-> g, closed |-> c.closed]
      BY ONLY <3>1, CoreWithGrants, Zenon
    <3>3. QED
      BY <2>1, <3>2 DEF Answer, live, scopes
  <2>3. old.revision \in Nat /\ old.revision > 0
    BY <1>2, <1>3, <1>4, <1>5 DEF Restorable, IsScope
  <2>4. /\ DOMAIN Assign(old.spatial, q.id, q.shape) = DOMAIN old.spatial \cup {q.id}
        /\ Assign(old.spatial, q.id, q.shape) \in [DOMAIN old.spatial \cup {q.id} -> Shapes]
        /\ Assign(old.spatial, q.id, q.shape)[q.id] = q.shape
        /\ IsFiniteSet(DOMAIN old.spatial \cup {q.id}) /\ DOMAIN old.spatial \cup {q.id} \subseteq SpatialIds
        /\ Cardinality(DOMAIN old.spatial \cup {q.id}) = Cardinality(DOMAIN old.spatial) + 1
        /\ Cardinality(DOMAIN old.spatial) \in Nat
    BY <1>1, <1>5, <2>1, FS_AddElement, FS_CardinalityType DEF Assign, IsScope
  <2>5. /\ IsScope(sc) /\ ~sc.retired /\ sc.verifier = old.verifier /\ sc.revision = q.revision
        /\ sc.ccu = old.ccu /\ sc.rate = old.rate /\ DOMAIN sc.spatial = DOMAIN old.spatial \cup {q.id}
        /\ sc.spatial[q.id] = q.shape /\ sc.last = Space(q.id)
    <3> DEFINE spatial == Assign(old.spatial, q.id, q.shape)
    <3> HIDE DEF spatial
    <3>1. Space(q.id) \in Mutation
      BY <1>1 DEF Mutation, Space
    <3>2. /\ sc \in [verifier : Verifiers \cup {AdminVerifier}, revision : Nat, last : Mutation,
                    ccu : Nat, rate : Nat, spatial : {spatial}, retired : BOOLEAN]
          /\ sc.spatial = spatial
      BY <1>1, <1>4, <1>5, <3>1 DEF IsScope, spatial
    <3>3. QED
      BY <1>4, <1>5, <2>4, <3>2 DEF IsScope, spatial
  <2>6. /\ IsSession(l) /\ l.revision = c.live[s].revision /\ l.target = c.live[s].target
        /\ l.rate = c.live[s].rate /\ l.spaces = c.live[s].spaces \cup {q.id}
    BY <1>5 DEF IsSession, Installed
  <2>7. ValidScope(sc, Historical(Export(c), s))
    <3>1. ValidScope(old, Historical(Export(c), s))
      BY <1>2, <1>3, <1>4 DEF Restorable
    <3>2. sc.last.kind = "space" /\ sc.last.id = q.id
      BY <2>5 DEF Space
    <3>3. Cardinality(DOMAIN sc.spatial) = Cardinality(DOMAIN old.spatial) + 1
      BY <2>4, <2>5
    <3> HIDE DEF sc, old, s
    <3>4. QED
      BY <1>1, <2>1, <2>3, <2>4, <2>5, <3>1, <3>2, <3>3, ManagedAssumption DEF ValidScope
  <2>8. Granted(c, s, l, g)
    BY <1>2, <1>5, <2>6 DEF CoreType, LiveMatches, Granted, PerClient
  <2>9. l.spaces = SystemSpaces \cup DOMAIN sc.spatial
    BY <1>2, <1>5, <2>5, <2>6 DEF LiveMatches
  <2>10. /\ sc.revision >= c.scopes[s].revision /\ sc.ccu <= MaxCcu /\ sc.verifier = c.scopes[s].verifier
         /\ l.revision <= sc.revision /\ l.target = sc.ccu /\ l.rate = sc.rate
         /\ s \in DOMAIN c.scopes /\ ~c.scopes[s].retired
    <3>1. c.live[s].revision \in Nat /\ c.live[s].revision <= old.revision
      BY <1>2, <1>5 DEF ControllerFollows, IsSession
    <3>2. old.ccu <= MaxCcu /\ c.live[s].target = old.ccu /\ c.live[s].rate = old.rate
      BY <1>2, <1>3, <1>4, <1>5 DEF Restorable, LiveMatches
    <3> HIDE DEF sc, l, old
    <3>3. QED
      BY <1>1, <1>4, <2>1, <2>3, <2>5, <2>6, <3>1, <3>2 DEF old
  <2> HIDE DEF sc, l, s, old, g
  <2>11. /\ CoreInv(d) /\ Grows(c.scopes, d.scopes) /\ s \in DOMAIN d.scopes /\ d.scopes[s] = sc
    <3>1. ScopeFollows(c, s, sc)
      BY <2>5, <2>7, <2>10 DEF ScopeFollows
    <3>2. SessionFollows(l, sc)
      BY <2>6, <2>9, <2>10 DEF SessionFollows
    <3>3. QED
      BY <2>8, <3>1, <3>2, ScopeChanged
  <2> HIDE DEF d
  <2>12. ASSUME NEW x, x.scopes = d.scopes
         PROVE  PutSpace(x, q) = Answer("ok", x)
    BY <2>5, <2>11, <2>12 DEF PutSpace, Answer, s
  <2>13. QED
    BY <2>2, <2>5, <2>11, <2>12 DEF Recorded, d, s
<1>8. QED
  BY <1>6, <1>7

\* managed_put of a scope that is there repeats what was done.
LEMMA PutKeeps ==
  ASSUME NEW c, CoreInv(c), NEW q \in Requests, q.op = "put", q.ccu <= MaxCcu, Put(c, q).reply = "ok"
  PROVE  LET d == Put(c, q).core
         IN  /\ CoreInv(d) /\ Grows(c.scopes, d.scopes) /\ d.closed = c.closed
             /\ Recorded(d.scopes, q)
             /\ \A x : x.scopes = d.scopes => Put(x, q) = Answer("ok", x)
<1>1. CASE q.session \in DOMAIN c.scopes
  <2>1. /\ Put(c, q) = Answer("ok", c)
        /\ LET sc == c.scopes[q.session]
           IN  /\ ~sc.retired /\ sc.last # MigrationBaseline /\ sc.revision = q.revision
               /\ sc.ccu = q.ccu /\ sc.rate = q.rate /\ sc.verifier = q.verifier
    BY <1>1 DEF Put, Answer
  <2>2. ASSUME NEW x, x.scopes = c.scopes
        PROVE  Put(x, q) = Answer("ok", x)
    BY <1>1, <2>1, <2>2 DEF Put, Answer
  <2>3. QED
    BY <1>1, <2>1, <2>2 DEF Answer, Grows, Recorded
<1>2. CASE q.session \notin DOMAIN c.scopes
  BY <1>2, PutNew
<1>3. QED
  BY <1>1, <1>2

\* A scope that is already retired is deleted again with no effect.
LEMMA DeleteAgain ==
  ASSUME NEW c, CoreInv(c), NEW q, q.op = "delete", Recorded(c.scopes, q)
  PROVE  Delete(c, q) = Answer("ok", c)
<1> DEFINE s    == q.session
           gone == {x \in DOMAIN c.bound : c.bound[x] = s}
           d    == [Lose(c, gone) EXCEPT
                      !.scopes = Assign(@, s, [@[s] EXCEPT !.retired = TRUE]),
                      !.live = Without(@, {s})]
<1>1. CoreType(c) /\ LiveMatches(c)
  BY DEF CoreInv
<1>2. s \in DOMAIN c.scopes /\ c.scopes[s].retired /\ c.scopes[s].revision = q.revision
  BY DEF Recorded
<1>3. Delete(c, q) = Answer("ok", d)
  BY <1>2 DEF Delete
<1>4. s \notin DOMAIN c.live /\ gone = {}
  BY <1>1, <1>2 DEF LiveMatches, LiveScopes, Export
<1>5. /\ c.scopes = [t \in DOMAIN c.scopes |-> c.scopes[t]] /\ IsScope(c.scopes[s])
      /\ c.live = [t \in DOMAIN c.live |-> c.live[t]]
      /\ c.bound = [x \in DOMAIN c.bound |-> c.bound[x]]
      /\ c.grants = [x \in DOMAIN c.grants |-> c.grants[x]]
      /\ IsCore(c)
  BY <1>1, <1>2 DEF CoreType, IsCheckpoint, Export, PerClient
<1>6. [c.scopes[s] EXCEPT !.retired = TRUE] = c.scopes[s]
  BY <1>2, <1>5 DEF IsScope
<1>7. Assign(c.scopes, s, c.scopes[s]) = c.scopes
  BY <1>2, <1>5 DEF Assign
<1>8. Without(c.live, {s}) = c.live
  BY <1>4, <1>5 DEF Without
<1>9. Without(c.bound, {}) = c.bound /\ Without(c.grants, {}) = c.grants
  BY <1>5 DEF Without
<1>10. /\ IsCore(Lose(c, gone)) /\ Lose(c, gone).bound = c.bound /\ Lose(c, gone).grants = c.grants
       /\ Lose(c, gone).scopes = c.scopes /\ Lose(c, gone).live = c.live
       /\ Lose(c, gone).closed = c.closed
  BY <1>4, <1>5, <1>9 DEF Lose, IsCore
<1>11. /\ IsCore(d) /\ d.scopes = c.scopes /\ d.live = c.live /\ d.bound = c.bound
       /\ d.grants = c.grants /\ d.closed = c.closed
  <2> DEFINE e == Lose(c, gone)
  <2>1. /\ d.scopes = Assign(e.scopes, s, [e.scopes[s] EXCEPT !.retired = TRUE])
        /\ d.live = Without(e.live, {s})
        /\ d.bound = e.bound /\ d.grants = e.grants /\ d.closed = e.closed /\ IsCore(d)
    <3> HIDE DEF gone, s
    <3>1. IsCore(e)
      BY <1>10
    <3> HIDE DEF e
    <3>2. QED
      BY <3>1 DEF IsCore, e
  <2>2. QED
    BY <1>6, <1>7, <1>8, <1>10, <2>1
<1> HIDE DEF d
<1>12. d = c
  BY <1>5, <1>11, SameCore
<1>13. QED
  BY <1>3, <1>12

\* The connections of gone are lost and nothing else changes (transport_lost).
LEMMA LoseKeeps ==
  ASSUME NEW c, CoreInv(c), NEW gone
  PROVE  /\ CoreInv(Lose(c, gone)) /\ Lose(c, gone).scopes = c.scopes
         /\ Lose(c, gone).live = c.live /\ Lose(c, gone).closed = c.closed
         /\ Export(Lose(c, gone)) = Export(c)
         /\ Lose(c, gone).bound = Without(c.bound, gone)
<1> DEFINE d == Lose(c, gone)
<1>1. CoreType(c) /\ Restorable(Export(c)) /\ LiveMatches(c) /\ ControllerFollows(c)
  BY DEF CoreInv
<1>2. /\ IsCore(d) /\ d.scopes = c.scopes /\ d.live = c.live /\ d.closed = c.closed
      /\ d.bound = Without(c.bound, gone) /\ d.grants = Without(c.grants, gone)
  BY <1>1 DEF CoreType, IsCore, Lose
<1> HIDE DEF d
<1>3. Export(d) = Export(c)
  BY <1>2 DEF Export
<1>4. /\ DOMAIN d.bound = DOMAIN c.bound \ gone /\ d.bound = [x \in DOMAIN d.bound |-> d.bound[x]]
      /\ \A x \in DOMAIN d.bound : d.bound[x] = c.bound[x]
  BY <1>2 DEF Without
<1>5. DOMAIN c.grants = DOMAIN c.bound
  BY <1>1 DEF CoreType, PerClient
<1>6. PerClient(d.bound, d.grants) /\ \A x \in DOMAIN d.bound : d.grants[x] = c.grants[x]
  BY <1>2, <1>4, <1>5 DEF Without, PerClient
<1>7. CoreType(d)
  BY <1>1, <1>2, <1>3, <1>4, <1>6 DEF CoreType
<1>8. LiveMatches(d) /\ ControllerFollows(d)
  BY <1>1, <1>2, <1>3, <1>4, <1>6 DEF LiveMatches, ControllerFollows
<1>9. QED
  BY <1>1, <1>2, <1>3, <1>7, <1>8 DEF CoreInv, d

\* A scope none of whose connections are left is retired with its session.
LEMMA RetireKeeps ==
  ASSUME NEW c, CoreInv(c), NEW s \in DOMAIN c.scopes, \A x \in DOMAIN c.bound : c.bound[x] # s
  PROVE  LET d == [c EXCEPT !.scopes = Assign(@, s, [@[s] EXCEPT !.retired = TRUE]),
                            !.live = Without(@, {s})]
         IN  /\ CoreInv(d) /\ Grows(c.scopes, d.scopes) /\ d.closed = c.closed
             /\ s \in DOMAIN d.scopes /\ d.scopes[s].revision = c.scopes[s].revision
             /\ d.scopes[s].retired
<1> DEFINE old == c.scopes[s]
           sc  == [old EXCEPT !.retired = TRUE]
           d   == [c EXCEPT !.scopes = Assign(@, s, [@[s] EXCEPT !.retired = TRUE]),
                            !.live = Without(@, {s})]
<1>1. CoreType(c) /\ Restorable(Export(c)) /\ LiveMatches(c) /\ ControllerFollows(c)
  BY DEF CoreInv
<1>2. IsCheckpoint(Export(c)) /\ Export(c).closed = c.closed /\ Export(c).scopes = c.scopes
  BY <1>1 DEF CoreType, Export
<1>3. s \in Sessions /\ IsScope(old)
  BY <1>2 DEF IsCheckpoint
<1>4. /\ IsCore(d) /\ d.scopes = Assign(c.scopes, s, sc) /\ d.live = Without(c.live, {s})
      /\ d.bound = c.bound /\ d.grants = c.grants /\ d.closed = c.closed
  <2> HIDE DEF sc
  <2>1. IsCore(c)
    BY <1>1 DEF CoreType
  <2>2. QED
    BY <2>1 DEF IsCore, sc
<1>5. /\ IsScope(sc) /\ sc.retired /\ sc.revision = old.revision /\ sc.ccu = old.ccu
      /\ sc.verifier = old.verifier /\ sc.last = old.last /\ sc.rate = old.rate
      /\ sc.spatial = old.spatial
  <2> DEFINE spatial == old.spatial
  <2>1. sc \in [verifier : Verifiers \cup {AdminVerifier}, revision : Nat, last : Mutation,
                ccu : Nat, rate : Nat, spatial : {old.spatial}, retired : BOOLEAN]
        /\ sc.spatial = old.spatial /\ sc.retired /\ sc.revision = old.revision /\ sc.ccu = old.ccu
        /\ sc.verifier = old.verifier /\ sc.last = old.last /\ sc.rate = old.rate
    BY <1>3 DEF IsScope
  <2>2. QED
    BY <1>3, <2>1 DEF IsScope
<1>6. old.retired => sc = old
  BY <1>3 DEF IsScope
<1>7. /\ sc.revision > 0 /\ sc.ccu <= MaxCcu /\ sc.verifier # AdminVerifier
      /\ ValidScope(old, Historical(Export(c), s))
      /\ \A t \in DOMAIN Export(c).scopes \ {s} : Export(c).scopes[t].verifier # sc.verifier
      /\ (s[1] <= Export(c).closed) = (s[2] <= Export(c).closed)
  BY <1>1, <1>2, <1>5 DEF Restorable
<1> HIDE DEF d, sc, old
<1>8. ValidScope(sc, Historical(Export(c), s))
  BY <1>5, <1>7 DEF ValidScope
<1>9. Export(d) = [closed |-> Export(c).closed, scopes |-> Assign(Export(c).scopes, s, sc)]
      /\ Export(d).scopes = d.scopes
  BY <1>2, <1>4 DEF Export
<1>10. IsCheckpoint(Export(d)) /\ Restorable(Export(d))
  BY <1>1, <1>2, <1>3, <1>5, <1>7, <1>8, <1>9, ScopeReplaced
<1>11. /\ DOMAIN d.scopes = DOMAIN c.scopes /\ DOMAIN d.live = DOMAIN c.live \ {s}
       /\ \A t \in DOMAIN d.scopes : d.scopes[t] = IF t = s THEN sc ELSE c.scopes[t]
       /\ \A t \in DOMAIN d.live : d.live[t] = c.live[t]
       /\ d.live = [t \in DOMAIN d.live |-> d.live[t]]
  BY <1>4 DEF Assign, Without
<1>12. CoreType(d)
  BY <1>1, <1>4, <1>10, <1>11 DEF CoreType
<1>13. DOMAIN d.live = LiveScopes(Export(d)) /\ DOMAIN d.live \subseteq DOMAIN c.scopes
  BY <1>1, <1>2, <1>5, <1>9, <1>11 DEF LiveScopes, LiveMatches
<1>14. LiveMatches(d) /\ ControllerFollows(d)
  <2>1. ASSUME NEW t \in DOMAIN d.live
        PROVE  t \in DOMAIN c.live /\ d.live[t] = c.live[t] /\ d.scopes[t] = c.scopes[t]
    BY <1>11, <1>13, <2>1
  <2>2. ASSUME NEW x \in DOMAIN d.bound
        PROVE  d.bound[x] \in DOMAIN d.live /\ d.grants[x] = d.live[d.bound[x]].spaces
    <3>1. x \in DOMAIN c.bound /\ d.bound[x] = c.bound[x] /\ d.grants[x] = c.grants[x]
      BY <1>4, <2>2
    <3>2. c.bound[x] \in DOMAIN c.live /\ c.bound[x] # s /\ c.grants[x] = c.live[c.bound[x]].spaces
      BY <1>1, <3>1 DEF LiveMatches
    <3>3. QED
      BY <1>11, <3>1, <3>2
  <2>3. QED
    BY <1>1, <1>13, <2>1, <2>2 DEF LiveMatches, ControllerFollows
<1>15. OneChanges(c.scopes, d.scopes)
  <2>1. old.revision \in Nat
    BY <1>3 DEF IsScope
  <2>2. QED
    BY <1>5, <1>6, <1>11, <2>1 DEF OneChanges, old
<1>16. QED
  BY <1>4, <1>5, <1>10, <1>11, <1>12, <1>14, <1>15 DEF CoreInv, Grows, d, old

\* Delete: the connections are lost, then the scope is retired.
LEMMA DeleteKeeps ==
  ASSUME NEW c, CoreInv(c), NEW q \in Requests, q.op = "delete", Delete(c, q).reply = "ok"
  PROVE  LET d == Delete(c, q).core
         IN  /\ CoreInv(d) /\ Grows(c.scopes, d.scopes) /\ d.closed = c.closed
             /\ Recorded(d.scopes, q)
<1> DEFINE s    == q.session
           gone == {x \in DOMAIN c.bound : c.bound[x] = s}
           e    == Lose(c, gone)
           d    == [e EXCEPT !.scopes = Assign(@, s, [@[s] EXCEPT !.retired = TRUE]),
                             !.live = Without(@, {s})]
<1>1. s \in DOMAIN c.scopes /\ c.scopes[s].revision = q.revision /\ Delete(c, q) = Answer("ok", d)
  BY DEF Delete, Answer
<1>2. /\ CoreInv(e) /\ e.scopes = c.scopes /\ e.closed = c.closed /\ e.bound = Without(c.bound, gone)
  BY LoseKeeps
<1>3. \A x \in DOMAIN e.bound : e.bound[x] # s
  <2> HIDE DEF e
  <2>1. QED
    BY <1>2 DEF Without
<1> HIDE DEF e, s
<1>4. s \in DOMAIN e.scopes
  BY <1>1, <1>2
<1>5. /\ CoreInv(d) /\ Grows(e.scopes, d.scopes) /\ d.closed = e.closed
      /\ s \in DOMAIN d.scopes /\ d.scopes[s].revision = e.scopes[s].revision /\ d.scopes[s].retired
  BY <1>2, <1>3, <1>4, RetireKeeps
<1> HIDE DEF d
<1>6. Delete(c, q).core = d
  BY <1>1 DEF Answer
<1>7. QED
  BY <1>1, <1>2, <1>5, <1>6 DEF Recorded, s

\* restore_managed_checkpoint rebuilds from a checkpoint a core that exports
\* the same checkpoint.
LEMMA RestoredCore ==
  ASSUME NEW cp, IsCheckpoint(cp), Restorable(cp)
  PROVE  CoreInv(Restored(cp)) /\ Export(Restored(cp)) = cp /\ Restored(cp).scopes = cp.scopes
<1> DEFINE d == Restored(cp)
           started(t) == Installed(Configured(cp.scopes[t].revision, cp.scopes[t].ccu, cp.scopes[t].rate),
                                   DOMAIN cp.scopes[t].spatial)
<1>1. /\ IsCore(d) /\ d.scopes = cp.scopes /\ d.closed = cp.closed /\ d.bound = Nothing
      /\ d.grants = Nothing /\ d.live = [t \in LiveScopes(cp) |-> started(t)]
  BY DEF IsCore, Restored, FreshCore
<1> HIDE DEF d
<1>2. Export(d) = cp
  BY <1>1 DEF Export, IsCheckpoint
<1>3. ASSUME NEW t \in LiveScopes(cp)
      PROVE  /\ IsSession(started(t)) /\ started(t).revision = cp.scopes[t].revision
             /\ started(t).target = cp.scopes[t].ccu /\ started(t).rate = cp.scopes[t].rate
             /\ started(t).spaces = SystemSpaces \cup DOMAIN cp.scopes[t].spatial
             /\ cp.scopes[t].revision \in Nat
  BY <1>3 DEF Installed, Configured, IsSession, LiveScopes, IsCheckpoint, IsScope
<1>4. DOMAIN Nothing = {} /\ Nothing = [x \in DOMAIN Nothing |-> Nothing[x]]
  BY DEF Nothing
<1> HIDE DEF started
<1>5. /\ DOMAIN d.live = LiveScopes(cp) /\ \A t \in DOMAIN d.live : d.live[t] = started(t)
      /\ d.live = [t \in DOMAIN d.live |-> d.live[t]]
  BY <1>1
<1>6. CoreType(d)
  BY <1>1, <1>2, <1>3, <1>4, <1>5 DEF CoreType, PerClient
<1>7. LiveMatches(d) /\ ControllerFollows(d)
  BY <1>1, <1>2, <1>3, <1>4, <1>5 DEF LiveMatches, ControllerFollows
<1>8. QED
  BY <1>1, <1>2, <1>6, <1>7 DEF CoreInv, d

\* The core before anything is restored.
LEMMA FreshCoreInv == CoreInv(FreshCore)
<1> DEFINE cp == [closed |-> 0, scopes |-> Nothing]
<1>1. DOMAIN Nothing = {} /\ Nothing = [x \in DOMAIN Nothing |-> Nothing[x]]
  BY DEF Nothing
<1>2. IsFiniteSet(DOMAIN Nothing) /\ Cardinality(DOMAIN Nothing) = 0
  BY <1>1, FS_EmptySet
<1>3. /\ IsCore(FreshCore) /\ Export(FreshCore) = cp /\ FreshCore.live = Nothing
      /\ FreshCore.bound = Nothing /\ FreshCore.grants = Nothing /\ FreshCore.scopes = Nothing
  BY DEF FreshCore, Export, IsCore
<1>4. IsCheckpoint(cp) /\ LiveScopes(cp) = {}
  <2>1. cp \in [closed : Nat, scopes : {cp.scopes}] /\ cp.scopes = Nothing
    OBVIOUS
  <2>2. QED
    BY <1>1, <1>2, <2>1 DEF IsCheckpoint, LiveScopes
<1>5. Restorable(cp)
  BY <1>1, <1>2, <1>4, ManagedAssumption DEF Restorable
<1> HIDE DEF cp
<1>6. CoreType(FreshCore) /\ LiveMatches(FreshCore) /\ ControllerFollows(FreshCore)
  BY <1>1, <1>3, <1>4 DEF CoreType, LiveMatches, ControllerFollows, PerClient
<1>7. QED
  BY <1>3, <1>5, <1>6 DEF CoreInv

\* ManagedState::authenticate binds a connection to a live scope.
LEMMA AuthenticateKeeps ==
  ASSUME NEW c, CoreInv(c), NEW x \in Clients, NEW v, NEW s \in ScopesOf(c, v)
  PROVE  CoreInv(Authenticate(c, x, s)) /\ Export(Authenticate(c, x, s)) = Export(c)
<1> DEFINE d == Authenticate(c, x, s)
           spaces == SystemSpaces \cup DOMAIN c.scopes[s].spatial
<1>1. CoreType(c) /\ Restorable(Export(c)) /\ LiveMatches(c) /\ ControllerFollows(c)
  BY DEF CoreInv
<1>2. /\ IsCore(d) /\ d.scopes = c.scopes /\ d.live = c.live /\ d.closed = c.closed
      /\ d.bound = Assign(c.bound, x, s) /\ d.grants = Assign(c.grants, x, spaces)
  <2> HIDE DEF spaces
  <2>1. IsCore(c)
    BY <1>1 DEF CoreType
  <2>2. QED
    BY <2>1 DEF IsCore, Authenticate, spaces
<1>3. s \in DOMAIN c.live /\ spaces = c.live[s].spaces
  BY <1>1 DEF ScopesOf, LiveMatches, LiveScopes, Export
<1> HIDE DEF d, spaces
<1>4. Export(d) = Export(c)
  BY <1>2 DEF Export
<1>5. DOMAIN c.grants = DOMAIN c.bound
  BY <1>1 DEF CoreType, PerClient
<1>6. /\ DOMAIN d.bound = DOMAIN c.bound \cup {x} /\ d.bound = [y \in DOMAIN d.bound |-> d.bound[y]]
      /\ \A y \in DOMAIN d.bound : d.bound[y] = IF y = x THEN s ELSE c.bound[y]
  BY <1>2 DEF Assign
<1>7. /\ PerClient(d.bound, d.grants)
      /\ \A y \in DOMAIN d.bound : d.grants[y] = IF y = x THEN spaces ELSE c.grants[y]
  BY <1>2, <1>5, <1>6 DEF Assign, PerClient
<1>8. CoreType(d)
  BY <1>1, <1>2, <1>4, <1>6, <1>7 DEF CoreType
<1>9. LiveMatches(d) /\ ControllerFollows(d)
  <2>1. ASSUME NEW y \in DOMAIN d.bound
        PROVE  d.bound[y] \in DOMAIN d.live /\ d.grants[y] = d.live[d.bound[y]].spaces
    BY <1>1, <1>2, <1>3, <1>6, <1>7, <2>1 DEF LiveMatches
  <2>2. QED
    BY <1>1, <1>2, <1>4, <2>1 DEF LiveMatches, ControllerFollows
<1>10. QED
  BY <1>1, <1>4, <1>8, <1>9 DEF CoreInv, d

\* manage_at: a request that succeeds keeps the core's invariant, changes one
\* scope at most, and succeeds again with no effect on what it left and on what
\* is restored from the checkpoint of it.
LEMMA ManageKeeps ==
  ASSUME NEW c, CoreInv(c), NEW q \in Requests, Manage(c, q).reply = "ok"
  PROVE  LET d == Manage(c, q).core
         IN  /\ CoreInv(d) /\ Grows(c.scopes, d.scopes) /\ d.closed = c.closed
             /\ Recorded(d.scopes, q) /\ Manage(c, q) = Answer("ok", d)
             /\ \A x : CoreInv(x) /\ x.scopes = d.scopes => Manage(x, q) = Answer("ok", x)
<1>1. /\ q.op \in {"put", "patch", "put_space", "delete"} /\ q.revision > 0 /\ q.revision \in Nat
      /\ q.op \in {"put", "patch"} => q.ccu \in Nat
  BY RequestFields
<1>2. MaxCcu \in Nat
  BY ManagedAssumption
<1>3. q.revision # 0 /\ (q.op \in {"put", "patch"} => q.ccu <= MaxCcu)
  BY <1>1, <1>2 DEF Manage, Answer
<1>4. CASE q.op = "put"
  <2>1. \A x : Manage(x, q) = Put(x, q)
    BY <1>1, <1>2, <1>3, <1>4 DEF Manage
  <2>2. Put(c, q).reply = "ok"
    BY <2>1
  <2>3. Put(c, q) = Answer("ok", Put(c, q).core)
    BY <2>2 DEF Put, Answer
  <2> DEFINE d == Put(c, q).core
  <2>4. /\ CoreInv(d) /\ Grows(c.scopes, d.scopes) /\ d.closed = c.closed /\ Recorded(d.scopes, q)
        /\ \A x : x.scopes = d.scopes => Put(x, q) = Answer("ok", x)
    BY <1>3, <1>4, <2>2, PutKeeps
  <2>5. QED
    BY <2>1, <2>3, <2>4
<1>5. CASE q.op = "patch"
  <2>1. \A x : Manage(x, q) = Patch(x, q)
    BY <1>1, <1>2, <1>3, <1>5 DEF Manage
  <2>2. Patch(c, q).reply = "ok"
    BY <2>1
  <2>3. Patch(c, q) = Answer("ok", Patch(c, q).core)
    BY <2>2 DEF Patch, Answer
  <2> DEFINE d == Patch(c, q).core
  <2>4. /\ CoreInv(d) /\ Grows(c.scopes, d.scopes) /\ d.closed = c.closed /\ Recorded(d.scopes, q)
        /\ \A x : x.scopes = d.scopes => Patch(x, q) = Answer("ok", x)
    BY <1>3, <1>5, <2>2, PatchKeeps
  <2>5. QED
    BY <2>1, <2>3, <2>4
<1>6. CASE q.op = "put_space"
  <2>1. \A x : Manage(x, q) = PutSpace(x, q)
    BY <1>1, <1>2, <1>3, <1>6 DEF Manage
  <2>2. PutSpace(c, q).reply = "ok"
    BY <2>1
  <2>3. PutSpace(c, q) = Answer("ok", PutSpace(c, q).core)
    BY <2>2 DEF PutSpace, Answer
  <2> DEFINE d == PutSpace(c, q).core
  <2>4. /\ CoreInv(d) /\ Grows(c.scopes, d.scopes) /\ d.closed = c.closed /\ Recorded(d.scopes, q)
        /\ \A x : x.scopes = d.scopes => PutSpace(x, q) = Answer("ok", x)
    BY <1>3, <1>6, <2>2, PutSpaceKeeps
  <2>5. QED
    BY <2>1, <2>3, <2>4
<1>7. CASE q.op = "delete"
  <2>1. \A x : Manage(x, q) = Delete(x, q)
    BY <1>1, <1>2, <1>3, <1>7 DEF Manage
  <2>2. Delete(c, q).reply = "ok"
    BY <2>1
  <2>3. Delete(c, q) = Answer("ok", Delete(c, q).core)
    BY <2>2 DEF Delete, Answer
  <2> DEFINE d == Delete(c, q).core
  <2>4. CoreInv(d) /\ Grows(c.scopes, d.scopes) /\ d.closed = c.closed /\ Recorded(d.scopes, q)
    BY <1>7, <2>2, DeleteKeeps
  <2>5. ASSUME NEW x, CoreInv(x), x.scopes = d.scopes
        PROVE  Delete(x, q) = Answer("ok", x)
    <3> HIDE DEF d
    <3>1. Recorded(x.scopes, q)
      BY <2>4, <2>5
    <3>2. QED
      BY <1>7, <2>5, <3>1, DeleteAgain
  <2>6. QED
    BY <2>1, <2>3, <2>4, <2>5
<1>8. QED
  BY <1>1, <1>4, <1>5, <1>6, <1>7
=============================================================================
