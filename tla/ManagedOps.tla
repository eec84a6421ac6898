----------------------------- MODULE ManagedOps -----------------------------
(***************************************************************************)
(* The managed scopes of WovenCore (crates/woven-core/src/managed.rs) as a *)
(* record, the trusted requests that change them, the checkpoint exported  *)
(* from them and its restoration (managed_checkpoint.rs).                  *)
(*                                                                         *)
(* A credential is named by its verifier.  Of a space descriptor its id    *)
(* and its shape are kept; of a session what managed configuration sets:   *)
(* the admission target, the publish ceiling and the installed spaces.     *)
(***************************************************************************)
EXTENDS Naturals, FiniteSets

CONSTANTS
  Sessions,         \* SessionKey: pairs <<namespace, session>> of positive numbers
  Verifiers,        \* digests of client tokens
  AdminVerifier,    \* the digest of the admin credential
  SpatialIds,       \* SpaceId of managed spatial spaces, all above 2
  Shapes,           \* the rest of a valid spatial descriptor
  Clients,          \* ConnectionId of the clients of the node
  Ccus,             \* allocated_ccu
  Rates,            \* tick_rate_hz
  MaxRevision,      \* u64::MAX for revision
  MaxCcu,           \* min(MAX_MANAGED_CCU, max_connections)
  MaxScopes,        \* min(MAX_MANAGED_SCOPES, max_sessions)
  MaxHistory,       \* MAX_MANAGED_HISTORY
  MaxSpatial        \* MAX_MANAGED_SPATIAL_SPACES

ASSUME ManagedAssumption ==
  /\ Sessions \subseteq (Nat \ {0}) \X (Nat \ {0})
  /\ SpatialIds \cap (0..2) = {}
  /\ Ccus \subseteq Nat /\ Rates \subseteq Nat \ {0}
  /\ {MaxRevision, MaxCcu, MaxScopes, MaxHistory, MaxSpatial} \subseteq Nat

Unlimited    == 0          \* tick_rate_hz = None
SystemSpaces == {1, 2}     \* MANAGED_SYSTEM_SPACE_COUNT

Revisions == 1..MaxRevision
TickRates == Rates \cup {Unlimited}

\* ManagedMutation: the last request itself, not what it resolved to.
MigrationBaseline        == [kind |-> "baseline"]
Provision                == [kind |-> "provision"]
Configuration(ccu, rate) == [kind |-> "configuration", ccu |-> ccu, rate |-> rate]
Space(id)                == [kind |-> "space", id |-> id]

Mutation ==
  [kind : {"baseline", "provision"}]
    \cup
  [kind : {"configuration"}, ccu : Nat, rate : Nat]
    \cup
  [kind : {"space"}, id : SpatialIds]

\* ManagedCheckpointScope as it is decoded: nothing of it has been validated.
IsScope(sc) ==
  /\ sc \in [verifier : Verifiers \cup {AdminVerifier}, revision : Nat, last : Mutation, ccu : Nat,
             rate : Nat, spatial : {sc.spatial}, retired : BOOLEAN]
  /\ sc.spatial \in [DOMAIN sc.spatial -> Shapes]
  /\ DOMAIN sc.spatial \subseteq SpatialIds /\ IsFiniteSet(DOMAIN sc.spatial)

\* ManagedCheckpoint
IsCheckpoint(cp) ==
  /\ cp \in [closed : Nat, scopes : {cp.scopes}]
  /\ cp.scopes = [s \in DOMAIN cp.scopes |-> cp.scopes[s]]
  /\ DOMAIN cp.scopes \subseteq Sessions /\ IsFiniteSet(DOMAIN cp.scopes)
  /\ \A s \in DOMAIN cp.scopes : IsScope(cp.scopes[s])

\* ManagedRequest; the fields an operation does not carry are left out.
Requests ==
  [op : {"put"}, session : Sessions, revision : Revisions, ccu : Ccus, rate : TickRates,
   verifier : Verifiers]
    \cup
  [op : {"patch"}, session : Sessions, revision : Revisions, ccu : Ccus, rate : TickRates]
    \cup
  [op : {"put_space"}, session : Sessions, revision : Revisions, id : SpatialIds, shape : Shapes]
    \cup
  [op : {"delete"}, session : Sessions, revision : Revisions]

Nothing == [x \in {} |-> 0]
Assign(f, x, v) == [y \in DOMAIN f \cup {x} |-> IF y = x THEN v ELSE f[y]]
Without(f, S)   == [y \in DOMAIN f \ S |-> f[y]]

\* ManagedState after enable_managed on an empty core.  closed is the
\* baseline's closed_scope_through, 0 for a checkpoint without a baseline.
FreshCore ==
  [scopes |-> Nothing, live |-> Nothing, bound |-> Nothing, grants |-> Nothing, closed |-> 0]

Answer(reply, core) == [reply |-> reply, core |-> core]

\* The closed history of a migration baseline.
ClosedScope(core, s) == s[1] <= core.closed \/ s[2] <= core.closed

\* configure_managed_session: the system spaces, the ceiling, the admission target.
Configured(revision, ccu, rate) ==
  [revision |-> revision, target |-> ccu, rate |-> rate, spaces |-> SystemSpaces]

\* install_space on a managed session, for every space of ids. Its refusals are ruled
\* out here: the callers have checked the id and the number of spatial spaces,
\* enable_managed that the core has room for them all, and managed spaces have no
\* parent and are never removed one by one.
Installed(session, ids) == [session EXCEPT !.spaces = @ \cup ids]

-----------------------------------------------------------------------------
\* managed_put

\* (mutant of Put) Only the verifiers of live scopes are held against a new one.
PutForgettingRetired(core, q) ==
  IF \/ q.session \in DOMAIN core.scopes
     \/ ClosedScope(core, q.session)
     \/ q.verifier \in {core.scopes[s].verifier : s \in {t \in DOMAIN core.scopes : ~core.scopes[t].retired}}
     \/ Cardinality(DOMAIN core.live) >= MaxScopes
  THEN Answer("refused", core)
  ELSE Answer("ok", [core EXCEPT
         !.live   = Assign(@, q.session, Configured(q.revision, q.ccu, q.rate)),
         !.scopes = Assign(@, q.session,
            [verifier |-> q.verifier, revision |-> q.revision, last |-> Provision, ccu |-> q.ccu,
             rate |-> q.rate, spatial |-> Nothing, retired |-> FALSE])])

Put(core, q) ==
  IF q.session \in DOMAIN core.scopes
  THEN LET sc == core.scopes[q.session]
       IN  IF sc.retired THEN Answer("scope_retired", core)
           ELSE IF \/ sc.last = MigrationBaseline
                   \/ sc.revision # q.revision
                   \/ sc.ccu # q.ccu
                   \/ sc.rate # q.rate
                   \/ sc.verifier # q.verifier
           THEN Answer("revision_conflict", core)
           ELSE Answer("ok", core)
  ELSE IF ClosedScope(core, q.session) THEN Answer("scope_retired", core)
  ELSE IF \/ q.verifier = AdminVerifier
          \/ \E s \in DOMAIN core.scopes : core.scopes[s].verifier = q.verifier
  THEN Answer("token_conflict", core)
  ELSE IF \/ Cardinality(DOMAIN core.scopes) >= MaxHistory
          \/ Cardinality(DOMAIN core.live) >= MaxScopes
  THEN Answer("capacity_exhausted", core)
  ELSE Answer("ok", [core EXCEPT
         !.live   = Assign(@, q.session, Configured(q.revision, q.ccu, q.rate)),
         !.scopes = Assign(@, q.session,
            [verifier |-> q.verifier, revision |-> q.revision, last |-> Provision, ccu |-> q.ccu,
             rate |-> q.rate, spatial |-> Nothing, retired |-> FALSE])])

\* (mutant of Patch) The resolved configuration is recorded as the request.
PatchRecordingResolved(core, q) ==
  LET sc == core.scopes[q.session]
      resolved == IF q.rate = Unlimited THEN sc.rate ELSE q.rate
      mutation == Configuration(q.ccu, q.rate)
  IN  IF q.session \notin DOMAIN core.scopes THEN Answer("scope_not_found", core)
      ELSE IF sc.retired THEN Answer("scope_retired", core)
      ELSE IF q.revision = sc.revision
      THEN Answer(IF sc.last = mutation THEN "ok" ELSE "revision_conflict", core)
      ELSE IF q.revision < sc.revision THEN Answer("revision_conflict", core)
      ELSE Answer("ok", [core EXCEPT
             !.live   = Assign(@, q.session,
                [@[q.session] EXCEPT !.revision = q.revision, !.target = q.ccu, !.rate = resolved]),
             !.scopes = Assign(@, q.session,
                [sc EXCEPT !.revision = q.revision, !.last = Configuration(q.ccu, resolved),
                           !.ccu = q.ccu, !.rate = resolved])])

\* apply_session_capacity_at: the controller ignores a revision it has passed.
Retarget(session, revision, ccu) ==
  IF revision <= session.revision THEN session
  ELSE [session EXCEPT !.revision = revision, !.target = ccu]

\* managed_patch
Patch(core, q) ==
  LET sc == core.scopes[q.session]
      mutation == Configuration(q.ccu, q.rate)
      resolved == IF q.rate = Unlimited THEN sc.rate ELSE q.rate
  IN  IF q.session \notin DOMAIN core.scopes THEN Answer("scope_not_found", core)
      ELSE IF sc.retired THEN Answer("scope_retired", core)
      ELSE IF q.revision = sc.revision
      THEN Answer(IF sc.last = mutation THEN "ok" ELSE "revision_conflict", core)
      ELSE IF \/ q.revision < sc.revision
              \/ sc.last = MigrationBaseline /\ q.revision # sc.revision + 1
      THEN Answer("revision_conflict", core)
      ELSE IF q.session \notin DOMAIN core.live THEN Answer("scope_not_found", core)
      ELSE Answer("ok", [core EXCEPT
             !.live   = Assign(@, q.session,
                [Retarget(@[q.session], q.revision, q.ccu) EXCEPT !.rate = resolved]),
             !.scopes = Assign(@, q.session,
                [sc EXCEPT !.revision = q.revision, !.last = mutation, !.ccu = q.ccu,
                           !.rate = resolved])])

\* (mutant of PutSpace) Connections already authenticated keep their grants.
PutSpaceWithoutGrants(core, q) ==
  LET sc == core.scopes[q.session]
  IN  IF \/ q.session \notin DOMAIN core.scopes
         \/ sc.retired
         \/ q.revision # sc.revision + 1
         \/ q.id \in DOMAIN sc.spatial
         \/ Cardinality(DOMAIN sc.spatial) = MaxSpatial
      THEN Answer("refused", core)
      ELSE Answer("ok", [core EXCEPT
             !.live   = Assign(@, q.session, Installed(@[q.session], {q.id})),
             !.scopes = Assign(@, q.session,
                [sc EXCEPT !.revision = q.revision, !.last = Space(q.id),
                           !.spatial = Assign(@, q.id, q.shape)])])

\* managed_put_space
PutSpace(core, q) ==
  LET sc == core.scopes[q.session]
  IN  IF q.session \notin DOMAIN core.scopes THEN Answer("scope_not_found", core)
      ELSE IF sc.retired THEN Answer("scope_retired", core)
      ELSE IF q.revision = sc.revision
      THEN Answer(IF /\ sc.last = Space(q.id)
                     /\ q.id \in DOMAIN sc.spatial
                     /\ sc.spatial[q.id] = q.shape
                  THEN "ok" ELSE "revision_conflict", core)
      ELSE IF q.revision # sc.revision + 1 \/ q.id \in DOMAIN sc.spatial
      THEN Answer("revision_conflict", core)
      ELSE IF Cardinality(DOMAIN sc.spatial) = MaxSpatial
      THEN Answer("space_capacity_exhausted", core)
      ELSE Answer("ok", [core EXCEPT
             !.live   = Assign(@, q.session, Installed(@[q.session], {q.id})),
             !.grants = [c \in DOMAIN @ |->
                           IF core.bound[c] = q.session THEN @[c] \cup {q.id} ELSE @[c]],
             !.scopes = Assign(@, q.session,
                [sc EXCEPT !.revision = q.revision, !.last = Space(q.id),
                           !.spatial = Assign(@, q.id, q.shape)])])

\* transport_lost for every connection of S.
Lose(core, S) == [core EXCEPT !.bound = Without(@, S), !.grants = Without(@, S)]

\* manage_at, ManagedRequest::Delete: a retired scope can be deleted again.
Delete(core, q) ==
  IF q.session \notin DOMAIN core.scopes THEN Answer("scope_not_found", core)
  ELSE IF q.revision # core.scopes[q.session].revision THEN Answer("revision_conflict", core)
  ELSE LET connections == {c \in DOMAIN core.bound : core.bound[c] = q.session}
       IN  Answer("ok", [Lose(core, connections) EXCEPT
             !.scopes = Assign(@, q.session, [@[q.session] EXCEPT !.retired = TRUE]),
             !.live = Without(@, {q.session})])

\* manage_at, with validate_managed_update and managed_publish_rate_limit.
Manage(core, q) ==
  IF \/ q.revision = 0
     \/ q.op \in {"put", "patch"} /\ q.ccu > MaxCcu
  THEN Answer("invalid_request", core)
  ELSE CASE q.op = "put"       -> Put(core, q)
         [] q.op = "patch"     -> Patch(core, q)
         [] q.op = "put_space" -> PutSpace(core, q)
         [] q.op = "delete"    -> Delete(core, q)

\* ManagedState::authenticate: the live scope with this verifier.
ScopesOf(core, verifier) ==
  {s \in DOMAIN core.scopes : ~core.scopes[s].retired /\ core.scopes[s].verifier = verifier}

Authenticate(core, c, s) ==
  [core EXCEPT !.bound  = Assign(@, c, s),
               !.grants = Assign(@, c, SystemSpaces \cup DOMAIN core.scopes[s].spatial)]

-----------------------------------------------------------------------------
\* export_managed_checkpoint: configuration and tombstones, never live state.
Export(core) == [closed |-> core.closed, scopes |-> core.scopes]

\* Whether the scope lies in the closed history of the checkpoint's baseline.
Historical(cp, s) == s[1] <= cp.closed /\ s[2] <= cp.closed

\* ManagedCheckpointScope::into_scope
ValidScope(sc, historical) ==
  LET spaces == Cardinality(DOMAIN sc.spatial)
  IN  /\ spaces <= MaxSpatial
      /\ historical \/ sc.revision > spaces
      /\ CASE sc.last.kind = "baseline"      -> historical
           [] sc.last.kind = "provision"     -> spaces = 0
           [] sc.last.kind = "configuration" ->
                /\ sc.revision >= 2
                /\ historical \/ sc.revision > spaces + 1
                /\ sc.last.ccu = sc.ccu
                /\ sc.last.rate = Unlimited \/ sc.last.rate = sc.rate
           [] sc.last.kind = "space" -> sc.revision >= 2 /\ sc.last.id \in DOMAIN sc.spatial

LiveScopes(cp) == {s \in DOMAIN cp.scopes : ~cp.scopes[s].retired}

\* The validation of restore_managed_checkpoint.
Restorable(cp) ==
  /\ Cardinality(DOMAIN cp.scopes) <= MaxHistory
  /\ \A s \in DOMAIN cp.scopes :
       /\ cp.scopes[s].revision > 0
       /\ cp.scopes[s].ccu <= MaxCcu
       /\ (s[1] <= cp.closed) = (s[2] <= cp.closed)
       /\ ValidScope(cp.scopes[s], Historical(cp, s))
       /\ cp.scopes[s].verifier # AdminVerifier
       /\ \A t \in DOMAIN cp.scopes \ {s} : cp.scopes[t].verifier # cp.scopes[s].verifier
  /\ Cardinality(LiveScopes(cp)) <= MaxScopes

\* Its effect on the empty core: live scopes are provisioned and their spaces
\* installed; occupancy, connections and grants start empty.
Restored(cp) ==
  [FreshCore EXCEPT
    !.scopes = cp.scopes, !.closed = cp.closed,
    !.live = [s \in LiveScopes(cp) |->
      LET sc == cp.scopes[s]
      IN  Installed(Configured(sc.revision, sc.ccu, sc.rate), DOMAIN sc.spatial)]]
=============================================================================
