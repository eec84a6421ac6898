------------------------------ MODULE SpaceOps ------------------------------
(***************************************************************************)
(* The spaces, entities and subscriptions of one session of WovenCore      *)
(* (crates/woven-core/src/core.rs) as a record, and what the core's        *)
(* handlers do to it.  The record holds the session's side and the         *)
(* connections' side of every relation, as the code does.                  *)
(*                                                                         *)
(* Positions lie on one axis and a cell is CellSize wide: one coordinate   *)
(* of the 2D and 3D grids, which treat theirs alike.  Of published data    *)
(* only the keys under which it is kept are told apart.                    *)
(***************************************************************************)
EXTENDS Integers, FiniteSets

CONSTANTS
  Connections,        \* ConnectionId
  Spaces,             \* SpaceId
  Gridded,            \* the spaces with a spatial grid; the others broadcast
  CellSize,           \* RoutingPolicy::SpatialGrid: cell_size
  Radius,             \*   interest_radius
  ExactDistance,      \*   exact_distance
  Positions,          \* the coordinates entities are placed at
  MaxEntity           \* u64::MAX for next_entity_id

ASSUME SpaceAssumption ==
  /\ Gridded \subseteq Spaces
  /\ CellSize \in Nat \ {0} /\ Radius \in Nat \ {0} /\ ExactDistance \in BOOLEAN
  /\ Positions \subseteq Int
  /\ MaxEntity \in Nat

NoSpace  == "none"       \* SpaceDescriptor.parent = None
NoEntity == 0            \* a message about no entity; entity ids start at 1
Nowhere  == {}           \* EntityRecord.position = None; Some(x) is {x}

Entities == 1..MaxEntity

\* SpaceDescriptor: the parent and the anchor are set or absent together.
Descriptor == [epoch : Nat, parent : Spaces \cup {NoSpace}, anchor : Entities \cup {NoEntity}]

EntityRecord == [owner : Connections, space : Spaces, epoch : Nat, at : SUBSET Positions]

\* SpatialCellKey
CellKey == Spaces \X Nat \X Int

\* The key of published data: (space, space_epoch, entity) of a CacheKey, a
\* SequenceKey or an OutboundMessage.
DataKey == [space : Spaces, epoch : Nat, entity : Entities \cup {NoEntity}]

Worlds(w) ==
  /\ w \in [up          : SUBSET Connections,             \* WovenCore.connections
            member      : SUBSET Connections,             \* ConnectionState.memberships
            members     : SUBSET Connections,             \* SessionState.members
            subs        : [Connections -> SUBSET Spaces], \* ConnectionState.subscriptions
            subscribers : [DOMAIN w.subscribers -> SUBSET Connections],
            owned       : [Connections -> Nat],           \* owned_entities
            spaces      : [DOMAIN w.spaces -> Descriptor],
            tombs       : [DOMAIN w.tombs -> Nat],        \* space_epoch_tombstones
            ents        : [DOMAIN w.ents -> EntityRecord],
            cellOf      : [DOMAIN w.cellOf -> CellKey],   \* entity_cells
            cells       : [DOMAIN w.cells -> SUBSET Entities], \* cell_entities
            state       : SUBSET DataKey,                 \* keys of state
            seqs        : SUBSET (Connections \X DataKey),\* keys of sequences
            queued      : [Connections -> SUBSET DataKey],\* outbound
            nextEntity  : Nat \ {0}]
  /\ DOMAIN w.subscribers \cup DOMAIN w.spaces \cup DOMAIN w.tombs \subseteq Spaces
  /\ DOMAIN w.ents \cup DOMAIN w.cellOf \subseteq Entities
  /\ DOMAIN w.cells \subseteq CellKey

Empty == [x \in {} |-> 0]

NewWorld ==
  [up |-> {}, member |-> {}, members |-> {}, subs |-> [c \in Connections |-> {}],
   subscribers |-> Empty, owned |-> [c \in Connections |-> 0], spaces |-> Empty,
   tombs |-> Empty, ents |-> Empty, cellOf |-> Empty, cells |-> Empty, state |-> {},
   seqs |-> {}, queued |-> [c \in Connections |-> {}], nextEntity |-> 1]

Put(f, x, v) == [y \in DOMAIN f \cup {x} |-> IF y = x THEN v ELSE f[y]]
Drop(f, S)   == [y \in DOMAIN f \ S |-> f[y]]

-----------------------------------------------------------------------------
\* remove_entity_from_cell, for every entity of E.
LeaveCells(w, E) ==
  LET left(k) == w.cells[k] \ {e \in E \cap DOMAIN w.cellOf : w.cellOf[e] = k}
  IN  [w EXCEPT !.cellOf = Drop(@, E),
                !.cells  = [k \in {j \in DOMAIN @ : left(j) # {}} |-> left(k)]]

\* insert_entity_into_cell
EnterCell(w, e, k) ==
  [w EXCEPT !.cellOf = Put(@, e, k),
            !.cells  = Put(@, k, (IF k \in DOMAIN @ THEN @[k] ELSE {}) \cup {e})]

\* spatial_cell_for with grid_coordinate: the cells of a broadcast space are
\* not indexed.
PlaceEntity(w, e, x) ==
  LET r     == w.ents[e]
      k     == <<r.space, r.epoch, x \div CellSize>>
      moved == IF r.space \notin Gridded THEN LeaveCells(w, {e})
               ELSE IF e \in DOMAIN w.cellOf /\ w.cellOf[e] = k THEN w
               ELSE EnterCell(LeaveCells(w, {e}), e, k)
  IN  [moved EXCEPT !.ents = Put(@, e, [r EXCEPT !.at = {x}])]

-----------------------------------------------------------------------------
\* (mutant of Closed) A nested space goes with its anchor only.
ClosedByAnchor(w, E) ==
  {S \in SUBSET DOMAIN w.spaces :
     \A s \in DOMAIN w.spaces :
       LET d == w.spaces[s]
       IN  /\ d.parent # NoSpace
           /\ \/ d.anchor \in E
              \/ d.anchor \in DOMAIN w.ents /\ w.ents[d.anchor].space \in S
           => s \in S}

\* The sets of spaces that the loop of remove_entities_and_anchored_spaces
\* cannot leave once the entities E go: those closed under "anchored to an
\* entity that goes, or nested in a space that goes".
Closed(w, E) ==
  {S \in SUBSET DOMAIN w.spaces :
     \A s \in DOMAIN w.spaces :
       LET d == w.spaces[s]
       IN  /\ d.parent # NoSpace
           /\ \/ d.anchor \in E
              \/ d.anchor \in DOMAIN w.ents /\ w.ents[d.anchor].space \in S
              \/ d.parent \in S
           => s \in S}

\* The spaces that go with the entities E, and below all the entities that go.
DoomedSpaces(w, E) == {s \in DOMAIN w.spaces : \A S \in Closed(w, E) : s \in S}

DoomedEntities(w, E) ==
  E \cup {e \in DOMAIN w.ents : w.ents[e].space \in DoomedSpaces(w, E)}

\* The data that is not about a space of S or an entity of E.
NotAbout(K, S, E) == {k \in K : k.space \notin S /\ k.entity \notin E}
SeqsNotAbout(Q, S, E) == {q \in Q : q[2].space \notin S /\ q[2].entity \notin E}

\* remove_entities_and_anchored_spaces
Cascade(w, E) ==
  LET S    == DoomedSpaces(w, E)
      D    == DoomedEntities(w, E)
      Lost(c) == Cardinality({e \in D \cap DOMAIN w.ents : w.ents[e].owner = c})
  IN  [LeaveCells(w, D) EXCEPT
        !.ents        = Drop(@, D),
        !.spaces      = Drop(@, S),
        !.tombs       = [s \in DOMAIN @ \cup S |->
                           IF s \in S THEN w.spaces[s].epoch ELSE @[s]],
        !.subscribers = Drop(@, S),
        !.state       = NotAbout(@, S, D),
        !.seqs        = SeqsNotAbout(@, S, D),
        !.owned       = [c \in Connections |->
                           IF @[c] < Lost(c) THEN 0 ELSE @[c] - Lost(c)],
        !.subs        = [c \in Connections |-> @[c] \ S],
        !.queued      = [c \in Connections |-> NotAbout(@[c], S, D)]]

\* detach_connection_from_session, of every connection of C.
Detach(w, C) ==
  LET v == Cascade(w, {e \in DOMAIN w.ents : w.ents[e].owner \in C})
  IN  [v EXCEPT
        !.members     = @ \ C,
        !.subscribers = [s \in DOMAIN @ |-> @[s] \ C],
        !.seqs        = {k \in @ : k[1] \notin C},
        !.member      = @ \ C,
        !.subs        = [c \in Connections |-> IF c \in C THEN {} ELSE @[c]],
        !.queued      = [c \in Connections |-> IF c \in C THEN {} ELSE @[c]]]

\* transport_lost, of every connection of C: a member is detached first, and
\* the ConnectionState is dropped.  What goes with several connections is the
\* same in whichever order they go.
Lose(w, C) ==
  LET v == Detach(w, C \cap w.member)
      gone(f, none) == [c \in Connections |-> IF c \in C THEN none ELSE f[c]]
  IN  [v EXCEPT !.up = @ \ C, !.subs = gone(@, {}), !.owned = gone(@, 0),
                !.queued = gone(@, {})]

-----------------------------------------------------------------------------
\* (mutant of CanInstall) A space may come back with the epoch it had.
CanInstallSameEpoch(w, s, d) ==
  /\ s \notin DOMAIN w.spaces
  /\ s \in DOMAIN w.tombs => d.epoch >= w.tombs[s]
  /\ d.parent # NoSpace =>
       /\ d.parent # s
       /\ d.parent \in DOMAIN w.spaces
       /\ d.anchor \in DOMAIN w.ents
       /\ w.ents[d.anchor].space = d.parent

\* install_space of a valid descriptor: the epoch of an id that was used
\* before must be above its tombstone, and an anchor must be in the parent.
CanInstall(w, s, d) ==
  /\ s \notin DOMAIN w.spaces
  /\ s \in DOMAIN w.tombs => d.epoch > w.tombs[s]
  /\ d.parent # NoSpace =>
       /\ d.parent # s
       /\ d.parent \in DOMAIN w.spaces
       /\ d.anchor \in DOMAIN w.ents
       /\ w.ents[d.anchor].space = d.parent

Install(w, s, d) ==
  [w EXCEPT !.tombs = Drop(@, {s}),
            !.subscribers = Put(@, s, {}),
            !.spaces = Put(@, s, d)]

\* advance_space_epoch: the space's entities go and all its data; an error is
\* returned when the space itself went with its entities.
Advance(w, s, epoch) ==
  LET v    == Cascade(w, {e \in DOMAIN w.ents : w.ents[e].space = s})
      u    == [v EXCEPT !.queued = [c \in Connections |-> NotAbout(@[c], {s}, {})]]
  IN  IF s \notin DOMAIN v.spaces THEN u
      ELSE [u EXCEPT !.spaces[s].epoch = epoch,
                     !.state  = NotAbout(@, {s}, {}),
                     !.seqs   = SeqsNotAbout(@, {s}, {})]

Subscribed(w, c, s) ==
  [w EXCEPT !.subs[c] = @ \cup {s},
            !.subscribers = Put(@, s, @[s] \cup {c})]

\* unsubscribe
Unsubscribed(w, c, s) ==
  IF s \notin w.subs[c] THEN w
  ELSE [w EXCEPT !.subs[c] = @ \ {s},
                 !.subscribers = [r \in DOMAIN @ |-> IF r = s THEN @[r] \ {c} ELSE @[r]],
                 !.queued[c] = NotAbout(@, {s}, {})]

\* spawn_entity
Spawn(w, c, s) ==
  [w EXCEPT !.ents = Put(@, w.nextEntity,
                       [owner |-> c, space |-> s, epoch |-> w.spaces[s].epoch, at |-> Nowhere]),
            !.owned[c] = @ + 1,
            !.nextEntity = @ + 1]

\* (mutant of Transition) What is queued about the entity in its old space stays.
TransitionKeepsQueued(w, e, dst) ==
  LET r    == w.ents[e]
      gone == {[space |-> r.space, epoch |-> r.epoch, entity |-> e]}
  IN  [LeaveCells(w, {e}) EXCEPT
        !.ents  = Put(@, e, [owner |-> r.owner, space |-> dst,
                             epoch |-> w.spaces[dst].epoch, at |-> Nowhere]),
        !.state = @ \ gone,
        !.seqs  = {k \in @ : k[2] \notin gone}]

\* transition_entity to a space other than its own
Transition(w, e, dst) ==
  LET r    == w.ents[e]
      gone == {[space |-> r.space, epoch |-> r.epoch, entity |-> e]}
  IN  [LeaveCells(w, {e}) EXCEPT
        !.ents   = Put(@, e, [owner |-> r.owner, space |-> dst,
                              epoch |-> w.spaces[dst].epoch, at |-> Nowhere]),
        !.state  = @ \ gone,
        !.seqs   = {k \in @ : k[2] \notin gone},
        !.queued = [c \in Connections |-> @[c] \ gone]]

-----------------------------------------------------------------------------
\* (mutant of RadiusInCells) The radius is rounded down.
RadiusInWholeCells == Radius \div CellSize

\* cells_are_near, for radius_in_cells = ceil(interest_radius / cell_size)
RadiusInCells == (Radius + CellSize - 1) \div CellSize

Within(x, y, r) == x - y <= r /\ y - x <= r

\* routing_recipients: critical messages and those of a broadcast space go to
\* every subscriber; the others, about an entity that has a cell, to the
\* subscribers that own an entity in a nearby cell and, if exact_distance is
\* set, within the radius.
Recipients(w, k, critical) ==
  IF critical \/ k.space \notin Gridded THEN w.subscribers[k.space]
  ELSE IF k.entity \notin DOMAIN w.cellOf THEN {}
  ELSE LET from == w.cellOf[k.entity]
           Reached(e) ==
             \E j \in DOMAIN w.cells :
               /\ j[1] = k.space /\ j[2] = k.epoch
               /\ Within(j[3], from[3], RadiusInCells)
               /\ e \in w.cells[j] \cap DOMAIN w.ents
               /\ ExactDistance =>
                    \E x \in w.ents[e].at, y \in w.ents[k.entity].at : Within(x, y, Radius)
       IN  IF from[1] # k.space \/ from[2] # k.epoch THEN {}
           ELSE w.subscribers[k.space] \cap {w.ents[e].owner : e \in {i \in DOMAIN w.ents : Reached(i)}}

-----------------------------------------------------------------------------

\* snapshot: what a member sees of the session, through its subscriptions.
Snapshot(w, c) ==
  LET visible == w.subs[c] \cap DOMAIN w.spaces
  IN  [spaces |-> [s \in visible |->
                     IF w.spaces[s].parent \in visible THEN w.spaces[s]
                     ELSE [w.spaces[s] EXCEPT !.parent = NoSpace, !.anchor = NoEntity]],
       ents   |-> {e \in DOMAIN w.ents : w.ents[e].space \in visible},
       state  |-> {k \in w.state : k.space \in visible}]

=============================================================================
