----------------------------- MODULE SpaceGraph -----------------------------
(***************************************************************************)
(* One session of WovenCore (crates/woven-core/src/core.rs): connections   *)
(* join, subscribe to spaces, spawn, place, move and remove entities and   *)
(* publish, while the server installs spaces and advances their epochs.    *)
(* The worker owns the core, so a command is one step; a command that      *)
(* returns an error and changes nothing is no step.                        *)
(***************************************************************************)
EXTENDS SpaceOps

CONSTANTS
  MaxSubscriptions,   \* CoreConfig
  MaxEntities,
  Scenarios           \* the other limits, and what is done: see Scenario

\* What may happen in a run: the limits of its CoreConfig, and bounds on who
\* connects, which spaces and epochs are proposed, where entities are placed and
\* what is published.
Scenario ==
  [maxSpaces      : Nat,
   maxSpaceIds    : Nat,    \* max_space_epoch_tombstones_per_session
   maxOwned       : Nat,
   maxEmissions   : Nat,    \* max_authority_emissions
   maxConnections : 0..Cardinality(Connections),
   spaces         : SUBSET Spaces,
   epochs         : SUBSET (Nat \ {0}),   \* SpaceDescriptor::validate refuses 0
   places         : SUBSET Positions,
   data           : SUBSET (Entities \cup {NoEntity})]

ASSUME LimitAssumption ==
  {MaxSubscriptions, MaxEntities} \subseteq Nat /\ Scenarios \subseteq Scenario

VARIABLES
  lim,      \* the scenario
  w,        \* the session and its connections
  fresh     \* the connection ids that have not been given out

vars == <<lim, w, fresh>>
unchanging == <<lim, fresh>>

Init == lim \in Scenarios /\ w = NewWorld /\ fresh = Connections

TransportConnected(c) ==
  /\ c \in fresh /\ Cardinality(Connections \ fresh) < lim.maxConnections
  /\ fresh' = fresh \ {c}
  /\ w' = [w EXCEPT !.up = @ \cup {c}]
  /\ UNCHANGED lim

\* join_session; grants, membership slots and admission are not in this module.
JoinSession(c) ==
  /\ c \in w.up
  /\ w' = [w EXCEPT !.member = @ \cup {c}, !.members = @ \cup {c}]
  /\ UNCHANGED unchanging

LeaveSession(c) ==
  /\ c \in w.member
  /\ w' = Detach(w, {c})
  /\ UNCHANGED unchanging

TransportLost(c) ==
  /\ c \in w.up
  /\ w' = Lose(w, {c})
  /\ UNCHANGED unchanging

InstallSpace(s, d) ==
  /\ CanInstall(w, s, d)
  /\ Cardinality(DOMAIN w.spaces) # lim.maxSpaces
  /\ s \notin DOMAIN w.tombs =>
       Cardinality(DOMAIN w.spaces) + Cardinality(DOMAIN w.tombs) # lim.maxSpaceIds
  /\ w' = Install(w, s, d)
  /\ UNCHANGED unchanging

AdvanceSpaceEpoch(s, epoch) ==
  /\ s \in DOMAIN w.spaces /\ epoch > w.spaces[s].epoch
  /\ w' = Advance(w, s, epoch)
  /\ UNCHANGED unchanging

Subscribe(c, s) ==
  /\ c \in w.member
  /\ s \notin w.subs[c] /\ Cardinality(w.subs[c]) # MaxSubscriptions
  /\ s \in DOMAIN w.spaces
  /\ w' = Subscribed(w, c, s)
  /\ UNCHANGED unchanging

Unsubscribe(c, s) ==
  /\ c \in w.up
  /\ w' = Unsubscribed(w, c, s)
  /\ UNCHANGED unchanging

SpawnEntity(c, s) ==
  /\ c \in w.member /\ s \in w.subs[c]
  /\ w.owned[c] # lim.maxOwned
  /\ s \in DOMAIN w.spaces
  /\ Cardinality(DOMAIN w.ents) # MaxEntities
  /\ w.nextEntity < MaxEntity
  /\ w' = Spawn(w, c, s)
  /\ UNCHANGED unchanging

UpdateEntityPosition(c, e, x) ==
  /\ c \in w.member
  /\ e \in DOMAIN w.ents /\ w.ents[e].owner = c
  /\ w.ents[e].space \in w.subs[c] \cap DOMAIN w.spaces
  /\ w' = PlaceEntity(w, e, x)
  /\ UNCHANGED unchanging

RemoveEntity(c, e) ==
  /\ c \in w.member
  /\ e \in DOMAIN w.ents /\ w.ents[e].owner = c
  /\ w' = Cascade(w, {e})
  /\ UNCHANGED unchanging

\* The epochs of the request are those of the two spaces, or it is refused.
TransitionEntity(c, e, dst) ==
  /\ c \in w.member
  /\ e \in DOMAIN w.ents /\ w.ents[e].owner = c
  /\ {w.ents[e].space, dst} \subseteq w.subs[c] \cap DOMAIN w.spaces
  /\ w.ents[e].epoch = w.spaces[w.ents[e].space].epoch
  /\ w.ents[e].space # dst
  /\ w' = Transition(w, e, dst)
  /\ UNCHANGED unchanging

\* The keys a message may have: a space that exists, at its epoch, and an entity
\* of that space or none (validate_message).
ValidKeys ==
  {k \in [space : DOMAIN w.spaces, epoch : lim.epochs, entity : lim.data] :
     /\ k.epoch = w.spaces[k.space].epoch
     /\ k.entity # NoEntity => /\ k.entity \in DOMAIN w.ents
                                /\ w.ents[k.entity].space = k.space
                                /\ w.ents[k.entity].epoch = k.epoch}

\* What publish_at keeps and queues: a sequence for the request and for every
\* message, the state of the stateful messages, and the messages themselves.
\* Subscribers that are too slow for a critical message are lost at the end.
\* Sequence numbers, payloads and the capacities of the stores and queues are
\* not in this module, so no publish is refused for one of them.
Published(v, c, k, messages, critical, stateful, slow) ==
  LET to(m) == Recipients(v, m, critical)
      u == [v EXCEPT
              !.seqs   = @ \cup {<<c, m>> : m \in messages \cup {k}},
              !.state  = IF stateful THEN @ \cup messages ELSE @,
              !.queued = [o \in Connections |-> @[o] \cup {m \in messages : o \in to(m)}]]
  IN  Lose(u, slow)

\* The publisher is subscribed to the request's space.  The channel's authority
\* accepts or transforms it, which leaves its key alone, or emits messages of
\* its own, for any space of the session.
Publish(c, k, messages, critical, stateful, slow) ==
  /\ c \in w.member /\ k \in ValidKeys /\ k.space \in w.subs[c]
  /\ messages \subseteq ValidKeys /\ (messages = {k} \/ Cardinality(messages) <= lim.maxEmissions)
  /\ slow # {} => critical
  /\ slow \subseteq UNION {Recipients(w, m, critical) : m \in messages}
  /\ w' = Published(w, c, k, messages, critical, stateful, slow)
  /\ UNCHANGED unchanging

\* A replaceable message that carries its entity's position: the entity is
\* placed first, so that the message is routed from there.
PublishAt(c, k, x, stateful) ==
  /\ c \in w.member /\ k \in ValidKeys /\ k.space \in w.subs[c]
  /\ k.entity # NoEntity /\ w.ents[k.entity].owner = c
  /\ w' = Published(PlaceEntity(w, k.entity, x), c, k, {k}, FALSE, stateful, {})
  /\ UNCHANGED unchanging

\* drain_outbound_for_spaces
DrainOutbound(c, S) ==
  /\ c \in w.up
  /\ w' = [w EXCEPT !.queued[c] = NotAbout(@, S, {})]
  /\ UNCHANGED unchanging

\* sweep_expired_state, with the entries K past their TTL
SweepExpiredState(K) ==
  /\ w' = [w EXCEPT !.state = @ \ K]
  /\ UNCHANGED unchanging

Descriptors ==
  {d \in [epoch : lim.epochs, parent : Spaces \cup {NoSpace}, anchor : Entities \cup {NoEntity}] :
     d.parent = NoSpace <=> d.anchor = NoEntity}

Next ==
  \/ \E c \in Connections :
       \/ TransportConnected(c) \/ JoinSession(c) \/ LeaveSession(c) \/ TransportLost(c)
       \/ \E S \in SUBSET w.subs[c] : DrainOutbound(c, S)
       \/ \E s \in Spaces : Subscribe(c, s) \/ Unsubscribe(c, s) \/ SpawnEntity(c, s)
       \/ \E e \in Entities :
            \/ \E x \in lim.places : UpdateEntityPosition(c, e, x)
            \/ RemoveEntity(c, e)
            \/ \E dst \in Spaces : TransitionEntity(c, e, dst)
       \/ \E k \in ValidKeys, stateful \in BOOLEAN :
            \/ \E messages \in {{k}} \cup SUBSET ValidKeys, critical \in BOOLEAN :
                 \E slow \in SUBSET (IF critical THEN UNION {w.subscribers[m.space] : m \in messages}
                                    ELSE {}) :
                   Publish(c, k, messages, critical, stateful, slow)
            \/ \E x \in lim.places : PublishAt(c, k, x, stateful)
  \/ \E K \in SUBSET w.state : SweepExpiredState(K)
  \/ \E s \in lim.spaces, d \in Descriptors : InstallSpace(s, d)
  \/ \E s \in Spaces, epoch \in lim.epochs : AdvanceSpaceEpoch(s, epoch)

Spec == Init /\ [][Next]_vars

-----------------------------------------------------------------------------
\* The record has the code's types.
TypeOK == lim \in Scenarios /\ Worlds(w) /\ fresh \subseteq Connections

\* The session's side and the connections' side of membership, subscription and
\* ownership always agree, and only connections that are up take part.
SidesAgree ==
  /\ w.member = w.members /\ w.members \subseteq w.up
  /\ DOMAIN w.subscribers = DOMAIN w.spaces
  /\ \A c \in Connections :
       /\ w.subs[c] = {s \in DOMAIN w.subscribers : c \in w.subscribers[s]}
       /\ w.subs[c] # {} => c \in w.members
       /\ w.owned[c] = Cardinality({e \in DOMAIN w.ents : w.ents[e].owner = c})

\* Every entity lives in a space that exists, at the space's epoch, and its owner
\* is a member: nothing survives a cascade, an epoch or a lost connection.
EntitiesAtHome ==
  \A e \in DOMAIN w.ents :
    LET r == w.ents[e]
    IN  /\ r.space \in DOMAIN w.spaces /\ r.epoch = w.spaces[r.space].epoch
        /\ r.owner \in w.members
        /\ e < w.nextEntity

\* A nested space never outlives its parent or the entity it is anchored to.
AnchorsAlive ==
  \A s \in DOMAIN w.spaces :
    w.spaces[s].parent # NoSpace =>
      /\ w.spaces[s].parent \in DOMAIN w.spaces
      /\ w.spaces[s].anchor \in DOMAIN w.ents

\* The spatial index and the entities agree: an entity is in the cell of its
\* position in its own space and epoch, the two maps are inverse, and no empty
\* cell is kept.
CellsMatch ==
  /\ \A e \in DOMAIN w.ents :
       (e \in DOMAIN w.cellOf) <=> w.ents[e].space \in Gridded /\ w.ents[e].at # Nowhere
  /\ \A e \in DOMAIN w.cellOf :
       /\ e \in DOMAIN w.ents
       /\ \E x \in w.ents[e].at :
            w.cellOf[e] = <<w.ents[e].space, w.ents[e].epoch, x \div CellSize>>
  /\ \A k \in DOMAIN w.cells :
       w.cells[k] # {} /\ w.cells[k] = {e \in DOMAIN w.cellOf : w.cellOf[e] = k}
  /\ \A e \in DOMAIN w.cellOf : w.cellOf[e] \in DOMAIN w.cells

Current(k) ==
  /\ k.space \in DOMAIN w.spaces /\ k.epoch = w.spaces[k.space].epoch
  /\ k.entity # NoEntity => k.entity \in DOMAIN w.ents /\ w.ents[k.entity].space = k.space

\* docs/adr/0004: "space epochs reject packets for destroyed or recreated
\* spaces".  Whatever is cached, sequenced or queued is about a space that
\* exists, at its epoch, and about no entity or one that is in that space now.
DataIsCurrent ==
  /\ \A k \in w.state : Current(k)
  /\ \A k \in w.seqs : k[1] \in w.members /\ Current(k[2])
  /\ \A c \in Connections : \A k \in w.queued[c] : Current(k) /\ k.space \in w.subs[c]

\* A snapshot stands alone: its state is of spaces in it, at the epoch it gives
\* them, and of entities in it, and the parent of a space is in it as well,
\* through transitions and cascades that touch several spaces.
SnapshotsCoherent ==
  \A c \in w.members : \E view \in {Snapshot(w, c)} :
    /\ \A k \in view.state :
         /\ k.space \in DOMAIN view.spaces /\ k.epoch = view.spaces[k.space].epoch
         /\ k.entity # NoEntity => k.entity \in view.ents
    /\ \A s \in DOMAIN view.spaces : view.spaces[s].parent \in DOMAIN view.spaces \cup {NoSpace}

EpochOf(v, s) ==
  IF s \in DOMAIN v.spaces THEN v.spaces[s].epoch
  ELSE IF s \in DOMAIN v.tombs THEN v.tombs[s] ELSE 0

\* The epoch of a space id never goes back, and comes back higher when the space
\* has been removed in between: a tombstone stands for every id that was used.
EpochsAdvance ==
  [][\A s \in Spaces :
       /\ EpochOf(w', s) >= EpochOf(w, s)
       /\ s \notin DOMAIN w.spaces /\ s \in DOMAIN w'.spaces => EpochOf(w', s) > EpochOf(w, s)]_vars

\* The number of space ids with an epoch on record stays within
\* max_space_epoch_tombstones_per_session, whatever is removed and recreated.
SpaceIdsBounded ==
  /\ DOMAIN w.spaces \cap DOMAIN w.tombs = {}
  /\ Cardinality(DOMAIN w.spaces) + Cardinality(DOMAIN w.tombs) <= lim.maxSpaceIds
  /\ Cardinality(DOMAIN w.spaces) <= lim.maxSpaces

InRange(e, c) ==
  \E i \in DOMAIN w.ents :
    /\ w.ents[i].owner = c /\ w.ents[i].space = w.ents[e].space
    /\ \E x \in w.ents[i].at, y \in w.ents[e].at : Within(x, y, Radius)

\* The grid never hides an entity in range: a message about an entity of a
\* gridded space reaches every subscriber that owns an entity of that space
\* within interest_radius of it, and with exact_distance no other.
ReachesNeighbours ==
  \A e \in DOMAIN w.ents :
    w.ents[e].space \in Gridded =>
      LET r       == w.ents[e]
          near    == {c \in w.subscribers[r.space] : InRange(e, c)}
          reached == Recipients(w, [space |-> r.space, epoch |-> r.epoch, entity |-> e], FALSE)
      IN  near \subseteq reached /\ (ExactDistance => reached = near)

\* The session's graph is whole after every cascade, epoch, transition and lost
\* connection: both sides of its relations agree, entities live in spaces that
\* exist, nested spaces have their anchors, and the ids on record are bounded.
GraphCoherent == TypeOK /\ SidesAgree /\ EntitiesAtHome /\ AnchorsAlive /\ SpaceIdsBounded

\* Nothing out of date is kept or shown: cached, sequenced and queued data is of
\* the present, and a snapshot made of it stands alone.
DataIsPresent == DataIsCurrent /\ SnapshotsCoherent

\* Routing by cells is exact: the index follows moves, transitions and removals,
\* and the subscribers it finds are those in range.
RoutingExact == CellsMatch /\ ReachesNeighbours

=============================================================================
