---------------------------- MODULE SpaceProofs ----------------------------
(***************************************************************************)
(* The session's graph of spaces, entities, subscriptions and data keeps   *)
(* its links, for every set of connections and spaces, every limit and     *)
(* every geometry of the grid.                                             *)
(*                                                                         *)
(* WorldInv is the inductive invariant.  It is a predicate of the record,  *)
(* so that what the core's helpers compose (LeaveCells, then Cascade, then *)
(* Detach, then Lose) is proved helper by helper.                          *)
(***************************************************************************)
EXTENDS SpaceGraph, FiniteSetTheorems, TLAPS

\* SidesAgree, EntitiesAtHome and AnchorsAlive of a record v.
Sides(v) ==
  /\ v.member = v.members /\ v.members \subseteq v.up
  /\ DOMAIN v.subscribers = DOMAIN v.spaces
  /\ \A c \in Connections :
       /\ v.subs[c] = {s \in DOMAIN v.subscribers : c \in v.subscribers[s]}
       /\ v.subs[c] # {} => c \in v.members

OwnedBy(v, c) == {e \in DOMAIN v.ents : v.ents[e].owner = c}

Counts(v) == \A c \in Connections : v.owned[c] = Cardinality(OwnedBy(v, c))

Home(v) ==
  \A e \in DOMAIN v.ents :
    /\ v.ents[e].space \in DOMAIN v.spaces
    /\ v.ents[e].epoch = v.spaces[v.ents[e].space].epoch
    /\ v.ents[e].owner \in v.members
    /\ e < v.nextEntity

Anchors(v) ==
  \A s \in DOMAIN v.spaces :
    v.spaces[s].parent # NoSpace =>
      v.spaces[s].parent \in DOMAIN v.spaces /\ v.spaces[s].anchor \in DOMAIN v.ents

\* CellsMatch: the two maps of the index are inverse, and every entity is where
\* its position says.  An entity has one position at most.
Index(v) ==
  /\ \A k \in DOMAIN v.cells :
       v.cells[k] # {} /\ v.cells[k] = {e \in DOMAIN v.cellOf : v.cellOf[e] = k}
  /\ \A e \in DOMAIN v.cellOf : v.cellOf[e] \in DOMAIN v.cells

CellAt(r, x) == <<r.space, r.epoch, x \div CellSize>>

Placed(v) ==
  /\ \A e \in DOMAIN v.ents :
       (e \in DOMAIN v.cellOf) <=> v.ents[e].space \in Gridded /\ v.ents[e].at # Nowhere
  /\ \A e \in DOMAIN v.cellOf :
       e \in DOMAIN v.ents /\ \E x \in v.ents[e].at : v.cellOf[e] = CellAt(v.ents[e], x)
  /\ \A e \in DOMAIN v.ents : \A x, y \in v.ents[e].at : x = y

\* DataIsCurrent
CurrentIn(v, k) ==
  /\ k.space \in DOMAIN v.spaces /\ k.epoch = v.spaces[k.space].epoch
  /\ k.entity # NoEntity => k.entity \in DOMAIN v.ents /\ v.ents[k.entity].space = k.space

Data(v) ==
  /\ \A k \in v.state : CurrentIn(v, k)
  /\ \A k \in v.seqs : k[1] \in v.members /\ CurrentIn(v, k[2])
  /\ \A c \in Connections : \A k \in v.queued[c] : CurrentIn(v, k) /\ k.space \in v.subs[c]

\* A space id has an epoch as a space or as a tombstone, never both.
Ids(v) ==
  /\ DOMAIN v.spaces \cap DOMAIN v.tombs = {}
  /\ IsFiniteSet(DOMAIN v.spaces) /\ IsFiniteSet(DOMAIN v.tombs)

WorldInv(v) ==
  /\ Worlds(v) /\ Sides(v) /\ Counts(v) /\ Home(v) /\ Anchors(v)
  /\ Index(v) /\ Placed(v) /\ Data(v) /\ Ids(v)

-----------------------------------------------------------------------------
\* What an operation does to the spaces' epochs and to the number of ids on
\* record.
EpochsKept(v, u) ==
  \A s \in Spaces :
    /\ EpochOf(u, s) >= EpochOf(v, s)
    /\ s \notin DOMAIN v.spaces /\ s \in DOMAIN u.spaces => EpochOf(u, s) > EpochOf(v, s)

IdsKept(v, u) ==
  /\ Cardinality(DOMAIN u.spaces) <= Cardinality(DOMAIN v.spaces)
  /\ Cardinality(DOMAIN u.spaces) + Cardinality(DOMAIN u.tombs) =
       Cardinality(DOMAIN v.spaces) + Cardinality(DOMAIN v.tombs)

\* u differs from v in the spatial index only.
OnlyCells(v, u) ==
  /\ u.up = v.up /\ u.member = v.member /\ u.members = v.members
  /\ u.subs = v.subs /\ u.subscribers = v.subscribers /\ u.owned = v.owned
  /\ u.spaces = v.spaces /\ u.tombs = v.tombs /\ u.ents = v.ents
  /\ u.state = v.state /\ u.seqs = v.seqs /\ u.queued = v.queued
  /\ u.nextEntity = v.nextEntity

\* Each part of the invariant is about a few fields, and holds of a record that
\* has the same ones.
LEMMA SameParts ==
  ASSUME NEW v, NEW u
  PROVE  /\ u.member = v.member /\ u.members = v.members /\ u.up = v.up
              /\ u.subscribers = v.subscribers /\ u.subs = v.subs
              /\ DOMAIN u.spaces = DOMAIN v.spaces /\ Sides(v) => Sides(u)
         /\ u.ents = v.ents /\ u.owned = v.owned /\ Counts(v) => Counts(u)
         /\ u.ents = v.ents /\ u.spaces = v.spaces /\ v.members \subseteq u.members
              /\ u.nextEntity = v.nextEntity /\ Home(v) => Home(u)
         /\ u.ents = v.ents /\ u.spaces = v.spaces /\ Anchors(v) => Anchors(u)
         /\ u.cellOf = v.cellOf /\ u.cells = v.cells /\ Index(v) => Index(u)
         /\ u.ents = v.ents /\ u.cellOf = v.cellOf /\ Placed(v) => Placed(u)
         /\ DOMAIN u.spaces = DOMAIN v.spaces /\ u.tombs = v.tombs /\ Ids(v) => Ids(u)
<1>1. ASSUME u.member = v.member, u.members = v.members, u.up = v.up,
             u.subscribers = v.subscribers, u.subs = v.subs,
             DOMAIN u.spaces = DOMAIN v.spaces, Sides(v)
      PROVE  Sides(u)
  BY ONLY <1>1 DEF Sides
<1>2. ASSUME u.ents = v.ents, u.owned = v.owned, Counts(v)
      PROVE  Counts(u)
  BY ONLY <1>2 DEF Counts, OwnedBy
<1>3. ASSUME u.ents = v.ents, u.spaces = v.spaces, v.members \subseteq u.members,
             u.nextEntity = v.nextEntity, Home(v)
      PROVE  Home(u)
  BY ONLY <1>3 DEF Home
<1>4. ASSUME u.ents = v.ents, u.spaces = v.spaces, Anchors(v)
      PROVE  Anchors(u)
  BY ONLY <1>4 DEF Anchors
<1>5. ASSUME u.cellOf = v.cellOf, u.cells = v.cells, Index(v)
      PROVE  Index(u)
  BY ONLY <1>5 DEF Index
<1>6. ASSUME u.ents = v.ents, u.cellOf = v.cellOf, Placed(v)
      PROVE  Placed(u)
  BY ONLY <1>6 DEF Placed
<1>7. ASSUME DOMAIN u.spaces = DOMAIN v.spaces, u.tombs = v.tombs, Ids(v)
      PROVE  Ids(u)
  BY ONLY <1>7 DEF Ids
<1>8. QED
  BY ONLY <1>1, <1>2, <1>3, <1>4, <1>5, <1>6, <1>7

\* remove_entity_from_cell for the entities of E: they leave both maps of the
\* index, which stay inverse, and no empty cell is kept.
LEMMA LeaveCellsInv ==
  ASSUME NEW v, Worlds(v), Index(v), NEW E
  PROVE  LET u == LeaveCells(v, E)
         IN  /\ Worlds(u) /\ Index(u) /\ OnlyCells(v, u)
             /\ DOMAIN u.cellOf = DOMAIN v.cellOf \ E
             /\ \A e \in DOMAIN u.cellOf : u.cellOf[e] = v.cellOf[e]
<1>. DEFINE left(k) == v.cells[k] \ {e \in E \cap DOMAIN v.cellOf : v.cellOf[e] = k}
            of    == Drop(v.cellOf, E)
            cs    == [k \in {j \in DOMAIN v.cells : left(j) # {}} |-> left(k)]
            u     == [v EXCEPT !.cellOf = of, !.cells = cs]
<1>1. u = LeaveCells(v, E)
  BY DEF LeaveCells
<1>2. /\ v.cellOf \in [DOMAIN v.cellOf -> CellKey] /\ DOMAIN v.cellOf \subseteq Entities
      /\ v.cells \in [DOMAIN v.cells -> SUBSET Entities] /\ DOMAIN v.cells \subseteq CellKey
  BY DEF Worlds
<1>3. /\ DOMAIN of = DOMAIN v.cellOf \ E /\ \A e \in DOMAIN of : of[e] = v.cellOf[e]
      /\ of \in [DOMAIN of -> CellKey] /\ DOMAIN of \subseteq Entities
  BY <1>2 DEF Drop
<1>4. /\ DOMAIN cs = {j \in DOMAIN v.cells : left(j) # {}} /\ \A k \in DOMAIN cs : cs[k] = left(k)
      /\ cs \in [DOMAIN cs -> SUBSET Entities] /\ DOMAIN cs \subseteq CellKey
  BY <1>2
<1>5. \A k \in DOMAIN v.cells : left(k) = {e \in DOMAIN of : of[e] = k}
  BY <1>3 DEF Index
<1>. HIDE DEF of, cs, left
<1>6. Worlds(u)
  BY <1>3, <1>4 DEF Worlds
<1>7. OnlyCells(v, u) /\ u.cellOf = of /\ u.cells = cs
  BY DEF Worlds, OnlyCells
<1>. HIDE DEF u
<1>8. Index(u)
  BY <1>3, <1>4, <1>5, <1>7 DEF Index
<1>9. QED
  BY <1>1, <1>3, <1>6, <1>7, <1>8
\* insert_entity_into_cell of an entity that is in no cell.
LEMMA EnterCellInv ==
  ASSUME NEW v, Worlds(v), Index(v), NEW e \in Entities \ DOMAIN v.cellOf, NEW k \in CellKey
  PROVE  LET u == EnterCell(v, e, k)
         IN  /\ Worlds(u) /\ Index(u) /\ OnlyCells(v, u)
             /\ DOMAIN u.cellOf = DOMAIN v.cellOf \cup {e} /\ u.cellOf[e] = k
             /\ \A i \in DOMAIN v.cellOf : u.cellOf[i] = v.cellOf[i]
<1>. DEFINE of  == Put(v.cellOf, e, k)
            old == IF k \in DOMAIN v.cells THEN v.cells[k] ELSE {}
            cs  == Put(v.cells, k, old \cup {e})
            u   == [v EXCEPT !.cellOf = of, !.cells = cs]
<1>1. u = EnterCell(v, e, k)
  BY DEF EnterCell
<1>2. /\ v.cellOf \in [DOMAIN v.cellOf -> CellKey] /\ DOMAIN v.cellOf \subseteq Entities
      /\ v.cells \in [DOMAIN v.cells -> SUBSET Entities] /\ DOMAIN v.cells \subseteq CellKey
  BY DEF Worlds
<1>3. /\ DOMAIN of = DOMAIN v.cellOf \cup {e} /\ of[e] = k
      /\ \A i \in DOMAIN v.cellOf : of[i] = v.cellOf[i]
      /\ of \in [DOMAIN of -> CellKey] /\ DOMAIN of \subseteq Entities
  BY <1>2 DEF Put
<1>4. old = {i \in DOMAIN v.cellOf : v.cellOf[i] = k} /\ old \subseteq Entities
  BY <1>2 DEF Index
<1>. HIDE DEF old
<1>5. /\ DOMAIN cs = DOMAIN v.cells \cup {k} /\ cs[k] = old \cup {e}
      /\ \A j \in DOMAIN v.cells : j # k => cs[j] = v.cells[j]
      /\ cs \in [DOMAIN cs -> SUBSET Entities] /\ DOMAIN cs \subseteq CellKey
  BY <1>2, <1>4 DEF Put
<1>. HIDE DEF of, cs
<1>6. Worlds(u)
  BY <1>3, <1>5 DEF Worlds
<1>7. OnlyCells(v, u) /\ u.cellOf = of /\ u.cells = cs
  BY DEF Worlds, OnlyCells
<1>. HIDE DEF u
<1>8. Index(u)
  <2>1. \A j \in DOMAIN cs : cs[j] # {} /\ cs[j] = {i \in DOMAIN of : of[i] = j}
    BY <1>3, <1>4, <1>5 DEF Index
  <2>2. \A i \in DOMAIN of : of[i] \in DOMAIN cs
    BY <1>3, <1>5 DEF Index
  <2>3. QED
    BY <1>7, <2>1, <2>2 DEF Index
<1>9. QED
  BY <1>1, <1>3, <1>6, <1>7, <1>8

\* An entity that moves within its space keeps its owner, its space and its
\* epoch, and so everything that hangs on them.
Moves(v, u) ==
  /\ u.up = v.up /\ u.member = v.member /\ u.members = v.members
  /\ u.subs = v.subs /\ u.subscribers = v.subscribers /\ u.owned = v.owned
  /\ u.spaces = v.spaces /\ u.tombs = v.tombs
  /\ u.state = v.state /\ u.seqs = v.seqs /\ u.queued = v.queued
  /\ u.nextEntity = v.nextEntity
  /\ DOMAIN u.ents = DOMAIN v.ents
  /\ \A e \in DOMAIN v.ents :
       /\ u.ents[e].owner = v.ents[e].owner /\ u.ents[e].space = v.ents[e].space
       /\ u.ents[e].epoch = v.ents[e].epoch

\* Such a move keeps the invariant once the index follows it.
LEMMA MovesInv ==
  ASSUME NEW v, WorldInv(v), NEW u, Worlds(u), Index(u), Placed(u), Moves(v, u)
  PROVE  WorldInv(u)
<1>1. Sides(u) /\ Ids(u)
  BY DEF Moves, WorldInv, Sides, Ids
<1>2. Counts(u)
  <2>1. \A c \in Connections : OwnedBy(u, c) = OwnedBy(v, c)
    BY DEF Moves, OwnedBy
  <2>2. QED
    BY <2>1 DEF Moves, WorldInv, Counts
<1>3. Home(u) /\ Anchors(u)
  BY DEF Moves, WorldInv, Home, Anchors
<1>4. Data(u)
  <2>1. \A k : CurrentIn(v, k) => CurrentIn(u, k)
    BY DEF Moves, CurrentIn
  <2>2. QED
    BY <2>1 DEF Moves, WorldInv, Data
<1>5. QED
  BY <1>1, <1>2, <1>3, <1>4 DEF WorldInv

\* update_entity_position
LEMMA PlaceInv ==
  ASSUME NEW v, WorldInv(v), NEW e \in DOMAIN v.ents, NEW x \in Positions
  PROVE  WorldInv(PlaceEntity(v, e, x)) /\ Moves(v, PlaceEntity(v, e, x))
<1>. DEFINE r     == v.ents[e]
            k     == <<r.space, r.epoch, x \div CellSize>>
            out   == LeaveCells(v, {e})
            moved == IF r.space \notin Gridded THEN out
                     ELSE IF e \in DOMAIN v.cellOf /\ v.cellOf[e] = k THEN v
                     ELSE EnterCell(out, e, k)
            q     == [r EXCEPT !.at = {x}]
            es    == Put(v.ents, e, q)
            u     == [moved EXCEPT !.ents = es]
<1>1. /\ Worlds(v) /\ Index(v) /\ Placed(v) /\ v.ents \in [DOMAIN v.ents -> EntityRecord]
      /\ DOMAIN v.ents \subseteq Entities /\ e \in Entities /\ r \in EntityRecord
  BY DEF WorldInv, Worlds
<1>2. r.space \in Spaces /\ r.epoch \in Nat /\ r.owner \in Connections
  BY <1>1 DEF EntityRecord
<1>3. k \in CellKey
  <2>1. x \in Int /\ CellSize \in Nat /\ CellSize > 0
    BY SpaceAssumption
  <2>2. x \div CellSize \in Int
    BY <2>1
  <2>3. QED
    BY <1>2, <2>2 DEF CellKey
<1>4. /\ Worlds(out) /\ Index(out) /\ OnlyCells(v, out)
      /\ DOMAIN out.cellOf = DOMAIN v.cellOf \ {e}
      /\ \A i \in DOMAIN out.cellOf : out.cellOf[i] = v.cellOf[i]
  BY <1>1, LeaveCellsInv
<1>. HIDE DEF out, k
<1>5. /\ Worlds(moved) /\ Index(moved) /\ OnlyCells(v, moved)
      /\ DOMAIN moved.cellOf = (DOMAIN v.cellOf \ {e}) \cup (IF r.space \in Gridded THEN {e} ELSE {})
      /\ r.space \in Gridded => moved.cellOf[e] = k
      /\ \A i \in DOMAIN v.cellOf \ {e} : moved.cellOf[i] = v.cellOf[i]
  <2>1. CASE r.space \notin Gridded
    BY <1>4, <2>1
  <2>2. CASE r.space \in Gridded /\ e \in DOMAIN v.cellOf /\ v.cellOf[e] = k
    BY <1>1, <2>2 DEF OnlyCells
  <2>3. CASE r.space \in Gridded /\ ~(e \in DOMAIN v.cellOf /\ v.cellOf[e] = k)
    <3>1. moved = EnterCell(out, e, k) /\ e \in Entities \ DOMAIN out.cellOf
      BY <1>1, <1>4, <2>3
    <3>2. /\ Worlds(moved) /\ Index(moved) /\ OnlyCells(out, moved)
          /\ DOMAIN moved.cellOf = DOMAIN out.cellOf \cup {e} /\ moved.cellOf[e] = k
          /\ \A i \in DOMAIN out.cellOf : moved.cellOf[i] = out.cellOf[i]
      BY <1>3, <1>4, <3>1, EnterCellInv
    <3>. HIDE DEF moved
    <3>3. OnlyCells(v, moved)
      BY <1>4, <3>2 DEF OnlyCells
    <3>4. QED
      BY <1>4, <2>3, <3>2, <3>3
  <2>4. QED
    BY <2>1, <2>2, <2>3
<1>. HIDE DEF moved
<1>6. q \in EntityRecord /\ q.owner = r.owner /\ q.space = r.space /\ q.epoch = r.epoch /\ q.at = {x}
  BY <1>1 DEF EntityRecord
<1>. HIDE DEF q
<1>7. /\ DOMAIN es = DOMAIN v.ents /\ es[e] = q /\ \A i \in DOMAIN v.ents \ {e} : es[i] = v.ents[i]
      /\ es \in [DOMAIN es -> EntityRecord] /\ DOMAIN es \subseteq Entities
  BY <1>1, <1>6 DEF Put
<1>. HIDE DEF es
<1>8. Worlds(u)
  BY <1>5, <1>7 DEF Worlds
<1>9. u.ents = es /\ u.cellOf = moved.cellOf /\ u.cells = moved.cells /\ Moves(v, u)
  BY <1>5, <1>6, <1>7 DEF Worlds, Moves, OnlyCells
<1>. HIDE DEF u
<1>10. Index(u)
  BY <1>5, <1>9 DEF Index
<1>11. Placed(u)
  <2>1. \A i \in DOMAIN u.ents :
          (i \in DOMAIN u.cellOf) <=> u.ents[i].space \in Gridded /\ u.ents[i].at # Nowhere
    BY <1>1, <1>5, <1>6, <1>7, <1>9 DEF Placed, Nowhere
  <2>2. \A i \in DOMAIN u.cellOf :
          i \in DOMAIN u.ents /\ \E y \in u.ents[i].at : u.cellOf[i] = CellAt(u.ents[i], y)
    <3>1. SUFFICES ASSUME NEW i \in DOMAIN u.cellOf
                   PROVE  /\ i \in DOMAIN u.ents
                          /\ \E y \in u.ents[i].at : u.cellOf[i] = CellAt(u.ents[i], y)
      OBVIOUS
    <3>2. CASE i = e
      BY <1>5, <1>6, <1>7, <1>9, <3>2 DEF CellAt, k
    <3>3. CASE i # e
      BY <1>1, <1>5, <1>7, <1>9, <3>3 DEF Placed
    <3>4. QED
      BY <3>2, <3>3
  <2>3. \A i \in DOMAIN u.ents : \A y, z \in u.ents[i].at : y = z
    BY <1>1, <1>6, <1>7, <1>9 DEF Placed
  <2>4. QED
    BY <2>1, <2>2, <2>3 DEF Placed
<1>12. u = PlaceEntity(v, e, x)
  BY <1>5 DEF PlaceEntity, u, moved, out, es, q, k, OnlyCells
<1>13. QED
  BY <1>8, <1>9, <1>10, <1>11, <1>12, MovesInv
-----------------------------------------------------------------------------
\* What remove_entities_and_anchored_spaces takes is closed: a space that stays
\* is nested in a space that stays and anchored to an entity that stays.
LEMMA DoomedClosed ==
  ASSUME NEW v, NEW E, NEW s \in DOMAIN v.spaces, s \notin DoomedSpaces(v, E),
         v.spaces[s].parent # NoSpace
  PROVE  /\ v.spaces[s].parent \notin DoomedSpaces(v, E)
         /\ v.spaces[s].anchor \in DOMAIN v.ents =>
              v.spaces[s].anchor \notin DoomedEntities(v, E)
<1>1. PICK S \in Closed(v, E) : s \notin S
  BY DEF DoomedSpaces
<1>2. \A t \in DoomedSpaces(v, E) : t \in S
  BY DEF DoomedSpaces
<1>3. /\ v.spaces[s].anchor \notin E
      /\ ~(v.spaces[s].anchor \in DOMAIN v.ents /\ v.ents[v.spaces[s].anchor].space \in S)
      /\ v.spaces[s].parent \notin S
  BY <1>1 DEF Closed
<1>4. QED
  BY <1>2, <1>3 DEF DoomedEntities

\* Of the entities of an owner some go: what the count of the owner loses is
\* what goes, so that the saturating subtraction never saturates.
LEMMA CountsFollow ==
  ASSUME NEW A, NEW B, IsFiniteSet(A)
  PROVE  /\ Cardinality(A \cap B) \in Nat /\ Cardinality(A) \in Nat
         /\ ~(Cardinality(A) < Cardinality(A \cap B))
         /\ Cardinality(A \ B) = Cardinality(A) - Cardinality(A \cap B)
<1>1. IsFiniteSet(A \cap B) /\ IsFiniteSet(A \ B)
  BY FS_Subset, FS_Difference
<1>2. /\ Cardinality(A \cap B) \in Nat /\ Cardinality(A) \in Nat /\ Cardinality(A \ B) \in Nat
      /\ Cardinality(A \cap B) <= Cardinality(A)
  BY <1>1, FS_CardinalityType, FS_Subset
<1>3. Cardinality(A \ B) = Cardinality(A) - Cardinality(A \cap B)
  BY FS_Difference
<1>4. QED
  BY <1>2, <1>3

\* The entities' ids are bounded, so there are finitely many.
LEMMA EntitiesFinite ==
  ASSUME NEW E \in SUBSET Entities
  PROVE  IsFiniteSet(E)
<1>1. MaxEntity \in Int /\ 1 \in Int
  BY SpaceAssumption
<1>2. IsFiniteSet(1..MaxEntity)
  BY <1>1, FS_Interval
<1>3. QED
  BY <1>2, FS_Subset DEF Entities

\* The fields of a record after remove_entities_and_anchored_spaces, with the
\* spaces S and the entities D going.
Cascaded(v, u, S, D) ==
  /\ u.up = v.up /\ u.member = v.member /\ u.members = v.members
  /\ u.nextEntity = v.nextEntity
  /\ DOMAIN u.ents = DOMAIN v.ents \ D /\ \A e \in DOMAIN u.ents : u.ents[e] = v.ents[e]
  /\ DOMAIN u.spaces = DOMAIN v.spaces \ S
  /\ \A s \in DOMAIN u.spaces : u.spaces[s] = v.spaces[s]
  /\ DOMAIN u.tombs = DOMAIN v.tombs \cup S
  /\ \A s \in DOMAIN u.tombs : u.tombs[s] = IF s \in S THEN v.spaces[s].epoch ELSE v.tombs[s]
  /\ DOMAIN u.subscribers = DOMAIN v.subscribers \ S
  /\ \A s \in DOMAIN u.subscribers : u.subscribers[s] = v.subscribers[s]
  /\ u.state = NotAbout(v.state, S, D)
  /\ u.seqs = SeqsNotAbout(v.seqs, S, D)
  /\ \A c \in Connections :
       /\ u.subs[c] = v.subs[c] \ S /\ u.queued[c] = NotAbout(v.queued[c], S, D)
       /\ u.owned[c] = Cardinality(OwnedBy(u, c))
  /\ DOMAIN u.cellOf = DOMAIN v.cellOf \ D /\ \A e \in DOMAIN u.cellOf : u.cellOf[e] = v.cellOf[e]
  /\ Index(u)
\* remove_entities_and_anchored_spaces, field by field.
LEMMA CascadeFields ==
  ASSUME NEW v, WorldInv(v), NEW E \in SUBSET DOMAIN v.ents
  PROVE  /\ Worlds(Cascade(v, E))
         /\ Cascaded(v, Cascade(v, E), DoomedSpaces(v, E), DoomedEntities(v, E))
<1>. DEFINE S  == DoomedSpaces(v, E)
            D  == DoomedEntities(v, E)
            lost(c) == Cardinality({e \in D \cap DOMAIN v.ents : v.ents[e].owner = c})
            w0 == LeaveCells(v, D)
            es == Drop(v.ents, D)
            sp == Drop(v.spaces, S)
            tb == [s \in DOMAIN v.tombs \cup S |->
                     IF s \in S THEN v.spaces[s].epoch ELSE v.tombs[s]]
            su == Drop(v.subscribers, S)
            ow == [c \in Connections |->
                     IF v.owned[c] < lost(c) THEN 0 ELSE v.owned[c] - lost(c)]
            sb == [c \in Connections |-> v.subs[c] \ S]
            qu == [c \in Connections |-> NotAbout(v.queued[c], S, D)]
            u  == [w0 EXCEPT !.ents = es, !.spaces = sp, !.tombs = tb, !.subscribers = su,
                             !.state = NotAbout(v.state, S, D),
                             !.seqs = SeqsNotAbout(v.seqs, S, D),
                             !.owned = ow, !.subs = sb, !.queued = qu]
<1>1. /\ Worlds(v) /\ Index(v) /\ Counts(v)
      /\ v.ents \in [DOMAIN v.ents -> EntityRecord] /\ DOMAIN v.ents \subseteq Entities
      /\ v.spaces \in [DOMAIN v.spaces -> Descriptor] /\ DOMAIN v.spaces \subseteq Spaces
      /\ v.tombs \in [DOMAIN v.tombs -> Nat] /\ DOMAIN v.tombs \subseteq Spaces
      /\ v.subscribers \in [DOMAIN v.subscribers -> SUBSET Connections]
      /\ DOMAIN v.subscribers \subseteq Spaces
      /\ v.owned \in [Connections -> Nat] /\ v.subs \in [Connections -> SUBSET Spaces]
      /\ v.queued \in [Connections -> SUBSET DataKey]
      /\ v.state \subseteq DataKey /\ v.seqs \subseteq Connections \X DataKey
  BY DEF WorldInv, Worlds
<1>2. S \subseteq DOMAIN v.spaces
  BY DEF DoomedSpaces
<1>3. /\ Worlds(w0) /\ Index(w0) /\ OnlyCells(v, w0)
      /\ DOMAIN w0.cellOf = DOMAIN v.cellOf \ D
      /\ \A e \in DOMAIN w0.cellOf : w0.cellOf[e] = v.cellOf[e]
  BY <1>1, LeaveCellsInv
<1>4. u = Cascade(v, E)
  BY <1>3 DEF Cascade, OnlyCells
<1>. HIDE DEF w0, S, D
<1>5. /\ DOMAIN es = DOMAIN v.ents \ D /\ \A e \in DOMAIN es : es[e] = v.ents[e]
      /\ es \in [DOMAIN es -> EntityRecord] /\ DOMAIN es \subseteq Entities
  BY <1>1 DEF Drop
<1>6. /\ DOMAIN sp = DOMAIN v.spaces \ S /\ \A s \in DOMAIN sp : sp[s] = v.spaces[s]
      /\ sp \in [DOMAIN sp -> Descriptor] /\ DOMAIN sp \subseteq Spaces
  BY <1>1 DEF Drop
<1>7. /\ DOMAIN tb = DOMAIN v.tombs \cup S
      /\ \A s \in DOMAIN tb : tb[s] = IF s \in S THEN v.spaces[s].epoch ELSE v.tombs[s]
      /\ tb \in [DOMAIN tb -> Nat] /\ DOMAIN tb \subseteq Spaces
  <2>1. \A s \in S : v.spaces[s].epoch \in Nat
    BY <1>1, <1>2 DEF Descriptor
  <2>2. QED
    BY <1>1, <1>2, <2>1
<1>8. /\ DOMAIN su = DOMAIN v.subscribers \ S /\ \A s \in DOMAIN su : su[s] = v.subscribers[s]
      /\ su \in [DOMAIN su -> SUBSET Connections] /\ DOMAIN su \subseteq Spaces
  BY <1>1 DEF Drop
<1>9. /\ ow \in [Connections -> Nat]
      /\ \A c \in Connections : ow[c] = Cardinality({e \in DOMAIN es : es[e].owner = c})
  <2>1. SUFFICES ASSUME NEW c \in Connections
                 PROVE  ow[c] \in Nat /\ ow[c] = Cardinality({e \in DOMAIN es : es[e].owner = c})
    OBVIOUS
  <2>. DEFINE A == OwnedBy(v, c)
  <2>2. A \in SUBSET Entities
    BY <1>1 DEF OwnedBy
  <2>3. IsFiniteSet(A)
    BY <2>2, EntitiesFinite
  <2>4. A \cap D = {e \in D \cap DOMAIN v.ents : v.ents[e].owner = c}
    BY DEF OwnedBy
  <2>5. A \ D = {e \in DOMAIN es : es[e].owner = c}
    BY <1>5 DEF OwnedBy
  <2>6. v.owned[c] = Cardinality(A)
    BY <1>1 DEF Counts
  <2>7. lost(c) = Cardinality(A \cap D)
    BY <2>4
  <2>. HIDE DEF A, lost
  <2>8. /\ Cardinality(A \cap D) \in Nat /\ Cardinality(A) \in Nat
        /\ ~(Cardinality(A) < Cardinality(A \cap D))
        /\ Cardinality(A \ D) = Cardinality(A) - Cardinality(A \cap D)
    BY <2>3, CountsFollow
  <2>9. ow[c] = Cardinality(A) - Cardinality(A \cap D)
    BY <2>6, <2>7, <2>8
  <2>10. Cardinality(A \ D) = Cardinality({e \in DOMAIN es : es[e].owner = c})
    BY <2>5
  <2>11. Cardinality(A) - Cardinality(A \cap D) \in Nat
    BY <2>8
  <2>12. QED
    BY <2>8, <2>9, <2>10, <2>11
<1>10. sb \in [Connections -> SUBSET Spaces] /\ \A c \in Connections : sb[c] = v.subs[c] \ S
  BY <1>1
<1>11. /\ qu \in [Connections -> SUBSET DataKey]
       /\ \A c \in Connections : qu[c] = NotAbout(v.queued[c], S, D)
  BY <1>1 DEF NotAbout
<1>12. /\ NotAbout(v.state, S, D) \subseteq DataKey
       /\ SeqsNotAbout(v.seqs, S, D) \subseteq Connections \X DataKey
  BY <1>1 DEF NotAbout, SeqsNotAbout
<1>. HIDE DEF es, sp, tb, su, ow, sb, qu
<1>13. Worlds(u)
  BY ONLY <1>3, <1>5, <1>6, <1>7, <1>8, <1>9, <1>10, <1>11, <1>12 DEF Worlds, u
<1>14. /\ u.up = v.up /\ u.member = v.member /\ u.members = v.members
       /\ u.nextEntity = v.nextEntity
       /\ u.ents = es /\ u.spaces = sp /\ u.tombs = tb /\ u.subscribers = su
       /\ u.state = NotAbout(v.state, S, D) /\ u.seqs = SeqsNotAbout(v.seqs, S, D)
       /\ u.owned = ow /\ u.subs = sb /\ u.queued = qu
       /\ u.cellOf = w0.cellOf /\ u.cells = w0.cells
  BY <1>3 DEF Worlds, OnlyCells
<1>. HIDE DEF u
<1>15. Index(u)
  BY <1>3, <1>14 DEF Index
<1>16. Cascaded(v, u, S, D)
  BY <1>3, <1>5, <1>6, <1>7, <1>8, <1>9, <1>10, <1>11, <1>14, <1>15 DEF Cascaded, OwnedBy
<1>17. QED
  BY <1>4, <1>13, <1>16 DEF S, D
\* The ids of the spaces that go stay on record as tombstones: their number
\* stays as it is.
LEMMA CascadeIds ==
  ASSUME NEW v, Worlds(v), Ids(v), NEW u, Worlds(u), NEW S \in SUBSET DOMAIN v.spaces, NEW D,
         Cascaded(v, u, S, D)
  PROVE  Ids(u) /\ IdsKept(v, u) /\ EpochsKept(v, u)
<1>. DEFINE P == DOMAIN v.spaces
            T == DOMAIN v.tombs
<1>1. P \cap T = {} /\ IsFiniteSet(P) /\ IsFiniteSet(T) /\ S \subseteq P
  BY DEF Ids
<1>2. DOMAIN u.spaces = P \ S /\ DOMAIN u.tombs = T \cup S
  BY DEF Cascaded
<1>3. EpochsKept(v, u)
  <2>1. SUFFICES ASSUME NEW s \in Spaces
                 PROVE  /\ EpochOf(u, s) >= EpochOf(v, s)
                        /\ s \notin P /\ s \in DOMAIN u.spaces => EpochOf(u, s) > EpochOf(v, s)
    BY DEF EpochsKept
  <2>2. EpochOf(u, s) = EpochOf(v, s)
    BY <1>1, <1>2 DEF EpochOf, Cascaded
  <2>3. EpochOf(v, s) \in Nat
    <3>1. /\ s \in P => v.spaces[s] \in Descriptor
          /\ s \in T => v.tombs[s] \in Nat
      BY DEF Worlds
    <3>2. QED
      BY <3>1 DEF EpochOf, Descriptor
  <2>4. QED
    BY <1>2, <2>2, <2>3
<1>. HIDE DEF P, T
<1>4. IsFiniteSet(S)
  BY <1>1, FS_Subset
<1>5. /\ IsFiniteSet(P \ S) /\ IsFiniteSet(T \cup S)
      /\ Cardinality(P \ S) = Cardinality(P) - Cardinality(P \cap S)
      /\ Cardinality(T \cup S) = Cardinality(T) + Cardinality(S) - Cardinality(T \cap S)
  BY <1>1, <1>4, FS_Difference, FS_Union
<1>6. P \cap S = S /\ T \cap S = {} /\ (P \ S) \cap (T \cup S) = {}
  BY <1>1
<1>7. Cardinality(P \cap S) = Cardinality(S) /\ Cardinality(T \cap S) = Cardinality({})
  BY <1>6
<1>8. /\ Cardinality({}) = 0 /\ Cardinality(S) \in Nat /\ Cardinality(P) \in Nat
      /\ Cardinality(T) \in Nat
  BY <1>1, <1>4, FS_EmptySet, FS_CardinalityType
<1>9. /\ Cardinality(P \ S) <= Cardinality(P)
      /\ Cardinality(P \ S) + Cardinality(T \cup S) = Cardinality(P) + Cardinality(T)
  BY ONLY <1>5, <1>7, <1>8
<1>10. Ids(u)
  BY <1>2, <1>5, <1>6 DEF Ids
<1>11. IdsKept(v, u)
  BY <1>2, <1>9 DEF IdsKept, P, T
<1>12. QED
  BY <1>3, <1>10, <1>11

\* remove_entities_and_anchored_spaces leaves a whole graph: no entity in a
\* space that went, no space without its anchor, no data about either.
LEMMA CascadeInv ==
  ASSUME NEW v, WorldInv(v), NEW E \in SUBSET DOMAIN v.ents
  PROVE  LET u == Cascade(v, E)
         IN  /\ WorldInv(u) /\ EpochsKept(v, u) /\ IdsKept(v, u)
             /\ Cascaded(v, u, DoomedSpaces(v, E), DoomedEntities(v, E))
             /\ DOMAIN u.ents \cap E = {}
<1>. DEFINE u == Cascade(v, E)
            S == DoomedSpaces(v, E)
            D == DoomedEntities(v, E)
<1>1. Worlds(u) /\ Cascaded(v, u, S, D)
  BY CascadeFields
<1>2. S \in SUBSET DOMAIN v.spaces /\ E \subseteq D
  BY DEF DoomedSpaces, DoomedEntities
<1>3. \A e \in DOMAIN v.ents : v.ents[e].space \in S => e \in D
  BY DEF DoomedEntities
<1>4. \A s \in DOMAIN v.spaces :
        s \notin S /\ v.spaces[s].parent # NoSpace =>
          /\ v.spaces[s].parent \notin S
          /\ v.spaces[s].anchor \in DOMAIN v.ents => v.spaces[s].anchor \notin D
  BY DoomedClosed
<1>. HIDE DEF u, S, D
<1>5. /\ Worlds(v) /\ Sides(v) /\ Home(v) /\ Anchors(v) /\ Placed(v) /\ Data(v) /\ Ids(v)
  BY DEF WorldInv
<1>6. Sides(u)
  <2>1. /\ u.member = u.members /\ u.members \subseteq u.up
        /\ DOMAIN u.subscribers = DOMAIN u.spaces
    BY <1>1, <1>5 DEF Cascaded, Sides
  <2>2. ASSUME NEW c \in Connections
        PROVE  /\ u.subs[c] = {s \in DOMAIN u.subscribers : c \in u.subscribers[s]}
               /\ u.subs[c] # {} => c \in u.members
    BY <1>1, <1>5 DEF Cascaded, Sides
  <2>3. QED
    BY <2>1, <2>2 DEF Sides
<1>7. Counts(u) /\ Index(u)
  BY <1>1 DEF Cascaded, Counts
<1>8. Home(u)
  BY ONLY <1>1, <1>3, <1>5 DEF Cascaded, Home
<1>9. Anchors(u)
  BY <1>1, <1>4, <1>5 DEF Cascaded, Anchors
<1>10. Placed(u)
  <2>1. \A e \in DOMAIN u.ents :
          (e \in DOMAIN u.cellOf) <=> u.ents[e].space \in Gridded /\ u.ents[e].at # Nowhere
    BY ONLY <1>1, <1>5 DEF Cascaded, Placed
  <2>2. \A e \in DOMAIN u.cellOf :
          e \in DOMAIN u.ents /\ \E x \in u.ents[e].at : u.cellOf[e] = CellAt(u.ents[e], x)
    BY ONLY <1>1, <1>5 DEF Cascaded, Placed
  <2>3. \A e \in DOMAIN u.ents : \A x, y \in u.ents[e].at : x = y
    BY ONLY <1>1, <1>5 DEF Cascaded, Placed
  <2>4. QED
    BY <2>1, <2>2, <2>3 DEF Placed
<1>11. Data(u)
  <2>1. \A k : CurrentIn(v, k) /\ k.space \notin S /\ k.entity \notin D => CurrentIn(u, k)
    BY <1>1 DEF Cascaded, CurrentIn
  <2>2. \A k \in u.state : CurrentIn(u, k)
    BY ONLY <1>1, <1>5, <2>1 DEF Cascaded, Data, NotAbout
  <2>3. \A k \in u.seqs : k[1] \in u.members /\ CurrentIn(u, k[2])
    BY ONLY <1>1, <1>5, <2>1 DEF Cascaded, Data, SeqsNotAbout
  <2>4. \A c \in Connections : \A k \in u.queued[c] : CurrentIn(u, k) /\ k.space \in u.subs[c]
    BY ONLY <1>1, <1>5, <2>1 DEF Cascaded, Data, NotAbout
  <2>5. QED
    BY <2>2, <2>3, <2>4 DEF Data
<1>12. Ids(u) /\ IdsKept(v, u) /\ EpochsKept(v, u)
  BY <1>1, <1>2, <1>5, CascadeIds
<1>13. DOMAIN u.ents \cap E = {}
  BY <1>1, <1>2 DEF Cascaded
<1>14. QED
  BY <1>1, <1>6, <1>7, <1>8, <1>9, <1>10, <1>11, <1>12, <1>13 DEF WorldInv, u, S, D
-----------------------------------------------------------------------------
\* detach_connection_from_session: nothing in the session mentions a connection
\* that left it.
LEMMA DetachInv ==
  ASSUME NEW v, WorldInv(v), NEW C \in SUBSET v.member
  PROVE  LET u == Detach(v, C)
         IN  /\ WorldInv(u) /\ EpochsKept(v, u) /\ IdsKept(v, u)
             /\ u.up = v.up /\ u.member = v.member \ C
             /\ \A c \in C : OwnedBy(u, c) = {}
<1>. DEFINE E  == {e \in DOMAIN v.ents : v.ents[e].owner \in C}
            a  == Cascade(v, E)
            su == [s \in DOMAIN a.subscribers |-> a.subscribers[s] \ C]
            sq == {k \in a.seqs : k[1] \notin C}
            sb == [c \in Connections |-> IF c \in C THEN {} ELSE a.subs[c]]
            qu == [c \in Connections |-> IF c \in C THEN {} ELSE a.queued[c]]
            u  == [a EXCEPT !.members = a.members \ C, !.subscribers = su, !.seqs = sq,
                            !.member = a.member \ C, !.subs = sb, !.queued = qu]
<1>1. u = Detach(v, C)
  BY DEF Detach
<1>2. E \in SUBSET DOMAIN v.ents
  OBVIOUS
<1>3. /\ WorldInv(a) /\ EpochsKept(v, a) /\ IdsKept(v, a) /\ DOMAIN a.ents \cap E = {}
      /\ Cascaded(v, a, DoomedSpaces(v, E), DoomedEntities(v, E))
  BY <1>2, CascadeInv
<1>4. \A e \in DOMAIN a.ents : a.ents[e].owner \notin C
  BY <1>3 DEF Cascaded
<1>5. a.up = v.up /\ a.member = v.member
  BY <1>3 DEF Cascaded
<1>. HIDE DEF a, E
<1>6. /\ Worlds(a) /\ Sides(a) /\ Counts(a) /\ Home(a) /\ Anchors(a)
      /\ Index(a) /\ Placed(a) /\ Data(a) /\ Ids(a)
  BY <1>3 DEF WorldInv
<1>7. /\ a.subscribers \in [DOMAIN a.subscribers -> SUBSET Connections]
      /\ DOMAIN a.subscribers \subseteq Spaces
      /\ a.seqs \subseteq Connections \X DataKey
      /\ a.subs \in [Connections -> SUBSET Spaces] /\ a.queued \in [Connections -> SUBSET DataKey]
      /\ a.members \subseteq Connections /\ a.member \subseteq Connections
  BY <1>6 DEF Worlds
<1>8. /\ DOMAIN su = DOMAIN a.subscribers /\ su \in [DOMAIN su -> SUBSET Connections]
      /\ DOMAIN su \subseteq Spaces
      /\ \A s \in DOMAIN su : su[s] = a.subscribers[s] \ C
  BY <1>7
<1>9. /\ sb \in [Connections -> SUBSET Spaces] /\ qu \in [Connections -> SUBSET DataKey]
      /\ \A c \in Connections : c \in C => sb[c] = {} /\ qu[c] = {}
      /\ \A c \in Connections : c \notin C => sb[c] = a.subs[c] /\ qu[c] = a.queued[c]
  BY <1>7
<1>10. /\ sq \subseteq Connections \X DataKey /\ a.members \ C \subseteq Connections
       /\ a.member \ C \subseteq Connections
       /\ \A k \in sq : k \in a.seqs /\ k[1] \notin C
  BY <1>7
<1>. HIDE DEF su, sq, sb, qu
<1>11. Worlds(u)
  BY ONLY <1>6, <1>8, <1>9, <1>10 DEF Worlds, u
<1>12. /\ u.members = a.members \ C /\ u.member = a.member \ C /\ u.up = a.up
       /\ u.subscribers = su /\ u.seqs = sq /\ u.subs = sb /\ u.queued = qu
       /\ u.spaces = a.spaces /\ u.tombs = a.tombs /\ u.ents = a.ents /\ u.owned = a.owned
       /\ u.cellOf = a.cellOf /\ u.cells = a.cells /\ u.state = a.state
       /\ u.nextEntity = a.nextEntity
  BY <1>6 DEF Worlds
<1>. HIDE DEF u
<1>13. Sides(u)
  <2>1. /\ u.member = u.members /\ u.members \subseteq u.up
        /\ DOMAIN u.subscribers = DOMAIN u.spaces
    BY <1>6, <1>8, <1>12 DEF Sides
  <2>2. ASSUME NEW c \in Connections
        PROVE  /\ u.subs[c] = {s \in DOMAIN u.subscribers : c \in u.subscribers[s]}
               /\ u.subs[c] # {} => c \in u.members
    <3>1. CASE c \in C
      BY <1>8, <1>9, <1>12, <3>1
    <3>2. CASE c \notin C
      BY <1>6, <1>8, <1>9, <1>12, <3>2 DEF Sides
    <3>3. QED
      BY <3>1, <3>2
  <2>3. QED
    BY <2>1, <2>2 DEF Sides
<1>14. Counts(u) /\ \A c \in C : OwnedBy(u, c) = {}
  BY <1>4, <1>6, <1>12 DEF Counts, OwnedBy
<1>15. Home(u) /\ Anchors(u) /\ Index(u) /\ Placed(u) /\ Ids(u)
  <2>1. Home(u)
    BY ONLY <1>4, <1>6, <1>12 DEF Home
  <2>2. QED
    BY ONLY <1>6, <1>12, <2>1, SameParts
<1>16. Data(u)
  <2>1. \A k : CurrentIn(a, k) => CurrentIn(u, k)
    BY <1>12 DEF CurrentIn
  <2>2. QED
    BY <1>6, <1>9, <1>10, <1>12, <2>1 DEF Data
<1>17. EpochsKept(v, u) /\ IdsKept(v, u)
  BY <1>3, <1>12 DEF EpochsKept, EpochOf, IdsKept
<1>18. QED
  BY <1>1, <1>5, <1>11, <1>12, <1>13, <1>14, <1>15, <1>16, <1>17 DEF WorldInv

\* transport_lost, and the end of publish_at for subscribers that are too slow.
LEMMA LoseInv ==
  ASSUME NEW v, WorldInv(v), NEW C \in SUBSET Connections
  PROVE  WorldInv(Lose(v, C)) /\ EpochsKept(v, Lose(v, C)) /\ IdsKept(v, Lose(v, C))
<1>. DEFINE a  == Detach(v, C \cap v.member)
            sb == [c \in Connections |-> IF c \in C THEN {} ELSE a.subs[c]]
            ow == [c \in Connections |-> IF c \in C THEN 0 ELSE a.owned[c]]
            qu == [c \in Connections |-> IF c \in C THEN {} ELSE a.queued[c]]
            u  == [a EXCEPT !.up = a.up \ C, !.subs = sb, !.owned = ow, !.queued = qu]
<1>1. u = Lose(v, C)
  BY DEF Lose
<1>2. /\ WorldInv(a) /\ EpochsKept(v, a) /\ IdsKept(v, a)
      /\ a.member = v.member \ (C \cap v.member)
      /\ \A c \in C \cap v.member : OwnedBy(a, c) = {}
  BY DetachInv
<1>. HIDE DEF a
<1>3. /\ Worlds(a) /\ Sides(a) /\ Counts(a) /\ Home(a) /\ Anchors(a)
      /\ Index(a) /\ Placed(a) /\ Data(a) /\ Ids(a)
  BY <1>2 DEF WorldInv
<1>4. a.member \cap C = {} /\ a.members \cap C = {}
  BY <1>2, <1>3 DEF Sides
<1>5. \A c \in C : OwnedBy(a, c) = {} /\ a.subs[c] = {}
  BY <1>3, <1>4 DEF OwnedBy, Home, Sides
<1>6. /\ a.subs \in [Connections -> SUBSET Spaces] /\ a.queued \in [Connections -> SUBSET DataKey]
      /\ a.owned \in [Connections -> Nat] /\ a.up \subseteq Connections
  BY <1>3 DEF Worlds
<1>7. /\ sb \in [Connections -> SUBSET Spaces] /\ qu \in [Connections -> SUBSET DataKey]
      /\ ow \in [Connections -> Nat] /\ a.up \ C \subseteq Connections
      /\ \A c \in Connections : c \in C => sb[c] = {} /\ qu[c] = {} /\ ow[c] = 0
      /\ \A c \in Connections :
           c \notin C => sb[c] = a.subs[c] /\ qu[c] = a.queued[c] /\ ow[c] = a.owned[c]
  BY <1>6
<1>. HIDE DEF sb, ow, qu
<1>8. Worlds(u)
  BY ONLY <1>3, <1>7 DEF Worlds, u
<1>9. /\ u.members = a.members /\ u.member = a.member /\ u.up = a.up \ C
      /\ u.subscribers = a.subscribers /\ u.seqs = a.seqs
      /\ u.subs = sb /\ u.queued = qu /\ u.owned = ow
      /\ u.spaces = a.spaces /\ u.tombs = a.tombs /\ u.ents = a.ents
      /\ u.cellOf = a.cellOf /\ u.cells = a.cells /\ u.state = a.state
      /\ u.nextEntity = a.nextEntity
  BY <1>3 DEF Worlds
<1>. HIDE DEF u
<1>10. Sides(u)
  <2>1. /\ u.member = u.members /\ u.members \subseteq u.up
        /\ DOMAIN u.subscribers = DOMAIN u.spaces
    BY <1>3, <1>4, <1>9 DEF Sides
  <2>2. ASSUME NEW c \in Connections
        PROVE  /\ u.subs[c] = {s \in DOMAIN u.subscribers : c \in u.subscribers[s]}
               /\ u.subs[c] # {} => c \in u.members
    <3>1. u.subs[c] = a.subs[c]
      BY <1>5, <1>7, <1>9
    <3>2. QED
      BY <1>3, <1>9, <3>1 DEF Sides
  <2>3. QED
    BY <2>1, <2>2 DEF Sides
<1>11. Counts(u)
  <2>1. SUFFICES ASSUME NEW c \in Connections
                 PROVE  u.owned[c] = Cardinality(OwnedBy(u, c))
    BY DEF Counts
  <2>2. OwnedBy(u, c) = OwnedBy(a, c)
    BY <1>9 DEF OwnedBy
  <2>3. CASE c \in C
    <3>1. u.owned[c] = 0 /\ OwnedBy(u, c) = {}
      BY ONLY <1>5, <1>7, <1>9, <2>2, <2>3
    <3>2. Cardinality({}) = 0
      BY FS_EmptySet
    <3>3. QED
      BY ONLY <3>1, <3>2
  <2>4. CASE c \notin C
    BY <1>3, <1>7, <1>9, <2>2, <2>4 DEF Counts
  <2>5. QED
    BY <2>3, <2>4
<1>12. Home(u) /\ Anchors(u) /\ Index(u) /\ Placed(u) /\ Ids(u)
  BY ONLY <1>3, <1>9, SameParts
<1>13. Data(u)
  <2>1. \A k : CurrentIn(a, k) => CurrentIn(u, k)
    BY <1>9 DEF CurrentIn
  <2>2. QED
    BY <1>3, <1>7, <1>9, <2>1 DEF Data
<1>14. EpochsKept(v, u) /\ IdsKept(v, u)
  BY <1>2, <1>9 DEF EpochsKept, EpochOf, IdsKept
<1>15. QED
  BY <1>1, <1>8, <1>10, <1>11, <1>12, <1>13, <1>14 DEF WorldInv
-----------------------------------------------------------------------------
\* install_space: an id that comes back has an epoch above its tombstone, and a
\* nested space has its anchor from the start.
LEMMA InstallInv ==
  ASSUME NEW v, WorldInv(v), NEW s \in Spaces, NEW d \in Descriptor, d.epoch > 0,
         CanInstall(v, s, d)
  PROVE  LET u == Install(v, s, d)
         IN  /\ WorldInv(u) /\ EpochsKept(v, u)
             /\ DOMAIN u.spaces = DOMAIN v.spaces \cup {s}
             /\ DOMAIN u.tombs = DOMAIN v.tombs \ {s}
<1>. DEFINE tb == Drop(v.tombs, {s})
            su == Put(v.subscribers, s, {})
            sp == Put(v.spaces, s, d)
            u  == [v EXCEPT !.tombs = tb, !.subscribers = su, !.spaces = sp]
<1>1. u = Install(v, s, d)
  BY DEF Install
<1>2. /\ Worlds(v) /\ Sides(v) /\ Counts(v) /\ Home(v) /\ Anchors(v)
      /\ Index(v) /\ Placed(v) /\ Data(v) /\ Ids(v)
  BY DEF WorldInv
<1>3. /\ v.spaces \in [DOMAIN v.spaces -> Descriptor] /\ DOMAIN v.spaces \subseteq Spaces
      /\ v.tombs \in [DOMAIN v.tombs -> Nat] /\ DOMAIN v.tombs \subseteq Spaces
      /\ v.subscribers \in [DOMAIN v.subscribers -> SUBSET Connections]
      /\ DOMAIN v.subscribers \subseteq Spaces
  BY <1>2 DEF Worlds
<1>4. s \notin DOMAIN v.spaces /\ s \notin DOMAIN v.subscribers
  BY <1>2 DEF CanInstall, Sides
<1>5. /\ DOMAIN tb = DOMAIN v.tombs \ {s} /\ \A r \in DOMAIN tb : tb[r] = v.tombs[r]
      /\ tb \in [DOMAIN tb -> Nat] /\ DOMAIN tb \subseteq Spaces
  BY <1>3 DEF Drop
<1>6. /\ DOMAIN su = DOMAIN v.subscribers \cup {s} /\ su[s] = {}
      /\ \A r \in DOMAIN v.subscribers : su[r] = v.subscribers[r]
      /\ su \in [DOMAIN su -> SUBSET Connections] /\ DOMAIN su \subseteq Spaces
  BY <1>3, <1>4 DEF Put
<1>7. /\ DOMAIN sp = DOMAIN v.spaces \cup {s} /\ sp[s] = d
      /\ \A r \in DOMAIN v.spaces : sp[r] = v.spaces[r]
      /\ sp \in [DOMAIN sp -> Descriptor] /\ DOMAIN sp \subseteq Spaces
  BY <1>3, <1>4 DEF Put
<1>. HIDE DEF tb, su, sp
<1>8. Worlds(u)
  BY ONLY <1>2, <1>5, <1>6, <1>7 DEF Worlds, u
<1>9. /\ u.tombs = tb /\ u.subscribers = su /\ u.spaces = sp /\ u.up = v.up
      /\ u.member = v.member /\ u.members = v.members /\ u.subs = v.subs /\ u.owned = v.owned
      /\ u.ents = v.ents /\ u.cellOf = v.cellOf /\ u.cells = v.cells /\ u.state = v.state
      /\ u.seqs = v.seqs /\ u.queued = v.queued /\ u.nextEntity = v.nextEntity
  BY <1>2 DEF Worlds
<1>. HIDE DEF u
<1>10. Sides(u)
  BY <1>2, <1>4, <1>6, <1>7, <1>9 DEF Sides
<1>11. Counts(u) /\ Index(u) /\ Placed(u)
  BY <1>2, <1>9 DEF Counts, OwnedBy, Index, Placed
<1>12. Home(u)
  BY <1>2, <1>7, <1>9 DEF Home
<1>13. Anchors(u)
  BY <1>2, <1>7, <1>9 DEF Anchors, CanInstall
<1>14. Data(u)
  <2>1. \A k : CurrentIn(v, k) => CurrentIn(u, k)
    BY <1>7, <1>9 DEF CurrentIn
  <2>2. QED
    BY <1>2, <1>9, <2>1 DEF Data
<1>15. Ids(u)
  <2>1. IsFiniteSet(DOMAIN v.spaces) /\ IsFiniteSet(DOMAIN v.tombs)
    BY <1>2 DEF Ids
  <2>2. IsFiniteSet(DOMAIN sp)
    BY <1>7, <2>1, FS_AddElement
  <2>3. IsFiniteSet(DOMAIN tb)
    BY <1>5, <2>1, FS_Subset
  <2>4. QED
    BY <1>2, <1>5, <1>7, <1>9, <2>2, <2>3 DEF Ids
<1>16. EpochsKept(v, u)
  <2>1. SUFFICES ASSUME NEW r \in Spaces
                 PROVE  /\ EpochOf(u, r) >= EpochOf(v, r)
                        /\ r \notin DOMAIN v.spaces /\ r \in DOMAIN u.spaces =>
                             EpochOf(u, r) > EpochOf(v, r)
    BY DEF EpochsKept
  <2>2. EpochOf(v, r) \in Nat
    <3>1. /\ r \in DOMAIN v.spaces => v.spaces[r] \in Descriptor
          /\ r \in DOMAIN v.tombs => v.tombs[r] \in Nat
      BY <1>3
    <3>2. QED
      BY <3>1 DEF EpochOf, Descriptor
  <2>3. CASE r = s
    <3>1. EpochOf(u, r) = d.epoch /\ d.epoch \in Nat
      BY <1>7, <1>9, <2>3 DEF EpochOf, Descriptor
    <3>2. d.epoch > EpochOf(v, r)
      BY <1>4, <2>3, <3>1 DEF EpochOf, CanInstall
    <3>3. QED
      BY <2>2, <3>1, <3>2
  <2>4. CASE r # s
    <3>1. EpochOf(u, r) = EpochOf(v, r) /\ (r \in DOMAIN u.spaces <=> r \in DOMAIN v.spaces)
      BY <1>5, <1>7, <1>9, <2>4 DEF EpochOf
    <3>2. QED
      BY <2>2, <3>1
  <2>5. QED
    BY <2>3, <2>4
<1>17. QED
  BY <1>1, <1>5, <1>7, <1>8, <1>9, <1>10, <1>11, <1>12, <1>13, <1>14, <1>15, <1>16 DEF WorldInv

\* advance_space_epoch: no entity and no data of the old epoch is left, also
\* when the space itself went with its entities.
LEMMA AdvanceInv ==
  ASSUME NEW v, WorldInv(v), NEW s \in DOMAIN v.spaces, NEW n \in Nat, n > v.spaces[s].epoch
  PROVE  LET u == Advance(v, s, n) IN WorldInv(u) /\ EpochsKept(v, u) /\ IdsKept(v, u)
<1>. DEFINE E  == {e \in DOMAIN v.ents : v.ents[e].space = s}
            a  == Cascade(v, E)
            qu == [c \in Connections |-> NotAbout(a.queued[c], {s}, {})]
            b  == [a EXCEPT !.queued = qu]
            sp == [a.spaces EXCEPT ![s].epoch = n]
            st == NotAbout(a.state, {s}, {})
            sq == SeqsNotAbout(a.seqs, {s}, {})
            u  == [b EXCEPT !.spaces = sp, !.state = st, !.seqs = sq]
<1>1. E \in SUBSET DOMAIN v.ents
  OBVIOUS
<1>2. /\ WorldInv(a) /\ EpochsKept(v, a) /\ IdsKept(v, a) /\ DOMAIN a.ents \cap E = {}
      /\ Cascaded(v, a, DoomedSpaces(v, E), DoomedEntities(v, E))
  BY <1>1, CascadeInv
<1>3. \A e \in DOMAIN a.ents : a.ents[e].space # s
  BY <1>2 DEF Cascaded
<1>4. s \in DOMAIN a.spaces => a.spaces[s] = v.spaces[s]
  BY <1>2 DEF Cascaded
<1>. HIDE DEF a, E
<1>5. /\ Worlds(a) /\ Sides(a) /\ Counts(a) /\ Home(a) /\ Anchors(a)
      /\ Index(a) /\ Placed(a) /\ Data(a) /\ Ids(a)
  BY <1>2 DEF WorldInv
<1>6. /\ a.queued \in [Connections -> SUBSET DataKey] /\ a.state \subseteq DataKey
      /\ a.seqs \subseteq Connections \X DataKey
      /\ a.spaces \in [DOMAIN a.spaces -> Descriptor] /\ DOMAIN a.spaces \subseteq Spaces
  BY <1>5 DEF Worlds
<1>7. /\ qu \in [Connections -> SUBSET DataKey]
      /\ \A c \in Connections : \A k \in qu[c] : k \in a.queued[c] /\ k.space # s
  BY <1>6 DEF NotAbout
<1>8. /\ st \subseteq DataKey /\ \A k \in st : k \in a.state /\ k.space # s
      /\ sq \subseteq Connections \X DataKey /\ \A k \in sq : k \in a.seqs /\ k[2].space # s
  BY <1>6 DEF NotAbout, SeqsNotAbout
<1>9. s \in DOMAIN a.spaces =>
        /\ sp \in [DOMAIN a.spaces -> Descriptor] /\ DOMAIN sp = DOMAIN a.spaces
        /\ sp[s].epoch = n /\ sp[s].parent = a.spaces[s].parent
        /\ sp[s].anchor = a.spaces[s].anchor
        /\ \A r \in DOMAIN a.spaces \ {s} : sp[r] = a.spaces[r]
  BY <1>6 DEF Descriptor
<1>10. Advance(v, s, n) = IF s \notin DOMAIN a.spaces THEN b ELSE u
  BY <1>5 DEF Advance, a, E, Worlds
<1>. HIDE DEF qu, st, sq, sp
<1>11. /\ Worlds(b) /\ b.queued = qu /\ b.up = a.up /\ b.member = a.member
       /\ b.members = a.members /\ b.subs = a.subs /\ b.subscribers = a.subscribers
       /\ b.owned = a.owned /\ b.spaces = a.spaces /\ b.tombs = a.tombs /\ b.ents = a.ents
       /\ b.cellOf = a.cellOf /\ b.cells = a.cells /\ b.state = a.state /\ b.seqs = a.seqs
       /\ b.nextEntity = a.nextEntity
  BY <1>5, <1>7 DEF Worlds
<1>. HIDE DEF b
<1>12. CASE s \notin DOMAIN a.spaces
  <2>1. Sides(b) /\ Counts(b) /\ Home(b) /\ Anchors(b) /\ Index(b) /\ Placed(b) /\ Ids(b)
    BY ONLY <1>5, <1>11, SameParts
  <2>2. \A k : CurrentIn(a, k) => CurrentIn(b, k)
    BY <1>11 DEF CurrentIn
  <2>3. Data(b)
    BY <1>5, <1>7, <1>11, <2>2 DEF Data
  <2>4. EpochsKept(v, b) /\ IdsKept(v, b)
    BY <1>2, <1>11 DEF EpochsKept, EpochOf, IdsKept
  <2>5. QED
    BY <1>10, <1>11, <1>12, <2>1, <2>3, <2>4 DEF WorldInv
<1>13. CASE s \in DOMAIN a.spaces
  <2>1. Worlds(u)
    BY ONLY <1>6, <1>8, <1>9, <1>11, <1>13 DEF Worlds, u
  <2>2. /\ u.queued = qu /\ u.up = a.up /\ u.member = a.member
        /\ u.members = a.members /\ u.subs = a.subs /\ u.subscribers = a.subscribers
        /\ u.owned = a.owned /\ u.spaces = sp /\ u.tombs = a.tombs /\ u.ents = a.ents
        /\ u.cellOf = a.cellOf /\ u.cells = a.cells /\ u.state = st /\ u.seqs = sq
        /\ u.nextEntity = a.nextEntity
    BY <1>11 DEF Worlds
  <2>. HIDE DEF u
  <2>3. Sides(u) /\ Counts(u) /\ Index(u) /\ Placed(u) /\ Ids(u)
    BY ONLY <1>5, <1>9, <1>13, <2>2, SameParts
  <2>4. Home(u) /\ Anchors(u)
    <3>1. Home(u)
      BY ONLY <1>3, <1>5, <1>9, <1>13, <2>2 DEF Home
    <3>2. Anchors(u)
      BY ONLY <1>3, <1>5, <1>9, <1>13, <2>2 DEF Anchors
    <3>3. QED
      BY ONLY <3>1, <3>2
  <2>5. \A k : CurrentIn(a, k) /\ k.space # s => CurrentIn(u, k)
    BY <1>9, <1>13, <2>2 DEF CurrentIn
  <2>6. Data(u)
    BY <1>5, <1>7, <1>8, <2>2, <2>5 DEF Data
  <2>7. IdsKept(v, u)
    BY <1>2, <1>9, <1>13, <2>2 DEF IdsKept
  <2>8. EpochsKept(v, u)
    <3>1. SUFFICES ASSUME NEW r \in Spaces
                   PROVE  /\ EpochOf(u, r) >= EpochOf(v, r)
                          /\ r \notin DOMAIN v.spaces /\ r \in DOMAIN u.spaces =>
                               EpochOf(u, r) > EpochOf(v, r)
      BY DEF EpochsKept
    <3>2. CASE r = s
      <4>1. EpochOf(u, r) = n /\ EpochOf(v, r) = v.spaces[s].epoch
        BY <1>9, <1>13, <2>2, <3>2 DEF EpochOf
      <4>2. v.spaces[s].epoch \in Nat
        BY <1>4, <1>6, <1>13 DEF Descriptor
      <4>3. QED
        BY <3>2, <4>1, <4>2
    <3>3. CASE r # s
      <4>1. EpochOf(u, r) = EpochOf(a, r) /\ (r \in DOMAIN u.spaces <=> r \in DOMAIN a.spaces)
        BY <1>9, <1>13, <2>2, <3>3 DEF EpochOf
      <4>2. QED
        BY <1>2, <4>1 DEF EpochsKept
    <3>4. QED
      BY <3>2, <3>3
  <2>9. QED
    BY <1>10, <1>13, <2>1, <2>3, <2>4, <2>6, <2>7, <2>8 DEF WorldInv
<1>14. QED
  BY <1>12, <1>13
-----------------------------------------------------------------------------
\* u differs from v in the data only.
OnlyData(v, u) ==
  /\ u.up = v.up /\ u.member = v.member /\ u.members = v.members
  /\ u.subs = v.subs /\ u.subscribers = v.subscribers /\ u.owned = v.owned
  /\ u.spaces = v.spaces /\ u.tombs = v.tombs /\ u.ents = v.ents
  /\ u.cellOf = v.cellOf /\ u.cells = v.cells /\ u.nextEntity = v.nextEntity

\* Operations on the data alone have to keep it current.
LEMMA OnlyDataInv ==
  ASSUME NEW v, WorldInv(v), NEW u, Worlds(u), OnlyData(v, u),
         \A k \in u.state : CurrentIn(v, k),
         \A k \in u.seqs : k[1] \in v.members /\ CurrentIn(v, k[2]),
         \A c \in Connections : \A k \in u.queued[c] : CurrentIn(v, k) /\ k.space \in v.subs[c]
  PROVE  WorldInv(u)
<1>1. Sides(u) /\ Counts(u) /\ Home(u) /\ Anchors(u) /\ Index(u) /\ Placed(u) /\ Ids(u)
  <2>1. /\ Sides(v) /\ Counts(v) /\ Home(v) /\ Anchors(v) /\ Index(v) /\ Placed(v) /\ Ids(v)
        /\ OnlyData(v, u)
    BY DEF WorldInv
  <2>2. QED
    BY ONLY <2>1, SameParts DEF OnlyData
<1>2. \A k : CurrentIn(v, k) => CurrentIn(u, k)
  BY DEF OnlyData, CurrentIn
<1>3. Data(u)
  BY <1>2 DEF OnlyData, Data
<1>4. QED
  BY <1>1, <1>3 DEF WorldInv

\* subscribe
LEMMA SubscribedInv ==
  ASSUME NEW v, WorldInv(v), NEW c \in v.member, NEW s \in DOMAIN v.spaces
  PROVE  LET u == Subscribed(v, c, s)
         IN  WorldInv(u) /\ u.spaces = v.spaces /\ u.tombs = v.tombs
<1>. DEFINE sb == [v.subs EXCEPT ![c] = v.subs[c] \cup {s}]
            su == Put(v.subscribers, s, v.subscribers[s] \cup {c})
            u  == [v EXCEPT !.subs = sb, !.subscribers = su]
<1>1. /\ Worlds(v) /\ Sides(v) /\ Counts(v) /\ Home(v) /\ Anchors(v)
      /\ Index(v) /\ Placed(v) /\ Data(v) /\ Ids(v)
  BY DEF WorldInv
<1>2. /\ v.subs \in [Connections -> SUBSET Spaces] /\ v.member \subseteq Connections
      /\ v.subscribers \in [DOMAIN v.subscribers -> SUBSET Connections]
      /\ DOMAIN v.subscribers \subseteq Spaces /\ DOMAIN v.spaces \subseteq Spaces
  BY <1>1 DEF Worlds
<1>3. s \in DOMAIN v.subscribers /\ c \in Connections /\ s \in Spaces /\ c \in v.members
  BY <1>1, <1>2 DEF Sides
<1>4. u = Subscribed(v, c, s)
  BY <1>1 DEF Subscribed, Worlds
<1>5. /\ sb \in [Connections -> SUBSET Spaces] /\ sb[c] = v.subs[c] \cup {s}
      /\ \A o \in Connections \ {c} : sb[o] = v.subs[o]
  BY <1>2, <1>3
<1>6. /\ DOMAIN su = DOMAIN v.subscribers /\ su[s] = v.subscribers[s] \cup {c}
      /\ \A r \in DOMAIN v.subscribers \ {s} : su[r] = v.subscribers[r]
      /\ su \in [DOMAIN su -> SUBSET Connections] /\ DOMAIN su \subseteq Spaces
  BY <1>2, <1>3 DEF Put
<1>. HIDE DEF sb, su
<1>7. Worlds(u)
  BY ONLY <1>1, <1>5, <1>6 DEF Worlds, u
<1>8. /\ u.subs = sb /\ u.subscribers = su /\ u.up = v.up
      /\ u.member = v.member /\ u.members = v.members /\ u.owned = v.owned
      /\ u.spaces = v.spaces /\ u.tombs = v.tombs
      /\ u.ents = v.ents /\ u.cellOf = v.cellOf /\ u.cells = v.cells /\ u.state = v.state
      /\ u.seqs = v.seqs /\ u.queued = v.queued /\ u.nextEntity = v.nextEntity
  BY <1>1 DEF Worlds
<1>. HIDE DEF u
<1>9. Sides(u)
  <2>1. /\ u.member = u.members /\ u.members \subseteq u.up
        /\ DOMAIN u.subscribers = DOMAIN u.spaces
    BY <1>1, <1>6, <1>8 DEF Sides
  <2>2. ASSUME NEW o \in Connections
        PROVE  /\ u.subs[o] = {r \in DOMAIN u.subscribers : o \in u.subscribers[r]}
               /\ u.subs[o] # {} => o \in u.members
    <3>1. CASE o = c
      BY <1>1, <1>3, <1>5, <1>6, <1>8, <3>1 DEF Sides
    <3>2. CASE o # c
      BY <1>1, <1>5, <1>6, <1>8, <3>2 DEF Sides
    <3>3. QED
      BY <3>1, <3>2
  <2>3. QED
    BY <2>1, <2>2 DEF Sides
<1>10. Counts(u) /\ Home(u) /\ Anchors(u) /\ Index(u) /\ Placed(u) /\ Ids(u)
  BY ONLY <1>1, <1>8, SameParts
<1>11. Data(u)
  <2>1. \A k : CurrentIn(v, k) => CurrentIn(u, k)
    BY <1>8 DEF CurrentIn
  <2>2. \A o \in Connections : v.subs[o] \subseteq u.subs[o]
    BY <1>5, <1>8
  <2>3. QED
    BY <1>1, <1>8, <2>1, <2>2 DEF Data
<1>12. QED
  BY <1>4, <1>7, <1>8, <1>9, <1>10, <1>11 DEF WorldInv

\* unsubscribe: what is queued for the space goes with the subscription.
LEMMA UnsubscribedInv ==
  ASSUME NEW v, WorldInv(v), NEW c \in Connections, NEW s \in Spaces
  PROVE  LET u == Unsubscribed(v, c, s)
         IN  WorldInv(u) /\ u.spaces = v.spaces /\ u.tombs = v.tombs
<1>. DEFINE sb == [v.subs EXCEPT ![c] = v.subs[c] \ {s}]
            su == [r \in DOMAIN v.subscribers |->
                     IF r = s THEN v.subscribers[r] \ {c} ELSE v.subscribers[r]]
            qu == [v.queued EXCEPT ![c] = NotAbout(v.queued[c], {s}, {})]
            u  == [v EXCEPT !.subs = sb, !.subscribers = su, !.queued = qu]
<1>1. /\ Worlds(v) /\ Sides(v) /\ Counts(v) /\ Home(v) /\ Anchors(v)
      /\ Index(v) /\ Placed(v) /\ Data(v) /\ Ids(v)
  BY DEF WorldInv
<1>2. /\ v.subs \in [Connections -> SUBSET Spaces]
      /\ v.queued \in [Connections -> SUBSET DataKey]
      /\ v.subscribers \in [DOMAIN v.subscribers -> SUBSET Connections]
      /\ DOMAIN v.subscribers \subseteq Spaces
  BY <1>1 DEF Worlds
<1>3. Unsubscribed(v, c, s) = IF s \notin v.subs[c] THEN v ELSE u
  BY <1>1 DEF Unsubscribed, Worlds
<1>4. /\ sb \in [Connections -> SUBSET Spaces] /\ sb[c] = v.subs[c] \ {s}
      /\ \A o \in Connections \ {c} : sb[o] = v.subs[o]
  BY <1>2
<1>5. /\ DOMAIN su = DOMAIN v.subscribers
      /\ \A r \in DOMAIN su : su[r] = IF r = s THEN v.subscribers[r] \ {c} ELSE v.subscribers[r]
      /\ su \in [DOMAIN su -> SUBSET Connections] /\ DOMAIN su \subseteq Spaces
  BY <1>2
<1>6. /\ qu \in [Connections -> SUBSET DataKey]
      /\ \A k \in qu[c] : k \in v.queued[c] /\ k.space # s
      /\ \A o \in Connections \ {c} : qu[o] = v.queued[o]
  BY <1>2 DEF NotAbout
<1>. HIDE DEF sb, su, qu
<1>7. Worlds(u)
  BY ONLY <1>1, <1>4, <1>5, <1>6 DEF Worlds, u
<1>8. /\ u.subs = sb /\ u.subscribers = su /\ u.queued = qu /\ u.up = v.up
      /\ u.member = v.member /\ u.members = v.members /\ u.owned = v.owned
      /\ u.spaces = v.spaces /\ u.tombs = v.tombs
      /\ u.ents = v.ents /\ u.cellOf = v.cellOf /\ u.cells = v.cells /\ u.state = v.state
      /\ u.seqs = v.seqs /\ u.nextEntity = v.nextEntity
  BY <1>1 DEF Worlds
<1>. HIDE DEF u
<1>9. Sides(u)
  <2>1. /\ u.member = u.members /\ u.members \subseteq u.up
        /\ DOMAIN u.subscribers = DOMAIN u.spaces
    BY <1>1, <1>5, <1>8 DEF Sides
  <2>2. ASSUME NEW o \in Connections
        PROVE  /\ u.subs[o] = {r \in DOMAIN u.subscribers : o \in u.subscribers[r]}
               /\ u.subs[o] # {} => o \in u.members
    <3>1. /\ v.subs[o] = {r \in DOMAIN v.subscribers : o \in v.subscribers[r]}
          /\ v.subs[o] # {} => o \in v.members
      BY <1>1 DEF Sides
    <3>2. sb[o] = IF o = c THEN v.subs[o] \ {s} ELSE v.subs[o]
      BY <1>4
    <3>3. \A r \in DOMAIN su : o \in su[r] <=> o \in v.subscribers[r] /\ ~(r = s /\ o = c)
      BY <1>5
    <3>4. sb[o] = {r \in DOMAIN su : o \in su[r]}
      BY ONLY <1>5, <3>1, <3>2, <3>3
    <3>5. sb[o] # {} => o \in v.members
      BY ONLY <3>1, <3>2
    <3>6. QED
      BY <1>8, <3>4, <3>5
  <2>3. QED
    BY <2>1, <2>2 DEF Sides
<1>10. Counts(u) /\ Home(u) /\ Anchors(u) /\ Index(u) /\ Placed(u) /\ Ids(u)
  BY ONLY <1>1, <1>8, SameParts
<1>11. Data(u)
  <2>1. \A k : CurrentIn(v, k) => CurrentIn(u, k)
    BY <1>8 DEF CurrentIn
  <2>2. \A o \in Connections : \A k \in qu[o] : k \in v.queued[o] /\ (k.space \in v.subs[o] => k.space \in sb[o])
    BY <1>4, <1>6
  <2>3. QED
    BY <1>1, <1>8, <2>1, <2>2 DEF Data
<1>12. QED
  BY <1>3, <1>7, <1>8, <1>9, <1>10, <1>11 DEF WorldInv
\* spawn_entity: the id was never used, so nothing is known of it anywhere else.
LEMMA SpawnInv ==
  ASSUME NEW v, WorldInv(v), NEW c \in v.member, NEW s \in DOMAIN v.spaces,
         v.nextEntity < MaxEntity
  PROVE  LET u == Spawn(v, c, s)
         IN  WorldInv(u) /\ u.spaces = v.spaces /\ u.tombs = v.tombs
<1>. DEFINE e  == v.nextEntity
            q  == [owner |-> c, space |-> s, epoch |-> v.spaces[s].epoch, at |-> Nowhere]
            es == Put(v.ents, e, q)
            ow == [v.owned EXCEPT ![c] = v.owned[c] + 1]
            n  == v.nextEntity + 1
            u  == [v EXCEPT !.ents = es, !.owned = ow, !.nextEntity = n]
<1>1. /\ Worlds(v) /\ Sides(v) /\ Counts(v) /\ Home(v) /\ Anchors(v)
      /\ Index(v) /\ Placed(v) /\ Data(v) /\ Ids(v)
  BY DEF WorldInv
<1>2. /\ v.owned \in [Connections -> Nat] /\ v.nextEntity \in Nat \ {0}
      /\ v.ents \in [DOMAIN v.ents -> EntityRecord] /\ DOMAIN v.ents \subseteq Entities
      /\ v.spaces \in [DOMAIN v.spaces -> Descriptor] /\ DOMAIN v.spaces \subseteq Spaces
      /\ v.member \subseteq Connections
  BY <1>1 DEF Worlds
<1>3. e \in Entities /\ n \in Nat \ {0} /\ n = e + 1 /\ e \in Nat
  BY <1>2, SpaceAssumption DEF Entities
<1>4. e \notin DOMAIN v.ents /\ e \notin DOMAIN v.cellOf
  <2>1. e \notin DOMAIN v.ents
    BY <1>1, <1>3 DEF Home
  <2>2. QED
    BY <1>1, <2>1 DEF Placed
<1>5. /\ q \in EntityRecord /\ q.owner = c /\ q.space = s /\ q.epoch = v.spaces[s].epoch
      /\ q.at = {}
  BY <1>2 DEF EntityRecord, Descriptor, Nowhere
<1>6. u = Spawn(v, c, s)
  BY DEF Spawn
<1>. HIDE DEF q
<1>7. /\ DOMAIN es = DOMAIN v.ents \cup {e} /\ es[e] = q
      /\ \A i \in DOMAIN v.ents : es[i] = v.ents[i]
      /\ es \in [DOMAIN es -> EntityRecord] /\ DOMAIN es \subseteq Entities
  BY <1>2, <1>3, <1>4, <1>5 DEF Put
<1>8. /\ ow \in [Connections -> Nat] /\ ow[c] = v.owned[c] + 1
      /\ \A o \in Connections \ {c} : ow[o] = v.owned[o]
  BY <1>2
<1>. HIDE DEF es, ow, n
<1>9. Worlds(u)
  BY ONLY <1>1, <1>3, <1>7, <1>8 DEF Worlds, u
<1>10. /\ u.ents = es /\ u.owned = ow /\ u.nextEntity = n /\ u.up = v.up
       /\ u.member = v.member /\ u.members = v.members /\ u.subs = v.subs
       /\ u.subscribers = v.subscribers /\ u.spaces = v.spaces /\ u.tombs = v.tombs
       /\ u.cellOf = v.cellOf /\ u.cells = v.cells /\ u.state = v.state
       /\ u.seqs = v.seqs /\ u.queued = v.queued
  BY <1>1 DEF Worlds
<1>. HIDE DEF u, e
<1>11. Sides(u) /\ Index(u) /\ Ids(u)
  BY ONLY <1>1, <1>10, SameParts
<1>12. Counts(u)
  <2>1. SUFFICES ASSUME NEW o \in Connections
                 PROVE  ow[o] = Cardinality(OwnedBy(u, o))
    BY <1>10 DEF Counts
  <2>2. v.owned[o] = Cardinality(OwnedBy(v, o)) /\ IsFiniteSet(OwnedBy(v, o))
    <3>1. OwnedBy(v, o) \in SUBSET Entities
      BY <1>2 DEF OwnedBy
    <3>2. QED
      BY <1>1, <3>1, EntitiesFinite DEF Counts
  <2>3. OwnedBy(u, o) = IF o = c THEN OwnedBy(v, o) \cup {e} ELSE OwnedBy(v, o)
    BY <1>5, <1>7, <1>10 DEF OwnedBy
  <2>4. CASE o = c
    <3>1. e \notin OwnedBy(v, o)
      BY <1>4 DEF OwnedBy
    <3>2. Cardinality(OwnedBy(v, o) \cup {e}) = Cardinality(OwnedBy(v, o)) + 1
      BY <2>2, <3>1, FS_AddElement
    <3>3. QED
      BY <1>8, <2>2, <2>3, <2>4, <3>2
  <2>5. CASE o # c
    BY <1>8, <2>2, <2>3, <2>5
  <2>6. QED
    BY <2>4, <2>5
<1>13. Home(u)
  <2>1. ASSUME NEW i \in DOMAIN v.ents
        PROVE  i < n
    <3>1. i \in Nat /\ i < v.nextEntity /\ v.nextEntity \in Nat /\ n = v.nextEntity + 1
      <4>1. i \in Entities /\ i < v.nextEntity
        BY <1>1, <1>2 DEF Home
      <4>2. i \in Nat
        BY <4>1, SpaceAssumption DEF Entities
      <4>3. QED
        BY <1>2, <4>1, <4>2 DEF n
    <3>2. QED
      BY ONLY <3>1
  <2>2. c \in v.members
    BY <1>1 DEF Sides
  <2>3. e < n
    BY <1>3
  <2>4. QED
    BY <1>1, <1>5, <1>7, <1>10, <2>1, <2>2, <2>3 DEF Home
<1>14. Anchors(u)
  BY <1>1, <1>7, <1>10 DEF Anchors
<1>15. Placed(u)
  BY <1>1, <1>4, <1>5, <1>7, <1>10 DEF Placed, Nowhere
<1>16. Data(u)
  <2>1. \A k : CurrentIn(v, k) => CurrentIn(u, k)
    BY <1>7, <1>10 DEF CurrentIn
  <2>2. QED
    BY <1>1, <1>10, <2>1 DEF Data
<1>17. QED
  BY <1>6, <1>9, <1>10, <1>11, <1>12, <1>13, <1>14, <1>15, <1>16 DEF WorldInv
\* transition_entity: the one key under which data about the entity may be kept
\* is that of the space it leaves, and goes with it.
LEMMA TransitionInv ==
  ASSUME NEW v, WorldInv(v), NEW e \in DOMAIN v.ents, NEW dst \in DOMAIN v.spaces
  PROVE  LET u == Transition(v, e, dst)
         IN  WorldInv(u) /\ u.spaces = v.spaces /\ u.tombs = v.tombs
<1>. DEFINE r  == v.ents[e]
            g  == [space |-> r.space, epoch |-> r.epoch, entity |-> e]
            q  == [owner |-> r.owner, space |-> dst, epoch |-> v.spaces[dst].epoch,
                   at |-> Nowhere]
            a  == LeaveCells(v, {e})
            es == Put(v.ents, e, q)
            st == v.state \ {g}
            sq == {k \in v.seqs : k[2] \notin {g}}
            qu == [c \in Connections |-> v.queued[c] \ {g}]
            u  == [a EXCEPT !.ents = es, !.state = st, !.seqs = sq, !.queued = qu]
<1>1. /\ Worlds(v) /\ Sides(v) /\ Counts(v) /\ Home(v) /\ Anchors(v)
      /\ Index(v) /\ Placed(v) /\ Data(v) /\ Ids(v)
  BY DEF WorldInv
<1>2. /\ v.ents \in [DOMAIN v.ents -> EntityRecord] /\ DOMAIN v.ents \subseteq Entities
      /\ v.spaces \in [DOMAIN v.spaces -> Descriptor] /\ DOMAIN v.spaces \subseteq Spaces
      /\ v.state \subseteq DataKey /\ v.seqs \subseteq Connections \X DataKey
      /\ v.queued \in [Connections -> SUBSET DataKey]
  BY <1>1 DEF Worlds
<1>3. /\ Worlds(a) /\ Index(a) /\ OnlyCells(v, a)
      /\ DOMAIN a.cellOf = DOMAIN v.cellOf \ {e}
      /\ \A i \in DOMAIN a.cellOf : a.cellOf[i] = v.cellOf[i]
  BY <1>1, LeaveCellsInv
<1>4. u = Transition(v, e, dst)
  BY <1>3 DEF Transition, OnlyCells
<1>. HIDE DEF a
<1>5. r \in EntityRecord /\ r.owner \in Connections /\ r.space \in Spaces /\ r.epoch \in Nat
  BY <1>2 DEF EntityRecord
<1>6. /\ q \in EntityRecord /\ q.owner = r.owner /\ q.space = dst
      /\ q.epoch = v.spaces[dst].epoch /\ q.at = {}
  BY <1>2, <1>5 DEF EntityRecord, Descriptor, Nowhere
<1>7. g.space = r.space /\ g.epoch = r.epoch /\ g.entity = e
  OBVIOUS
<1>8. \A k \in DataKey : CurrentIn(v, k) /\ k.entity = e => k = g
  <2>1. SUFFICES ASSUME NEW k \in DataKey, CurrentIn(v, k), k.entity = e
                 PROVE  k = g
    OBVIOUS
  <2>2. e # NoEntity
    BY <1>2, SpaceAssumption DEF Entities, NoEntity
  <2>3. k.space = r.space /\ k.epoch = v.spaces[r.space].epoch
    BY <2>1, <2>2 DEF CurrentIn
  <2>4. r.epoch = v.spaces[r.space].epoch
    BY <1>1 DEF Home
  <2>5. QED
    BY <2>1, <2>3, <2>4 DEF DataKey
<1>. HIDE DEF q, g
<1>9. /\ DOMAIN es = DOMAIN v.ents /\ es[e] = q
      /\ \A i \in DOMAIN v.ents \ {e} : es[i] = v.ents[i]
      /\ es \in [DOMAIN es -> EntityRecord] /\ DOMAIN es \subseteq Entities
  BY <1>2, <1>6 DEF Put
<1>10. /\ st \subseteq DataKey /\ sq \subseteq Connections \X DataKey
       /\ qu \in [Connections -> SUBSET DataKey]
       /\ \A c \in Connections : qu[c] = v.queued[c] \ {g}
  BY <1>2
<1>11. /\ \A k \in st : k \in v.state /\ k # g
       /\ \A k \in sq : k \in v.seqs /\ k[2] # g
  OBVIOUS
<1>. HIDE DEF es, st, sq, qu
<1>12. Worlds(u)
  BY ONLY <1>3, <1>9, <1>10 DEF Worlds, u
<1>13. /\ u.ents = es /\ u.state = st /\ u.seqs = sq /\ u.queued = qu
       /\ u.cellOf = a.cellOf /\ u.cells = a.cells /\ u.up = v.up
       /\ u.member = v.member /\ u.members = v.members /\ u.subs = v.subs
       /\ u.subscribers = v.subscribers /\ u.spaces = v.spaces /\ u.tombs = v.tombs
       /\ u.owned = v.owned /\ u.nextEntity = v.nextEntity
  BY <1>3 DEF Worlds, OnlyCells
<1>. HIDE DEF u
<1>14. Sides(u) /\ Index(u) /\ Ids(u)
  BY ONLY <1>1, <1>3, <1>13, SameParts DEF OnlyCells
<1>15. Counts(u)
  <2>1. \A c \in Connections : OwnedBy(u, c) = OwnedBy(v, c)
    BY <1>6, <1>9, <1>13 DEF OwnedBy
  <2>2. QED
    BY <1>1, <1>13, <2>1 DEF Counts
<1>16. Home(u)
  BY <1>1, <1>6, <1>9, <1>13 DEF Home
<1>17. Anchors(u)
  BY <1>1, <1>9, <1>13 DEF Anchors
<1>18. Placed(u)
  BY <1>1, <1>3, <1>6, <1>9, <1>13 DEF Placed, Nowhere
<1>19. Data(u)
  <2>1. \A k \in DataKey : CurrentIn(v, k) /\ k # g => CurrentIn(u, k)
    BY <1>8, <1>9, <1>13 DEF CurrentIn
  <2>2. \A k \in u.state : CurrentIn(u, k)
    BY <1>1, <1>10, <1>11, <1>13, <2>1 DEF Data
  <2>3. \A k \in u.seqs : k[1] \in u.members /\ CurrentIn(u, k[2])
    BY <1>1, <1>10, <1>11, <1>13, <2>1 DEF Data
  <2>4. \A c \in Connections : \A k \in u.queued[c] : CurrentIn(u, k) /\ k.space \in u.subs[c]
    BY <1>1, <1>10, <1>13, <2>1 DEF Data
  <2>5. QED
    BY <2>2, <2>3, <2>4 DEF Data
<1>20. QED
  BY <1>4, <1>12, <1>13, <1>14, <1>15, <1>16, <1>17, <1>18, <1>19 DEF WorldInv
-----------------------------------------------------------------------------
\* routing_recipients finds subscribers only.
LEMMA RecipientsSubscribe ==
  ASSUME NEW v, NEW k, NEW critical
  PROVE  Recipients(v, k, critical) \subseteq v.subscribers[k.space]
BY DEF Recipients

\* The epochs and the ids on record are those of the spaces and the tombstones.
LEMMA SpacesKept ==
  ASSUME NEW v, WorldInv(v), NEW a, a.spaces = v.spaces, a.tombs = v.tombs, NEW u,
         EpochsKept(a, u), IdsKept(a, u)
  PROVE  EpochsKept(v, u) /\ IdsKept(v, u)
BY DEF EpochsKept, IdsKept, EpochOf

\* An operation that leaves spaces and tombstones alone keeps epochs and ids.
LEMMA SameSpacesKept ==
  ASSUME NEW v, WorldInv(v), NEW u, u.spaces = v.spaces, u.tombs = v.tombs
  PROVE  EpochsKept(v, u) /\ IdsKept(v, u)
<1>1. /\ IsFiniteSet(DOMAIN v.spaces) /\ IsFiniteSet(DOMAIN v.tombs)
      /\ v.spaces \in [DOMAIN v.spaces -> Descriptor] /\ v.tombs \in [DOMAIN v.tombs -> Nat]
  BY DEF WorldInv, Ids, Worlds
<1>2. /\ Cardinality(DOMAIN v.spaces) \in Nat /\ Cardinality(DOMAIN v.tombs) \in Nat
  BY <1>1, FS_CardinalityType
<1>3. \A s : EpochOf(v, s) \in Nat /\ EpochOf(u, s) = EpochOf(v, s)
  BY <1>1 DEF EpochOf, Descriptor
<1>4. EpochsKept(v, u)
  BY <1>3 DEF EpochsKept
<1>5. QED
  BY <1>2, <1>4 DEF IdsKept

\* publish_at: what it keeps and queues is of the present, and only subscribers
\* are sent it; then the slow ones are lost.
LEMMA PublishedInv ==
  ASSUME NEW v, WorldInv(v), NEW c \in v.members, NEW k \in DataKey, CurrentIn(v, k),
         NEW messages \in SUBSET DataKey, \A m \in messages : CurrentIn(v, m),
         NEW critical, NEW stateful, NEW slow \in SUBSET Connections
  PROVE  LET u == Published(v, c, k, messages, critical, stateful, slow)
         IN  WorldInv(u) /\ EpochsKept(v, u) /\ IdsKept(v, u)
<1>. DEFINE sq == v.seqs \cup {<<c, m>> : m \in messages \cup {k}}
            st == IF stateful THEN v.state \cup messages ELSE v.state
            qu == [o \in Connections |->
                     v.queued[o] \cup {m \in messages : o \in Recipients(v, m, critical)}]
            u  == [v EXCEPT !.seqs = sq, !.state = st, !.queued = qu]
<1>1. Worlds(v) /\ Sides(v) /\ Data(v)
  BY DEF WorldInv
<1>2. /\ v.state \subseteq DataKey /\ v.seqs \subseteq Connections \X DataKey
      /\ v.queued \in [Connections -> SUBSET DataKey] /\ v.members \subseteq Connections
  BY <1>1 DEF Worlds
<1>3. Published(v, c, k, messages, critical, stateful, slow) = Lose(u, slow)
  BY DEF Published
<1>4. sq \subseteq Connections \X DataKey /\ \A j \in sq : j[1] \in v.members /\ CurrentIn(v, j[2])
  BY <1>1, <1>2 DEF Data
<1>5. st \subseteq DataKey /\ \A j \in st : CurrentIn(v, j)
  BY <1>1, <1>2 DEF Data
<1>6. /\ qu \in [Connections -> SUBSET DataKey]
      /\ \A o \in Connections : \A j \in qu[o] : CurrentIn(v, j) /\ j.space \in v.subs[o]
  <2>1. qu \in [Connections -> SUBSET DataKey]
    BY <1>2
  <2>2. ASSUME NEW o \in Connections, NEW j \in qu[o]
        PROVE  CurrentIn(v, j) /\ j.space \in v.subs[o]
    <3>1. CASE j \in v.queued[o]
      BY <1>1, <3>1 DEF Data
    <3>2. CASE j \in messages /\ o \in Recipients(v, j, critical)
      <4>1. o \in v.subscribers[j.space]
        BY <3>2, RecipientsSubscribe
      <4>2. j.space \in DOMAIN v.subscribers /\ CurrentIn(v, j)
        BY <1>1, <3>2 DEF Sides, CurrentIn
      <4>3. v.subs[o] = {s \in DOMAIN v.subscribers : o \in v.subscribers[s]}
        BY <1>1 DEF Sides
      <4>4. QED
        BY <4>1, <4>2, <4>3
    <3>3. QED
      BY <2>2, <3>1, <3>2
  <2>3. QED
    BY <2>1, <2>2
<1>. HIDE DEF sq, st, qu
<1>7. Worlds(u)
  BY ONLY <1>1, <1>4, <1>5, <1>6 DEF Worlds, u
<1>8. u.seqs = sq /\ u.state = st /\ u.queued = qu /\ OnlyData(v, u)
  BY <1>1 DEF Worlds, OnlyData
<1>. HIDE DEF u
<1>9. WorldInv(u)
  <2>1. /\ \A j \in u.state : CurrentIn(v, j)
        /\ \A j \in u.seqs : j[1] \in v.members /\ CurrentIn(v, j[2])
        /\ \A o \in Connections : \A j \in u.queued[o] : CurrentIn(v, j) /\ j.space \in v.subs[o]
    BY ONLY <1>4, <1>5, <1>6, <1>8
  <2>2. QED
    BY <1>7, <1>8, <2>1, OnlyDataInv
<1>10. WorldInv(Lose(u, slow)) /\ EpochsKept(u, Lose(u, slow)) /\ IdsKept(u, Lose(u, slow))
  BY <1>9, LoseInv
<1>11. u.spaces = v.spaces /\ u.tombs = v.tombs
  BY <1>8 DEF OnlyData
<1>12. EpochsKept(v, Lose(u, slow)) /\ IdsKept(v, Lose(u, slow))
  BY <1>10, <1>11, SpacesKept
<1>13. QED
  BY <1>3, <1>10, <1>12
\* drain_outbound_for_spaces and sweep_expired_state only take data away.
LEMMA LessDataInv ==
  ASSUME NEW v, WorldInv(v), NEW st \in SUBSET v.state, NEW qu \in [Connections -> SUBSET DataKey],
         \A c \in Connections : qu[c] \subseteq v.queued[c]
  PROVE  LET u == [v EXCEPT !.state = st, !.queued = qu]
         IN  WorldInv(u) /\ u.spaces = v.spaces /\ u.tombs = v.tombs
<1>. DEFINE u == [v EXCEPT !.state = st, !.queued = qu]
<1>1. Worlds(v) /\ Data(v) /\ st \subseteq DataKey
  BY DEF WorldInv, Worlds
<1>2. Worlds(u)
  BY <1>1 DEF Worlds
<1>3. u.state = st /\ u.queued = qu /\ u.seqs = v.seqs /\ OnlyData(v, u)
  BY <1>1 DEF Worlds, OnlyData
<1>. HIDE DEF u
<1>4. /\ \A j \in u.state : CurrentIn(v, j)
      /\ \A j \in u.seqs : j[1] \in v.members /\ CurrentIn(v, j[2])
      /\ \A o \in Connections : \A j \in u.queued[o] : CurrentIn(v, j) /\ j.space \in v.subs[o]
  BY <1>1, <1>3 DEF Data
<1>5. WorldInv(u)
  BY <1>2, <1>3, <1>4, OnlyDataInv
<1>6. QED
  BY <1>3, <1>5 DEF OnlyData, u

\* transport_connected and join_session: a connection of which nothing hangs yet.
LEMMA ArriveInv ==
  ASSUME NEW v, WorldInv(v), NEW U \in SUBSET Connections, NEW M \in SUBSET U,
         v.up \subseteq U, v.members \subseteq M
  PROVE  LET u == [v EXCEPT !.up = U, !.member = M, !.members = M]
         IN  WorldInv(u) /\ u.spaces = v.spaces /\ u.tombs = v.tombs
<1>. DEFINE u == [v EXCEPT !.up = U, !.member = M, !.members = M]
<1>1. /\ Worlds(v) /\ Sides(v) /\ Counts(v) /\ Home(v) /\ Anchors(v)
      /\ Index(v) /\ Placed(v) /\ Data(v) /\ Ids(v)
  BY DEF WorldInv
<1>2. Worlds(u)
  BY <1>1 DEF Worlds
<1>3. /\ u.up = U /\ u.member = M /\ u.members = M /\ u.subs = v.subs
      /\ u.subscribers = v.subscribers /\ u.spaces = v.spaces /\ u.tombs = v.tombs
      /\ u.ents = v.ents /\ u.owned = v.owned /\ u.cellOf = v.cellOf /\ u.cells = v.cells
      /\ u.state = v.state /\ u.seqs = v.seqs /\ u.queued = v.queued
      /\ u.nextEntity = v.nextEntity
  BY <1>1 DEF Worlds
<1>. HIDE DEF u
<1>4. Sides(u) /\ Counts(u) /\ Home(u)
  <2>1. Sides(u)
    <3>1. v.up \subseteq U /\ v.members \subseteq M /\ M \subseteq U
      OBVIOUS
    <3>2. QED
      BY ONLY <1>1, <1>3, <3>1 DEF Sides
  <2>2. v.members \subseteq u.members
    BY ONLY <1>3, v.members \subseteq M
  <2>3. QED
    BY ONLY <1>1, <1>3, <2>1, <2>2, SameParts
<1>5. Anchors(u) /\ Index(u) /\ Placed(u) /\ Ids(u)
  BY ONLY <1>1, <1>3, SameParts
<1>6. Data(u)
  <2>1. \A k : CurrentIn(v, k) => CurrentIn(u, k)
    BY <1>3 DEF CurrentIn
  <2>2. QED
    BY <1>1, <1>3, <2>1 DEF Data
<1>7. QED
  BY <1>2, <1>3, <1>4, <1>5, <1>6 DEF WorldInv, u

-----------------------------------------------------------------------------
\* The number of ids on record is within the limits of the scenario l.
Bounded(l, v) ==
  /\ Cardinality(DOMAIN v.spaces) + Cardinality(DOMAIN v.tombs) <= l.maxSpaceIds
  /\ Cardinality(DOMAIN v.spaces) <= l.maxSpaces

GraphInv == lim \in Scenarios /\ fresh \subseteq Connections /\ WorldInv(w) /\ Bounded(lim, w)

\* What every step of the core shows of the record.
Sound(l, v, u) == WorldInv(u) /\ EpochsKept(v, u) /\ Bounded(l, u)

\* The live and the removed ids can be counted.
LEMMA CardinalityOfIds ==
  ASSUME NEW v, WorldInv(v)
  PROVE  Cardinality(DOMAIN v.spaces) \in Nat /\ Cardinality(DOMAIN v.tombs) \in Nat
BY FS_CardinalityType DEF WorldInv, Ids

\* An operation that puts no new id on record stays within the limits.
LEMMA KeptSound ==
  ASSUME NEW l \in Scenario, NEW v, WorldInv(v), Bounded(l, v), NEW u, WorldInv(u),
         EpochsKept(v, u), IdsKept(v, u)
  PROVE  Sound(l, v, u)
<1>1. /\ Cardinality(DOMAIN v.spaces) \in Nat /\ Cardinality(DOMAIN v.tombs) \in Nat
      /\ Cardinality(DOMAIN u.spaces) \in Nat /\ Cardinality(DOMAIN u.tombs) \in Nat
  BY CardinalityOfIds
<1>2. l.maxSpaces \in Nat /\ l.maxSpaceIds \in Nat
  BY DEF Scenario
<1>3. Bounded(l, u)
  BY <1>1, <1>2 DEF Bounded, IdsKept
<1>4. QED
  BY <1>3 DEF Sound

\* The same, of a step that leaves spaces and tombstones alone.
LEMMA SameSound ==
  ASSUME NEW l \in Scenario, NEW v, WorldInv(v), Bounded(l, v), NEW u, WorldInv(u),
         u.spaces = v.spaces, u.tombs = v.tombs
  PROVE  Sound(l, v, u)
BY SameSpacesKept, KeptSound

\* install_space checks both limits before it puts an id on record.
LEMMA InstallSound ==
  ASSUME NEW l \in Scenario, NEW v, WorldInv(v), Bounded(l, v),
         NEW s \in Spaces, NEW d \in Descriptor, d.epoch > 0, CanInstall(v, s, d),
         Cardinality(DOMAIN v.spaces) # l.maxSpaces,
         s \notin DOMAIN v.tombs =>
           Cardinality(DOMAIN v.spaces) + Cardinality(DOMAIN v.tombs) # l.maxSpaceIds
  PROVE  Sound(l, v, Install(v, s, d))
<1>. DEFINE u == Install(v, s, d)
            P == DOMAIN v.spaces
            T == DOMAIN v.tombs
<1>1. /\ WorldInv(u) /\ EpochsKept(v, u)
      /\ DOMAIN u.spaces = P \cup {s} /\ DOMAIN u.tombs = T \ {s}
  BY InstallInv
<1>2. IsFiniteSet(P) /\ IsFiniteSet(T) /\ s \notin P
  BY DEF WorldInv, Ids, CanInstall
<1>3. /\ Cardinality(P) \in Nat /\ Cardinality(T) \in Nat
      /\ l.maxSpaces \in Nat /\ l.maxSpaceIds \in Nat
  BY CardinalityOfIds DEF Scenario
<1>4. Cardinality(P) + Cardinality(T) <= l.maxSpaceIds /\ Cardinality(P) <= l.maxSpaces
  BY DEF Bounded
<1>. HIDE DEF u, P, T
<1>5. Cardinality(P \cup {s}) = Cardinality(P) + 1
  BY <1>2, FS_AddElement
<1>6. CASE s \in T
  <2>1. Cardinality(T \ {s}) = Cardinality(T) - 1
    BY <1>2, <1>6, FS_RemoveElement
  <2>2. Bounded(l, u)
    BY <1>1, <1>3, <1>4, <1>5, <2>1 DEF Bounded, P
  <2>3. QED
    BY <1>1, <2>2 DEF Sound, u
<1>7. CASE s \notin T
  <2>1. Cardinality(T \ {s}) = Cardinality(T)
    <3>1. T \ {s} = T
      BY <1>7
    <3>2. QED
      BY <3>1
  <2>2. Cardinality(P) # l.maxSpaces /\ Cardinality(P) + Cardinality(T) # l.maxSpaceIds
    BY <1>7 DEF P, T
  <2>3. Bounded(l, u)
    BY <1>1, <1>3, <1>4, <1>5, <2>1, <2>2 DEF Bounded
  <2>4. QED
    BY <1>1, <2>3 DEF Sound, u
<1>8. QED
  BY <1>6, <1>7
\* A key validate_message accepts is of the present.
LEMMA ValidKeysCurrent ==
  ASSUME GraphInv, NEW k \in ValidKeys
  PROVE  k \in DataKey /\ CurrentIn(w, k)
<1>1. DOMAIN w.spaces \subseteq Spaces
  BY DEF GraphInv, WorldInv, Worlds
<1>2. lim.epochs \subseteq Nat /\ lim.data \subseteq Entities \cup {NoEntity}
  BY LimitAssumption DEF GraphInv, Scenario
<1>3. QED
  BY <1>1, <1>2 DEF ValidKeys, DataKey, CurrentIn

\* What a connection does to the graph.
LEMMA ConnectionSteps ==
  ASSUME GraphInv, NEW c \in Connections,
         \/ TransportConnected(c) \/ JoinSession(c) \/ LeaveSession(c) \/ TransportLost(c)
         \/ \E S \in SUBSET w.subs[c] : DrainOutbound(c, S)
         \/ \E s \in Spaces : Subscribe(c, s) \/ Unsubscribe(c, s) \/ SpawnEntity(c, s)
         \/ \E e \in Entities :
              \/ \E x \in lim.places : UpdateEntityPosition(c, e, x)
              \/ RemoveEntity(c, e)
              \/ \E dst \in Spaces : TransitionEntity(c, e, dst)
  PROVE  Sound(lim, w, w') /\ lim' = lim /\ fresh' \subseteq Connections
<1>1. /\ WorldInv(w) /\ Bounded(lim, w) /\ lim \in Scenario /\ fresh \subseteq Connections
  BY LimitAssumption DEF GraphInv
<1>2. /\ Worlds(w) /\ w.up \subseteq Connections /\ w.member = w.members /\ w.members \subseteq w.up
      /\ w.queued \in [Connections -> SUBSET DataKey]
  BY <1>1 DEF WorldInv, Worlds, Sides
<1>3. CASE TransportConnected(c)
  <2>. DEFINE U == w.up \cup {c}
              M == w.members
  <2>1. w' = [w EXCEPT !.up = U, !.member = M, !.members = M]
    BY <1>2, <1>3 DEF TransportConnected, Worlds
  <2>2. U \in SUBSET Connections /\ M \in SUBSET U /\ w.up \subseteq U /\ w.members \subseteq M
    BY <1>2
  <2>. HIDE DEF U, M
  <2>3. WorldInv(w') /\ w'.spaces = w.spaces /\ w'.tombs = w.tombs
    BY <1>1, <2>1, <2>2, ArriveInv
  <2>4. QED
    BY <1>1, <1>3, <2>3, SameSound DEF TransportConnected
<1>4. CASE JoinSession(c)
  <2>. DEFINE U == w.up
              M == w.members \cup {c}
  <2>1. w' = [w EXCEPT !.up = U, !.member = M, !.members = M]
    BY <1>2, <1>4 DEF JoinSession, Worlds
  <2>2. U \in SUBSET Connections /\ M \in SUBSET U /\ w.up \subseteq U /\ w.members \subseteq M
    BY <1>2, <1>4 DEF JoinSession
  <2>. HIDE DEF U, M
  <2>3. WorldInv(w') /\ w'.spaces = w.spaces /\ w'.tombs = w.tombs
    BY <1>1, <2>1, <2>2, ArriveInv
  <2>4. QED
    BY <1>1, <1>4, <2>3, SameSound DEF JoinSession, unchanging
<1>5. CASE LeaveSession(c)
  <2>1. {c} \in SUBSET w.member /\ w' = Detach(w, {c})
    BY <1>5 DEF LeaveSession
  <2>2. WorldInv(w') /\ EpochsKept(w, w') /\ IdsKept(w, w')
    BY <1>1, <2>1, DetachInv
  <2>3. QED
    BY <1>1, <1>5, <2>2, KeptSound DEF LeaveSession, unchanging
<1>6. CASE TransportLost(c)
  <2>1. {c} \in SUBSET Connections /\ w' = Lose(w, {c})
    BY <1>6 DEF TransportLost
  <2>2. WorldInv(w') /\ EpochsKept(w, w') /\ IdsKept(w, w')
    BY <1>1, <2>1, LoseInv
  <2>3. QED
    BY <1>1, <1>6, <2>2, KeptSound DEF TransportLost, unchanging
<1>7. ASSUME NEW S \in SUBSET w.subs[c], DrainOutbound(c, S)
      PROVE  Sound(lim, w, w') /\ lim' = lim /\ fresh' \subseteq Connections
  <2>. DEFINE qu == [w.queued EXCEPT ![c] = NotAbout(w.queued[c], S, {})]
              st == w.state
  <2>1. w' = [w EXCEPT !.state = st, !.queued = qu]
    BY <1>2, <1>7 DEF DrainOutbound, Worlds
  <2>2. /\ qu \in [Connections -> SUBSET DataKey] /\ st \in SUBSET w.state
        /\ \A o \in Connections : qu[o] \subseteq w.queued[o]
    BY <1>2 DEF NotAbout
  <2>. HIDE DEF qu, st
  <2>3. WorldInv(w') /\ w'.spaces = w.spaces /\ w'.tombs = w.tombs
    BY <1>1, <2>1, <2>2, LessDataInv
  <2>4. QED
    BY <1>1, <1>7, <2>3, SameSound DEF DrainOutbound, unchanging
<1>8. ASSUME NEW s \in Spaces, Subscribe(c, s)
      PROVE  Sound(lim, w, w') /\ lim' = lim /\ fresh' \subseteq Connections
  <2>1. c \in w.member /\ s \in DOMAIN w.spaces /\ w' = Subscribed(w, c, s)
    BY <1>8 DEF Subscribe
  <2>2. WorldInv(w') /\ w'.spaces = w.spaces /\ w'.tombs = w.tombs
    BY <1>1, <2>1, SubscribedInv
  <2>3. QED
    BY <1>1, <1>8, <2>2, SameSound DEF Subscribe, unchanging
<1>9. ASSUME NEW s \in Spaces, Unsubscribe(c, s)
      PROVE  Sound(lim, w, w') /\ lim' = lim /\ fresh' \subseteq Connections
  <2>1. w' = Unsubscribed(w, c, s)
    BY <1>9 DEF Unsubscribe
  <2>2. WorldInv(w') /\ w'.spaces = w.spaces /\ w'.tombs = w.tombs
    BY <1>1, <2>1, UnsubscribedInv
  <2>3. QED
    BY <1>1, <1>9, <2>2, SameSound DEF Unsubscribe, unchanging
<1>10. ASSUME NEW s \in Spaces, SpawnEntity(c, s)
       PROVE  Sound(lim, w, w') /\ lim' = lim /\ fresh' \subseteq Connections
  <2>1. /\ c \in w.member /\ s \in DOMAIN w.spaces /\ w.nextEntity < MaxEntity
        /\ w' = Spawn(w, c, s)
    BY <1>10 DEF SpawnEntity
  <2>2. WorldInv(w') /\ w'.spaces = w.spaces /\ w'.tombs = w.tombs
    BY <1>1, <2>1, SpawnInv
  <2>3. QED
    BY <1>1, <1>10, <2>2, SameSound DEF SpawnEntity, unchanging
<1>11. ASSUME NEW e \in Entities, NEW x \in lim.places, UpdateEntityPosition(c, e, x)
       PROVE  Sound(lim, w, w') /\ lim' = lim /\ fresh' \subseteq Connections
  <2>1. e \in DOMAIN w.ents /\ x \in Positions /\ w' = PlaceEntity(w, e, x)
    BY <1>1, <1>11 DEF UpdateEntityPosition, Scenario
  <2>2. WorldInv(w') /\ Moves(w, w')
    BY <1>1, <2>1, PlaceInv
  <2>3. w'.spaces = w.spaces /\ w'.tombs = w.tombs
    BY <2>2 DEF Moves
  <2>4. QED
    BY <1>1, <1>11, <2>2, <2>3, SameSound DEF UpdateEntityPosition, unchanging
<1>12. ASSUME NEW e \in Entities, RemoveEntity(c, e)
       PROVE  Sound(lim, w, w') /\ lim' = lim /\ fresh' \subseteq Connections
  <2>1. {e} \in SUBSET DOMAIN w.ents /\ w' = Cascade(w, {e})
    BY <1>12 DEF RemoveEntity
  <2>2. WorldInv(w') /\ EpochsKept(w, w') /\ IdsKept(w, w')
    BY <1>1, <2>1, CascadeInv
  <2>3. QED
    BY <1>1, <1>12, <2>2, KeptSound DEF RemoveEntity, unchanging
<1>13. ASSUME NEW e \in Entities, NEW dst \in Spaces, TransitionEntity(c, e, dst)
       PROVE  Sound(lim, w, w') /\ lim' = lim /\ fresh' \subseteq Connections
  <2>1. e \in DOMAIN w.ents /\ dst \in DOMAIN w.spaces /\ w' = Transition(w, e, dst)
    BY <1>13 DEF TransitionEntity
  <2>2. WorldInv(w') /\ w'.spaces = w.spaces /\ w'.tombs = w.tombs
    BY <1>1, <2>1, TransitionInv
  <2>3. QED
    BY <1>1, <1>13, <2>2, SameSound DEF TransitionEntity, unchanging
<1>14. QED
  BY <1>3, <1>4, <1>5, <1>6, <1>7, <1>8, <1>9, <1>10, <1>11, <1>12, <1>13
\* What a publish does to the graph.
LEMMA PublishSteps ==
  ASSUME GraphInv, NEW c \in Connections, NEW k \in ValidKeys, NEW stateful,
         \/ \E messages \in {{k}} \cup SUBSET ValidKeys, critical \in BOOLEAN :
              \E slow \in SUBSET (IF critical THEN UNION {w.subscribers[m.space] : m \in messages}
                                 ELSE {}) :
                Publish(c, k, messages, critical, stateful, slow)
         \/ \E x \in lim.places : PublishAt(c, k, x, stateful)
  PROVE  Sound(lim, w, w') /\ lim' = lim /\ fresh' \subseteq Connections
<1>1. /\ WorldInv(w) /\ Bounded(lim, w) /\ lim \in Scenario /\ fresh \subseteq Connections
  BY LimitAssumption DEF GraphInv
<1>2. /\ w.member = w.members /\ DOMAIN w.subscribers = DOMAIN w.spaces
      /\ w.subscribers \in [DOMAIN w.subscribers -> SUBSET Connections]
  BY <1>1 DEF WorldInv, Worlds, Sides
<1>3. k \in DataKey /\ CurrentIn(w, k)
  BY ValidKeysCurrent
<1>4. ASSUME NEW messages, NEW critical, NEW slow,
             Publish(c, k, messages, critical, stateful, slow)
      PROVE  Sound(lim, w, w') /\ lim' = lim /\ fresh' \subseteq Connections
  <2>1. /\ c \in w.members /\ messages \subseteq ValidKeys
        /\ slow \subseteq UNION {Recipients(w, m, critical) : m \in messages}
        /\ w' = Published(w, c, k, messages, critical, stateful, slow)
        /\ lim' = lim /\ fresh' = fresh
    BY <1>2, <1>4 DEF Publish, unchanging
  <2>2. \A m \in messages : m \in DataKey /\ CurrentIn(w, m)
    BY <2>1, ValidKeysCurrent
  <2>3. slow \subseteq Connections
    <3>1. \A m \in messages : Recipients(w, m, critical) \subseteq w.subscribers[m.space]
      BY RecipientsSubscribe
    <3>2. \A m \in messages : w.subscribers[m.space] \subseteq Connections
      BY <1>2, <2>2 DEF CurrentIn
    <3>3. QED
      BY <2>1, <3>1, <3>2
  <2>4. WorldInv(w') /\ EpochsKept(w, w') /\ IdsKept(w, w')
    <3>1. messages \in SUBSET DataKey /\ \A m \in messages : CurrentIn(w, m)
      BY <2>2
    <3>2. slow \in SUBSET Connections
      BY <2>3
    <3>3. QED
      BY ONLY <1>1, <1>3, <2>1, <3>1, <3>2, PublishedInv
  <2>5. QED
    BY <1>1, <2>1, <2>4, KeptSound
<1>5. ASSUME NEW x \in lim.places, PublishAt(c, k, x, stateful)
      PROVE  Sound(lim, w, w') /\ lim' = lim /\ fresh' \subseteq Connections
  <2>. DEFINE v == PlaceEntity(w, k.entity, x)
  <2>1. /\ c \in w.members /\ k.entity \in DOMAIN w.ents /\ x \in Positions
        /\ w' = Published(v, c, k, {k}, FALSE, stateful, {})
        /\ lim' = lim /\ fresh' = fresh
    BY <1>1, <1>2, <1>3, <1>5 DEF PublishAt, CurrentIn, unchanging, Scenario
  <2>2. WorldInv(v) /\ Moves(w, v)
    BY <1>1, <2>1, PlaceInv
  <2>. HIDE DEF v
  <2>3. v.spaces = w.spaces /\ v.tombs = w.tombs /\ c \in v.members /\ CurrentIn(v, k)
    BY <1>3, <2>1, <2>2 DEF Moves, CurrentIn
  <2>4. WorldInv(w') /\ EpochsKept(v, w') /\ IdsKept(v, w')
    <3>1. {k} \in SUBSET DataKey /\ (\A m \in {k} : CurrentIn(v, m)) /\ {} \in SUBSET Connections
      BY <1>3, <2>3
    <3>2. QED
      BY ONLY <1>3, <2>1, <2>2, <2>3, <3>1, PublishedInv
  <2>5. EpochsKept(w, w') /\ IdsKept(w, w')
    BY <1>1, <2>3, <2>4, SpacesKept
  <2>6. QED
    BY <1>1, <2>1, <2>4, <2>5, KeptSound
<1>6. QED
  BY <1>4, <1>5

\* What the server does to the graph.
LEMMA ServerSteps ==
  ASSUME GraphInv,
         \/ \E K \in SUBSET w.state : SweepExpiredState(K)
         \/ \E s \in lim.spaces, d \in Descriptors : InstallSpace(s, d)
         \/ \E s \in Spaces, epoch \in lim.epochs : AdvanceSpaceEpoch(s, epoch)
  PROVE  Sound(lim, w, w') /\ lim' = lim /\ fresh' \subseteq Connections
<1>1. /\ WorldInv(w) /\ Bounded(lim, w) /\ lim \in Scenario /\ fresh \subseteq Connections
  BY LimitAssumption DEF GraphInv
<1>2. Worlds(w) /\ w.queued \in [Connections -> SUBSET DataKey]
  BY <1>1 DEF WorldInv, Worlds
<1>3. lim.spaces \subseteq Spaces /\ lim.epochs \subseteq Nat \ {0}
  BY <1>1 DEF Scenario
<1>4. ASSUME NEW K, SweepExpiredState(K)
      PROVE  Sound(lim, w, w') /\ lim' = lim /\ fresh' \subseteq Connections
  <2>. DEFINE qu == w.queued
              st == w.state \ K
  <2>1. w' = [w EXCEPT !.state = st, !.queued = qu]
    BY <1>2, <1>4 DEF SweepExpiredState, Worlds
  <2>2. /\ qu \in [Connections -> SUBSET DataKey] /\ st \in SUBSET w.state
        /\ \A o \in Connections : qu[o] \subseteq w.queued[o]
    BY <1>2
  <2>. HIDE DEF qu, st
  <2>3. WorldInv(w') /\ w'.spaces = w.spaces /\ w'.tombs = w.tombs
    BY <1>1, <2>1, <2>2, LessDataInv
  <2>4. QED
    BY <1>1, <1>4, <2>3, SameSound DEF SweepExpiredState, unchanging
<1>5. ASSUME NEW s \in lim.spaces, NEW d \in Descriptors, InstallSpace(s, d)
      PROVE  Sound(lim, w, w') /\ lim' = lim /\ fresh' \subseteq Connections
  <2>1. d \in Descriptor /\ d.epoch > 0 /\ s \in Spaces
    BY <1>3 DEF Descriptors, Descriptor
  <2>2. /\ CanInstall(w, s, d)
        /\ Cardinality(DOMAIN w.spaces) # lim.maxSpaces
        /\ s \notin DOMAIN w.tombs =>
             Cardinality(DOMAIN w.spaces) + Cardinality(DOMAIN w.tombs) # lim.maxSpaceIds
        /\ w' = Install(w, s, d) /\ lim' = lim /\ fresh' = fresh
    BY <1>5 DEF InstallSpace, unchanging
  <2>3. Sound(lim, w, w')
    BY ONLY <1>1, <2>1, <2>2, InstallSound
  <2>4. QED
    BY <1>1, <2>2, <2>3
<1>6. ASSUME NEW s \in Spaces, NEW epoch \in lim.epochs, AdvanceSpaceEpoch(s, epoch)
      PROVE  Sound(lim, w, w') /\ lim' = lim /\ fresh' \subseteq Connections
  <2>1. /\ s \in DOMAIN w.spaces /\ epoch \in Nat /\ epoch > w.spaces[s].epoch
        /\ w' = Advance(w, s, epoch) /\ lim' = lim /\ fresh' = fresh
    BY <1>3, <1>6 DEF AdvanceSpaceEpoch, unchanging
  <2>2. WorldInv(w') /\ EpochsKept(w, w') /\ IdsKept(w, w')
    BY <1>1, <2>1, AdvanceInv
  <2>3. QED
    BY <1>1, <2>1, <2>2, KeptSound
<1>7. QED
  BY <1>4, <1>5, <1>6
-----------------------------------------------------------------------------
\* A new session and its connections: nothing of anything.
LEMMA NewWorldInv ==
  ASSUME NEW l \in Scenario
  PROVE  WorldInv(NewWorld) /\ Bounded(l, NewWorld)
<1>. DEFINE v == NewWorld
<1>1. /\ v.up = {} /\ v.member = {} /\ v.members = {} /\ v.state = {} /\ v.seqs = {}
      /\ DOMAIN v.subscribers = {} /\ DOMAIN v.spaces = {} /\ DOMAIN v.tombs = {}
      /\ DOMAIN v.ents = {} /\ DOMAIN v.cellOf = {} /\ DOMAIN v.cells = {}
      /\ v.subs = [c \in Connections |-> {}] /\ v.owned = [c \in Connections |-> 0]
      /\ v.queued = [c \in Connections |-> {}] /\ v.nextEntity = 1
  BY DEF NewWorld, Empty
<1>2. /\ v.subscribers \in [DOMAIN v.subscribers -> SUBSET Connections]
      /\ v.spaces \in [DOMAIN v.spaces -> Descriptor] /\ v.tombs \in [DOMAIN v.tombs -> Nat]
      /\ v.ents \in [DOMAIN v.ents -> EntityRecord]
      /\ v.cellOf \in [DOMAIN v.cellOf -> CellKey]
      /\ v.cells \in [DOMAIN v.cells -> SUBSET Entities]
  BY DEF NewWorld, Empty
<1>3. Worlds(v)
  <2>1. v \in [up : SUBSET Connections, member : SUBSET Connections, members : SUBSET Connections,
               subs : [Connections -> SUBSET Spaces],
               subscribers : [DOMAIN v.subscribers -> SUBSET Connections],
               owned : [Connections -> Nat], spaces : [DOMAIN v.spaces -> Descriptor],
               tombs : [DOMAIN v.tombs -> Nat], ents : [DOMAIN v.ents -> EntityRecord],
               cellOf : [DOMAIN v.cellOf -> CellKey],
               cells : [DOMAIN v.cells -> SUBSET Entities],
               state : SUBSET DataKey, seqs : SUBSET (Connections \X DataKey),
               queued : [Connections -> SUBSET DataKey], nextEntity : Nat \ {0}]
    <3>. DEFINE none == [c \in Connections |-> {}]
                zero == [c \in Connections |-> 0]
                Subs == [Connections -> SUBSET Spaces]
                Held == [Connections -> Nat]
                Kept == [Connections -> SUBSET DataKey]
                T1   == [DOMAIN v.subscribers -> SUBSET Connections]
                T2   == [DOMAIN v.spaces -> Descriptor]
                T3   == [DOMAIN v.tombs -> Nat]
                T4   == [DOMAIN v.ents -> EntityRecord]
                T5   == [DOMAIN v.cellOf -> CellKey]
                T6   == [DOMAIN v.cells -> SUBSET Entities]
                Seqs == SUBSET (Connections \X DataKey)
    <3>1. none \in Subs /\ none \in Kept /\ zero \in Held /\ {} \in Seqs /\ 1 \in Nat \ {0}
      OBVIOUS
    <3>2. v = [up |-> {}, member |-> {}, members |-> {}, subs |-> none, subscribers |-> Empty,
               owned |-> zero, spaces |-> Empty, tombs |-> Empty, ents |-> Empty,
               cellOf |-> Empty, cells |-> Empty, state |-> {}, seqs |-> {}, queued |-> none,
               nextEntity |-> 1]
      BY DEF NewWorld
    <3>3. Empty \in T1 /\ Empty \in T2 /\ Empty \in T3 /\ Empty \in T4 /\ Empty \in T5 /\ Empty \in T6
      BY <1>2 DEF NewWorld
    <3>. HIDE DEF none, zero, Subs, Held, Kept, T1, T2, T3, T4, T5, T6, Seqs, v
    <3>4. v \in [up : SUBSET Connections, member : SUBSET Connections, members : SUBSET Connections,
                 subs : Subs, subscribers : T1, owned : Held, spaces : T2, tombs : T3, ents : T4,
                 cellOf : T5, cells : T6, state : SUBSET DataKey, seqs : Seqs, queued : Kept,
                 nextEntity : Nat \ {0}]
      BY ONLY <3>1, <3>2, <3>3
    <3>5. QED
      BY ONLY <3>4 DEF Subs, Held, Kept, T1, T2, T3, T4, T5, T6, Seqs
  <2>2. QED
    BY <1>1, <2>1 DEF Worlds
<1>4. IsFiniteSet({}) /\ Cardinality({}) = 0
  BY FS_EmptySet
<1>. HIDE DEF v
<1>5. Counts(v)
  <2>1. \A c \in Connections : OwnedBy(v, c) = {} /\ v.owned[c] = 0
    BY <1>1 DEF OwnedBy
  <2>2. QED
    BY <1>4, <2>1 DEF Counts
<1>6. Sides(v) /\ Home(v) /\ Anchors(v) /\ Index(v) /\ Placed(v) /\ Data(v)
  BY <1>1 DEF Sides, Home, Anchors, Index, Placed, Data
<1>7. Ids(v)
  BY <1>1, <1>4 DEF Ids
<1>8. Bounded(l, v)
  <2>1. l.maxSpaces \in Nat /\ l.maxSpaceIds \in Nat
    BY DEF Scenario
  <2>2. QED
    BY <1>1, <1>4, <2>1 DEF Bounded
<1>9. QED
  BY <1>3, <1>5, <1>6, <1>7, <1>8 DEF WorldInv, v

\* GraphInv is inductive, and no step takes an epoch back.
LEMMA NextInv ==
  ASSUME GraphInv, [Next]_vars
  PROVE  GraphInv' /\ EpochsKept(w, w')
<1>1. WorldInv(w) /\ Bounded(lim, w) /\ lim \in Scenarios /\ fresh \subseteq Connections
  BY DEF GraphInv
<1>2. CASE Next
  <2>1. Sound(lim, w, w') /\ lim' = lim /\ fresh' \subseteq Connections
    BY <1>2, ConnectionSteps, PublishSteps, ServerSteps DEF Next
  <2>2. QED
    BY <1>1, <2>1 DEF GraphInv, Sound
<1>3. CASE UNCHANGED vars
  <2>1. w' = w /\ lim' = lim /\ fresh' = fresh
    BY <1>3 DEF vars
  <2>2. EpochsKept(w, w')
    BY <1>1, <2>1, SameSpacesKept
  <2>3. QED
    BY <1>1, <2>1, <2>2 DEF GraphInv
<1>4. QED
  BY <1>2, <1>3

\* GraphInv holds throughout: whatever cascades, epochs, transitions and lost
\* connections follow one another in core.rs, for any number of connections,
\* spaces and entities.
THEOREM GraphInvariant == Spec => []GraphInv
<1>1. Init => GraphInv
  <2>1. SUFFICES ASSUME Init PROVE GraphInv
    OBVIOUS
  <2>2. lim \in Scenario /\ lim \in Scenarios /\ w = NewWorld /\ fresh \subseteq Connections
    BY <2>1, LimitAssumption DEF Init
  <2>3. WorldInv(w) /\ Bounded(lim, w)
    BY <2>2, NewWorldInv
  <2>4. QED
    BY <2>2, <2>3 DEF GraphInv
<1>2. GraphInv /\ [Next]_vars => GraphInv'
  BY NextInv
<1>3. QED
  BY <1>1, <1>2, PTL DEF Spec

\* Both sides of membership, subscription and ownership agree, entities and nested
\* spaces have what they hang on, and the ids on record are bounded.
THEOREM GraphStaysCoherent == Spec => []GraphCoherent
<1>1. GraphInv => GraphCoherent
  <2>1. SUFFICES ASSUME GraphInv PROVE GraphCoherent
    OBVIOUS
  <2>2. /\ Worlds(w) /\ Sides(w) /\ Counts(w) /\ Home(w) /\ Anchors(w) /\ Ids(w)
        /\ Bounded(lim, w) /\ lim \in Scenarios /\ fresh \subseteq Connections
    BY <2>1 DEF GraphInv, WorldInv
  <2>3. TypeOK
    BY <2>2 DEF TypeOK
  <2>4. SidesAgree
    BY <2>2 DEF SidesAgree, Sides, Counts, OwnedBy
  <2>5. EntitiesAtHome /\ AnchorsAlive
    BY <2>2 DEF EntitiesAtHome, AnchorsAlive, Home, Anchors
  <2>6. SpaceIdsBounded
    BY <2>2 DEF SpaceIdsBounded, Ids, Bounded
  <2>7. QED
    BY <2>3, <2>4, <2>5, <2>6 DEF GraphCoherent
<1>2. QED
  BY <1>1, GraphInvariant, PTL

\* The epoch of a space id never goes back, and a space that is installed again
\* (install_space) comes back with a higher one.
THEOREM EpochsNeverGoBack == Spec => EpochsAdvance
<1>1. GraphInv /\ [Next]_vars =>
        [\A s \in Spaces :
           /\ EpochOf(w', s) >= EpochOf(w, s)
           /\ s \notin DOMAIN w.spaces /\ s \in DOMAIN w'.spaces
                => EpochOf(w', s) > EpochOf(w, s)]_vars
  BY NextInv DEF EpochsKept
<1>2. QED
  BY <1>1, GraphInvariant, PTL DEF Spec, EpochsAdvance

\* Whatever is cached, sequenced or queued is of the present, and a snapshot made
\* of it refers to nothing that is not in it.
THEOREM DataStaysPresent == Spec => []DataIsPresent
<1>1. GraphInv => DataIsPresent
  <2>1. SUFFICES ASSUME GraphInv PROVE DataIsPresent
    OBVIOUS
  <2>2. Worlds(w) /\ Data(w) /\ w.spaces \in [DOMAIN w.spaces -> Descriptor]
    BY <2>1 DEF GraphInv, WorldInv, Worlds
  <2>3. DataIsCurrent
    BY <2>2 DEF DataIsCurrent, Current, Data, CurrentIn
  <2>4. SnapshotsCoherent
    <3>1. SUFFICES ASSUME NEW c \in w.members
                   PROVE  \E view \in {Snapshot(w, c)} :
                            /\ \A k \in view.state :
                                 /\ k.space \in DOMAIN view.spaces
                                 /\ k.epoch = view.spaces[k.space].epoch
                                 /\ k.entity # NoEntity => k.entity \in view.ents
                            /\ \A s \in DOMAIN view.spaces :
                                 view.spaces[s].parent \in DOMAIN view.spaces \cup {NoSpace}
      BY DEF SnapshotsCoherent
    <3>. DEFINE V    == w.subs[c] \cap DOMAIN w.spaces
                cut(s) == [w.spaces[s] EXCEPT !.parent = NoSpace, !.anchor = NoEntity]
                sp   == [s \in V |-> IF w.spaces[s].parent \in V THEN w.spaces[s] ELSE cut(s)]
                view == Snapshot(w, c)
    <3>2. /\ view.spaces = sp
          /\ view.ents = {e \in DOMAIN w.ents : w.ents[e].space \in V}
          /\ view.state = {k \in w.state : k.space \in V}
      BY DEF Snapshot
    <3>3. ASSUME NEW s \in V
          PROVE  sp[s].epoch = w.spaces[s].epoch /\ sp[s].parent \in V \cup {NoSpace}
      <4>1. w.spaces[s] \in Descriptor
        BY <2>2
      <4>2. cut(s).epoch = w.spaces[s].epoch /\ cut(s).parent = NoSpace
        BY <4>1 DEF Descriptor
      <4>. HIDE DEF cut
      <4>3. QED
        BY <4>2
    <3>4. DOMAIN sp = V
      OBVIOUS
    <3>. HIDE DEF view, sp, V
    <3>5. ASSUME NEW k \in view.state
          PROVE  /\ k.space \in V /\ k.epoch = sp[k.space].epoch
                 /\ k.entity # NoEntity => k.entity \in view.ents
      <4>1. k \in w.state /\ k.space \in V
        BY <3>2
      <4>2. CurrentIn(w, k)
        BY <2>2, <4>1 DEF Data
      <4>3. QED
        BY <3>2, <3>3, <4>1, <4>2 DEF CurrentIn
    <3>6. /\ \A k \in view.state :
               /\ k.space \in DOMAIN view.spaces
               /\ k.epoch = view.spaces[k.space].epoch
               /\ k.entity # NoEntity => k.entity \in view.ents
          /\ \A s \in DOMAIN view.spaces :
               view.spaces[s].parent \in DOMAIN view.spaces \cup {NoSpace}
      BY <3>2, <3>3, <3>4, <3>5
    <3>7. QED
      BY <3>6 DEF view
  <2>5. QED
    BY <2>3, <2>4 DEF DataIsPresent
<1>2. QED
  BY <1>1, GraphInvariant, PTL

-----------------------------------------------------------------------------
\* grid_coordinate: a cell holds the coordinates from its own to the next one's.
LEMMA CellBounds ==
  ASSUME NEW x \in Int
  PROVE  LET a == x \div CellSize
         IN  a \in Int /\ CellSize * a <= x /\ x < CellSize * a + CellSize
BY SpaceAssumption

\* radius_in_cells is enough: coordinates at most the radius apart are at most
\* that many cells apart.
LEMMA RadiusCovers ==
  ASSUME NEW x \in Int, NEW y \in Int, x - y <= Radius
  PROVE  (x \div CellSize) - (y \div CellSize) <= RadiusInCells
<1>. DEFINE a == x \div CellSize
            b == y \div CellSize
            q == RadiusInCells
<1>1. CellSize \in Nat \ {0} /\ Radius \in Nat /\ Radius + CellSize - 1 \in Int
  BY SpaceAssumption
<1>2. /\ a \in Int /\ CellSize * a <= x
      /\ b \in Int /\ y < CellSize * b + CellSize
  BY CellBounds
<1>3. q \in Int /\ Radius + CellSize - 1 < CellSize * q + CellSize
  BY <1>1, CellBounds DEF RadiusInCells
<1>. HIDE DEF a, b, q
<1>4. SUFFICES ASSUME a - b > q PROVE FALSE
  BY <1>2, <1>3 DEF a, b, q
<1>5. b + q + 1 <= a
  BY <1>2, <1>3, <1>4
<1>6. CellSize * (b + q + 1) <= CellSize * a
  BY ONLY <1>1, <1>2, <1>3, <1>5
<1>7. CellSize * (b + q + 1) = CellSize * b + CellSize * q + CellSize
  BY ONLY <1>1, <1>2, <1>3
<1>8. CellSize * a \in Int /\ CellSize * b \in Int /\ CellSize * q \in Int
  BY <1>1, <1>2, <1>3
<1>9. QED
  BY <1>1, <1>2, <1>3, <1>6, <1>7, <1>8

\* Positions within the radius lie in cells within the radius in cells: the cells a
\* routing query visits miss nobody.
LEMMA NearCells ==
  ASSUME NEW x \in Int, NEW y \in Int, Within(x, y, Radius)
  PROVE  Within(x \div CellSize, y \div CellSize, RadiusInCells)
BY RadiusCovers DEF Within

\* routing_recipients for a replaceable message about an entity of a grid: the
\* entities it reaches are found through the cells, the subscribers in range
\* through the positions.
LEMMA GridReach ==
  ASSUME WorldInv(w), NEW e \in DOMAIN w.ents, w.ents[e].space \in Gridded
  PROVE  LET r       == w.ents[e]
             near    == {c \in w.subscribers[r.space] : InRange(e, c)}
             reached == Recipients(w, [space |-> r.space, epoch |-> r.epoch, entity |-> e], FALSE)
         IN  near \subseteq reached /\ (ExactDistance => reached = near)
<1>. DEFINE r       == w.ents[e]
            k       == [space |-> r.space, epoch |-> r.epoch, entity |-> e]
            near    == {c \in w.subscribers[r.space] : InRange(e, c)}
            reached == Recipients(w, k, FALSE)
            at(i)   == w.ents[i].at
            found(i) == \E j \in DOMAIN w.cells :
                          /\ j[1] = r.space /\ j[2] = r.epoch
                          /\ Within(j[3], w.cellOf[e][3], RadiusInCells)
                          /\ i \in w.cells[j] \cap DOMAIN w.ents
                          /\ ExactDistance => \E x \in at(i), y \in at(e) : Within(x, y, Radius)
<1>1. /\ Worlds(w) /\ Home(w) /\ Index(w) /\ Placed(w)
      /\ w.ents \in [DOMAIN w.ents -> EntityRecord]
  BY DEF WorldInv, Worlds
<1>2. \A i \in DOMAIN w.ents : w.ents[i].at \subseteq Int /\ w.ents[i].space \in Spaces
  BY <1>1, SpaceAssumption DEF EntityRecord
<1>3. k.space = r.space /\ k.epoch = r.epoch /\ k.entity = e
  OBVIOUS
<1>4. CASE e \notin DOMAIN w.cellOf
  <2>1. at(e) = {}
    BY <1>1, <1>4 DEF Placed, Nowhere
  <2>2. near = {}
    BY <2>1 DEF InRange
  <2>3. reached = {}
    BY <1>3, <1>4 DEF Recipients
  <2>4. QED
    BY <2>2, <2>3
<1>5. CASE e \in DOMAIN w.cellOf
  <2>1. PICK y \in at(e) : w.cellOf[e] = CellAt(r, y)
    BY <1>1, <1>5 DEF Placed
  <2>2. /\ w.cellOf[e][1] = r.space /\ w.cellOf[e][2] = r.epoch
        /\ w.cellOf[e][3] = y \div CellSize /\ y \in Int
        /\ \A z \in at(e) : z = y
    BY <1>1, <1>2, <2>1 DEF CellAt, Placed
  <2>3. reached = w.subscribers[r.space]
                    \cap {w.ents[i].owner : i \in {j \in DOMAIN w.ents : found(j)}}
    BY <1>3, <1>5, <2>2 DEF Recipients
  <2>4. \A c : c \in reached <=> /\ c \in w.subscribers[r.space]
                                 /\ \E i \in DOMAIN w.ents : found(i) /\ w.ents[i].owner = c
    BY <2>3
  <2>. HIDE DEF reached, k
  <2>5. ASSUME NEW i \in DOMAIN w.ents, w.ents[i].space = r.space, NEW x \in at(i),
               Within(x, y, Radius)
        PROVE  found(i)
    <3>. DEFINE j == w.cellOf[i]
    <3>1. i \in DOMAIN w.cellOf
      BY <1>1, <2>5 DEF Placed, Nowhere
    <3>2. j = CellAt(w.ents[i], x) /\ x \in Int
      <4>1. PICK z \in at(i) : j = CellAt(w.ents[i], z)
        BY <1>1, <3>1 DEF Placed
      <4>2. z = x
        BY <1>1 DEF Placed
      <4>3. QED
        BY <1>2, <4>1, <4>2
    <3>3. w.ents[i].epoch = r.epoch
      BY <1>1, <2>5 DEF Home
    <3>4. j[1] = r.space /\ j[2] = r.epoch /\ j[3] = x \div CellSize
      BY <2>5, <3>2, <3>3 DEF CellAt
    <3>5. Within(j[3], w.cellOf[e][3], RadiusInCells)
      BY <2>2, <2>5, <3>2, <3>4, NearCells
    <3>6. j \in DOMAIN w.cells /\ i \in w.cells[j]
      BY <1>1, <3>1 DEF Index
    <3>. HIDE DEF j
    <3>7. QED
      BY <2>1, <2>5, <3>4, <3>5, <3>6
  <2>6. ASSUME NEW i \in DOMAIN w.ents, found(i)
        PROVE  w.ents[i].space = r.space
    <3>1. PICK j \in DOMAIN w.cells : j[1] = r.space /\ i \in w.cells[j]
      BY <2>6
    <3>2. i \in DOMAIN w.cellOf /\ w.cellOf[i] = j
      BY <1>1, <3>1 DEF Index
    <3>3. PICK z \in at(i) : w.cellOf[i] = CellAt(w.ents[i], z)
      BY <1>1, <3>2 DEF Placed
    <3>4. QED
      BY <3>1, <3>2, <3>3 DEF CellAt
  <2>7. ASSUME NEW i \in DOMAIN w.ents, found(i), ExactDistance
        PROVE  \E x \in at(i), z \in at(e) : Within(x, z, Radius)
    BY <2>7
  <2>. HIDE DEF found
  <2>8. near \subseteq reached
    <3>1. SUFFICES ASSUME NEW c \in near PROVE c \in reached
      OBVIOUS
    <3>2. PICK i \in DOMAIN w.ents :
            /\ w.ents[i].owner = c /\ w.ents[i].space = r.space
            /\ \E x \in at(i), z \in at(e) : Within(x, z, Radius)
      BY DEF InRange
    <3>3. PICK x \in at(i) : Within(x, y, Radius)
      BY <2>2, <3>2
    <3>4. found(i)
      BY <2>5, <3>2, <3>3
    <3>5. QED
      BY <2>4, <3>2, <3>4
  <2>9. ExactDistance => reached \subseteq near
    <3>1. SUFFICES ASSUME ExactDistance, NEW c \in reached PROVE c \in near
      OBVIOUS
    <3>2. PICK i \in DOMAIN w.ents : found(i) /\ w.ents[i].owner = c
      BY <2>4
    <3>3. InRange(e, c)
      BY <2>6, <2>7, <3>1, <3>2 DEF InRange
    <3>4. QED
      BY <2>4, <3>3
  <2>10. QED
    BY <2>8, <2>9 DEF reached, k
<1>6. QED
  BY <1>4, <1>5

\* The cells follow the entities, and routing by cells reaches whom the radius
\* reaches, for every cell size and radius.
THEOREM RoutingStaysExact == Spec => []RoutingExact
<1>1. GraphInv => RoutingExact
  <2>1. SUFFICES ASSUME GraphInv PROVE RoutingExact
    OBVIOUS
  <2>2. WorldInv(w) /\ Index(w) /\ Placed(w)
    BY <2>1 DEF GraphInv, WorldInv
  <2>3. CellsMatch
    BY <2>2 DEF CellsMatch, Index, Placed, CellAt
  <2>4. ReachesNeighbours
    BY <2>2, GridReach DEF ReachesNeighbours
  <2>5. QED
    BY <2>3, <2>4 DEF RoutingExact
<1>2. QED
  BY <1>1, GraphInvariant, PTL

=============================================================================
