---- MODULE MCSpaceGraph ----
EXTENDS SpaceGraph, TLC
MCPositions == {-4, -1, 0, 2}
Symmetry == Permutations(Connections) \cup Permutations(Spaces \ Gridded)

Plain == [maxSpaces |-> 2, maxSpaceIds |-> 2, maxOwned |-> 1, maxEmissions |-> 1,
          maxConnections |-> 2, spaces |-> Spaces \ Gridded, epochs |-> {1, 2},
          places |-> {}, data |-> {}]

\* Spaces two levels deep; what is published about an entity that moves between
\* spaces, and in a space that comes back; what an authority emits; and routing
\* by cells.
Nested   == [Plain EXCEPT !.maxSpaces = 3, !.maxSpaceIds = 3]
Moving   == [Plain EXCEPT !.maxEmissions = 0, !.epochs = {1}, !.places = {0}, !.data = {1}]
Renewed  == [Plain EXCEPT !.maxEmissions = 0, !.maxSpaceIds = 1, !.data = {1}]
Emitting == [Plain EXCEPT !.maxEmissions = 2, !.maxConnections = 1, !.data = {0, 1}]
Routing  == [Plain EXCEPT !.maxOwned = 2, !.spaces = Spaces, !.epochs = {1}, !.places = Positions]

MCScenarios == {Nested, Moving, Renewed, Emitting, Routing}
====
