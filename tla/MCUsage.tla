---- MODULE MCUsage ----
(* The counters with two connections and no exporter, and the export of idle *)
(* windows through a sink that fails.                                        *)
EXTENDS Usage

CONSTANTS h1, h2

Counting == [clock |-> 4, events |-> 1, fails |-> 0, handles |-> {h1, h2}, exports |-> FALSE]
Exporting == [clock |-> 8, events |-> 0, fails |-> 3, handles |-> {}, exports |-> TRUE]
MCBounds == {Counting, Exporting}
====
