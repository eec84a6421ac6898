---- MODULE Usage ----
(***************************************************************************)
(* Usage accounting: the counters of one virtual server, the aggregator    *)
(* that cuts them into windows, and the spooling sink the windows are      *)
(* exported through.  The worker counts while the aggregator's thread      *)
(* takes its snapshot, field after field, and one task exports.            *)
(*                                                                         *)
(* One cumulative counter stands for all of them; they are incremented and *)
(* swapped alike.  The clock ticks in seconds.                             *)
(***************************************************************************)
EXTENDS Naturals, Sequences, FiniteSets, SequencesExt, FiniteSetsExt

CONSTANTS Span,             \* window_duration in seconds
          PendingCapacity,  \* windows the aggregator keeps (DEFAULT_SPOOL_CAPACITY)
          SpoolCapacity,    \* windows the spool keeps
          Bounds            \* bounds a behaviour picks from: [clock, events, fails:
                            \*  how far each may go, handles, exports: whether windows
                            \*  are exported]

ASSUME SpanIsPositive == Span \in Nat \ {0}

VARIABLES bound,      \* the one picked
          clock,
          counters,   \* [events, seconds, started: handle -> second]
          agg,        \* [finalized, cutting: windows still to cut, events: swapped
                      \*  for the window being cut, sequence, cut: the windows of
                      \*  this tick, pending]
          sink,       \* [drained: windows to export, new: window in append (or
                      \*  none), spool, degraded, dropped, stored: what the inner
                      \*  sink has, in order]
          past        \* history: [events, connected: connection-seconds,
                      \*  reported: events and seconds of the windows cut, handed:
                      \*  windows given to append, refused: windows it gave up for
                      \*  good, fails: appends the inner sink has failed]
usageVars == <<bound, clock, counters, agg, sink, past>>

UsageInit ==
  /\ bound \in Bounds
  /\ clock = 0
  /\ counters = [events |-> 0, seconds |-> 0, started |-> [h \in {} |-> 0]]
  /\ agg = [finalized |-> 0, cutting |-> 0, events |-> {}, sequence |-> 1,
            cut |-> <<>>, pending |-> <<>>]
  /\ sink = [drained |-> <<>>, new |-> {}, spool |-> <<>>, degraded |-> FALSE, dropped |-> 0,
             stored |-> <<>>]
  /\ past = [events |-> 0, connected |-> 0, reported |-> [events |-> 0, seconds |-> 0],
             handed |-> {}, refused |-> {}, fails |-> 0]

-----------------------------------------------------------------------------
(* The worker *)

Since(from, to) == IF to > from THEN to - from ELSE 0     \* saturating_duration_since

PassSecond ==
  /\ clock < bound.clock
  /\ clock' = clock + 1
  /\ past' = [past EXCEPT !.connected = @ + Cardinality(DOMAIN counters.started)]
  /\ UNCHANGED <<bound, counters, agg, sink>>

CountEvent ==
  /\ past.events < bound.events
  /\ counters' = [counters EXCEPT !.events = @ + 1]
  /\ past' = [past EXCEPT !.events = @ + 1]
  /\ UNCHANGED <<bound, clock, agg, sink>>

StartConnection(h) ==
  /\ h \notin DOMAIN counters.started
  /\ counters' = [counters EXCEPT !.started = (h :> clock) @@ @]
  /\ UNCHANGED <<bound, clock, agg, sink, past>>

EndConnection(h) ==
  /\ h \in DOMAIN counters.started
  /\ counters' = [counters EXCEPT !.started = [k \in DOMAIN @ \ {h} |-> @[k]],
                                  !.seconds = @ + Since(counters.started[h], clock)]
  /\ UNCHANGED <<bound, clock, agg, sink, past>>

-----------------------------------------------------------------------------
(* The aggregator *)

\* tick_at: the windows that have elapsed since the last are cut one by one.
TickAt ==
  /\ agg.cutting = 0
  /\ clock \div Span > agg.finalized
  /\ agg' = [agg EXCEPT !.cutting = (clock \div Span) - agg.finalized,
                        !.finalized = clock \div Span]
  /\ UNCHANGED <<bound, clock, counters, sink, past>>

\* (mutant of SwapCounters) the counters are read and not reset
LoadCounters ==
  /\ agg.cutting # 0 /\ agg.events = {}
  /\ agg' = [agg EXCEPT !.events = {counters.events}]
  /\ UNCHANGED <<bound, clock, counters, sink, past>>

\* snapshot_and_reset swaps the cumulative counters ...
SwapCounters ==
  /\ agg.cutting # 0 /\ agg.events = {}
  /\ agg' = [agg EXCEPT !.events = {counters.events}]
  /\ counters' = [counters EXCEPT !.events = 0]
  /\ UNCHANGED <<bound, clock, sink, past>>

\* pending is a ring, filled once the tick is done: windows nobody drained give
\* way to the newer ones.
Finalized(a, w) ==
  [a EXCEPT !.cutting = @ - 1, !.events = {},
            !.cut = IF a.cutting = 1 THEN <<>> ELSE Append(@, w),
            !.pending = IF a.cutting # 1 THEN @
                        ELSE LET all == @ \o Append(a.cut, w)
                             IN SubSeq(all, 1 + Since(PendingCapacity, Len(all)), Len(all))]

\* ... and then, under the lock of the active connections, adds what they have
\* been connected up to the window's end and starts them again there.
CutWindow ==
  /\ agg.events # {}
  /\ \E end \in {(agg.finalized - agg.cutting + 1) * Span}, events \in agg.events :
     \E seconds \in {counters.seconds
                       + MapThenSumSet(LAMBDA h : Since(counters.started[h], end), DOMAIN counters.started)} :
       /\ counters' = [counters EXCEPT !.seconds = 0, !.started = [h \in DOMAIN @ |-> end]]
       /\ agg' = [Finalized(agg, [sequence |-> agg.sequence, end |-> end]) EXCEPT !.sequence = @ + 1]
       /\ past' = [past EXCEPT !.reported = [events |-> @.events + events,
                                             seconds |-> @.seconds + seconds]]
  /\ UNCHANGED <<bound, clock, sink>>

-----------------------------------------------------------------------------
(* The exporting task and SpoolingUsageSink::append *)

DrainPending ==
  /\ bound.exports /\ sink.new = {} /\ sink.drained = <<>> /\ agg.pending # <<>>
  /\ sink' = [sink EXCEPT !.drained = agg.pending]
  /\ agg' = [agg EXCEPT !.pending = <<>>]
  /\ UNCHANGED <<bound, clock, counters, past>>

Export ==
  /\ sink.new = {} /\ sink.drained # <<>>
  /\ sink' = [sink EXCEPT !.new = {Head(sink.drained)}, !.drained = Tail(@)]
  /\ past' = [past EXCEPT !.handed = @ \cup {Head(sink.drained)}]
  /\ UNCHANGED <<bound, clock, counters, agg>>

Fails == past.fails < bound.fails /\ past' = [past EXCEPT !.fails = @ + 1]
Stored(w) == [sink EXCEPT !.stored = Append(@, w)]

PushToSpool(s, w) ==
  [s EXCEPT !.spool = Append(IF Len(@) = SpoolCapacity THEN Tail(@) ELSE @, w),
            !.dropped = IF Len(s.spool) = SpoolCapacity THEN @ + 1 ELSE @,
            !.degraded = @ \/ Len(s.spool) = SpoolCapacity]

\* The windows that wait are taken out and tried first, oldest first.
AppendPending ==
  /\ sink.new # {} /\ sink.spool # <<>>
  /\ \E w \in {Head(sink.spool)}, new \in sink.new :
       \/ /\ sink' = [Stored(w) EXCEPT !.spool = Tail(@)]
          /\ UNCHANGED past
       \/ /\ Fails                               \* a retryable error
          /\ sink' = PushToSpool([sink EXCEPT !.spool = Tail(@), !.new = {}], new)
       \/ /\ past.fails < bound.fails            \* an error that is not
          /\ past' = [past EXCEPT !.fails = @ + 1, !.refused = @ \cup {w}]
          /\ sink' = [sink EXCEPT !.spool = Tail(@), !.degraded = TRUE]
  /\ UNCHANGED <<bound, clock, counters, agg>>

AppendNew ==
  /\ sink.spool = <<>>
  /\ \E new \in sink.new :
       \/ /\ sink' = [Stored(new) EXCEPT !.new = {}, !.degraded = FALSE]
          /\ UNCHANGED past
       \/ /\ Fails
          /\ sink' = PushToSpool([sink EXCEPT !.new = {}], new)
       \/ /\ past.fails < bound.fails
          /\ past' = [past EXCEPT !.fails = @ + 1, !.refused = @ \cup {new}]
          /\ sink' = [sink EXCEPT !.new = {}]
  /\ UNCHANGED <<bound, clock, counters, agg>>

-----------------------------------------------------------------------------
UsageNext ==
  \/ PassSecond \/ CountEvent
  \/ \E h \in bound.handles : StartConnection(h) \/ EndConnection(h)
  \/ TickAt \/ SwapCounters \/ CutWindow
  \/ DrainPending \/ Export \/ AppendPending \/ AppendNew

UsageSpec == UsageInit /\ [][UsageNext]_usageVars

-----------------------------------------------------------------------------
(* Properties *)

\* Every part of the state has its type, the spool and the aggregator's ring
\* their capacities.
UsageTypeOK ==
  /\ bound \in Bounds /\ clock \in 0..bound.clock
  /\ counters.events \in 0..bound.events /\ counters.seconds \in Nat
  /\ DOMAIN counters.started \subseteq bound.handles
  /\ agg.cutting \in 0..bound.clock /\ agg.events \subseteq 0..bound.events
  /\ Len(agg.pending) <= PendingCapacity
  /\ Len(sink.spool) <= SpoolCapacity
  /\ sink.degraded \in BOOLEAN /\ sink.dropped \in Nat

\* An event is counted in exactly one window, whenever the snapshot falls:
\* "Counters roll into the next window without loss at the boundary."
EventsCountedOnce ==
  past.events = past.reported.events + counters.events
                + (IF agg.events = {} THEN 0 ELSE Max(agg.events))

\* No second of a connection is lost between the windows: what was reported,
\* what is accrued and what the connections have been up for since they were
\* last started again is never less than the time they were connected.
SecondsNotLost ==
  past.connected <= past.reported.seconds + counters.seconds
                    + MapThenSumSet(LAMBDA h : Since(counters.started[h], clock), DOMAIN counters.started)

\* What the sink has stored is in the order of the windows' numbers and ends,
\* each window once: idempotency_id tells windows apart by their numbers.
StoredInOrder ==
  \A i, j \in DOMAIN sink.stored : i < j =>
    /\ sink.stored[i].sequence < sink.stored[j].sequence
    /\ sink.stored[i].end < sink.stored[j].end

\* A window that was handed to append is stored, waits, was refused with an
\* error that says so, or is counted in dropped_windows: "windows are never
\* silently discarded while spool capacity remains."
NoneSilentlyDiscarded ==
  Cardinality(past.handed \ (past.refused \cup sink.new \cup ToSet(sink.spool) \cup ToSet(sink.stored)))
    <= sink.dropped

\* The account is complete: every event is in one window, no connection's second
\* is in none, and the windows are stored in order, each once, although counting,
\* cutting and exporting interleave and the sink fails.
UsageAccounted == UsageTypeOK /\ EventsCountedOnce /\ SecondsNotLost /\ StoredInOrder

====
