---- MODULE LogCapture ----
(***************************************************************************)
(* The node's log: entries the core worker captures in a ring, the client  *)
(* logs with their rate limits, the memberships it sees come and go, and   *)
(* the administrator that reads the ring page by page over HTTP while it   *)
(* fills, is evicted and, at a restart, starts again from nothing.         *)
(*                                                                         *)
(* Of the core only the connections and their memberships are kept.  One   *)
(* request of the worker is one step.                                      *)
(***************************************************************************)
EXTENDS Naturals, Sequences, FiniteSets, SequencesExt, FiniteSetsExt

CONSTANTS LogConnections, LogSessions,
          LogCapacity,      \* LOG_CAPACITY
          PageEntries,      \* MAX_LOG_PAGE_ENTRIES
          ConnectionRate,   \* CONNECTION_LOG_RATE
          NodeRate,         \* NODE_LOG_RATE
          LastSequence,     \* the largest sequence there is
          MaxNow, MaxBoots  \* bounds: the clock, the starts of the node

ASSUME LogCapacityIsPositive == LogCapacity \in Nat \ {0}

VARIABLES joined,   \* the core: connection -> memberships, of the live ones
          gone,     \* connections that were lost: their numbers never return
          logs,     \* [entries, last, dropped: dropped_through, connections:
                    \*  connection -> [sessions, accepted], accepted]
          now,      \* time; LOG_WINDOW is one tick
          boot,     \* boot_id of the running node
          reader,   \* the administrator: [boot, after: its cursor, gap: whether
                    \*  its cursor passed an entry it neither got nor was told of]
          said      \* history: [joined: (connection, session) pairs whose last node
                    \*  entry says client.connected, logged: connection -> times of
                    \*  its client entries in the current window]
logVars == <<joined, gone, logs, now, boot, reader, said>>

Nothing == [c \in {} |-> {}]
WithoutConnections(f, S) == [c \in DOMAIN f \ S |-> f[c]]
Start == [entries |-> <<>>, last |-> 0, dropped |-> 0, connections |-> Nothing, accepted |-> <<>>]

LogInit ==
  /\ joined = Nothing /\ gone = {} /\ now = 0 /\ boot = 1
  /\ logs = Start
  /\ reader = [boot |-> 1, after |-> 0, gap |-> FALSE]
  /\ said = [joined |-> {}, logged |-> [c \in LogConnections |-> <<>>]]

-----------------------------------------------------------------------------
(* LogCapture *)

\* Exhaustion stops capture; a full ring gives up its oldest entry.
Appended(l, c, s, e) ==
  IF l.last = LastSequence THEN l
  ELSE [l EXCEPT !.last = @ + 1,
                 !.dropped = IF Len(l.entries) = LogCapacity THEN Head(l.entries).sequence ELSE @,
                 !.entries = Append(IF Len(@) = LogCapacity THEN Tail(@) ELSE @,
                                    [sequence |-> l.last + 1, connection |-> c, session |-> s, event |-> e])]

Expire(window) == SelectSeq(window, LAMBDA t : now - t < 1)

Capture(l, c) ==
  IF c \in DOMAIN l.connections THEN l.connections[c] ELSE [sessions |-> {}, accepted |-> <<>>]

AllAppended(l, c, S, e) == FoldSet(LAMBDA s, m : Appended(m, c, s, e), l, S)

\* The rate window outlives leave and rejoin, never the connection.
Kept(m, c, capture, core) ==
  IF c \in DOMAIN core /\ (capture.sessions # {} \/ capture.accepted # <<>>)
  THEN [m EXCEPT !.connections = [d \in DOMAIN @ \cup {c} |-> IF d = c THEN capture ELSE @[d]]]
  ELSE [m EXCEPT !.connections = WithoutConnections(@, {c})]

\* observe_connection: the memberships the core has now against the ones seen last.
Observe(l, c, core) ==
  LET old == Capture(l, c).sessions
      new == IF c \in DOMAIN core THEN core[c] ELSE {}
      m   == AllAppended(AllAppended(l, c, old \ new, "disconnected"), c, new \ old, "connected")
  IN Kept(m, c, [Capture(l, c) EXCEPT !.sessions = new], core)

\* (mutant of Reconcile) connections the core dropped on its own go unseen
ReconcileNothing(l, core) == l

Reconcile(l, core) ==
  FoldSet(LAMBDA c, m : Observe(m, c, core), l, DOMAIN l.connections \ DOMAIN core)

\* client: a valid log of connection c for a session it is in.
ClientLog(l, c, s, core) ==
  LET m == Observe(l, c, core)
      w == [m EXCEPT !.connections[c].accepted = Expire(@), !.accepted = Expire(@)]
  IN IF Len(w.connections[c].accepted) >= ConnectionRate \/ Len(w.accepted) >= NodeRate
     THEN w
     ELSE Appended([w EXCEPT !.connections[c].accepted = Append(@, now), !.accepted = Append(@, now)],
                   c, s, "log")

Page(l, after, limit) ==
  LET new == SelectSeq(l.entries, LAMBDA e : e.sequence > after)
  IN SubSeq(new, 1, Min({limit, PageEntries, Len(new)}))

\* (mutant of SerializePage) the cursor is the page's, entries that did not fit
\* included
SerializePageWhole(page, fit, after) ==
  [entries |-> SubSeq(page, 1, fit),
   next |-> IF page = <<>> THEN after ELSE Last(page).sequence]

\* serialize_page: as many entries as fit, and the cursor of the last of them.  One
\* entry always fits: its message has at most 1,024 bytes before escaping.
SerializePage(page, fit, after) ==
  [entries |-> SubSeq(page, 1, fit),
   next |-> IF fit = 0 THEN after ELSE page[fit].sequence]

-----------------------------------------------------------------------------
(* The requests of the worker *)

\* What the node entries between l and logs' say of the memberships.
NewEntries(l) == SelectSeq(l.entries, LAMBDA e : e.sequence > logs.last)
Told(l) ==
  FoldLeft(LAMBDA S, e : IF e.event = "connected" THEN S \cup {<<e.connection, e.session>>}
                         ELSE IF e.event = "disconnected" THEN S \ {<<e.connection, e.session>>} ELSE S,
           said.joined, NewEntries(l))

Handle(l, core) ==
  /\ logs' = l /\ joined' = core
  /\ said' = [said EXCEPT !.joined = Told(l)]
  /\ UNCHANGED <<now, boot, reader>>

Connect(c) ==
  /\ c \notin DOMAIN joined \cup gone
  /\ Handle(logs, [d \in DOMAIN joined \cup {c} |-> IF d = c THEN {} ELSE joined[d]])
  /\ UNCHANGED gone

\* A join (or an admission, or a claim) that succeeds or fails: observed either way.
Join(c, s) ==
  /\ c \in DOMAIN joined
  /\ \E core \in {joined, [joined EXCEPT ![c] = @ \cup {s}]} : Handle(Observe(logs, c, core), core)
  /\ UNCHANGED gone

Leave(c, s) ==
  /\ c \in DOMAIN joined /\ s \in joined[c]
  /\ \E core \in {[joined EXCEPT ![c] = @ \ {s}]} : Handle(Observe(logs, c, core), core)
  /\ UNCHANGED gone

TransportLost(c) ==
  /\ c \in DOMAIN joined
  /\ \E core \in {WithoutConnections(joined, {c})} : Handle(Reconcile(Observe(logs, c, core), core), core)
  /\ gone' = gone \cup {c}

\* A publish, a lifecycle fan-out, a broadcast: the core disconnects the slow ones.
Fanout(slow) ==
  /\ slow # {} /\ slow \subseteq DOMAIN joined
  /\ \E core \in {WithoutConnections(joined, slow)} : Handle(Reconcile(logs, core), core)
  /\ gone' = gone \cup slow

\* Delete: the core loses every connection of the session.
DeleteSession(s) ==
  LET bound == {c \in DOMAIN joined : s \in joined[c]} IN
  /\ bound # {}
  /\ \E core \in {WithoutConnections(joined, bound)} :
       Handle(Reconcile(FoldSet(LAMBDA c, m : Observe(m, c, core), logs, bound), core), core)
  /\ gone' = gone \cup bound

SendLog(c, s) ==
  /\ c \in DOMAIN joined /\ s \in joined[c]
  /\ \E l \in {ClientLog(logs, c, s, joined)} :
       /\ logs' = l
       /\ said' = [joined |-> Told(l),
                   logged |-> IF Len(l.accepted) > Len(SelectSeq(logs.accepted, LAMBDA t : now - t < 1))
                              THEN [said.logged EXCEPT ![c] = Append(@, now)] ELSE said.logged]
  /\ UNCHANGED <<joined, gone, now, boot, reader>>

\* dispatch: the reader sends the boot id of its cursor; with another one it is
\* refused, and starts again.
ReadLogs ==
  /\ IF reader.boot # boot
     THEN reader' = [boot |-> boot, after |-> 0, gap |-> FALSE]
     ELSE \E limit \in 1..PageEntries : \E page \in {Page(logs, reader.after, limit)} :
          \E fit \in (IF page = <<>> THEN {0} ELSE 1..Len(page)) :
          \E answer \in {SerializePage(page, fit, reader.after)} :
            reader' = [reader EXCEPT !.after = answer.next,
                                     !.gap = @ \/ \E n \in reader.after + 1..answer.next :
                                               /\ n > logs.dropped
                                               /\ n \notin {e.sequence : e \in ToSet(answer.entries)}]
  /\ UNCHANGED <<joined, gone, logs, now, boot, said>>

PassTick ==
  /\ now < MaxNow /\ now' = now + 1
  /\ said' = [said EXCEPT !.logged = [c \in LogConnections |-> <<>>]]
  /\ UNCHANGED <<joined, gone, logs, boot, reader>>

\* The capture is volatile: a node that starts again has no connection, no entry
\* and another boot id.
Restart ==
  /\ boot < MaxBoots /\ boot' = boot + 1
  /\ joined' = Nothing /\ gone' = {} /\ logs' = Start
  /\ said' = [joined |-> {}, logged |-> [c \in LogConnections |-> <<>>]]
  /\ UNCHANGED <<now, reader>>

LogNext ==
  \/ \E c \in LogConnections : Connect(c) \/ TransportLost(c)
  \/ \E c \in LogConnections, s \in LogSessions : Join(c, s) \/ Leave(c, s) \/ SendLog(c, s)
  \/ \E slow \in SUBSET LogConnections : Fanout(slow)
  \/ \E s \in LogSessions : DeleteSession(s)
  \/ ReadLogs \/ PassTick \/ Restart

LogSpec == LogInit /\ [][LogNext]_logVars

-----------------------------------------------------------------------------
(* Properties *)

\* The state has its type; the ring holds consecutive sequences, no more of them
\* than its capacity, and droppedThrough is the one before its oldest.
LogTypeOK ==
  /\ DOMAIN joined \subseteq LogConnections \ gone
  /\ logs.last \in 0..LastSequence /\ Len(logs.entries) <= LogCapacity
  /\ \A i \in DOMAIN logs.entries : logs.entries[i].sequence = logs.dropped + i
  /\ logs.dropped + Len(logs.entries) = logs.last

\* An administrator that pages with nextSequence has, up to its cursor, every
\* entry of this boot or a droppedThrough that covers it: eviction, a page cut
\* short at 48 KiB and a restart between two pages leave no silent gap ("use
\* `droppedThrough` to detect missing history").
NoSilentGap ==
  ~reader.gap /\ (reader.boot = boot => reader.after <= logs.last)

\* Node entries record every membership that began and every one that was lost,
\* once each: after any request a pair's last node entry is client.connected
\* exactly when the core has the membership.
MembershipsLogged ==
  logs.last < LastSequence => said.joined = {<<c, s>> \in (DOMAIN joined) \X LogSessions : s \in joined[c]}

\* A connection has at most CONNECTION_LOG_RATE entries accepted in a window and
\* the node at most NODE_LOG_RATE, whatever is left, joined again or lost in it.
LogRateKept ==
  /\ \A c \in LogConnections : Len(said.logged[c]) <= ConnectionRate
  /\ MapThenSumSet(LAMBDA c : Len(said.logged[c]), LogConnections) <= NodeRate

\* The log is true to the core: a membership that began or ended on any path is
\* logged once, and the rates of client entries are kept over leaves and rejoins.
LogFaithful == LogTypeOK /\ MembershipsLogged /\ LogRateKept

====
