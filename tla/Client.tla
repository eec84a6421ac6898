---- MODULE Client ----
(***************************************************************************)
(* The TypeScript client: one control stream with at most one reader and   *)
(* one writer, receives that time out and are taken up again, the datagram *)
(* lane, and managed admission, which owns the stream while it runs and    *)
(* closes the connection when it is stopped.                               *)
(*                                                                         *)
(* JavaScript runs a task to its next await: one step is a call, a timer,  *)
(* the end of a read or write, or a close, with all it sets off.  The      *)
(* server is external: it sends events, answers exchanges, refuses joins.  *)
(* One session is enough; envelopes of another never touch the scope.      *)
(***************************************************************************)
EXTENDS Naturals, Sequences, FiniteSets, SequencesExt, FiniteSetsExt

CONSTANTS MaxPending,    \* MAX_PENDING_ENVELOPES
          Uses           \* bounds a behaviour picks from: how many [events,
                         \*  exchanges, asks: joins and logs, datagrams] there are

VARIABLES use,       \* the one picked
          life,      \* lifecycle, with the stage of the handshake
          scope,     \* sessionScope is set
          pending,   \* decoded envelopes nobody took yet
          receive,   \* the receive promise of recv: [holder: nobody, the caller, or
                     \*  deferredReceive; timed; got: its outcome (or none yet)]
          write,     \* the control-stream write that is active (or none)
          exchange,  \* admissionExchange: [stage, kind, id: correlation]
          runner,    \* waitAdmission: off, exchanging, or asleep before a heartbeat
                     \*  or a claim
          lane,      \* datagrams: [caller: recvDatagram, recvDatagramTimeout, or none,
                     \*  read: none, in flight, or settled with a packet
                     \*  or nothing; writing; ended]
          server,    \* [wire: envelopes under way, asked: frames it has to answer,
                     \*  events: sent, ids: exchanges begun, asks: joins and logs,
                     \*  datagrams: sent]
          taken      \* history: events handed to callers in order; datagrams handed over
clientVars == <<use, life, scope, pending, receive, write, exchange, runner, lane, server, taken>>

NoReceive == [holder |-> "none", timed |-> FALSE, got |-> <<>>]
NoExchange == [stage |-> "none", kind |-> "none", id |-> 0]
IdleLane == [caller |-> "none", read |-> "none", writing |-> FALSE, ended |-> FALSE]

ClientInit ==
  /\ use \in Uses
  /\ life = "hello" /\ scope = FALSE /\ pending = <<>>
  /\ receive = NoReceive /\ write = "none" /\ exchange = NoExchange /\ runner = "off"
  /\ lane = IdleLane
  /\ server = [wire |-> <<>>, asked |-> <<>>, events |-> 0, ids |-> 0, asks |-> 0, datagrams |-> 0]
  /\ taken = [events |-> <<>>, datagrams |-> 0]

Envelope(kind, n, state) == [kind |-> kind, n |-> n, state |-> state]
Ready == life = "ready"
Admitting == runner # "off" \/ exchange.stage # "none"
LaneBusy == lane.caller # "none" \/ lane.read # "none" \/ lane.writing

\* stopDatagramLane: the stopped read and write settle, their callers return.
StopLane == lane' = [IdleLane EXCEPT !.ended = TRUE]

\* initiateClose and shutdown
Close ==
  /\ life' = "closed" /\ scope' = FALSE /\ StopLane
  /\ exchange' = NoExchange /\ runner' = "off"

-----------------------------------------------------------------------------
(* Connecting and closing *)

\* handshake: each of the two requests is written and its reply awaited.
Handshake ==
  /\ life \notin {"ready", "closed"}
  /\ life' = CASE life = "hello" -> "capabilities"
               [] life = "capabilities" -> "authenticate"
               [] life = "authenticate" -> "authenticated"
               [] life = "authenticated" -> "ready"
  /\ UNCHANGED <<use, scope, pending, receive, write, exchange, runner, lane, server, taken>>

\* connect and fromTransport: any of the four can fail or run into the deadline.
HandshakeFails ==
  /\ life \notin {"ready", "closed"} /\ Close
  /\ UNCHANGED <<use, pending, receive, write, server, taken>>

\* close, closeGracefully, or an admission whose signal is already aborted
CloseLocally ==
  /\ Ready /\ Close
  /\ UNCHANGED <<use, pending, receive, write, server, taken>>

\* transport.closed settles: the lifecycle observer does not touch the lifecycle.
TransportCloses ==
  /\ Ready \/ life = "closed"
  /\ scope' = FALSE /\ StopLane
  /\ UNCHANGED <<use, life, pending, receive, write, exchange, runner, server, taken>>

-----------------------------------------------------------------------------
(* Writing *)

Writable == Ready /\ ~Admitting /\ write = "none"

BeginFrame(kind) ==
  /\ Writable /\ write' = kind
  /\ UNCHANGED <<use, life, scope, pending, receive, exchange, runner, lane, taken>>

\* A frame the server may answer may reach it before the write's promise settles.
Asks(kind) ==
  /\ server.asks < use.asks
  /\ server' = [server EXCEPT !.asks = @ + 1, !.asked = Append(@, Envelope(kind, 0, "none"))]

BeginJoin == BeginFrame("join") /\ Asks("join")
BeginLeave == scope /\ BeginFrame("leave") /\ UNCHANGED server
BeginLog == scope /\ BeginFrame("log") /\ Asks("log")

\* subscribeSpace, transitionEntity, requestSnapshot, the reliable publishes and
\* requestInference only write a frame.
BeginSend == BeginFrame("send") /\ UNCHANGED server

\* What the scope is after a write that succeeded
Scoped(kind) ==
  CASE kind = "join"  -> scope \/ Ready
    [] kind = "leave" -> FALSE
    [] OTHER          -> scope

EndWrite ==
  /\ write \notin {"none", "exchange"} /\ write' = "none"
  /\ scope' \in {Scoped(write), FALSE}        \* FALSE: the write failed
  /\ UNCHANGED <<use, life, pending, receive, exchange, runner, lane, server, taken>>

-----------------------------------------------------------------------------
(* Receiving *)

Events(s) == SelectSeq(s, LAMBDA e : e.kind = "event")
Hand(e) == IF e.kind = "event" THEN [taken EXCEPT !.events = Append(@, e.n)] ELSE taken

\* recv and recvTimeout.  A receive that timed out is taken up; another one that is
\* active makes the call fail.
BeginReceive(timed) ==
  /\ Ready /\ ~Admitting
  /\ \/ /\ receive.holder = "deferred" /\ receive.got # <<>>
        /\ receive' = NoReceive
        /\ taken' = Hand(receive.got[1])
        /\ UNCHANGED pending
     \/ /\ receive.holder = "deferred" /\ receive.got = <<>>
        /\ receive' = [receive EXCEPT !.holder = "caller", !.timed = timed]
        /\ UNCHANGED <<pending, taken>>
     \/ /\ receive.holder = "none" /\ pending # <<>>
        /\ pending' = Tail(pending) /\ taken' = Hand(Head(pending))
        /\ UNCHANGED receive
     \/ /\ receive.holder = "none" /\ pending = <<>>
        /\ receive' = [NoReceive EXCEPT !.holder = "caller", !.timed = timed]
        /\ UNCHANGED <<pending, taken>>
  /\ UNCHANGED <<use, life, scope, write, exchange, runner, lane, server>>

ReceiveTimesOut ==
  /\ receive.holder = "caller" /\ receive.timed
  /\ receive' = [receive EXCEPT !.holder = "deferred", !.timed = FALSE]
  /\ UNCHANGED <<use, life, scope, pending, write, exchange, runner, lane, server, taken>>

Reading == receive.holder # "none" /\ receive.got = <<>>

\* observeSessionScope: a leave of this session, or the rejection of a join or log
Observed(arrived) == scope /\ ~\E e \in ToSet(arrived) : e.kind \in {"left", "refused"}

\* (mutant of Settle) what a receive reads after its caller gave up is discarded
SettleForCaller(e) ==
  /\ receive' = NoReceive
  /\ taken' = IF receive.holder = "caller" THEN Hand(e) ELSE taken

\* The receive's outcome e, given to its caller or kept
Settle(e) ==
  /\ receive' = IF receive.holder = "caller" THEN NoReceive ELSE [receive EXCEPT !.got = <<e>>]
  /\ taken' = IF receive.holder = "caller" THEN Hand(e) ELSE taken

\* The inbox with a chunk of k envelopes, before the reply is taken out of it
Fits(k) == Len(pending) + k <= MaxPending

\* ingestChunk for a receive of recv: a chunk of one or more whole envelopes, the
\* first of which is the receive's
Ingest ==
  /\ Reading
  /\ \E k \in 1..Len(server.wire) : \E arrived \in {SubSeq(server.wire, 1, k)} :
       /\ server' = [server EXCEPT !.wire = SubSeq(@, k + 1, Len(@))]
       /\ IF ~Fits(k)
          THEN Close /\ receive' = NoReceive /\ UNCHANGED <<pending, taken>>
          ELSE /\ scope' = Observed(arrived) /\ pending' = Tail(arrived) /\ Settle(Head(arrived))
               /\ UNCHANGED <<life, exchange, runner, lane>>
  /\ UNCHANGED <<use, write>>

\* The stream ends or breaks under a read, or a frame is malformed.  At its end the
\* client is closed without the transport being so.
StreamFails ==
  /\ Reading \/ exchange.stage = "reading"
  /\ receive' = NoReceive
  /\ \/ Close
     \/ /\ exchange.stage = "none" /\ life' = "closed" /\ scope' = FALSE
        /\ UNCHANGED <<exchange, runner, lane>>
  /\ UNCHANGED <<use, pending, write, server, taken>>

-----------------------------------------------------------------------------
(* Managed admission *)

Exclusive ==
  Ready /\ exchange.stage = "none" /\ receive.holder = "none" /\ write = "none" /\ ~LaneBusy

Begin(kind) ==
  /\ Exclusive
  /\ exchange' = [stage |-> "writing", kind |-> kind, id |-> server.ids + 1]
  /\ write' = "exchange"
  /\ server' = [server EXCEPT !.ids = @ + 1, !.asked = Append(@, Envelope(kind, server.ids + 1, "none"))]

\* requestAdmission and the queue operations, one exchange each (a heartbeat stands
\* for a status and a cancel)
BeginExchange(kind) ==
  /\ runner = "off" /\ server.ids < use.exchanges /\ Begin(kind)
  /\ UNCHANGED <<use, life, scope, pending, receive, runner, lane, taken>>

\* admitWithCancellation
Admit ==
  /\ runner = "off" /\ server.ids < use.exchanges /\ Begin("request")
  /\ runner' = "exchanging"
  /\ UNCHANGED <<use, life, scope, pending, receive, lane, taken>>

\* sleepWithAbort is over: a claim if the ticket was offered, else a heartbeat
Wake ==
  /\ runner \in {"claim", "heartbeat"} /\ server.ids < use.exchanges
  /\ Begin(runner) /\ runner' = "exchanging"
  /\ UNCHANGED <<use, life, scope, pending, receive, lane, taken>>

ExchangeWritten ==
  /\ exchange.stage = "writing" /\ write' = "none"
  /\ \/ exchange' = [exchange EXCEPT !.stage = "reading"] /\ UNCHANGED <<life, scope, lane, runner>>
     \/ Close                                     \* the write failed
  /\ UNCHANGED <<use, pending, receive, server, taken>>

\* The current reply: an error or a mismatch closes the connection; Admitted sets
\* the scope; the runner goes on while the ticket is queued.
Reply(state, observed) ==
  IF state \in {"error", "mismatch"} THEN Close
  ELSE /\ exchange' = NoExchange
       /\ scope' = (observed \/ state = "admitted")
       /\ runner' = CASE runner = "off" -> "off"
                      [] state \in {"queued", "waiting"} -> "heartbeat"
                      [] state = "offered" -> "claim"
                      [] OTHER -> "off"
       /\ UNCHANGED <<life, lane>>

\* isAdmissionCandidate: a correlation is the caller's choice, the runner's begin
\* with 1 every time, so any reply may be taken for this exchange's.
Candidates(s) == {i \in DOMAIN s : s[i].kind = "reply"}

\* receiveExclusive for an exchange takes the first candidate, of what is pending or
\* else of a chunk; the other envelopes stay for recv, as long as there is room.
IngestReply ==
  /\ exchange.stage = "reading"
  /\ \E k \in (IF Candidates(pending) # {} THEN {0} ELSE 1..Len(server.wire)) :
     \E arrived \in {SubSeq(server.wire, 1, k)} : \E all \in {pending \o arrived} :
       /\ server' = [server EXCEPT !.wire = SubSeq(@, k + 1, Len(@))]
       /\ IF ~Fits(k)
          THEN Close /\ UNCHANGED pending
          ELSE IF Candidates(all) = {}
          THEN /\ pending' = all /\ scope' = Observed(arrived)
               /\ UNCHANGED <<life, exchange, runner, lane>>
          ELSE \E i \in {Min(Candidates(all))} :
               pending' = RemoveAt(all, i) /\ Reply(all[i].state, Observed(arrived))
  /\ UNCHANGED <<use, receive, write, taken>>

\* (mutant of StopExchange) the exchange gives up and the connection stays
StopExchangeOnly ==
  /\ exchange.stage # "none" /\ write' = "none"
  /\ exchange' = NoExchange /\ runner' = "off"
  /\ UNCHANGED <<use, life, scope, pending, receive, lane, server, taken>>

\* withAdmissionBounds: ten seconds, the caller's deadline or cancellation
StopExchange ==
  /\ exchange.stage # "none" /\ write' = "none"
  /\ Close
  /\ UNCHANGED <<use, pending, receive, server, taken>>

\* The deadline or the cancellation finds the runner asleep.
StopRunner ==
  /\ runner \in {"claim", "heartbeat"}
  /\ Close
  /\ UNCHANGED <<use, pending, receive, write, server, taken>>

-----------------------------------------------------------------------------
(* The datagram lane *)

LaneUsable == Ready /\ ~Admitting

\* recvDatagram and recvDatagramTimeout: a read that settled after its caller gave up
\* is this call's.
BeginDatagramReceive(caller) ==
  /\ LaneUsable /\ lane.caller = "none"
  /\ \/ /\ lane.read \in {"packet", "nothing"} /\ lane' = [lane EXCEPT !.read = "none"]
        /\ taken' = IF lane.read = "packet" THEN [taken EXCEPT !.datagrams = @ + 1] ELSE taken
     \/ /\ lane.read \in {"none", "flight"} /\ ~lane.ended
        /\ lane' = [lane EXCEPT !.caller = caller, !.read = "flight"] /\ UNCHANGED taken
  /\ UNCHANGED <<use, life, scope, pending, receive, write, exchange, runner, server>>

DatagramTimesOut ==
  /\ lane.caller = "timed"
  /\ lane' = [lane EXCEPT !.caller = "none"]
  /\ UNCHANGED <<use, life, scope, pending, receive, write, exchange, runner, server, taken>>

\* The read in flight gets a packet; a malformed one settles it as well.
DatagramArrives ==
  /\ lane.read = "flight" /\ server.datagrams < use.datagrams
  /\ server' = [server EXCEPT !.datagrams = @ + 1]
  /\ IF lane.caller = "none"
     THEN lane' = [lane EXCEPT !.read = "packet"] /\ UNCHANGED taken
     ELSE /\ lane' = [lane EXCEPT !.caller = "none", !.read = "none"]
          /\ taken' = [taken EXCEPT !.datagrams = @ + 1]
  /\ UNCHANGED <<use, life, scope, pending, receive, write, exchange, runner>>

\* The read fails, or the lane ends under it.
DatagramReadEnds(ends) ==
  /\ lane.read = "flight"
  /\ lane' = [lane EXCEPT !.caller = "none", !.ended = @ \/ ends,
                          !.read = IF lane.caller = "none" THEN "nothing" ELSE "none"]
  /\ UNCHANGED <<use, life, scope, pending, receive, write, exchange, runner, server, taken>>

\* publishUnreliableState and publishUnreliablePositionedState
BeginDatagramWrite ==
  /\ LaneUsable /\ ~lane.ended /\ ~lane.writing /\ use.datagrams > 0
  /\ lane' = [lane EXCEPT !.writing = TRUE]
  /\ UNCHANGED <<use, life, scope, pending, receive, write, exchange, runner, server, taken>>

EndDatagramWrite ==
  /\ lane.writing /\ lane' = [lane EXCEPT !.writing = FALSE]
  /\ UNCHANGED <<use, life, scope, pending, receive, write, exchange, runner, server, taken>>

-----------------------------------------------------------------------------
(* The server *)

ServerSendsEvent ==
  /\ Ready /\ server.events < use.events
  /\ server' = [server EXCEPT !.events = @ + 1,
                              !.wire = Append(@, Envelope("event", server.events + 1, "none"))]
  /\ UNCHANGED <<use, life, scope, pending, receive, write, exchange, runner, lane, taken>>

Answers(kind) ==
  CASE kind = "request"   -> {"queued", "admitted", "terminal", "error"}
    [] kind = "heartbeat" -> {"waiting", "offered", "admitted", "terminal", "mismatch"}
    [] kind = "claim"     -> {"admitted", "waiting", "terminal"}
    [] kind = "join"      -> {"refused", "accepted", "left"}
    [] kind = "log"       -> {"refused", "accepted"}

\* A join or a log is refused, or accepted without an answer, a join perhaps left
\* again; an exchange gets one reply.
ServerAnswers ==
  /\ Ready /\ server.asked # <<>>
  /\ \E ask \in {Head(server.asked)} : \E state \in Answers(ask.kind) :
       server' = [server EXCEPT !.asked = Tail(@),
                                !.wire = IF state = "accepted" THEN @
                                         ELSE Append(@, IF ask.kind \in {"join", "log"} THEN Envelope(state, 0, "none")
                                                        ELSE Envelope("reply", ask.n, state))]
  /\ UNCHANGED <<use, life, scope, pending, receive, write, exchange, runner, lane, taken>>

-----------------------------------------------------------------------------
ClientNext ==
  \/ Handshake \/ HandshakeFails \/ CloseLocally \/ TransportCloses
  \/ BeginJoin \/ BeginLeave \/ BeginLog \/ BeginSend \/ EndWrite
  \/ \E timed \in BOOLEAN : BeginReceive(timed)
  \/ ReceiveTimesOut \/ Ingest \/ StreamFails
  \/ \E kind \in {"request", "heartbeat", "claim"} : BeginExchange(kind)
  \/ Admit \/ Wake \/ ExchangeWritten \/ IngestReply \/ StopExchange \/ StopRunner
  \/ \E caller \in {"recv", "timed"} : BeginDatagramReceive(caller)
  \/ DatagramTimesOut \/ DatagramArrives \/ BeginDatagramWrite \/ EndDatagramWrite
  \/ \E ends \in BOOLEAN : DatagramReadEnds(ends)
  \/ ServerSendsEvent \/ ServerAnswers

ClientSpec == ClientInit /\ [][ClientNext]_clientVars

-----------------------------------------------------------------------------
(* Properties *)

\* The state has its type; the inbox keeps its bound, and an exchange that runs has
\* the latest correlation.
ClientTypeOK ==
  /\ use \in Uses
  /\ life \in {"hello", "capabilities", "authenticate", "authenticated", "ready", "closed"}
  /\ scope \in BOOLEAN /\ Len(pending) <= MaxPending
  /\ receive.holder \in {"none", "caller", "deferred"}
  /\ exchange.stage \in {"none", "writing", "reading"}
  /\ exchange.stage # "none" => exchange.id = server.ids
  /\ lane.caller \in {"none", "recv", "timed"} /\ lane.read \in {"none", "flight", "packet", "nothing"}

\* While the client is ready no event of the control stream is lost, repeated or
\* overtaken: what callers got, what a receive that timed out holds, what is pending
\* and what is under way are together the events in the order they were sent,
\* whatever receives time out and whatever exchanges run in between.
EventsInOrder ==
  Ready => LET held == IF receive.got = <<>> THEN <<>> ELSE Events(receive.got)
               rest == held \o Events(pending) \o Events(server.wire)
           IN taken.events \o [i \in DOMAIN rest |-> rest[i].n] = [n \in 1..server.events |-> n]

\* Admission owns the stream: while an exchange runs no receive, timed out or not,
\* no other write and no datagram operation is active ("During a managed exchange or
\* runner, that operation exclusively owns the control-stream reader").
AdmissionOwnsStream ==
  Ready /\ exchange.stage # "none" =>
    /\ ~Reading /\ receive.holder = "none" /\ ~LaneBusy
    /\ write = IF exchange.stage = "writing" THEN "exchange" ELSE "none"

\* The remembered session never outlives the connection, also when it closes while a
\* join's write or an exchange is awaited.
ScopeOnlyWhileReady == scope => Ready

\* Every reply is the current exchange's: one that was stopped leaves none behind on
\* a usable connection, for a later receive or exchange to take although
\* correlations repeat ("partial stream I/O cannot safely be replayed").
NoStrayReply ==
  Ready => \A e \in ToSet(pending) \cup ToSet(server.wire) \cup ToSet(server.asked) :
             e.kind \in {"reply", "request", "heartbeat", "claim"} =>
               exchange.stage # "none" /\ e.n = exchange.id

\* A datagram the lane read is handed to one caller or held for the next: a timeout
\* that races its arrival loses none.
DatagramsHandedOver ==
  ~lane.ended => taken.datagrams + (IF lane.read = "packet" THEN 1 ELSE 0) = server.datagrams

\* What arrives is handed over once and in order, on the stream and on the
\* datagram lane, whatever receives time out meanwhile.
NothingLost == ClientTypeOK /\ EventsInOrder /\ DatagramsHandedOver

\* A managed exchange is alone on its stream, and when it stops leaves neither a
\* reply nor a remembered session behind for a later operation to meet.
ExchangesIsolated == AdmissionOwnsStream /\ NoStrayReply /\ ScopeOnlyWhileReady

====
