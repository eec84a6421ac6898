----------------------------- MODULE RustClient -----------------------------
(***************************************************************************)
(* The control stream between the Rust client (crates/woven-client-rust)   *)
(* and a server connection (crates/woven-transport-quic/src/lib.rs), byte  *)
(* by byte: the cursors that survive a cancelled receive, the server's     *)
(* pinned read, the admission exchanges that own the stream, the           *)
(* remembered session scope, the datagram lane beside the stream.          *)
(*                                                                         *)
(* The behaviour begins after the handshake.  One session matters; it is   *)
(* `managed` or not.  A byte is <<i, j>>, the j-th byte of the i-th frame  *)
(* its writer sent; the four bytes of a prefix stand as two.  A future     *)
(* that writes is awaited, or dropped together with its client: write_all  *)
(* cannot be resumed.                                                      *)
(***************************************************************************)
EXTENDS Naturals, Sequences

\* How the client is used: whether the session is managed, the operations it
\* calls, and the bounds on the frames it sends and on those the server sends on
\* its own.
CONSTANT RustUses

PrefixLen     == 2
max_frame_len == 3   \* the client's CodecLimits

\* A frame of kind "big" is longer than the client's limit; one of kind "fat"
\* fits, with a payload over the client's limit.
FrameLen(f) == IF f.kind = "big" THEN max_frame_len + 1 ELSE max_frame_len

Plain(kind)              == [kind |-> kind, corr |-> 0, status |-> ""]
ReplyTo(f, kind, status) == [kind |-> kind, corr |-> f.corr, status |-> status]
Wire(i, f)               == [j \in 1..FrameLen(f) |-> <<i, j>>]
StreamReadState          == [bytes |-> <<>>, length |-> 0]

VARIABLES
  plan,   \* one of RustUses
  rust    \* both ends of the connection and what is between them

rustVars == <<plan, rust>>

RustInit ==
  /\ plan \in RustUses
  /\ rust = [open |-> TRUE,                      \* the transport connection
            held |-> TRUE,                      \* the caller still has the Client
            taken |-> FALSE,                    \* datagram_receiver_taken
            scope |-> FALSE,                    \* session_scope is the session
            call |-> "none",                    \* the future that borrows the client
            runner |-> FALSE,                   \* inside admit_with_cancellation
            op |-> "admit", corr |-> 0,         \* the exchange, its correlation id
            rd |-> StreamReadState, got |-> 0,  \* stream_read; frames it decoded
            erred |-> FALSE,                    \* recv has returned a codec error
            garbled |-> FALSE,                  \* some end took bytes for a frame that was not sent
            upSent |-> <<>>, up |-> <<>>, downSent |-> <<>>, down |-> <<>>,
            serving |-> TRUE, member |-> FALSE, refused |-> FALSE,
            queue |-> "none", sread |-> StreamReadState, sgot |-> 0,
            pushed |-> 0, lane |-> 0]

-----------------------------------------------------------------------------
(* Framing.                                                                *)

\* Codec::expected_frame_len of a complete prefix: 0 where it is refused.
expected_frame_len(sent, bytes, limit) ==
  LET n == FrameLen(sent[bytes[1][1]]) IN IF n > limit THEN 0 ELSE n

\* A reader with `bytes` read, one prefix and at most one body.
Aligned(bytes) == \A j \in 1..Len(bytes) : bytes[j] = <<bytes[1][1], j>>
Wanted(r)      == (IF r.length = 0 THEN PrefixLen ELSE r.length) - Len(r.bytes)
Rejected(r)    == r.length = 0 /\ Len(r.bytes) = PrefixLen
Complete(r)    == r.length > 0 /\ Len(r.bytes) = r.length

\* k more bytes of the pipe; the length is known once the prefix is complete.
Filled(r, pipe, k, sent, limit) ==
  LET bytes == r.bytes \o SubSeq(pipe, 1, k)
  IN  [bytes |-> bytes,
       length |-> IF r.length = 0 /\ Len(bytes) = PrefixLen
                  THEN expected_frame_len(sent, bytes, limit) ELSE r.length]

Readable(r, pipe) == {k \in 1..2 : k <= Wanted(r) /\ k <= Len(pipe)}

-----------------------------------------------------------------------------
(* What the client's operations end in.                                    *)

\* The connection is closed on this side; what the server has received before
\* it learns of that it may still read.
Closed(s) == [s EXCEPT !.open = FALSE, !.down = <<>>]

\* An owned client is dropped with the error of its admission.
Abandoned(s) == [s EXCEPT !.held = ~s.runner, !.runner = FALSE, !.call = "none"]

\* abort_admission
Aborted(s) == Abandoned(Closed([s EXCEPT !.scope = FALSE]))

\* (mutant of observe_session_scope) A refused join is overlooked.
observe_session_scope_of_logs(s, f) ==
  [s EXCEPT !.scope = @ /\ ~(f.kind = "logError" /\ f.status = "InvalidScope")]

observe_session_scope(s, f) ==
  [s EXCEPT !.scope = @ /\ ~(\/ f.kind = "joinError"
                             \/ f.kind = "logError" /\ f.status = "InvalidScope")]

\* The reply of an exchange: what it settles and, inside the runner, what
\* wait_admission does next.
Settled(s, f) ==
  LET s1 == [s EXCEPT !.scope = @ \/ f.status = "Admitted"]
  IN  IF s.runner /\ f.status \in {"Queued", "Waiting", "Offered"}
      THEN [s1 EXCEPT !.call = "sleep", !.op = IF f.status = "Offered" THEN "claim" ELSE "heartbeat"]
      ELSE [s1 EXCEPT !.call = "none", !.runner = FALSE]

\* admission_exchange takes one frame, and only its reply.
RepliesTo(s, f) == f.kind = "reply" /\ f.corr = s.corr

recv_ok(s, f) ==
  LET s1 == observe_session_scope(s, f)
  IN  IF s.call = "recv" THEN [s1 EXCEPT !.call = "none"]
      ELSE IF RepliesTo(s, f) THEN Settled(s1, f) ELSE Aborted(s1)

recv_err(s) ==
  LET s1 == [s EXCEPT !.scope = FALSE]
  IN  IF s.call = "recv" THEN [s1 EXCEPT !.call = "none"] ELSE Aborted(s1)

-----------------------------------------------------------------------------
(* Receiving.                                                              *)

Unborrowed == rust.held /\ rust.call = "none"

Recv == Unborrowed /\ rust' = [rust EXCEPT !.call = "recv"]

\* StreamReadState::recv between two awaits: bytes into the cursor and, with the
\* last one of a prefix or of a frame, its verdict.
ReadSome(k) ==
  LET r  == Filled(rust.rd, rust.down, k, rust.downSent, max_frame_len)
      f  == rust.downSent[r.bytes[1][1]]
      s  == [rust EXCEPT !.down = SubSeq(@, k + 1, Len(@)), !.rd = r,
                         !.garbled = @ \/ ~Aligned(r.bytes)]
      s1 == [s EXCEPT !.rd = StreamReadState, !.got = @ + 1,
                      !.garbled = @ \/ r.bytes[1][1] # s.got + 1]
  IN  /\ rust.call \in {"recv", "reply"} /\ rust.open
      /\ rust' = IF Rejected(r) THEN recv_err([s EXCEPT !.erred = TRUE])
                 ELSE IF ~Complete(r) THEN s
                 ELSE IF f.kind = "fat" THEN recv_err([s1 EXCEPT !.erred = TRUE])
                 ELSE recv_ok(s1, f)

\* The read fails, or the prefix that was refused is refused again.
ReadFails ==
  /\ rust.call \in {"recv", "reply"}
  /\ ~rust.open \/ Rejected(rust.rd)
  /\ rust' = recv_err(rust)

\* (mutant of CancelRecv) The cursor belongs to the future that is dropped.
CancelRecvForgetting ==
  rust.call = "recv" /\ rust' = [rust EXCEPT !.call = "none", !.rd = StreamReadState]

\* recv_timeout elapses, or the future of recv is dropped.
CancelRecv == rust.call = "recv" /\ rust' = [rust EXCEPT !.call = "none"]

-----------------------------------------------------------------------------
(* Sending.                                                                *)

CanSend(op) == op \in plan.calls /\ Len(rust.upSent) < plan.sent

\* The frame f, of which the first n bytes get to the transport.
Written(s, f, n) ==
  LET i == Len(s.upSent) + 1
  IN  [s EXCEPT !.upSent = Append(@, f), !.up = @ \o SubSeq(Wire(i, f), 1, n)]

\* send_envelope of an operation that awaits no reply: scope is what the client
\* remembers once the write is through; a write that fails forgets it.
Sends(f, scope) ==
  /\ Unborrowed /\ CanSend(f.kind)
  /\ rust' = IF rust.open THEN [Written(rust, f, FrameLen(f)) EXCEPT !.scope = scope]
             ELSE [rust EXCEPT !.scope = FALSE]

join_session  == Sends(Plain("join"), TRUE)
leave_session == rust.scope /\ Sends(Plain("leave"), FALSE)
send_log      == rust.scope /\ Sends(Plain("log"), rust.scope)
publish       == Sends(Plain("publish"), rust.scope)

\* publish_unreliable_state: one datagram, within the budget of the path.
publish_unreliable_state ==
  Unborrowed /\ rust.open /\ rust.lane = 0 /\ "datagram" \in plan.calls /\ rust' = [rust EXCEPT !.lane = 1]

take_datagram_receiver == Unborrowed /\ "receiver" \in plan.calls /\ ~rust.taken /\ rust' = [rust EXCEPT !.taken = TRUE]

-----------------------------------------------------------------------------
(* Admission.                                                              *)

\* admission_exchange sends its frame and awaits the reply; the timeout, or the
\* end of the runner, may find the frame half written.
Exchange(s, op) ==
  LET corr == Len(s.upSent) + 1
      f    == [kind |-> op, corr |-> corr, status |-> ""]
  IN  /\ CanSend(op)
      /\ IF ~s.open THEN rust' = Aborted(s)
         ELSE \/ rust' = [Written(s, f, FrameLen(f)) EXCEPT !.call = "reply", !.op = op, !.corr = corr]
              \/ \E n \in 1..(FrameLen(f) - 1) : rust' = Aborted(Written(s, f, n))

\* request_admission and the queue operations, called one by one.
BorrowedExchange(op) == Unborrowed /\ ~rust.taken /\ Exchange(rust, op)

\* admit_with_cancellation after the datagram receiver was handed out.
RunnerRefused ==
  Unborrowed /\ "runner" \in plan.calls /\ rust.taken /\ rust' = Aborted([rust EXCEPT !.runner = TRUE])

\* admit_with_cancellation; wait_admission begins with a request, then
\* alternates between sleeping and one queue operation.
RunnerBegins ==
  /\ Unborrowed /\ "runner" \in plan.calls /\ ~rust.taken
  /\ Exchange([rust EXCEPT !.runner = TRUE], "admit")

RunnerPolls == rust.call = "sleep" /\ Exchange(rust, rust.op)

\* Its cancellation, its deadline, or the drop of its future.
RunnerStops == rust.runner /\ rust' = Aborted(rust)

\* (mutant of ExchangeTimesOut) The connection is kept.
ExchangeTimesOutQuietly ==
  rust.call = "reply" /\ rust' = Abandoned(rust)

\* OPERATION_TIMEOUT
ExchangeTimesOut == rust.call = "reply" /\ rust' = Aborted(rust)

\* close and close_gracefully
CloseClient == Unborrowed /\ rust' = [Closed(rust) EXCEPT !.held = FALSE]

-----------------------------------------------------------------------------
(* The server's side of the connection.                                    *)

Answered(s, f) ==
  LET i == Len(s.downSent) + 1
  IN  [s EXCEPT !.downSent = Append(@, f),
                !.down = IF s.open THEN @ \o Wire(i, f) ELSE @]

\* The connection loop is left: the core forgets the connection.
Broken(s) == [s EXCEPT !.serving = FALSE, !.member = FALSE, !.queue = "none"]

Refusal(s, f) == Broken(Answered(s, f))

\* handle_authenticated_with_capabilities: the states in which the frame f may
\* leave the server in state s.
Handled(s, f) ==
  CASE f.kind = "join" ->
         {Refusal([s EXCEPT !.refused = TRUE], Plain("joinError"))}
           \cup (IF plan.managed THEN {} ELSE {[s EXCEPT !.member = TRUE]})
    [] f.kind = "leave" ->
         IF s.member THEN {[s EXCEPT !.member = FALSE]} ELSE {Refusal(s, Plain("error"))}
    [] f.kind = "log" ->
         IF s.member THEN {s, Answered(s, [Plain("logError") EXCEPT !.status = "RateLimited"])}
         ELSE {Answered(s, [Plain("logError") EXCEPT !.status = "InvalidScope"])}
    [] f.kind = "publish" ->
         {Refusal(s, Plain("error"))} \cup (IF s.member THEN {s} ELSE {})
    [] f.kind = "admit" ->
         {Refusal(s, ReplyTo(f, "error", ""))}
           \cup (IF ~plan.managed THEN {}
                 ELSE IF s.member THEN {Answered(s, ReplyTo(f, "reply", "Admitted"))}
                 ELSE IF s.queue # "none" THEN {Answered(s, ReplyTo(f, "reply", "Queued"))}
                 ELSE {Answered([s EXCEPT !.member = TRUE], ReplyTo(f, "reply", "Admitted")),
                       Answered([s EXCEPT !.queue = "waiting"], ReplyTo(f, "reply", "Queued")),
                       Answered(s, ReplyTo(f, "reply", "Rejected"))})
    [] f.kind \in {"heartbeat", "claim"} ->
         {Refusal(s, ReplyTo(f, "error", ""))}
           \cup (IF s.queue = "none" THEN {Answered(s, ReplyTo(f, "reply", "Missing"))}
                 ELSE IF s.queue = "offered" /\ f.kind = "claim"
                 THEN {Answered([s EXCEPT !.member = TRUE, !.queue = "none"], ReplyTo(f, "reply", "Admitted"))}
                 ELSE {Answered([s EXCEPT !.queue = "offered"], ReplyTo(f, "reply", "Offered")),
                       Answered(s, ReplyTo(f, "reply", IF s.queue = "offered" THEN "Offered" ELSE "Waiting"))})

\* read_envelope between two awaits, a read_exact of the prefix and one of the
\* body; the future is pinned outside the select.
ServerReads ==
  LET k == Wanted(rust.sread)
      r == Filled(rust.sread, rust.up, k, rust.upSent, max_frame_len)
      f == rust.upSent[r.bytes[1][1]]
      s == [rust EXCEPT !.up = SubSeq(@, k + 1, Len(@)), !.sread = r,
                        !.garbled = @ \/ ~Aligned(r.bytes)]
  IN  /\ rust.serving /\ Len(rust.up) >= k
      /\ IF Complete(r)
         THEN rust' \in Handled([s EXCEPT !.sread = StreamReadState, !.sgot = @ + 1,
                                          !.garbled = @ \/ r.bytes[1][1] # s.sgot + 1], f)
         ELSE rust' = s

\* The datagram branch of the select: the state is published, or the refusal
\* ends the connection.
ServerDatagram ==
  /\ rust.serving /\ rust.lane = 1
  /\ rust' \in {[s EXCEPT !.lane = 0] :
                  s \in {Refusal(rust, Plain("error"))} \cup (IF rust.member THEN {rust} ELSE {})}

\* A message for a member, or one its client's limits refuse.
ServerPushes(kind) ==
  /\ rust.serving /\ rust.member /\ rust.pushed < plan.pushed
  /\ rust' = [Answered(rust, Plain(kind)) EXCEPT !.pushed = @ + 1]

\* A shutdown signal; or the loop learns that the connection is closed.
ServerStops == rust.serving /\ rust' = Broken(rust)

\* The server closes the connection it has left; the network drops a datagram.
ServerCloses == ~rust.serving /\ rust.open /\ rust' = Closed(rust)
DatagramLost == rust.lane = 1 /\ rust' = [rust EXCEPT !.lane = 0]

RustNext ==
  /\ UNCHANGED plan
  /\ \/ Recv \/ ReadFails \/ CancelRecv
     \/ \E k \in Readable(rust.rd, rust.down) : ReadSome(k)
     \/ join_session \/ leave_session \/ send_log \/ publish
     \/ publish_unreliable_state \/ take_datagram_receiver
     \/ \E op \in {"admit", "heartbeat", "claim"} : BorrowedExchange(op)
     \/ RunnerRefused \/ RunnerBegins \/ RunnerPolls \/ RunnerStops
     \/ ExchangeTimesOut \/ CloseClient
     \/ ServerReads \/ ServerDatagram \/ ServerStops \/ ServerCloses \/ DatagramLost
     \/ \E kind \in {"event", "fat", "big"} : ServerPushes(kind)

RustSpec == RustInit /\ [][RustNext]_rustVars

-----------------------------------------------------------------------------
\* client-rust README.md: "Only a partial four-byte prefix plus one frame are
\* retained", and a body only of a length the limit allows.
RustTypeOK ==
  /\ rust.call \in {"none", "recv", "reply", "sleep"}
  /\ rust.op \in {"admit", "heartbeat", "claim"} /\ rust.queue \in {"none", "waiting", "offered"}
  /\ \A r \in {rust.rd, rust.sread} :
       r.length \in {0, max_frame_len} /\ Len(r.bytes) \in 0..max_frame_len
  /\ rust.got \in 0..Len(rust.downSent) /\ rust.sgot \in 0..Len(rust.upSent)
  /\ \A x \in {rust.open, rust.held, rust.taken, rust.scope, rust.runner, rust.erred,
               rust.garbled, rust.serving, rust.member, rust.refused} : x \in BOOLEAN

\* client-rust README.md: "Short polling intervals therefore do not discard
\* reliable chat/profile/control bytes."  However receives are cut short, refused
\* or interleaved with datagrams, each end decodes exactly the frames the other
\* sent, each once and in order.
FramesIntact == ~rust.garbled

\* client-rust admission.rs: "write_all and request/reply outcomes can remain
\* ambiguous after a timeout, so admission still fails closed."  While no
\* exchange is under way on an open connection, no request is half written, on
\* its way to a server that still serves, or answered by a frame not yet read: a
\* later receive never meets the outcome of an operation that was given up.
NoOutcomeLeftBehind ==
  rust.open /\ rust.call # "reply" =>
    /\ rust.serving => \A b \in {rust.up[j] : j \in 1..Len(rust.up)} : rust.upSent[b[1]].corr = 0
    /\ \A b \in {rust.down[j] : j \in 1..Len(rust.down)} : rust.downSent[b[1]].corr = 0

\* client-rust admission.rs: "The receiver retains a connection clone, so dropping
\* this client alone cannot be relied on to release the server-side admission."
\* Once the caller has no client, the connection is closed, whatever handle the
\* caller keeps; and an admission that ended in an error leaves no scope.
NoOrphanedConnection == ~rust.held => ~rust.open /\ ~rust.runner

\* logging.rs observe_session_scope: when everything sent has been read by both
\* ends, the client remembers the session exactly while the server has it as a
\* member; and a refused join is forgotten with the refusal.  Only an error of
\* recv itself forgets more.
ScopeMatchesMembership ==
  rust.open /\ rust.call = "none" /\ rust.up = <<>> /\ rust.down = <<>> =>
    /\ rust.serving /\ ~rust.erred => rust.scope = rust.member
    /\ rust.refused => ~rust.scope

\* An admission that was given up leaves nothing open: no outcome to be read by a
\* later receive and no connection kept up by a handle of a client that is gone.
AdmissionFailsClosed == NoOutcomeLeftBehind /\ NoOrphanedConnection

\* The stream is framed soundly at both ends: no more than one frame within the
\* limit is held, and each end decodes exactly what the other sent.
FramingSound == RustTypeOK /\ FramesIntact

=============================================================================
