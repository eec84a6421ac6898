---- MODULE Inference ----
(***************************************************************************)
(* The inference plane: requests a transport hands to the coordinator, the *)
(* bounded number of tasks that run them, the provider's events delivered  *)
(* under a deadline, and the tool gateway with the status tool that checks *)
(* a revision, publishes through the core worker, and then stores the new  *)
(* revision.  Tasks interleave at every await.                             *)
(***************************************************************************)
EXTENDS Naturals, Sequences, FiniteSets, SequencesExt, FiniteSetsExt

CONSTANTS Requests,          \* inference requests of the clients
          Inputs,            \* what a behaviour's requests may ask: functions from Requests
          InboundCapacity,   \* INFERENCE_INBOUND_CAPACITY
          QueueCapacity      \* INFERENCE_QUEUE_CAPACITY

VARIABLES input,      \* request -> what it asks, constant over a behaviour
          inbound,    \* UnroutedControl channel
          permits,    \* of the semaphore
          task,       \* request -> [phase, events: still to deliver, tool: where the
                      \*  status tool stands, next: revision it is about to take, late]
          sent,       \* request -> kinds of the replies to the requester, in order
          calls,      \* request -> kinds of its tool-call messages, in order
          revision,   \* StatusUpdateTool.revision
          status      \* the core: [sequence: of the last status it accepted (or 0),
                      \*  by: the requests whose status it accepted, in order]
inferenceVars == <<input, inbound, permits, task, sent, calls, revision, status>>

InferenceInit ==
  /\ input \in Inputs
  /\ inbound = <<>> /\ permits = QueueCapacity
  /\ task = [q \in Requests |-> [phase |-> "new", events |-> <<>>, tool |-> "idle", next |-> 0, late |-> FALSE]]
  /\ sent = [q \in Requests |-> <<>>] /\ calls = [q \in Requests |-> <<>>]
  /\ revision = 1 /\ status = [sequence |-> 0, by |-> <<>>]

-----------------------------------------------------------------------------
(* The provider *)

Tool(id, expected) == [kind |-> "tool", id |-> id, expected |-> expected]
Event(kind) == [kind |-> kind, id |-> "none", expected |-> 0]

\* What run returns.  The first four are the deterministic provider's answers; the
\* others are what the Provider trait lets another one answer.
Respond(what) ==
  CASE what = "diagnostics"         -> <<Event("chunk"), Tool("diagnostics", 0), Event("completed")>>
    [] what = "stale-status-update" -> <<Tool("status", 0), Event("completed")>>
    [] what = "status-update"       -> <<Tool("status", 1), Event("completed")>>
    [] what = "echo"                -> <<Event("completed")>>
    [] what = "second-update"       -> <<Event("progress"), Tool("status", 2), Event("completed")>>
    [] what = "broken"              -> <<Tool("unregistered", 0), Event("failed")>>

Terminal == {"completed", "failed", "expired"}

-----------------------------------------------------------------------------
(* Requests *)

\* handle_authenticated hands the request over with try_send: when the channel is
\* full it is dropped, and the client is told nothing.
Submit(q) ==
  /\ task[q].phase = "new"
  /\ IF Len(inbound) < InboundCapacity
     THEN inbound' = Append(inbound, q) /\ task' = [task EXCEPT ![q].phase = "inbound"]
     ELSE task' = [task EXCEPT ![q].phase = "dropped"] /\ UNCHANGED inbound
  /\ UNCHANGED <<input, permits, sent, calls, revision, status>>

\* (mutant of Reject) a request that finds no permit is passed over in silence
RejectSilently(q) ==
  /\ permits = 0
  /\ task' = [task EXCEPT ![q].phase = "done"]
  /\ UNCHANGED <<permits, sent>>

Reject(q) ==
  /\ permits = 0
  /\ sent' = [sent EXCEPT ![q] = Append(@, "failed")]
  /\ task' = [task EXCEPT ![q].phase = "done"]
  /\ UNCHANGED permits

Accept(q) ==
  /\ permits > 0 /\ permits' = permits - 1
  /\ sent' = [sent EXCEPT ![q] = Append(@, "accepted")]
  /\ task' = [task EXCEPT ![q].phase = "running", ![q].events = Respond(input[q])]

RunLoop ==
  /\ inbound # <<>> /\ inbound' = Tail(inbound)
  /\ Accept(Head(inbound)) \/ Reject(Head(inbound))
  /\ UNCHANGED <<input, calls, revision, status>>

-----------------------------------------------------------------------------
(* run_inference *)

PassDeadline(q) ==
  /\ task[q].phase = "running" /\ ~task[q].late
  /\ task' = [task EXCEPT ![q].late = TRUE]
  /\ UNCHANGED <<input, inbound, permits, sent, calls, revision, status>>

Delivering(q) == task[q].phase = "running" /\ task[q].tool = "idle" /\ task[q].events # <<>>
Done(t) == [t EXCEPT !.phase = "done", !.events = <<>>, !.late = FALSE]

\* The deadline is looked at before each event.
DiscardLate(q) ==
  /\ Delivering(q) /\ task[q].late
  /\ sent' = [sent EXCEPT ![q] = Append(@, "expired")]
  /\ task' = [task EXCEPT ![q] = Done(@)]
  /\ permits' = permits + 1
  /\ UNCHANGED <<input, inbound, calls, revision, status>>

Deliver(q) ==
  /\ Delivering(q) /\ ~task[q].late
  /\ Head(task[q].events).kind # "tool"
  /\ sent' = [sent EXCEPT ![q] = Append(@, Head(task[q].events).kind)]
  /\ task' = [task EXCEPT ![q].events = Tail(@)]
  /\ UNCHANGED <<input, inbound, permits, calls, revision, status>>

Finish(q) ==
  /\ task[q].phase = "running" /\ task[q].tool = "idle" /\ task[q].events = <<>>
  /\ task' = [task EXCEPT ![q] = Done(@)]
  /\ permits' = permits + 1
  /\ UNCHANGED <<input, inbound, sent, calls, revision, status>>

-----------------------------------------------------------------------------
(* handle_tool_call and the tools; the messages go to the AI's whole space *)

Tell(q, kinds) == calls' = [calls EXCEPT ![q] = @ \o kinds]
Judged(q) == task' = [task EXCEPT ![q].tool = "idle", ![q].events = Tail(@), ![q].next = 0]

Propose(q) ==
  /\ Delivering(q) /\ ~task[q].late
  /\ Head(task[q].events).kind = "tool"
  /\ Tell(q, <<"proposed">>)
  /\ task' = [task EXCEPT ![q].tool = Head(task[q].events).id]
  /\ UNCHANGED <<input, inbound, permits, sent, revision, status>>

\* evaluate: an id that is not registered never reaches a handler.
EvaluateUnregistered(q) ==
  /\ task[q].tool = "unregistered"
  /\ Tell(q, <<"rejected">>) /\ Judged(q)
  /\ UNCHANGED <<input, inbound, permits, sent, revision, status>>

InvokeDiagnostic(q) ==
  /\ task[q].tool = "diagnostics"
  /\ Tell(q, <<"accepted", "completed">>) /\ Judged(q)
  /\ UNCHANGED <<input, inbound, permits, sent, revision, status>>

\* invoke, up to the publish: the revision is loaded and compared
InvokeStatus(q) ==
  /\ task[q].tool = "status"
  /\ IF Head(task[q].events).expected # revision
     THEN Tell(q, <<"rejected">>) /\ Judged(q)
     ELSE task' = [task EXCEPT ![q].tool = "publish", ![q].next = revision + 1] /\ UNCHANGED calls
  /\ UNCHANGED <<input, inbound, permits, sent, revision, status>>

\* (mutant of CoreAccepts) the core takes a repeated sequence
CoreAcceptsRepeated(sequence) == sequence >= status.sequence

\* What publish_at requires of a sequence of the entity's state
CoreAccepts(sequence) == sequence > status.sequence

\* The core worker handles the publish; it may also refuse it for its own reasons
\* (the rate, the AI's connection lost or its session deleted).
PublishLatestValue(q) ==
  /\ task[q].tool = "publish"
  /\ \/ /\ CoreAccepts(task[q].next)
        /\ status' = [sequence |-> task[q].next, by |-> Append(status.by, q)]
        /\ task' = [task EXCEPT ![q].tool = "store"] /\ UNCHANGED calls
     \/ /\ Tell(q, <<"rejected">>) /\ Judged(q)
        /\ UNCHANGED status
  /\ UNCHANGED <<input, inbound, permits, sent, revision>>

StoreRevision(q) ==
  /\ task[q].tool = "store"
  /\ revision' = task[q].next
  /\ Tell(q, <<"accepted", "completed">>) /\ Judged(q)
  /\ UNCHANGED <<input, inbound, permits, sent, status>>

-----------------------------------------------------------------------------
TaskStep(q) ==
  \/ DiscardLate(q) \/ Deliver(q) \/ Finish(q) \/ Propose(q)
  \/ EvaluateUnregistered(q) \/ InvokeDiagnostic(q) \/ InvokeStatus(q)
  \/ PublishLatestValue(q) \/ StoreRevision(q)

InferenceNext == RunLoop \/ \E q \in Requests : Submit(q) \/ PassDeadline(q) \/ TaskStep(q)

\* The runtime runs every task that can run, and the worker answers.
InferenceFairness ==
  WF_inferenceVars(RunLoop) /\ \A q \in Requests : WF_inferenceVars(TaskStep(q))

-----------------------------------------------------------------------------
(* Properties *)

\* The state has its type, and a permit is held by exactly the running tasks.
InferenceTypeOK ==
  /\ input \in Inputs /\ Len(inbound) <= InboundCapacity
  /\ \A q \in Requests : task[q].phase \in {"new", "inbound", "dropped", "running", "done"}
  /\ permits + Cardinality({q \in Requests : task[q].phase = "running"}) = QueueCapacity

\* The replies to a request are a failure alone (the queue was full), or begin with
\* the acceptance; one reply ends them and nothing follows it, also when the
\* deadline passes between two events.
RepliesWellFormed ==
  \A q \in Requests :
    /\ sent[q] # <<>> => Head(sent[q]) = "accepted" \/ sent[q] = <<"failed">>
    /\ \A i \in DOMAIN sent[q] : sent[q][i] \in Terminal => i = Len(sent[q])

\* Tasks that found the same revision do not both change the status: the core
\* accepts one publish per revision, the others are rejected, and the space is told
\* of a completed status call only by the task whose publish the core took.
RevisionGrantedOnce ==
  /\ Cardinality(ToSet(status.by)) = Len(status.by)
  /\ status.by # <<>> => status.sequence = Len(status.by) + 1
  /\ revision \in {Max({1, status.sequence}), Max({1, status.sequence}) - 1}
  /\ \A q \in Requests : "completed" \in ToSet(calls[q]) /\ input[q] # "diagnostics" => q \in ToSet(status.by)

\* A request the coordinator received is answered for good, whatever the deadline
\* and the other tasks do.
RequestsAnswered ==
  \A q \in Requests : task[q].phase = "inbound" ~> sent[q] # <<>> /\ Last(sent[q]) \in Terminal

\* Every permit comes back once the requests stop.
PermitsReturn == <>[](permits = QueueCapacity)

\* However tasks interleave and deadlines fall, one proposal is granted per
\* revision and each requester gets a well-formed run of replies.
OutcomesConsistent == InferenceTypeOK /\ RepliesWellFormed /\ RevisionGrantedOnce

\* The coordinator neither leaves a request unanswered nor loses a permit.
RequestsSettle == RequestsAnswered /\ PermitsReturn

====
