---- MODULE MCServices ----
(***************************************************************************)
(* Six parts that share no state, checked in one run: a behaviour picks    *)
(* one of them and takes only its steps, the others stay as they began.    *)
(* The run explores the sum of the six, each with its own bounds.          *)
(***************************************************************************)
EXTENDS Publish, MCUsage, LogCapture, Inference, Client, RustClient

CONSTANTS p1, p2,       \* publishers
          q1, q2, q3    \* inference requests

-----------------------------------------------------------------------------
(* Publish *)

MCDefinition ==
  [ch \in Channels |->
     [persistence |-> CASE ch \in {"pose", "base"} -> "stateful" [] ch = "deed" -> "durable" [] OTHER -> "ephemeral",
      ttl |-> IF ch = "pose" THEN 2 ELSE 0,
      limit |-> 2,
      relays |-> ch # "rules"]]

Msg(ch, e, n, size) == [channel |-> ch, entity |-> e, seq |-> n, size |-> size]

Owner == "e1" :> p1 @@ "e2" :> p2

\* Budgets: after the first, a publish is stale; it is refused and charged.
Budgets == [window |-> 2, budget |-> 3, ceilings |-> {{}, {1}, {2}}, entries |-> 1, bytes |-> 1, keys |-> 1,
            journal |-> 0, emissions |-> 0, offers |-> {Msg("talk", "e1", 1, 1)}, emits |-> {},
            accepts |-> 1, owner |-> Owner, leaves |-> TRUE, loses |-> FALSE]

\* State of two entities at the limits of its entries and of its bytes.
Storage == [window |-> 0, budget |-> 1, ceilings |-> {{}}, entries |-> 2, bytes |-> 3, keys |-> 2,
            journal |-> 0, emissions |-> 0,
            offers |-> {Msg("pose", "e1", n, size) : n \in 1..2, size \in 1..3}
                         \cup {Msg("base", "e1", n, 1) : n \in 1..2} \cup {Msg("pose", "e2", 1, 2)},
            emits |-> {}, accepts |-> 4, owner |-> Owner, leaves |-> FALSE, loses |-> TRUE]

\* An authority that emits: several messages for one key, records of which one
\* finds room, a number that is taken by the message it answers, one key that
\* two connections write.
Emitting == [window |-> 0, budget |-> 1, ceilings |-> {{}}, entries |-> 2, bytes |-> 3, keys |-> 4,
             journal |-> 2, emissions |-> 2,
             offers |-> {Msg("rules", "e1", n, 1) : n \in 1..2},
             emits |-> {<<>>, <<Msg("pose", "e1", 1, 1), Msg("pose", "e1", 2, 2)>>,
                        <<Msg("deed", "e1", 1, 1), Msg("deed", "e1", 2, 1)>>,
                        <<Msg("deed", "e1", 2, 1)>>, <<Msg("base", "e2", 1, 1)>>,
                        <<Msg("rules", "e1", 2, 1), Msg("base", "e2", 2, 2)>>,
                        <<Msg("pose", "e1", 2, 1), Msg("pose", "e1", 2, 1)>>,
                        <<Msg("deed", "e1", 1, 1), Msg("deed", "e1", 2, 1), Msg("deed", "e2", 1, 1)>>},
             accepts |-> 5, owner |-> Owner, leaves |-> FALSE, loses |-> FALSE]

MCCases == {Budgets, Storage, Emitting}

-----------------------------------------------------------------------------
(* Inference: two tasks that read one revision, a queue that is full,      *)
(* every answer of a provider.                                             *)

MCInputs == {(q1 :> "status-update") @@ (q2 :> "status-update") @@ (q3 :> "second-update"),
             (q1 :> "diagnostics") @@ (q2 :> "broken") @@ (q3 :> "stale-status-update"),
             (q1 :> "echo") @@ (q2 :> "status-update") @@ (q3 :> "second-update")}

-----------------------------------------------------------------------------
(* Client: receives among exchanges, joins, the datagram lane.             *)

MCUses == {[events |-> 3, exchanges |-> 3, asks |-> 0, datagrams |-> 0],
           [events |-> 0, exchanges |-> 1, asks |-> 2, datagrams |-> 0],
           [events |-> 1, exchanges |-> 1, asks |-> 0, datagrams |-> 2]}

-----------------------------------------------------------------------------
(* Rust client: logs and datagrams beside the stream, frames the limits    *)
(* refuse, a join among exchanges, the queue, the runner.                  *)

MCRustUses ==
  {[managed |-> FALSE, calls |-> {"join", "leave", "log", "datagram"}, sent |-> 3, pushed |-> 0],
   [managed |-> FALSE, calls |-> {"join", "publish"}, sent |-> 2, pushed |-> 2],
   [managed |-> FALSE, calls |-> {"join", "leave", "admit"}, sent |-> 3, pushed |-> 1],
   [managed |-> TRUE, calls |-> {"join", "leave", "admit", "heartbeat", "claim"}, sent |-> 3, pushed |-> 0],
   [managed |-> TRUE, calls |-> {"admit", "heartbeat", "claim", "runner", "receiver"}, sent |-> 3, pushed |-> 0]}

-----------------------------------------------------------------------------
VARIABLE part
servicesVars == <<part, publishVars, usageVars, logVars, inferenceVars, clientVars, rustVars>>

\* A part that is not picked begins in one of its states only.
ServicesInit ==
  /\ part \in {"publish", "usage", "log", "inference", "client", "rust"}
  /\ PublishInit /\ UsageInit /\ LogInit /\ InferenceInit /\ ClientInit /\ RustInit
  /\ part # "publish" => lim = Storage
  /\ part # "usage" => bound = Counting
  /\ part # "inference" => input = CHOOSE i \in Inputs : TRUE
  /\ part # "client" => use = CHOOSE u \in Uses : TRUE
  /\ part # "rust" => plan = CHOOSE u \in RustUses : TRUE

ServicesNext ==
  /\ UNCHANGED part
  /\ \/ part = "publish" /\ PublishNext /\ UNCHANGED <<usageVars, logVars, inferenceVars, clientVars, rustVars>>
     \/ part = "usage" /\ UsageNext /\ UNCHANGED <<publishVars, logVars, inferenceVars, clientVars, rustVars>>
     \/ part = "log" /\ LogNext /\ UNCHANGED <<publishVars, usageVars, inferenceVars, clientVars, rustVars>>
     \/ part = "inference" /\ InferenceNext /\ UNCHANGED <<publishVars, usageVars, logVars, clientVars, rustVars>>
     \/ part = "client" /\ ClientNext /\ UNCHANGED <<publishVars, usageVars, logVars, inferenceVars, rustVars>>
     \/ part = "rust" /\ RustNext /\ UNCHANGED <<publishVars, usageVars, logVars, inferenceVars, clientVars>>

\* What is fair is not enabled in the initial state of a part that was not
\* picked, so that fairness asks nothing of the behaviours of the others.
ServicesSpec ==
  ServicesInit /\ [][ServicesNext]_servicesVars /\ PublishFairness /\ InferenceFairness
====
