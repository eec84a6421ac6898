---------------------------- MODULE ManagedStore ----------------------------
(***************************************************************************)
(* A managed node with durable state: the worker that applies a trusted    *)
(* request, saves the checkpoint and only then answers                     *)
(* (woven-transport/src/lib.rs), the store that replaces the checkpoint    *)
(* file on a blocking thread (woven-server/src/managed_state.rs), start-up *)
(* and import (managed.rs, managed_import.rs), and the faults they face:   *)
(* failed writes, a save that outlives its caller, a killed process and a  *)
(* power loss.                                                             *)
(*                                                                         *)
(* The file system is external: data is safe once its file is synced, a    *)
(* rename once the directory is.                                           *)
(***************************************************************************)
EXTENDS ManagedOps

CONSTANTS
  Imports,       \* the checkpoints an operator may import
  Sent,          \* the requests the operator sends
  MaxFaults      \* how often something fails

ASSUME StoreAssumption ==
  /\ Sent \subseteq Requests
  /\ \A cp \in Imports : IsCheckpoint(cp)
  /\ MaxFaults \in Nat

VARIABLES
  proc,     \* what the node's process is doing
  core,     \* WovenCore's managed state
  asked,    \* the request whose save is awaited: {} or {request}
  jobs,     \* Store::replace calls running on blocking threads
  main,     \* checkpoint.json: {} or {file}
  stable,   \* what the synced directory says checkpoint.json is
  pending,  \* checkpoint.pending: {} or {file}
  acked,    \* per session, what the last answered request left: revision, retired
  faults    \* the faults so far

vars == <<proc, core, asked, jobs, main, stable, pending, acked, faults>>

File(cp) == [cp |-> cp, synced |-> FALSE, intact |-> TRUE]

Processes == {"down", "importing", "opening", "serving", "saving"}
Stages    == <<"write", "sync", "rename", "sync_directory">>

\* The parts of the node have the code's types: at most one request is in hand, each
\* path names at most one file, and exactly the bound clients have grants.
TypeOK ==
  /\ proc \in Processes
  /\ core.closed \in Nat
  /\ DOMAIN core.scopes \subseteq Sessions /\ DOMAIN core.live \subseteq Sessions
  /\ DOMAIN core.bound \subseteq Clients /\ DOMAIN core.grants = DOMAIN core.bound
  /\ asked \subseteq Requests /\ Cardinality(asked) <= 1
  /\ \A j \in jobs : j.stage \in {Stages[i] : i \in 1..4} /\ j.awaited \in BOOLEAN
  /\ \A f \in main \cup stable \cup pending : f.synced \in BOOLEAN /\ f.intact \in BOOLEAN
  /\ Cardinality(main) <= 1 /\ Cardinality(stable) <= 1 /\ Cardinality(pending) <= 1
  /\ DOMAIN acked \subseteq Sessions
  /\ faults \in 0..MaxFaults

Init ==
  /\ proc = "down" /\ core = FreshCore /\ asked = {} /\ jobs = {}
  /\ main = {} /\ stable = {} /\ pending = {}
  /\ acked = Nothing /\ faults = 0

-----------------------------------------------------------------------------
\* Store::acquire

\* (mutant of Locked) The lock ends with the worker that held it.
LockedByWorkerOnly == proc # "down"

\* managed.lock is held by the process and by every job it started, whether or
\* not its caller still waits.
Locked == proc # "down" \/ jobs # {}

\* The operator learns that q succeeded.
Note(q) ==
  LET known == q.session \in DOMAIN acked /\ acked[q.session].retired
  IN  Assign(acked, q.session, [revision |-> q.revision, retired |-> known \/ q.op = "delete"])

NewJob(cp) == [cp |-> cp, stage |-> "write", awaited |-> TRUE]

\* start_managed -> Store::load -> acquire -> lock: syncs the directory too.
Open ==
  /\ ~Locked
  /\ proc' = "opening"
  /\ stable' = main
  /\ UNCHANGED <<core, asked, jobs, main, pending, acked, faults>>

\* (mutant of Load) The pending file of a crash is left where it is.
LoadLeavingPending ==
  /\ proc = "opening"
  /\ \E f \in main :
       /\ f.intact /\ Restorable(f.cp)
       /\ core' = Restored(f.cp)
  /\ proc' = "serving"
  /\ UNCHANGED <<asked, jobs, main, stable, pending, acked, faults>>

\* The rest of Store::load, restore_managed_checkpoint and the start of the
\* listeners and the worker: the main file is verified; a pending one is removed
\* and the directory synced.
Load ==
  /\ proc = "opening"
  /\ \E f \in main :
       /\ f.intact /\ Restorable(f.cp)
       /\ core' = Restored(f.cp)
  /\ proc' = "serving" /\ pending' = {}
  /\ stable' = IF pending = {} THEN stable ELSE main
  /\ UNCHANGED <<asked, jobs, main, acked, faults>>

\* No checkpoint, or not a valid one: the node refuses to start.
LoadFails ==
  /\ proc = "opening"
  /\ ~ \E f \in main : f.intact /\ Restorable(f.cp)
  /\ proc' = "down"
  /\ UNCHANGED <<core, asked, jobs, main, stable, pending, acked, faults>>

\* import: the checkpoint is restored on a scratch core, the directory must be
\* empty but for the lock, and the file is written like every other.
Import(cp) ==
  /\ ~Locked
  /\ Restorable(cp)
  /\ main = {} /\ pending = {}
  /\ proc' = "importing" /\ jobs' = {NewJob(cp)} /\ stable' = main
  /\ UNCHANGED <<core, asked, main, pending, acked, faults>>

-----------------------------------------------------------------------------
\* The worker

\* WorkerRequest::Managed with a request that succeeds, retries included: the
\* export is handed to the store and the worker waits.  A request that fails
\* changes nothing.
Request(q) ==
  LET answer == Manage(core, q)
  IN  /\ proc = "serving" /\ answer.reply = "ok"
      /\ core' = answer.core
      /\ proc' = "saving" /\ asked' = {q} /\ jobs' = jobs \cup {NewJob(Export(answer.core))}
      /\ UNCHANGED <<main, stable, pending, acked, faults>>

\* Authentication of a client with a credential of a live scope.
Connect(c) ==
  /\ proc = "serving" /\ c \notin DOMAIN core.bound
  /\ \E v \in Verifiers : \E s \in ScopesOf(core, v) : core' = Authenticate(core, c, s)
  /\ UNCHANGED <<proc, asked, jobs, main, stable, pending, acked, faults>>

Disconnect(c) ==
  /\ proc = "serving" /\ c \in DOMAIN core.bound
  /\ core' = Lose(core, {c})
  /\ UNCHANGED <<proc, asked, jobs, main, stable, pending, acked, faults>>

-----------------------------------------------------------------------------
\* Store::replace, one step per system call.

Advance(j, stage) == jobs' = (jobs \ {j}) \cup {[j EXCEPT !.stage = stage]}

\* pending(): create_new, after the check that a running node's main
\* checkpoint exists; write_all.
WritePending(j) ==
  /\ j.stage = "write"
  /\ pending = {}
  /\ proc = "importing" \/ main # {}
  /\ pending' = {File(j.cp)}
  /\ Advance(j, "sync")
  /\ UNCHANGED <<proc, core, asked, main, stable, acked, faults>>

SyncPending(j) ==
  /\ j.stage = "sync"
  /\ pending' = {[f EXCEPT !.synced = TRUE] : f \in pending}
  /\ Advance(j, "rename")
  /\ UNCHANGED <<proc, core, asked, main, stable, acked, faults>>

Rename(j) ==
  /\ j.stage = "rename"
  /\ pending # {}
  /\ main' = pending /\ pending' = {}
  /\ Advance(j, "sync_directory")
  /\ UNCHANGED <<proc, core, asked, stable, acked, faults>>

\* (mutant of Finish) The directory is not synced.
FinishUnsynced(j) ==
  /\ j.stage = "sync_directory"
  /\ jobs' = jobs \ {j}
  /\ IF j.awaited
     THEN /\ proc' = IF proc = "saving" THEN "serving" ELSE "down"
          /\ asked' = {}
          /\ acked' \in {acked} \cup {Note(q) : q \in asked}
     ELSE UNCHANGED <<proc, asked, acked>>
  /\ UNCHANGED <<core, main, stable, pending, faults>>

\* The directory is synced and the save returns.  The worker answers; the
\* operator sees the answer unless the 5 s of admin_request are over.  After
\* an import the process ends.
Finish(j) ==
  /\ j.stage = "sync_directory"
  /\ stable' = main
  /\ jobs' = jobs \ {j}
  /\ IF j.awaited
     THEN /\ proc' = IF proc = "saving" THEN "serving" ELSE "down"
          /\ asked' = {}
          /\ acked' \in {acked} \cup {Note(q) : q \in asked}
     ELSE UNCHANGED <<proc, asked, acked>>
  /\ UNCHANGED <<core, main, pending, faults>>

JobStep(j) == WritePending(j) \/ SyncPending(j) \/ Rename(j) \/ Finish(j)

-----------------------------------------------------------------------------
\* Faults.  Every one of them ends the worker: it closes its mailbox, answers
\* nobody and the process exits.

Fault == faults < MaxFaults /\ faults' = faults + 1

Halt == proc' = "down" /\ asked' = {} /\ core' = FreshCore

\* A system call of the save fails.
SaveFails(j) ==
  /\ Fault
  /\ jobs' = jobs \ {j}
  /\ IF j.awaited THEN Halt ELSE UNCHANGED <<proc, core, asked>>
  /\ UNCHANGED <<main, stable, pending, acked>>

\* MANAGED_PERSISTENCE_TIMEOUT, or the process is asked to stop: the job on
\* the blocking thread goes on.
WorkerStops ==
  /\ Fault
  /\ proc \in {"serving", "saving"}
  /\ Halt
  /\ jobs' = {[j EXCEPT !.awaited = FALSE] : j \in jobs}
  /\ UNCHANGED <<main, stable, pending, acked>>

\* The process is killed, its threads with it; the file system stays as it is.
Kill ==
  /\ Fault
  /\ Locked
  /\ Halt
  /\ jobs' = {}
  /\ UNCHANGED <<main, stable, pending, acked>>

\* What a power loss leaves of a file: its data if it was synced, anything else otherwise.
Survivors(f) == IF f.synced THEN {f} ELSE {f, [f EXCEPT !.intact = FALSE]}

\* An unsynced rename or removal may or may not have happened.
PowerLoss ==
  /\ Fault
  /\ Halt
  /\ jobs' = {}
  /\ \E m \in {main, stable} :
       \/ m = {} /\ main' = {} /\ stable' = {}
       \/ \E f \in m : \E g \in Survivors(f) : main' = {g} /\ stable' = {g}
  /\ pending' \in {{}, pending} \cup (IF main # stable THEN {main} ELSE {})
  /\ UNCHANGED acked

-----------------------------------------------------------------------------
Next ==
  \/ Open \/ Load \/ LoadFails
  \/ \E cp \in Imports : Import(cp)
  \/ \E q \in Sent : Request(q)
  \/ \E c \in Clients : Connect(c) \/ Disconnect(c)
  \/ \E j \in jobs : JobStep(j) \/ SaveFails(j)
  \/ WorkerStops \/ Kill \/ PowerLoss

\* A started system call returns, a start-up goes on, and the process
\* supervisor starts a node that is down.
Fairness ==
  /\ WF_vars(Open)
  /\ WF_vars(Load)
  /\ WF_vars(\E j \in jobs : JobStep(j))

Spec == Init /\ [][Next]_vars
FairSpec == Spec /\ Fairness

-----------------------------------------------------------------------------
\* Properties

\* Every checkpoint a crash can leave behind.
Leftovers == {f.cp : f \in main \cup stable}

\* A request the operator saw succeed is in every checkpoint that a crash at
\* this point could leave: its revision is not lost and a deletion is not undone (the save before the reply in the
\* worker, the syncs of Store::replace).
AckedSurvives ==
  \A s \in DOMAIN acked : \A cp \in Leftovers :
    /\ s \in DOMAIN cp.scopes
    /\ cp.scopes[s].revision >= acked[s].revision
    /\ acked[s].retired => cp.scopes[s].retired

\* A node that answers shows only what no crash can take back: its scopes are
\* those of every checkpoint a crash could leave (start-up syncs the directory
\* before it reads, and no request is served during a save).
ServedIsDurable ==
  proc = "serving" => \A cp \in Leftovers : cp = Export(core)

\* A save meets no other writer and no remains of one: it finds the place of
\* the pending file free, then its own file there, and a main checkpoint to
\* replace unless it is the import (create_new and the check of CHECKPOINT in
\* Store::replace never fail for what a crash or an orphaned save left).
SaveUnobstructed ==
  \A j \in jobs :
    CASE j.stage = "write"              -> pending = {} /\ (main = {} => proc = "importing")
      [] j.stage \in {"sync", "rename"} -> {f.cp : f \in pending} = {j.cp}
      [] OTHER                          -> {f.cp : f \in main} = {j.cp}

\* No crash leaves a checkpoint that start-up refuses: what the requests build
\* always passes the validation of restore_managed_checkpoint, and the file is
\* never a torn one.
AlwaysRestorable ==
  \A f \in main \cup stable : f.intact /\ Restorable(f.cp)

\* The live half of the core agrees with the scopes, after requests and after
\* restarts: a session per scope that is not retired, with the target, ceiling
\* and spaces of its scope; connections belong to such sessions and are granted
\* all their spaces, those created after they authenticated included.
LiveMatchesScopes ==
  /\ DOMAIN core.live = LiveScopes(Export(core))
  /\ \A s \in DOMAIN core.live :
       /\ core.live[s].target = core.scopes[s].ccu
       /\ core.live[s].rate = core.scopes[s].rate
       /\ core.live[s].spaces = SystemSpaces \cup DOMAIN core.scopes[s].spatial
  /\ \A c \in DOMAIN core.bound :
       /\ core.bound[c] \in DOMAIN core.live
       /\ core.grants[c] = core.live[core.bound[c]].spaces

\* The operator whose request timed out, or whose node crashed before or after
\* it answered, can send it again: a request that succeeds succeeds again and
\* changes nothing, also on the node restored from its checkpoint (the
\* comparisons with last_mutation in managed_put, managed_patch and
\* managed_put_space; Delete on a retired scope).
RetrySucceeds ==
  proc = "serving" =>
    \A q \in Sent :
      LET once == Manage(core, q)
          back == Restored(Export(once.core))
      IN  once.reply = "ok" => /\ Manage(once.core, q) = once
                               /\ Manage(back, q) = Answer("ok", back)

\* A node with a store comes back to serving whatever fails a bounded number of
\* times (start_managed, the leftover pending file, the orphaned save).
ComesBack == stable # {} ~> proc = "serving"

\* The files and processes implement the promise made to the operator.
Registry(files) == {f.cp.scopes : f \in files}

Contract == INSTANCE ManagedContract WITH
  committed <- Registry(stable),
  proposed  <- Registry(jobs) \cup (IF main = stable THEN {} ELSE Registry(main)),
  shown     <- IF proc = "serving" THEN {core.scopes} ELSE {}

\* What is committed changes only to what was proposed, one scope at a time, and
\* a serving node shows what is committed.
ImplementsContract == Contract!Spec

\* The store is sound at every point a crash may come: a serving node shows only
\* what is durable, no save is obstructed by the remains of another, and every
\* file a crash can leave is one that start-up accepts.
StoreSound == TypeOK /\ ServedIsDurable /\ SaveUnobstructed /\ AlwaysRestorable

=============================================================================
