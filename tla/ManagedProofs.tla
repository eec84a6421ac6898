---------------------------- MODULE ManagedProofs ----------------------------
(***************************************************************************)
(* For every inventory, every sequence of requests and every placing of    *)
(* faults: what an operator was told is durable survives every crash, a    *)
(* crash leaves only checkpoints that start-up accepts, the live half of   *)
(* the core agrees with the scopes, a request that succeeded can be sent   *)
(* again, and the node implements ManagedContract.                         *)
(*                                                                         *)
(* StoreInv says, for every state of the process, which of the files, the  *)
(* save and the core hold the same checkpoint, and that each of them has   *)
(* everything the operator was told.                                       *)
(***************************************************************************)
EXTENDS ManagedStore, ManagedCoreProofs

\* The store.

Single(S) == S = {} \/ \E x \in S : S = {x}

\* A file that start-up accepts and that no power loss can damage.
SoundFile(f) ==
  /\ f \in [cp : {f.cp}, synced : {TRUE}, intact : {TRUE}]
  /\ IsCheckpoint(f.cp) /\ Restorable(f.cp)

IsJob(j) ==
  /\ j \in [cp : {j.cp}, stage : {"write", "sync", "rename", "sync_directory"}, awaited : BOOLEAN]
  /\ IsCheckpoint(j.cp) /\ Restorable(j.cp)

\* cp has everything the operator was told.
Covers(told, cp) ==
  \A s \in DOMAIN told :
    /\ s \in DOMAIN cp.scopes
    /\ cp.scopes[s].revision >= told[s].revision
    /\ told[s].retired => cp.scopes[s].retired

StoreType ==
  /\ proc \in Processes /\ asked \subseteq Requests /\ faults \in 0..MaxFaults
  /\ Single(asked) /\ Single(jobs) /\ Single(main) /\ Single(stable) /\ Single(pending)
  /\ \A j \in jobs : IsJob(j)
  /\ \A f \in main : SoundFile(f)
  /\ \A f \in stable : SoundFile(f)
  /\ \A f \in pending : f \in [cp : {f.cp}, synced : BOOLEAN, intact : {TRUE}]
  /\ DOMAIN acked \subseteq Sessions
  /\ \A s \in DOMAIN acked : acked[s] \in [revision : Nat, retired : BOOLEAN]

\* What a save finds at each of its steps.
SaveInv ==
  \A j \in jobs :
    /\ j.stage = "write" => main = stable /\ pending = {} /\ (main = {} => proc = "importing")
    /\ j.stage \in {"sync", "rename"} =>
         main = stable /\ \E f \in pending : pending = {f} /\ f.cp = j.cp
    /\ j.stage = "rename" => \A f \in pending : f.synced
    /\ j.stage = "sync_directory" =>
         pending = {} /\ \E f \in main : main = {f} /\ f.cp = j.cp

\* What the process knows of the files and of its save.
ProcessInv ==
  /\ proc \in {"down", "importing", "opening"} => core = FreshCore /\ asked = {}
  /\ proc = "down" => \A j \in jobs : ~j.awaited
  /\ proc = "importing" => jobs # {} /\ (\A j \in jobs : j.awaited)
  /\ proc \in {"opening", "serving"} => jobs = {} /\ main = stable
  /\ proc = "serving" =>
       asked = {} /\ pending = {} /\ \E f \in main : main = {f} /\ f.cp = Export(core)
  /\ proc = "saving" =>
       /\ main # {} /\ \E j \in jobs : jobs = {j} /\ j.awaited /\ j.cp = Export(core)
       /\ \E q \in asked : asked = {q} /\ Recorded(core.scopes, q)

\* Nothing durable is lost, whichever file a crash leaves.
DurableInv ==
  /\ main = {} => stable = {}
  /\ stable = {} => DOMAIN acked = {}
  /\ \A f \in main : Covers(acked, f.cp)
  /\ \A f \in stable : Covers(acked, f.cp)
  /\ \A j \in jobs : Covers(acked, j.cp)
  /\ proc \in {"serving", "saving"} => Covers(acked, Export(core))

StoreInv == StoreType /\ CoreInv(core) /\ SaveInv /\ ProcessInv /\ DurableInv

\* The initial state.
LEMMA StoreInit == Init => StoreInv
<1> SUFFICES ASSUME Init PROVE StoreInv
  OBVIOUS
<1>1. DOMAIN Nothing = {}
  BY DEF Nothing
<1>2. StoreType /\ SaveInv /\ ProcessInv /\ DurableInv
  BY <1>1, StoreAssumption DEF Init, StoreType, Single, SaveInv, ProcessInv, DurableInv, Processes
<1>3. QED
  BY <1>2, FreshCoreInv DEF StoreInv, Init

\* Start-up locks the store and syncs the directory.
LEMMA OpenKeeps == StoreInv /\ Open => StoreInv'
<1> SUFFICES ASSUME StoreInv, Open PROVE StoreInv'
  OBVIOUS
<1>1. StoreType /\ CoreInv(core) /\ SaveInv /\ ProcessInv /\ DurableInv
  BY DEF StoreInv
<1>2. proc = "down" /\ jobs = {}
  BY DEF Open, Locked
<1>3. StoreType' /\ CoreInv(core)'
  BY <1>1 DEF Open, StoreType, Processes
<1>4. SaveInv' /\ ProcessInv'
  BY <1>1, <1>2 DEF Open, SaveInv, ProcessInv
<1>5. DurableInv'
  BY <1>1, <1>2 DEF Open, DurableInv
<1>6. QED
  BY <1>3, <1>4, <1>5 DEF StoreInv

\* Start-up restores the main file and removes a pending one.
LEMMA LoadKeeps == StoreInv /\ Load => StoreInv'
<1> SUFFICES ASSUME StoreInv, Load PROVE StoreInv'
  OBVIOUS
<1>1. StoreType /\ CoreInv(core) /\ SaveInv /\ ProcessInv /\ DurableInv
  BY DEF StoreInv
<1>2. proc = "opening" /\ jobs = {} /\ main = stable /\ asked = {}
  BY <1>1 DEF Load, ProcessInv
<1>3. PICK f \in main : f.intact /\ Restorable(f.cp) /\ core' = Restored(f.cp)
  BY DEF Load
<1>4. main = {f} /\ IsCheckpoint(f.cp) /\ Covers(acked, f.cp)
  BY <1>1 DEF StoreType, Single, SoundFile, DurableInv
<1>5. CoreInv(core') /\ Export(core') = f.cp
  BY <1>3, <1>4, RestoredCore
<1>6. /\ proc' = "serving" /\ pending' = {} /\ stable' = stable /\ main' = main /\ jobs' = jobs
      /\ asked' = asked /\ acked' = acked /\ faults' = faults
  BY <1>2 DEF Load
<1>7. StoreType'
  BY <1>1, <1>6 DEF StoreType, Processes, Single
<1>8. SaveInv' /\ ProcessInv'
  BY <1>2, <1>4, <1>5, <1>6 DEF SaveInv, ProcessInv
<1>9. DurableInv'
  BY <1>1, <1>2, <1>4, <1>5, <1>6 DEF DurableInv
<1>10. QED
  BY <1>5, <1>7, <1>8, <1>9 DEF StoreInv

\* Start-up refuses.
LEMMA LoadFailsKeeps == StoreInv /\ LoadFails => StoreInv'
<1> SUFFICES ASSUME StoreInv, LoadFails PROVE StoreInv'
  OBVIOUS
<1>1. StoreType /\ CoreInv(core) /\ SaveInv /\ ProcessInv /\ DurableInv
  BY DEF StoreInv
<1>2. StoreType' /\ CoreInv(core)'
  BY <1>1 DEF LoadFails, StoreType, Processes
<1>3. SaveInv' /\ ProcessInv' /\ DurableInv'
  BY <1>1 DEF LoadFails, SaveInv, ProcessInv, DurableInv
<1>4. QED
  BY <1>2, <1>3 DEF StoreInv

\* The import of a checkpoint into an empty store.
LEMMA ImportKeeps == ASSUME NEW cp \in Imports PROVE StoreInv /\ Import(cp) => StoreInv'
<1> SUFFICES ASSUME StoreInv, Import(cp) PROVE StoreInv'
  OBVIOUS
<1>1. StoreType /\ CoreInv(core) /\ SaveInv /\ ProcessInv /\ DurableInv
  BY DEF StoreInv
<1>2. /\ proc = "down" /\ jobs = {} /\ main = {} /\ pending = {} /\ stable = {} /\ DOMAIN acked = {}
      /\ core = FreshCore /\ asked = {}
  BY <1>1 DEF Import, Locked, DurableInv, ProcessInv
<1>3. /\ IsJob(NewJob(cp)) /\ NewJob(cp).awaited /\ NewJob(cp).stage = "write" /\ NewJob(cp).cp = cp
  BY StoreAssumption DEF NewJob, IsJob, Import
<1>4. /\ proc' = "importing" /\ jobs' = {NewJob(cp)} /\ stable' = {} /\ main' = {} /\ pending' = {}
      /\ core' = FreshCore /\ asked' = {} /\ acked' = acked /\ faults' = faults
  BY <1>2 DEF Import
<1>5. StoreType'
  BY <1>1, <1>3, <1>4 DEF StoreType, Processes, Single
<1>6. SaveInv' /\ ProcessInv'
  BY <1>3, <1>4 DEF SaveInv, ProcessInv
<1>7. DurableInv'
  BY <1>2, <1>4 DEF DurableInv, Covers
<1>8. QED
  BY <1>4, <1>5, <1>6, <1>7, FreshCoreInv DEF StoreInv

\* What covers the scopes covers what they grow to.
LEMMA CoversGrows ==
  ASSUME NEW told, NEW c, NEW d, Covers(told, Export(c)), Grows(c.scopes, d.scopes),
         \A s \in DOMAIN told : told[s].revision \in Nat, CoreInv(c), CoreInv(d)
  PROVE  Covers(told, Export(d))
<1>1. Export(c).scopes = c.scopes /\ Export(d).scopes = d.scopes
  BY DEF Export
<1>2. /\ \A s \in DOMAIN c.scopes : c.scopes[s].revision \in Nat
      /\ \A s \in DOMAIN d.scopes : d.scopes[s].revision \in Nat
  BY <1>1 DEF CoreInv, CoreType, IsCheckpoint, IsScope
<1>3. CASE c.scopes = d.scopes
  BY <1>1, <1>3 DEF Covers
<1>4. CASE OneChanges(c.scopes, d.scopes)
  BY <1>1, <1>2, <1>4 DEF Covers, OneChanges
<1>5. QED
  BY <1>3, <1>4 DEF Grows

\* A request is applied and handed to the store.
LEMMA RequestKeeps == ASSUME NEW q \in Sent PROVE StoreInv /\ Request(q) => StoreInv'
<1> SUFFICES ASSUME StoreInv, Request(q) PROVE StoreInv'
  OBVIOUS
<1> DEFINE d == Manage(core, q).core
           j == NewJob(Export(d))
<1>1. StoreType /\ CoreInv(core) /\ SaveInv /\ ProcessInv /\ DurableInv
  BY DEF StoreInv
<1>2. q \in Requests /\ Manage(core, q).reply = "ok"
  BY StoreAssumption DEF Request
<1>3. CoreInv(d) /\ Grows(core.scopes, d.scopes) /\ Recorded(d.scopes, q)
  BY <1>1, <1>2, ManageKeeps
<1>4. /\ proc = "serving" /\ jobs = {} /\ main = stable /\ pending = {} /\ main # {}
      /\ Covers(acked, Export(core))
  BY <1>1 DEF Request, ProcessInv, DurableInv
<1>5. /\ proc' = "saving" /\ core' = d /\ asked' = {q} /\ jobs' = {j} /\ main' = main
      /\ stable' = stable /\ pending' = pending /\ acked' = acked /\ faults' = faults
  BY <1>4 DEF Request
<1> HIDE DEF d
<1>6. IsJob(j) /\ j.awaited /\ j.stage = "write" /\ j.cp = Export(d)
  BY <1>3 DEF NewJob, IsJob, CoreInv, CoreType
<1> HIDE DEF j
<1>7. Covers(acked, Export(d))
  <2>1. \A s \in DOMAIN acked : acked[s].revision \in Nat
    BY <1>1 DEF StoreType
  <2>2. QED
    BY <1>1, <1>3, <1>4, <2>1, CoversGrows
<1>8. StoreType'
  BY <1>1, <1>2, <1>5, <1>6 DEF StoreType, Processes, Single
<1>9. SaveInv' /\ ProcessInv'
  BY <1>3, <1>4, <1>5, <1>6 DEF SaveInv, ProcessInv
<1>10. DurableInv'
  BY <1>1, <1>5, <1>6, <1>7 DEF DurableInv
<1>11. QED
  BY <1>3, <1>5, <1>8, <1>9, <1>10 DEF StoreInv

\* A client comes or goes: the scopes stay.
LEMMA ClientKeeps == ASSUME NEW c \in Clients PROVE StoreInv /\ (Connect(c) \/ Disconnect(c)) => StoreInv'
<1> SUFFICES ASSUME StoreInv, Connect(c) \/ Disconnect(c) PROVE StoreInv'
  OBVIOUS
<1>1. StoreType /\ CoreInv(core) /\ SaveInv /\ ProcessInv /\ DurableInv
  BY DEF StoreInv
<1>2. /\ proc = "serving" /\ proc' = proc /\ asked' = asked /\ jobs' = jobs /\ main' = main
      /\ stable' = stable /\ pending' = pending /\ acked' = acked /\ faults' = faults
  BY DEF Connect, Disconnect
<1>3. CoreInv(core') /\ Export(core') = Export(core)
  <2>1. CASE Connect(c)
    BY <1>1, <2>1, AuthenticateKeeps DEF Connect
  <2>2. CASE Disconnect(c)
    BY <1>1, <2>2, LoseKeeps DEF Disconnect
  <2>3. QED
    BY <2>1, <2>2
<1>4. StoreType'
  BY <1>1, <1>2 DEF StoreType
<1>5. SaveInv' /\ ProcessInv' /\ DurableInv'
  BY <1>1, <1>2, <1>3 DEF SaveInv, ProcessInv, DurableInv
<1>6. QED
  BY <1>3, <1>4, <1>5 DEF StoreInv

\* The steps of a save up to the rename.
LEMMA AdvanceKeeps ==
  ASSUME NEW j \in jobs
  PROVE  StoreInv /\ (WritePending(j) \/ SyncPending(j) \/ Rename(j)) => StoreInv'
<1> SUFFICES ASSUME StoreInv, WritePending(j) \/ SyncPending(j) \/ Rename(j) PROVE StoreInv'
  OBVIOUS
<1>1. StoreType /\ CoreInv(core) /\ SaveInv /\ ProcessInv /\ DurableInv
  BY DEF StoreInv
<1>2. jobs = {j} /\ IsJob(j)
  BY <1>1 DEF StoreType, Single
<1>3. /\ proc' = proc /\ core' = core /\ asked' = asked /\ stable' = stable /\ acked' = acked
      /\ faults' = faults
  BY DEF WritePending, SyncPending, Rename
<1>4. PICK k : jobs' = {k} /\ IsJob(k) /\ k.cp = j.cp /\ k.awaited = j.awaited
               /\ \/ WritePending(j) /\ k.stage = "sync"
                  \/ SyncPending(j) /\ k.stage = "rename"
                  \/ Rename(j) /\ k.stage = "sync_directory"
  <2>1. CASE WritePending(j)
    <3>1. jobs' = {[j EXCEPT !.stage = "sync"]}
      BY <1>2, <2>1 DEF WritePending, Advance
    <3> DEFINE k == [j EXCEPT !.stage = "sync"]
    <3>2. IsJob(k) /\ k.cp = j.cp /\ k.awaited = j.awaited /\ k.stage = "sync"
      BY <1>2 DEF IsJob
    <3> HIDE DEF k
    <3>3. QED
      BY <2>1, <3>1, <3>2 DEF k
  <2>2. CASE SyncPending(j)
    <3>1. jobs' = {[j EXCEPT !.stage = "rename"]}
      BY <1>2, <2>2 DEF SyncPending, Advance
    <3> DEFINE k == [j EXCEPT !.stage = "rename"]
    <3>2. IsJob(k) /\ k.cp = j.cp /\ k.awaited = j.awaited /\ k.stage = "rename"
      BY <1>2 DEF IsJob
    <3> HIDE DEF k
    <3>3. QED
      BY <2>2, <3>1, <3>2 DEF k
  <2>3. CASE Rename(j)
    <3>1. jobs' = {[j EXCEPT !.stage = "sync_directory"]}
      BY <1>2, <2>3 DEF Rename, Advance
    <3> DEFINE k == [j EXCEPT !.stage = "sync_directory"]
    <3>2. IsJob(k) /\ k.cp = j.cp /\ k.awaited = j.awaited /\ k.stage = "sync_directory"
      BY <1>2 DEF IsJob
    <3> HIDE DEF k
    <3>3. QED
      BY <2>3, <3>1, <3>2 DEF k
  <2>4. QED
    BY <2>1, <2>2, <2>3
<1>5. proc \in {"down", "importing", "saving"}
  BY <1>1, <1>2 DEF StoreType, ProcessInv, Processes
<1>6. ProcessInv'
  <2>1. main # {} => main' # {}
    BY DEF WritePending, SyncPending, Rename
  <2>2. QED
    BY <1>1, <1>2, <1>3, <1>4, <1>5, <2>1 DEF ProcessInv
<1>7. CASE WritePending(j)
  <2>1. /\ j.stage = "write" /\ main' = main /\ pending' = {File(j.cp)} /\ k.stage = "sync"
        /\ main = stable
    BY <1>1, <1>4, <1>7 DEF WritePending, SyncPending, Rename, SaveInv
  <2>2. File(j.cp) \in [cp : {File(j.cp).cp}, synced : BOOLEAN, intact : {TRUE}] /\ File(j.cp).cp = j.cp
    BY DEF File
  <2>3. StoreType'
    BY <1>1, <1>3, <1>4, <2>1, <2>2 DEF StoreType, Single
  <2>4. SaveInv'
    BY <1>3, <1>4, <2>1, <2>2 DEF SaveInv
  <2>5. DurableInv'
    BY <1>1, <1>2, <1>3, <1>4, <2>1 DEF DurableInv
  <2>6. QED
    BY <1>1, <1>3, <1>6, <2>3, <2>4, <2>5 DEF StoreInv
<1>8. CASE SyncPending(j)
  <2>1. PICK f \in pending : pending = {f} /\ f.cp = j.cp /\ main = stable
    BY <1>1, <1>8 DEF SyncPending, SaveInv
  <2> DEFINE g == [f EXCEPT !.synced = TRUE]
  <2>2. main' = main /\ pending' = {g} /\ k.stage = "rename"
    BY <1>4, <1>8, <2>1 DEF WritePending, SyncPending, Rename
  <2>3. g \in [cp : {g.cp}, synced : BOOLEAN, intact : {TRUE}] /\ g.cp = j.cp /\ g.synced
    BY <1>1, <2>1 DEF StoreType
  <2> HIDE DEF g
  <2>4. StoreType'
    BY <1>1, <1>3, <1>4, <2>2, <2>3 DEF StoreType, Single
  <2>5. SaveInv'
    BY <1>3, <1>4, <2>1, <2>2, <2>3 DEF SaveInv
  <2>6. DurableInv'
    BY <1>1, <1>2, <1>3, <1>4, <2>2 DEF DurableInv
  <2>7. QED
    BY <1>1, <1>3, <1>6, <2>4, <2>5, <2>6 DEF StoreInv
<1>9. CASE Rename(j)
  <2>1. PICK f \in pending : pending = {f} /\ f.cp = j.cp /\ main = stable /\ f.synced
    BY <1>1, <1>9 DEF Rename, SaveInv
  <2>2. main' = {f} /\ pending' = {} /\ k.stage = "sync_directory"
    BY <1>4, <1>9, <2>1 DEF WritePending, SyncPending, Rename
  <2>3. SoundFile(f)
    BY <1>1, <1>2, <2>1 DEF StoreType, SoundFile, IsJob
  <2>4. StoreType'
    BY <1>1, <1>3, <1>4, <2>2, <2>3 DEF StoreType, Single
  <2>5. SaveInv'
    BY <1>3, <1>4, <2>1, <2>2 DEF SaveInv
  <2>6. DurableInv'
    BY <1>1, <1>2, <1>3, <1>4, <2>1, <2>2 DEF DurableInv
  <2>7. QED
    BY <1>1, <1>3, <1>6, <2>4, <2>5, <2>6 DEF StoreInv
<1>10. QED
  BY <1>7, <1>8, <1>9

\* The operator learns only of what the save has made durable.
LEMMA NoteCovered ==
  ASSUME StoreType, NEW q \in Requests, NEW cp, Covers(acked, cp), Recorded(cp.scopes, q)
  PROVE  /\ Covers(Note(q), cp) /\ DOMAIN Note(q) \subseteq Sessions
         /\ \A s \in DOMAIN Note(q) : Note(q)[s] \in [revision : Nat, retired : BOOLEAN]
<1> DEFINE known == q.session \in DOMAIN acked /\ acked[q.session].retired
           told  == [revision |-> q.revision, retired |-> known \/ q.op = "delete"]
<1>1. q.session \in Sessions /\ q.revision \in Nat
  BY RequestFields
<1>2. Note(q) = Assign(acked, q.session, told)
  BY DEF Note
<1>3. /\ told \in [revision : Nat, retired : BOOLEAN] /\ told.revision = q.revision
      /\ told.retired => known \/ q.op = "delete"
  BY <1>1
<1>4. /\ q.session \in DOMAIN cp.scopes /\ cp.scopes[q.session].revision >= told.revision
      /\ told.retired => cp.scopes[q.session].retired
  BY <1>1, <1>3 DEF Recorded, Covers
<1> HIDE DEF told
<1>5. /\ DOMAIN Note(q) = DOMAIN acked \cup {q.session}
      /\ \A s \in DOMAIN Note(q) : Note(q)[s] = IF s = q.session THEN told ELSE acked[s]
  BY <1>2 DEF Assign
<1>6. QED
  BY <1>1, <1>3, <1>4, <1>5 DEF StoreType, Covers

\* The save is over, and the request answered.
LEMMA FinishKeeps == ASSUME NEW j \in jobs PROVE StoreInv /\ Finish(j) => StoreInv'
<1> SUFFICES ASSUME StoreInv, Finish(j) PROVE StoreInv'
  OBVIOUS
<1>1. StoreType /\ CoreInv(core) /\ SaveInv /\ ProcessInv /\ DurableInv
  BY DEF StoreInv
<1>2. jobs = {j} /\ IsJob(j)
  BY <1>1 DEF StoreType, Single
<1>3. /\ jobs' = {} /\ stable' = main /\ main' = main /\ core' = core /\ pending' = pending
      /\ faults' = faults
  BY <1>2 DEF Finish
<1>4. PICK f \in main : main = {f} /\ f.cp = j.cp
  BY <1>1 DEF Finish, SaveInv
<1>5. CASE proc = "saving"
  <2>1. j.awaited /\ j.cp = Export(core)
    BY <1>1, <1>2, <1>5 DEF ProcessInv
  <2>2. PICK q \in asked : asked = {q} /\ Recorded(core.scopes, q) /\ q \in Requests
    BY <1>1, <1>5 DEF ProcessInv, StoreType
  <2>3. proc' = "serving" /\ asked' = {} /\ acked' \in {acked, Note(q)}
    BY <1>5, <2>1, <2>2 DEF Finish
  <2>4. Covers(acked, j.cp) /\ Recorded(j.cp.scopes, q)
    BY <1>1, <2>1, <2>2 DEF DurableInv, Export
  <2>5. /\ Covers(acked', j.cp) /\ DOMAIN acked' \subseteq Sessions
        /\ \A s \in DOMAIN acked' : acked'[s] \in [revision : Nat, retired : BOOLEAN]
    BY <1>1, <2>2, <2>3, <2>4, NoteCovered DEF StoreType
  <2>6. pending' = {}
    BY <1>1, <1>3 DEF Finish, SaveInv
  <2>7. StoreType'
    BY <1>1, <1>3, <2>3, <2>5 DEF StoreType, Single, Processes
  <2>8. SaveInv' /\ ProcessInv'
    BY <1>3, <1>4, <2>1, <2>3, <2>6 DEF SaveInv, ProcessInv
  <2>9. DurableInv'
    BY <1>3, <1>4, <2>1, <2>3, <2>5 DEF DurableInv
  <2>10. QED
    BY <1>1, <1>3, <2>7, <2>8, <2>9 DEF StoreInv
<1>6. CASE proc # "saving"
  <2>1. /\ proc \in {"down", "importing"} /\ asked = {} /\ core = FreshCore
        /\ j.awaited <=> proc = "importing"
    BY <1>1, <1>2, <1>6 DEF ProcessInv, StoreType, Processes, IsJob
  <2>2. proc' = "down" /\ asked' = {} /\ acked' = acked
    BY <1>6, <2>1 DEF Finish
  <2>3. StoreType'
    BY <1>1, <1>3, <2>2 DEF StoreType, Single, Processes
  <2>4. SaveInv' /\ ProcessInv'
    BY <1>3, <2>1, <2>2 DEF SaveInv, ProcessInv
  <2>5. DurableInv'
    BY <1>1, <1>2, <1>3, <1>4, <2>2 DEF DurableInv
  <2>6. QED
    BY <1>1, <1>3, <2>3, <2>4, <2>5 DEF StoreInv
<1>7. QED
  BY <1>5, <1>6

\* A process that has ended knows nothing; the files keep what they have.
LEMMA HaltKeeps ==
  ASSUME StoreInv, Halt, Fault, UNCHANGED <<main, stable, pending, acked>>, jobs' = {}
  PROVE  StoreInv'
<1>1. StoreType /\ DurableInv
  BY DEF StoreInv
<1>2. proc' = "down" /\ asked' = {} /\ core' = FreshCore /\ faults' \in 0..MaxFaults
  BY <1>1, StoreAssumption DEF Halt, Fault, StoreType
<1>3. StoreType'
  BY <1>1, <1>2 DEF StoreType, Single, Processes
<1>4. SaveInv' /\ ProcessInv'
  BY <1>2 DEF SaveInv, ProcessInv
<1>5. DurableInv'
  BY <1>1, <1>2 DEF DurableInv
<1>6. QED
  BY <1>2, <1>3, <1>4, <1>5, FreshCoreInv DEF StoreInv

\* A failed save ends the worker that waits for it.
LEMMA SaveFailsKeeps == ASSUME NEW j \in jobs PROVE StoreInv /\ SaveFails(j) => StoreInv'
<1> SUFFICES ASSUME StoreInv, SaveFails(j) PROVE StoreInv'
  OBVIOUS
<1>1. StoreType /\ CoreInv(core) /\ SaveInv /\ ProcessInv /\ DurableInv
  BY DEF StoreInv
<1>2. jobs = {j} /\ IsJob(j)
  BY <1>1 DEF StoreType, Single
<1>3. jobs' = {}
  BY <1>2 DEF SaveFails
<1>4. CASE j.awaited
  BY <1>3, <1>4, HaltKeeps DEF SaveFails
<1>5. CASE ~j.awaited
  <2>1. proc = "down"
    BY <1>1, <1>2, <1>5 DEF ProcessInv, StoreType, Processes
  <2>2. Halt
    BY <1>1, <1>5, <2>1 DEF SaveFails, ProcessInv, Halt
  <2>3. QED
    BY <1>3, <2>2, HaltKeeps DEF SaveFails
<1>6. QED
  BY <1>4, <1>5

\* The worker stops and its save goes on.
LEMMA WorkerStopsKeeps == StoreInv /\ WorkerStops => StoreInv'
<1> SUFFICES ASSUME StoreInv, WorkerStops PROVE StoreInv'
  OBVIOUS
<1>1. StoreType /\ CoreInv(core) /\ SaveInv /\ ProcessInv /\ DurableInv
  BY DEF StoreInv
<1>2. CASE jobs = {}
  <2>1. jobs' = {}
    BY <1>2 DEF WorkerStops
  <2>2. QED
    BY <2>1, HaltKeeps DEF WorkerStops
<1>3. CASE jobs # {}
  <2>1. PICK j \in jobs : jobs = {j} /\ IsJob(j) /\ main # {}
    BY <1>1, <1>3 DEF WorkerStops, ProcessInv, StoreType
  <2> DEFINE k == [j EXCEPT !.awaited = FALSE]
  <2>2. IsJob(k) /\ k.cp = j.cp /\ k.stage = j.stage /\ ~k.awaited
    BY <2>1 DEF IsJob
  <2>3. jobs' = {k}
    BY <2>1 DEF WorkerStops
  <2> HIDE DEF k
  <2>4. /\ proc' = "down" /\ asked' = {} /\ core' = FreshCore /\ faults' \in 0..MaxFaults
        /\ main' = main /\ stable' = stable /\ pending' = pending /\ acked' = acked
    BY <1>1, StoreAssumption DEF WorkerStops, Halt, Fault, StoreType
  <2>5. StoreType'
    BY <1>1, <2>2, <2>3, <2>4 DEF StoreType, Single, Processes
  <2>6. SaveInv'
    BY <1>1, <2>1, <2>2, <2>3, <2>4 DEF SaveInv
  <2>7. ProcessInv'
    BY <2>2, <2>3, <2>4 DEF ProcessInv
  <2>8. DurableInv'
    BY <1>1, <2>1, <2>2, <2>3, <2>4 DEF DurableInv
  <2>9. QED
    BY <2>4, <2>5, <2>6, <2>7, <2>8, FreshCoreInv DEF StoreInv
<1>4. QED
  BY <1>2, <1>3

\* A power loss leaves main or what the synced directory said it was.
LEMMA PowerLossLeaves ==
  ASSUME StoreInv, PowerLoss
  PROVE  main' = stable' /\ (main' = main \/ main' = stable)
<1>1. StoreType
  BY DEF StoreInv
<1>2. PICK m \in {main, stable} :
        \/ m = {} /\ main' = {} /\ stable' = {}
        \/ \E f \in m : \E g \in Survivors(f) : main' = {g} /\ stable' = {g}
  BY DEF PowerLoss
<1>3. CASE m = {} /\ main' = {} /\ stable' = {}
  BY <1>2, <1>3
<1>4. ASSUME NEW f \in m, NEW g \in Survivors(f), main' = {g}, stable' = {g}
      PROVE  main' = stable' /\ main' = m
  <2>1. f.synced /\ m = {f}
    BY <1>1, <1>2, <1>4 DEF StoreType, Single, SoundFile
  <2>2. g = f
    BY <2>1 DEF Survivors
  <2>3. QED
    BY <1>4, <2>1, <2>2
<1>5. QED
  BY <1>2, <1>3, <1>4

\* A power loss leaves the directory as it was or as it was last synced, and a file
\* that was not synced may be torn: what every acknowledgement rests on is neither.
LEMMA PowerLossKeeps == StoreInv /\ PowerLoss => StoreInv'
<1> SUFFICES ASSUME StoreInv, PowerLoss PROVE StoreInv'
  OBVIOUS
<1>1. StoreType /\ DurableInv
  BY DEF StoreInv
<1>2. main' = stable' /\ (main' = main \/ main' = stable)
  BY PowerLossLeaves
<1>3. /\ proc' = "down" /\ asked' = {} /\ core' = FreshCore /\ faults' \in 0..MaxFaults
      /\ jobs' = {} /\ acked' = acked
  BY <1>1, StoreAssumption DEF PowerLoss, Halt, Fault, StoreType
<1>4. pending' \in {{}, pending, main}
  BY DEF PowerLoss
<1>5. Single(pending') /\ \A f \in pending' : f \in [cp : {f.cp}, synced : BOOLEAN, intact : {TRUE}]
  BY <1>1, <1>4 DEF StoreType, SoundFile, Single
<1>6. StoreType'
  BY <1>1, <1>2, <1>3, <1>5 DEF StoreType, Single, Processes
<1>7. SaveInv' /\ ProcessInv'
  BY <1>3 DEF SaveInv, ProcessInv
<1>8. DurableInv'
  BY <1>1, <1>2, <1>3 DEF DurableInv
<1>9. QED
  BY <1>3, <1>6, <1>7, <1>8, FreshCoreInv DEF StoreInv

\* StoreInv is inductive.
LEMMA StoreStep == StoreInv /\ [Next]_vars => StoreInv'
<1> SUFFICES ASSUME StoreInv, [Next]_vars PROVE StoreInv'
  OBVIOUS
<1>1. CASE Open
  BY <1>1, OpenKeeps
<1>2. CASE Load
  BY <1>2, LoadKeeps
<1>3. CASE LoadFails
  BY <1>3, LoadFailsKeeps
<1>4. CASE \E cp \in Imports : Import(cp)
  BY <1>4, ImportKeeps
<1>5. CASE \E q \in Sent : Request(q)
  BY <1>5, RequestKeeps
<1>6. CASE \E c \in Clients : Connect(c) \/ Disconnect(c)
  BY <1>6, ClientKeeps
<1>7. CASE \E j \in jobs : JobStep(j) \/ SaveFails(j)
  BY <1>7, AdvanceKeeps, FinishKeeps, SaveFailsKeeps DEF JobStep
<1>8. CASE WorkerStops
  BY <1>8, WorkerStopsKeeps
<1>9. CASE Kill
  BY <1>9, HaltKeeps DEF Kill
<1>10. CASE PowerLoss
  BY <1>10, PowerLossKeeps
<1>11. CASE UNCHANGED vars
  BY <1>11 DEF vars, StoreInv, StoreType, SaveInv, ProcessInv, DurableInv
<1>12. QED
  BY <1>1, <1>2, <1>3, <1>4, <1>5, <1>6, <1>7, <1>8, <1>9, <1>10, <1>11 DEF Next

\* The store's inductive invariant, for every run.
THEOREM StoreInvariant == Spec => []StoreInv
<1>1. QED
  BY StoreInit, StoreStep, PTL DEF Spec

\* A set with at most one member, by its cardinality.
LEMMA SingleCardinality == ASSUME NEW S, Single(S) PROVE Cardinality(S) <= 1
<1>1. CASE S = {}
  BY <1>1, FS_EmptySet
<1>2. ASSUME NEW x, S = {x} PROVE Cardinality(S) <= 1
  BY <1>2, FS_Singleton
<1>3. QED
  BY <1>1, <1>2 DEF Single

\* Whatever fails and whenever: a serving node shows only what is durable, a
\* save finds its place free and its own file, and every file a crash can leave
\* is one that start-up accepts (Store::replace, Store::load).
THEOREM StoreIsSound == Spec => []StoreSound
<1>1. StoreInv => StoreSound
  <2> SUFFICES ASSUME StoreInv PROVE StoreSound
    OBVIOUS
  <2>1. StoreType /\ CoreInv(core) /\ SaveInv /\ ProcessInv
    BY DEF StoreInv
  <2>2. \A j \in jobs : j.stage \in {Stages[i] : i \in 1..4} /\ j.awaited \in BOOLEAN
    <3>1. {"write", "sync", "rename", "sync_directory"} \subseteq {Stages[i] : i \in 1..4}
      <4>1. /\ Stages[1] = "write" /\ Stages[2] = "sync" /\ Stages[3] = "rename"
            /\ Stages[4] = "sync_directory"
        BY DEF Stages
      <4>2. QED
        BY <4>1
    <3>2. QED
      BY <2>1, <3>1 DEF StoreType, IsJob
  <2>3. /\ core.closed \in Nat /\ DOMAIN core.scopes \subseteq Sessions
        /\ DOMAIN core.live \subseteq Sessions /\ DOMAIN core.bound \subseteq Clients
        /\ DOMAIN core.grants = DOMAIN core.bound
    BY <2>1 DEF CoreInv, CoreType, IsCheckpoint, Export, LiveMatches, LiveScopes, PerClient
  <2>4. /\ Cardinality(asked) <= 1 /\ Cardinality(main) <= 1 /\ Cardinality(stable) <= 1
        /\ Cardinality(pending) <= 1
    BY <2>1, SingleCardinality DEF StoreType
  <2>5. \A f \in main \cup stable \cup pending : f.synced \in BOOLEAN /\ f.intact \in BOOLEAN
    BY <2>1 DEF StoreType, SoundFile
  <2>6. TypeOK
    BY <2>1, <2>2, <2>3, <2>4, <2>5 DEF TypeOK, StoreType
  <2>7. ServedIsDurable
    BY <2>1 DEF ServedIsDurable, ProcessInv, Leftovers
  <2>8. SaveUnobstructed
    BY <2>1 DEF SaveUnobstructed, SaveInv, StoreType, IsJob
  <2>9. AlwaysRestorable
    BY <2>1 DEF AlwaysRestorable, StoreType, SoundFile
  <2>10. QED
    BY <2>6, <2>7, <2>8, <2>9 DEF StoreSound
<1>2. QED
  BY <1>1, StoreInvariant, PTL

\* What an operator was told succeeded is in every checkpoint a crash can leave
\* (the save before the reply in the worker).
THEOREM AcknowledgedIsDurable == Spec => []AckedSurvives
<1>1. StoreInv => AckedSurvives
  BY DEF StoreInv, DurableInv, Covers, AckedSurvives, Leftovers
<1>2. QED
  BY <1>1, StoreInvariant, PTL

\* The sessions, targets, ceilings, spaces and grants of the running core are
\* those its scopes say, after every request and every restart (managed.rs,
\* restore_managed_checkpoint).
THEOREM LiveFollowsScopes == Spec => []LiveMatchesScopes
<1>1. StoreInv => LiveMatchesScopes
  BY DEF StoreInv, CoreInv, LiveMatches, LiveMatchesScopes
<1>2. QED
  BY <1>1, StoreInvariant, PTL

\* A request that succeeds can be sent again, to the node that answered it and
\* to one restored from its checkpoint (the comparisons with last_mutation).
THEOREM RetriesSucceed == Spec => []RetrySucceeds
<1>1. StoreInv => RetrySucceeds
  <2> SUFFICES ASSUME StoreInv, NEW q \in Sent, Manage(core, q).reply = "ok"
               PROVE  LET once == Manage(core, q)
                          back == Restored(Export(once.core))
                      IN  /\ Manage(once.core, q) = once
                          /\ Manage(back, q) = Answer("ok", back)
    BY DEF RetrySucceeds
  <2> DEFINE d    == Manage(core, q).core
             back == Restored(Export(d))
  <2>1. CoreInv(core) /\ q \in Requests
    BY StoreAssumption DEF StoreInv
  <2>2. /\ CoreInv(d) /\ Manage(core, q) = Answer("ok", d)
        /\ \A x : CoreInv(x) /\ x.scopes = d.scopes => Manage(x, q) = Answer("ok", x)
    BY <2>1, ManageKeeps
  <2> HIDE DEF d
  <2>3. CoreInv(back) /\ back.scopes = d.scopes
    <3>1. IsCheckpoint(Export(d)) /\ Restorable(Export(d)) /\ Export(d).scopes = d.scopes
      BY <2>2 DEF CoreInv, CoreType, Export
    <3>2. QED
      BY <3>1, RestoredCore
  <2>4. Manage(d, q) = Manage(core, q)
    BY <2>2
  <2> HIDE DEF back
  <2>5. Manage(back, q) = Answer("ok", back)
    BY <2>2, <2>3
  <2>6. QED
    BY <2>4, <2>5 DEF d, back
<1>2. QED
  BY <1>1, StoreInvariant, PTL

-----------------------------------------------------------------------------
\* The refinement of ManagedContract: what is committed is the registry of the
\* stable file, what is proposed that of the save and of an unsynced rename.

Committed == Registry(stable)
Proposed  == Registry(jobs) \cup (IF main = stable THEN {} ELSE Registry(main))
Shown     == IF proc = "serving" THEN {core.scopes} ELSE {}

\* The proposal of a save is one registry, before and after its rename.
LEMMA ProposedBySave ==
  ASSUME StoreInv, NEW j \in jobs
  PROVE  /\ Proposed = {j.cp.scopes} /\ jobs = {j}
         /\ main # stable => Registry(main) = {j.cp.scopes}
<1>1. jobs = {j} /\ IsJob(j)
  BY DEF StoreInv, StoreType, Single
<1>2. CASE main = stable
  BY <1>1, <1>2 DEF Proposed, Registry
<1>3. CASE main # stable
  <2>1. j.stage = "sync_directory"
    BY <1>1, <1>3 DEF StoreInv, SaveInv, IsJob
  <2>2. PICK f \in main : main = {f} /\ f.cp = j.cp
    BY <2>1 DEF StoreInv, SaveInv
  <2>3. QED
    BY <1>1, <1>3, <2>2 DEF Proposed, Registry
<1>4. QED
  BY <1>2, <1>3

\* Every step of the node is a step of the contract or leaves it as it is.
LEMMA ContractStep ==
  StoreInv /\ StoreInv' /\ [Next]_vars =>
    \/ Contract!Next
    \/ UNCHANGED <<Committed, Proposed, Shown>>
<1> SUFFICES ASSUME StoreInv, StoreInv', [Next]_vars
             PROVE  Contract!Next \/ UNCHANGED <<Committed, Proposed, Shown>>
  OBVIOUS
<1> USE DEF Committed, Proposed, Shown
<1>0. StoreType /\ CoreInv(core) /\ SaveInv /\ ProcessInv /\ DurableInv
  BY DEF StoreInv
<1>1. CASE Open
  <2>1. proc = "down" /\ proc' = "opening" /\ jobs = {} /\ jobs' = {} /\ stable' = main /\ main' = main
    BY <1>1 DEF Open, Locked
  <2>2. CASE main = stable
    BY <2>1, <2>2 DEF Registry
  <2>3. CASE main # stable
    <3>1. main # {}
      BY <1>0, <2>3 DEF DurableInv
    <3>2. Proposed = Registry(main) /\ Registry(main) # {} /\ Proposed' = {}
      BY <2>1, <2>3, <3>1 DEF Registry
    <3>3. Contract!Commit
      BY <2>1, <3>2 DEF Contract!Commit
    <3>4. QED
      BY <3>3 DEF Contract!Next
  <2>4. QED
    BY <2>2, <2>3
<1>2. CASE Load
  <2>1. /\ proc = "opening" /\ proc' = "serving" /\ jobs = {} /\ jobs' = {} /\ main = stable
        /\ main' = main /\ stable' = main /\ main # {}
    BY <1>0, <1>2 DEF Load, ProcessInv
  <2>2. PICK f \in main' : main' = {f} /\ f.cp = Export(core')
    BY <2>1 DEF StoreInv, ProcessInv
  <2>3. Registry(stable) = {core'.scopes} /\ Registry(jobs) = {} /\ Registry(jobs') = {}
    BY <2>1, <2>2 DEF Registry, Export
  <2>4. Contract!Show
    BY <2>1, <2>3 DEF Contract!Show
  <2>5. QED
    BY <2>4 DEF Contract!Next
<1>3. CASE LoadFails
  BY <1>3 DEF LoadFails
<1>4. ASSUME NEW cp \in Imports, Import(cp) PROVE Contract!Next
  <2>1. /\ proc = "down" /\ proc' = "importing" /\ jobs = {} /\ jobs' = {NewJob(cp)} /\ main = {}
        /\ main' = {} /\ stable = {} /\ stable' = {}
    BY <1>0, <1>4 DEF Import, Locked, DurableInv
  <2>2. Proposed = {} /\ Committed = {} /\ Proposed' = {cp.scopes} /\ Committed' = {}
    BY <2>1 DEF Registry, NewJob
  <2>3. Contract!Import
    BY <2>1, <2>2 DEF Contract!Import
  <2>4. QED
    BY <2>3 DEF Contract!Next
<1>5. ASSUME NEW q \in Sent, Request(q) PROVE Contract!Next
  <2> DEFINE d == Manage(core, q).core
  <2>1. /\ proc = "serving" /\ proc' = "saving" /\ jobs = {} /\ jobs' = {NewJob(Export(d))}
        /\ main = stable /\ main' = main /\ stable' = stable
    BY <1>0, <1>5 DEF Request, ProcessInv
  <2>2. Grows(core.scopes, d.scopes)
    <3>1. q \in Requests /\ Manage(core, q).reply = "ok"
      BY <1>5, StoreAssumption DEF Request
    <3>2. QED
      BY <1>0, <3>1, ManageKeeps
  <2> HIDE DEF d
  <2>3. PICK f \in main : main = {f} /\ f.cp = Export(core)
    BY <1>0, <2>1 DEF ProcessInv
  <2>4. Committed = {core.scopes} /\ Proposed = {} /\ Proposed' = {d.scopes} /\ Committed' = Committed
    BY <2>1, <2>3 DEF Registry, NewJob, Export
  <2>5. Contract!Propose
    BY <2>1, <2>2, <2>4 DEF Contract!Propose, Contract!OneScopeChanges, Grows, OneChanges
  <2>6. QED
    BY <2>5 DEF Contract!Next
<1>6. ASSUME NEW c \in Clients, Connect(c) \/ Disconnect(c)
      PROVE  UNCHANGED <<Committed, Proposed, Shown>>
  <2>1. /\ proc = "serving" /\ proc' = proc /\ jobs' = jobs /\ main' = main /\ stable' = stable
    BY <1>6 DEF Connect, Disconnect
  <2>2. Export(core') = Export(core)
    <3>1. CASE Connect(c)
      BY <1>0, <3>1, AuthenticateKeeps DEF Connect
    <3>2. CASE Disconnect(c)
      BY <1>0, <3>2, LoseKeeps DEF Disconnect
    <3>3. QED
      BY <1>6, <3>1, <3>2
  <2>3. core'.scopes = core.scopes
    BY <2>2 DEF Export
  <2>4. QED
    BY <2>1, <2>3
<1>7. ASSUME NEW j \in jobs, JobStep(j) \/ SaveFails(j)
      PROVE  Contract!Next \/ UNCHANGED <<Committed, Proposed, Shown>>
  <2>1. /\ Proposed = {j.cp.scopes} /\ jobs = {j} /\ IsJob(j)
        /\ main # stable => Registry(main) = {j.cp.scopes}
    BY <1>0, ProposedBySave DEF StoreType
  <2>2. proc # "serving" /\ Shown = {}
    BY <1>0, <2>1 DEF ProcessInv
  <2>3. CASE WritePending(j) \/ SyncPending(j) \/ Rename(j)
    <3>1. proc' = proc /\ stable' = stable /\ core' = core
      BY <2>3 DEF WritePending, SyncPending, Rename
    <3>2. Registry(jobs') = {j.cp.scopes}
      <4>1. PICK stage : jobs' = {[j EXCEPT !.stage = stage]}
        BY <2>1, <2>3 DEF WritePending, SyncPending, Rename, Advance
      <4>2. [j EXCEPT !.stage = stage].cp = j.cp
        BY <2>1 DEF IsJob
      <4>3. QED
        BY <4>1, <4>2 DEF Registry
    <3>3. main' = main \/ Registry(main') = {j.cp.scopes}
      <4>1. CASE Rename(j)
        <5>1. PICK f \in pending : pending = {f} /\ f.cp = j.cp
          BY <1>0, <4>1 DEF Rename, SaveInv
        <5>2. QED
          BY <4>1, <5>1 DEF Rename, Registry
      <4>2. QED
        BY <2>3, <4>1 DEF WritePending, SyncPending
    <3>4. Proposed' = Proposed
      BY <2>1, <3>1, <3>2, <3>3
    <3>5. QED
      BY <2>2, <3>1, <3>4
  <2>4. CASE Finish(j)
    <3>1. stable' = main /\ main' = main /\ core' = core /\ jobs' = {}
      BY <2>1, <2>4 DEF Finish
    <3>2. PICK f \in main : main = {f} /\ f.cp = j.cp
      BY <1>0, <2>4 DEF Finish, SaveInv
    <3>3. Committed' = Proposed /\ Proposed' = {} /\ Proposed # {}
      BY <2>1, <3>1, <3>2 DEF Registry
    <3>4. Shown' \in {{}, Proposed}
      <4>1. CASE proc = "saving"
        <5>1. j.cp = Export(core)
          BY <1>0, <2>1, <4>1 DEF ProcessInv
        <5>2. QED
          BY <2>1, <3>1, <5>1 DEF Export
      <4>2. CASE proc # "saving"
        BY <2>2, <2>4, <4>2 DEF Finish
      <4>3. QED
        BY <4>1, <4>2
    <3>5. Contract!Commit
      BY <3>3, <3>4 DEF Contract!Commit
    <3>6. QED
      BY <3>5 DEF Contract!Next
  <2>5. CASE SaveFails(j)
    <3>1. jobs' = {} /\ main' = main /\ stable' = stable
      BY <2>1, <2>5 DEF SaveFails
    <3>2. proc' # "serving"
      BY <2>2, <2>5 DEF SaveFails, Halt
    <3>3. Proposed' \in {{}, Proposed}
      BY <2>1, <3>1 DEF Registry
    <3>4. Contract!Drop
      BY <3>1, <3>2, <3>3 DEF Contract!Drop
    <3>5. QED
      BY <3>4 DEF Contract!Next
  <2>6. QED
    BY <1>7, <2>3, <2>4, <2>5 DEF JobStep
<1>8. CASE WorkerStops
  <2>1. proc' = "down" /\ main' = main /\ stable' = stable
    BY <1>8 DEF WorkerStops, Halt
  <2>2. Registry(jobs') = Registry(jobs)
    <3>1. CASE jobs = {}
      BY <1>8, <3>1 DEF WorkerStops, Registry
    <3>2. CASE jobs # {}
      <4>1. PICK j \in jobs : jobs = {j} /\ IsJob(j)
        BY <1>0, <3>2 DEF StoreType, Single
      <4>2. jobs' = {[j EXCEPT !.awaited = FALSE]}
        BY <1>8, <4>1 DEF WorkerStops
      <4>3. [j EXCEPT !.awaited = FALSE].cp = j.cp
        BY <4>1 DEF IsJob
      <4>4. QED
        BY <4>1, <4>2, <4>3 DEF Registry
    <3>3. QED
      BY <3>1, <3>2
  <2>3. Contract!Drop
    BY <2>1, <2>2 DEF Contract!Drop
  <2>4. QED
    BY <2>3 DEF Contract!Next
<1>9. CASE Kill
  <2>1. proc' = "down" /\ main' = main /\ stable' = stable /\ jobs' = {}
    BY <1>9 DEF Kill, Halt
  <2>2. Proposed' \in {{}, Proposed}
    BY <2>1, ProposedBySave DEF Registry
  <2>3. Contract!Drop
    BY <2>1, <2>2 DEF Contract!Drop
  <2>4. QED
    BY <2>3 DEF Contract!Next
<1>10. CASE PowerLoss
  <2>1. proc' = "down" /\ jobs' = {} /\ main' = stable' /\ (main' = main \/ main' = stable)
    BY <1>10, PowerLossLeaves DEF PowerLoss, Halt
  <2>2. Proposed' = {}
    BY <2>1 DEF Registry
  <2>3. CASE stable' = stable
    <3>1. Contract!Drop
      BY <2>1, <2>2, <2>3 DEF Contract!Drop
    <3>2. QED
      BY <3>1 DEF Contract!Next
  <2>4. CASE stable' # stable
    <3>1. stable' = main /\ main # stable /\ main # {}
      BY <1>0, <2>1, <2>4 DEF DurableInv
    <3>2. Proposed = Registry(main) /\ Registry(main) # {}
      <4>1. CASE jobs = {}
        BY <3>1, <4>1 DEF Registry
      <4>2. CASE jobs # {}
        BY <3>1, <4>2, ProposedBySave DEF Registry
      <4>3. QED
        BY <4>1, <4>2
    <3>3. Contract!Commit
      BY <2>1, <2>2, <3>1, <3>2 DEF Contract!Commit
    <3>4. QED
      BY <3>3 DEF Contract!Next
  <2>5. QED
    BY <2>3, <2>4
<1>11. CASE UNCHANGED vars
  BY <1>11 DEF vars
<1>12. QED
  BY <1>1, <1>2, <1>3, <1>4, <1>5, <1>6, <1>7, <1>8, <1>9, <1>10, <1>11 DEF Next

\* The node with its files, its saves and its faults implements the contract:
\* the registry a crash leaves changes only to what was proposed, one scope at a
\* time, and a serving node shows exactly that registry.
THEOREM StoreImplementsContract == Spec => ImplementsContract
<1>1. Init => Contract!Init
  BY DEF Init, Contract!Init, Registry
<1>2. StoreInv /\ StoreInv' /\ [Next]_vars => [Contract!Next]_(Contract!vars)
  BY ContractStep DEF Contract!vars, Committed, Proposed, Shown
<1>3. QED
  BY <1>1, <1>2, StoreInvariant, PTL DEF Spec, ImplementsContract, Contract!Spec

=============================================================================
