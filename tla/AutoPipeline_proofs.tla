------------------------ MODULE AutoPipeline_proofs ------------------------
(***************************************************************************)
(* Theorems about AutoPipeline, for every set of plans, requests and       *)
(* drain activations and every bound on faults and crashes.                *)
(***************************************************************************)
EXTENDS AutoPipeline, TLAPS

\* The statuses the model writes are statuses of the table.
LEMMA StatusFacts ==
  /\ Runnable \subseteq Statuses /\ "awaiting_review" \in Statuses
  /\ "dismissed" \in Statuses /\ "requirements_reviewed" \in Statuses
  /\ "projects_matched" \in Statuses /\ "scenes_generated" \in Statuses
BY DEF Runnable, Statuses, V1Statuses

\* Every place a thread can be suspended at, and every pipeline state.
LEMMA PCFacts ==
  /\ "idle" \in PCs /\ "enqGet" \in PCs /\ "enqPatch" \in PCs /\ "list" \in PCs /\ "next" \in PCs
  /\ "reset" \in PCs /\ "reget" \in PCs /\ "disPut" \in PCs /\ "over" \in PCs /\ "get" \in PCs
  /\ "skip" \in PCs /\ "mark" \in PCs /\ "lock" \in PCs /\ "done" \in PCs /\ "fail" \in PCs
  /\ "start" \in PCs /\ "detect" \in PCs /\ "match" \in PCs /\ "generate" \in PCs /\ "put" \in PCs
  /\ "idle" \in PStates /\ "queued" \in PStates /\ "running" \in PStates
  /\ "failed" \in PStates
BY DEF PCs, WorkerPCs, InPipeline, PStates

LEMMA InitTypeOK == Init => TypeOK
<1> SUFFICES ASSUME Init PROVE TypeOK
  OBVIOUS
<1>1. status \in [Plans -> Statuses]
  BY StatusFacts DEF Init
<1>2. pstate \in [Plans -> PStates]
  BY PCFacts DEF Init
<1>3. locks \in [Plans -> Seq(Threads)] /\ queue \in Seq(Plans)
  BY DEF Init
<1>4. pc \in [Threads -> PCs]
  BY PCFacts DEF Init
<1>5. arg \in [Threads -> Plans] /\ want \in [Threads -> Statuses]
  BY StatusFacts DEF Init
<1> QED BY <1>1, <1>2, <1>3, <1>4, <1>5 DEF Init, TypeOK

\* Shift, NextJob and Kick keep the types of what they write.
LEMMA ShiftTypeOK ==
  ASSUME TypeOK, NEW d \in Threads, NEW q \in Seq(Plans),
         NEW qd \in SUBSET Plans, NEW pcs \in [Threads -> PCs],
         Shift(d, q, qd, pcs)
  PROVE  /\ queue' \in Seq(Plans) /\ queued' \subseteq Plans
         /\ draining' \in BOOLEAN
         /\ pc' \in [Threads -> PCs] /\ arg' \in [Threads -> Plans]
<1>1. CASE q = <<>>
  BY <1>1 DEF Shift, TypeOK, PCs
<1>2. CASE q # <<>>
  <2>1. Head(q) \in Plans /\ Tail(q) \in Seq(Plans)
    BY <1>2
  <2> QED BY <1>2, <2>1 DEF Shift, TypeOK, PCs, WorkerPCs
<1> QED BY <1>1, <1>2

LEMMA KickTypeOK ==
  ASSUME TypeOK, NEW pcs \in [Threads -> PCs], Kick(pcs)
  PROVE  /\ queue' \in Seq(Plans) /\ queued' \subseteq Plans
         /\ draining' \in BOOLEAN
         /\ pc' \in [Threads -> PCs] /\ arg' \in [Threads -> Plans]
<1>1. CASE draining
  BY <1>1 DEF Kick, TypeOK
<1>2. CASE ~draining
  <2>1. PICK d \in Drainers : Shift(d, queue, queued, pcs)
    BY <1>2 DEF Kick
  <2>2. d \in Threads /\ queue \in Seq(Plans) /\ queued \in SUBSET Plans
    BY DEF Threads, TypeOK
  <2> QED BY <2>1, <2>2, ShiftTypeOK
<1> QED BY <1>1, <1>2

LEMMA ThreadKinds ==
  /\ Requests \subseteq Threads /\ Drainers \subseteq Threads /\ Boot \in Threads
  /\ Enqueuers \subseteq Threads /\ Runners \subseteq Threads
BY DEF Threads, Enqueuers, Runners

LEMMA StepTypeOK == TypeOK /\ LockHeld /\ [Next]_vars => TypeOK'
<1> SUFFICES ASSUME TypeOK, LockHeld, [Next]_vars PROVE TypeOK'
  OBVIOUS
<1> USE StatusFacts, ThreadKinds, PCFacts
<1>1. ASSUME NEW r \in Requests, NEW p \in Plans, QueueRequest(r, p) PROVE TypeOK'
  BY <1>1 DEF TypeOK, QueueRequest, CallEnqueue, Resume, docs, worker, bootv, budget
<1>2. ASSUME NEW r \in Requests, NEW p \in Plans, RunRequest(r, p) PROVE TypeOK'
  BY <1>2 DEF TypeOK, RunRequest, Acquire, docs, worker, bootv, budget
<1>3. ASSUME NEW r \in Requests, NEW p \in Plans, DismissRequest(r, p) PROVE TypeOK'
  BY <1>3 DEF TypeOK, DismissRequest, docs, worker, bootv, budget
<1>13. ASSUME NEW r \in Requests, DismissWrite(r) PROVE TypeOK'
  BY <1>13 DEF TypeOK, DismissWrite, worker, bootv, budget
<1>14. ASSUME NEW t \in Enqueuers, EnqueueGet(t) PROVE TypeOK'
  <2>1. arg[t] \in Plans /\ Append(queue, arg[t]) \in Seq(Plans)
    BY DEF TypeOK
  <2>2. queue' \in Seq(Plans) /\ queued' \subseteq Plans /\ owed' \subseteq Plans
    BY <1>14, <2>1 DEF TypeOK, EnqueueGet
  <2>3. pc' \in [Threads -> PCs]
    BY <1>14 DEF TypeOK, EnqueueGet, Resume
  <2> QED BY <1>14, <2>2, <2>3 DEF TypeOK, EnqueueGet, docs, bootv, budget
<1>15. ASSUME NEW t \in Enqueuers, EnqueueFault(t) PROVE TypeOK'
  BY <1>15 DEF TypeOK, EnqueueFault, docs, worker, bootv, budget
<1>4. ASSUME NEW t \in Enqueuers, EnqueuePatch(t) PROVE TypeOK'
  <2>1. [pc EXCEPT ![t] = Resume(t)] \in [Threads -> PCs]
    BY DEF TypeOK, Resume
  <2> QED BY <1>4, <2>1, KickTypeOK DEF TypeOK, EnqueuePatch, bootv, budget
<1>5. ASSUME NEW d \in Drainers, JobSkip(d) \/ JobDone(d) \/ JobFail(d) PROVE TypeOK'
  <2>1. NextJob(d)
    BY <1>5 DEF JobSkip, JobDone, JobFail
  <2>2. d \in Threads /\ queue \in Seq(Plans) /\ queued \ {arg[d]} \in SUBSET Plans
        /\ pc \in [Threads -> PCs]
    BY DEF TypeOK
  <2>3. /\ queue' \in Seq(Plans) /\ queued' \subseteq Plans /\ draining' \in BOOLEAN
        /\ pc' \in [Threads -> PCs] /\ arg' \in [Threads -> Plans]
    BY <2>1, <2>2, ShiftTypeOK DEF NextJob
  <2>4. pstate' \in [Plans -> PStates] /\ owed' \subseteq Plans
    <3>1. pstate' = pstate \/ (\E s \in PStates : pstate' = [pstate EXCEPT ![arg[d]] = s])
      BY <1>5 DEF JobSkip, JobDone, JobFail
    <3>2. owed' = owed \ {arg[d]}
      BY <1>5 DEF JobSkip, JobDone, JobFail
    <3>3. pstate \in [Plans -> PStates] /\ owed \subseteq Plans
      BY DEF TypeOK
    <3>4. \A s \in PStates : [pstate EXCEPT ![arg[d]] = s] \in [Plans -> PStates]
      BY <3>3
    <3> QED BY <3>1, <3>2, <3>3, <3>4
  <2>5. UNCHANGED <<status, locks, want, bootv, crashes>> /\ faults' \in Nat
    BY <1>5 DEF TypeOK, JobSkip, JobDone, JobFail, budget
  <2> QED BY <2>3, <2>4, <2>5 DEF TypeOK, bootv
<1>6. ASSUME NEW d \in Drainers, JobGet(d) PROVE TypeOK'
  BY <1>6 DEF TypeOK, JobGet, docs, worker, bootv, budget
<1>16. ASSUME NEW d \in Drainers, JobMark(d) PROVE TypeOK'
  BY <1>16 DEF TypeOK, JobMark, Acquire, docs, worker, bootv, budget
<1>17. ASSUME NEW d \in Drainers, JobDoneFault(d) PROVE TypeOK'
  BY <1>17 DEF TypeOK, JobDoneFault, docs, worker, bootv, budget
<1>7. ASSUME Reboot, faults' \in Nat, crashes' \in Nat PROVE TypeOK'
  <2>1. queue' \in Seq(Plans) /\ locks' \in [Plans -> Seq(Threads)]
    BY <1>7 DEF Reboot
  <2>2. pc' \in [Threads -> PCs]
    BY <1>7 DEF Reboot
  <2> QED BY <1>7, <2>1, <2>2 DEF TypeOK, Reboot, docs
<1>18. ASSUME NEW d \in Drainers, WorkerRejects(d) PROVE TypeOK'
  BY <1>18, <1>7 DEF TypeOK, WorkerRejects
<1>19. ASSUME Crash PROVE TypeOK'
  BY <1>19, <1>7 DEF TypeOK, Crash
<1>8. ASSUME NEW t \in Runners, LockGranted(t) \/ PipelineStart(t) PROVE TypeOK'
  BY <1>8 DEF TypeOK, LockGranted, PipelineStart, docs, worker, bootv, budget, InPipeline
<1>9. ASSUME NEW t \in Runners, NEW at, NEW to \in Statuses, PatchRead(t, at, to)
      PROVE TypeOK'
  BY <1>9 DEF TypeOK, PatchRead, docs, worker, bootv, budget
<1>20. ASSUME NEW t \in Runners,
              DetectRequirements(t) \/ MatchProjects(t) \/ GenerateContent(t)
       PROVE TypeOK'
  BY <1>20, <1>9 DEF DetectRequirements, MatchProjects, GenerateContent
<1>10. ASSUME NEW t \in Runners, PatchWrite(t) \/ PipelineThrow(t) PROVE TypeOK'
  <2>1. Tail(locks[arg[t]]) \in Seq(Threads)
    <3>1. pc[t] \in InPipeline
      BY <1>10 DEF PatchWrite, PipelineThrow, InPipeline
    <3>2. locks[arg[t]] # <<>> /\ locks[arg[t]] \in Seq(Threads)
      BY <3>1 DEF LockHeld, Holds, TypeOK
    <3> QED BY <3>2
  <2>2. want[t] \in Statuses /\ \A s \in Statuses : AfterPut(t)[s] \in PCs
    BY DEF TypeOK, AfterPut
  <2>3. locks' \in [Plans -> Seq(Threads)]
    BY <1>10, <2>1 DEF TypeOK, PatchWrite, PipelineThrow, Release
  <2>4. pc' \in [Threads -> PCs]
    BY <1>10, <2>2 DEF TypeOK, PatchWrite, PipelineThrow
  <2> QED BY <1>10, <2>2, <2>3, <2>4 DEF TypeOK, PatchWrite, PipelineThrow, docs, worker,
       bootv, budget
<1>11. ASSUME BootList PROVE TypeOK'
  BY <1>11 DEF TypeOK, BootList, docs, worker, bootv, budget
<1>21. ASSUME BootNext PROVE TypeOK'
  BY <1>21 DEF TypeOK, BootNext, CallEnqueue, Resume, docs, worker, bootv, budget
<1>22. ASSUME BootReset PROVE TypeOK'
  BY <1>22 DEF TypeOK, BootReset, docs, worker, bootv, budget
<1>23. ASSUME BootReget PROVE TypeOK'
  BY <1>23 DEF TypeOK, BootReget, CallEnqueue, Resume, docs, worker, bootv, budget
<1>24. ASSUME BootFault PROVE TypeOK'
  BY <1>24 DEF TypeOK, BootFault, docs, worker, bootv, budget
<1>12. ASSUME UNCHANGED vars PROVE TypeOK'
  BY <1>12 DEF TypeOK, vars
<1> QED
  BY <1>1, <1>2, <1>3, <1>4, <1>5, <1>6, <1>8, <1>10, <1>11, <1>12, <1>13, <1>14, <1>15,
     <1>16, <1>17, <1>18, <1>19, <1>20, <1>21, <1>22, <1>23, <1>24
  DEF Next, Enqueue, Job, Pipeline, BootStep

---------------------------------------------------------------------------
(* One worker *)

\* What the loop steps do to the draining flag and to the drainers.
LEMMA ShiftSerial ==
  ASSUME TypeOK, NEW d \in Drainers, NEW q, NEW qd, NEW pcs \in [Threads -> PCs],
         \A e \in Drainers : e # d => pcs[e] = "idle",
         Shift(d, q, qd, pcs)
  PROVE  SerialWorker'
<1>1. d \in Threads /\ Drainers \subseteq Threads
  BY ThreadKinds
<1>2. CASE q = <<>>
  BY <1>1, <1>2 DEF Shift, SerialWorker, Busy
<1>3. CASE q # <<>>
  BY <1>1, <1>3 DEF Shift, SerialWorker, Busy
<1> QED BY <1>2, <1>3

\* A step that leaves the flag alone and no drainer idle that was not.
LEMMA SameDrainersSerial ==
  ASSUME SerialWorker, UNCHANGED draining,
         \A d \in Drainers : pc'[d] = "idle" <=> pc[d] = "idle"
  PROVE  SerialWorker'
BY DEF SerialWorker, Busy

LEMMA StepSerialWorker == TypeOK /\ SerialWorker /\ [Next]_vars => SerialWorker'
<1> SUFFICES ASSUME TypeOK, SerialWorker, [Next]_vars PROVE SerialWorker'
  OBVIOUS
<1> USE ThreadKinds
<1>a. pc \in [Threads -> PCs]
  BY DEF TypeOK
<1>b. ASSUME NEW t \in Threads \ Drainers, NEW x, pc' = [pc EXCEPT ![t] = x],
             UNCHANGED draining
      PROVE  SerialWorker'
  BY <1>a, <1>b, SameDrainersSerial
<1>c. ASSUME NEW t \in Threads, NEW x, pc' = [pc EXCEPT ![t] = x],
             UNCHANGED draining, t \in Drainers => pc[t] # "idle" /\ x # "idle"
      PROVE  SerialWorker'
  BY <1>a, <1>c, SameDrainersSerial
<1>d. Requests \cap Drainers = {} /\ Boot \notin Drainers /\ Enqueuers \cap Drainers = {}
  BY ThreadsDisjoint DEF Enqueuers
<1>1. ASSUME NEW r \in Requests, NEW p \in Plans,
             QueueRequest(r, p) \/ RunRequest(r, p) \/ DismissRequest(r, p)
      PROVE  SerialWorker'
  BY <1>1, <1>b, <1>d DEF QueueRequest, RunRequest, DismissRequest, CallEnqueue, Acquire, worker
<1>2. ASSUME NEW r \in Requests, DismissWrite(r) PROVE SerialWorker'
  BY <1>2, <1>b, <1>d DEF DismissWrite, worker
<1>3. ASSUME NEW t \in Enqueuers, EnqueueGet(t) \/ EnqueueFault(t) PROVE SerialWorker'
  BY <1>3, <1>b, <1>d DEF EnqueueGet, EnqueueFault, worker
<1>4. ASSUME NEW t \in Enqueuers, EnqueuePatch(t) PROVE SerialWorker'
  <2> DEFINE pcs == [pc EXCEPT ![t] = Resume(t)]
  <2>1. pcs \in [Threads -> PCs] /\ \A e \in Drainers : pcs[e] = pc[e]
    BY <1>a, <1>d, PCFacts DEF Resume
  <2>2. Kick(pcs)
    BY <1>4 DEF EnqueuePatch
  <2>3. CASE draining
    <3>1. pc' = pcs /\ UNCHANGED draining
      BY <2>2, <2>3 DEF Kick
    <3> QED BY <3>1, <1>b, <1>d
  <2>4. CASE ~draining
    <3>1. PICK d \in Drainers : Shift(d, queue, queued, pcs)
      BY <2>2, <2>4 DEF Kick
    <3>2. \A e \in Drainers : pcs[e] = "idle"
      BY <2>1, <2>4 DEF SerialWorker, Busy
    <3> QED BY <3>1, <3>2, <2>1, ShiftSerial
  <2> QED BY <2>3, <2>4
<1>5. ASSUME NEW d \in Drainers, JobSkip(d) \/ JobDone(d) \/ JobFail(d) PROVE SerialWorker'
  <2>1. NextJob(d) /\ pc[d] # "idle"
    BY <1>5 DEF JobSkip, JobDone, JobFail
  <2>2. \A e \in Drainers : e # d => pc[e] = "idle"
    BY <2>1 DEF SerialWorker, Busy
  <2> QED BY <2>1, <2>2, <1>a, ShiftSerial DEF NextJob
<1>6. ASSUME NEW d \in Drainers, JobGet(d) \/ JobMark(d) \/ JobDoneFault(d) PROVE SerialWorker'
  BY <1>6, <1>c DEF JobGet, JobMark, JobDoneFault, Acquire, worker
<1>7. ASSUME Reboot PROVE SerialWorker'
  <2>1. draining' = FALSE /\ \A d \in Drainers : pc'[d] = "idle"
    BY <1>7, <1>d DEF Reboot
  <2> QED BY <2>1 DEF SerialWorker, Busy
<1>8. ASSUME NEW t \in Runners, LockGranted(t) \/ PipelineStart(t) PROVE SerialWorker'
  BY <1>8, <1>c DEF LockGranted, PipelineStart, worker
<1>9. ASSUME NEW t \in Runners,
             DetectRequirements(t) \/ MatchProjects(t) \/ GenerateContent(t)
      PROVE  SerialWorker'
  BY <1>9, <1>c DEF DetectRequirements, MatchProjects, GenerateContent, PatchRead, worker
<1>10. ASSUME NEW t \in Runners, PatchWrite(t) PROVE SerialWorker'
  <2>1. t \in Drainers => AfterPut(t)[want[t]] # "idle"
    BY DEF AfterPut, TypeOK
  <2> QED BY <1>10, <1>c, <2>1 DEF PatchWrite, worker
<1>11. ASSUME NEW t \in Runners, PipelineThrow(t) PROVE SerialWorker'
  BY <1>11, <1>c DEF PipelineThrow, worker, InPipeline
<1>12. ASSUME BootStep \/ BootFault PROVE SerialWorker'
  BY <1>12, <1>b, <1>d DEF BootStep, BootList, BootNext, BootReset, BootReget, BootFault,
       CallEnqueue, worker
<1>13. ASSUME UNCHANGED vars PROVE SerialWorker'
  BY <1>13 DEF SerialWorker, Busy, vars
<1> QED
  BY <1>1, <1>2, <1>3, <1>4, <1>5, <1>6, <1>7, <1>8, <1>9, <1>10, <1>11, <1>12, <1>13
  DEF Next, Enqueue, Job, Pipeline, Crash, WorkerRejects

---------------------------------------------------------------------------
(* The lock *)

\* Threads keep their hold while lock queues only grow and no thread enters
\* the pipeline or changes plan inside it.
LEMMA SameHolders ==
  ASSUME TypeOK, LockHeld,
         \A p \in Plans : locks'[p] = locks[p] \/ \E u : locks'[p] = Append(locks[p], u),
         \A t \in Runners : pc'[t] \in InPipeline =>
           pc[t] \in InPipeline /\ arg'[t] = arg[t]
  PROVE  LockHeld'
<1> SUFFICES ASSUME NEW t \in Runners, pc'[t] \in InPipeline PROVE Holds(t)'
  BY DEF LockHeld
<1>1. Holds(t) /\ arg'[t] = arg[t]
  BY DEF LockHeld
<1>2. arg[t] \in Plans /\ locks[arg[t]] \in Seq(Threads)
  BY ThreadKinds DEF TypeOK
<1> QED BY <1>1, <1>2 DEF Holds

\* A thread that leaves the pipeline and releases takes nobody's lock.
LEMMA ReleaseHolders ==
  ASSUME TypeOK, LockHeld, NEW t \in Runners, pc[t] \in InPipeline,
         UNCHANGED arg, Release(t), NEW x, x \notin InPipeline,
         pc' = [pc EXCEPT ![t] = x]
  PROVE  LockHeld'
<1> SUFFICES ASSUME NEW u \in Runners, pc'[u] \in InPipeline PROVE Holds(u)'
  BY DEF LockHeld
<1>1. u # t /\ pc[u] \in InPipeline
  BY ThreadKinds DEF TypeOK
<1>2. Holds(u) /\ Holds(t)
  BY <1>1 DEF LockHeld
<1>3. arg[u] # arg[t]
  BY <1>1, <1>2 DEF Holds
<1> QED BY <1>2, <1>3, ThreadKinds DEF Holds, Release, TypeOK

\* A drainer that moves on to its next job leaves every holder in place.
LEMMA ShiftHolders ==
  ASSUME TypeOK, LockHeld, UNCHANGED locks, NEW d \in Drainers, NEW q, NEW qd,
         NEW pcs \in [Threads -> PCs], Shift(d, q, qd, pcs),
         \A t \in Runners : pcs[t] \in InPipeline => pc[t] \in InPipeline,
         pcs[d] \notin InPipeline
  PROVE  LockHeld'
<1>1. \A t \in Runners : t # d => pc'[t] = pcs[t] /\ arg'[t] = arg[t]
  BY ThreadKinds DEF Shift, TypeOK
<1>2. pc'[d] \notin InPipeline
  BY ThreadKinds DEF Shift, TypeOK, InPipeline
<1> QED BY <1>1, <1>2, SameHolders

LEMMA StepLockHeld == TypeOK /\ LockHeld /\ [Next]_vars => LockHeld'
<1> SUFFICES ASSUME TypeOK, LockHeld, [Next]_vars PROVE LockHeld'
  OBVIOUS
<1> USE ThreadKinds
<1>a. pc \in [Threads -> PCs] /\ arg \in [Threads -> Plans] /\ locks \in [Plans -> Seq(Threads)]
  BY DEF TypeOK
<1>b. ASSUME NEW t \in Threads, NEW x, x \notin InPipeline, pc' = [pc EXCEPT ![t] = x],
             \A u \in Threads : u # t => arg'[u] = arg[u], UNCHANGED locks
      PROVE  LockHeld'
  BY <1>a, <1>b, SameHolders
<1>c. ASSUME NEW t \in Threads, pc' = [pc EXCEPT ![t] = "lock"], NEW p \in Plans,
             \A u \in Threads : u # t => arg'[u] = arg[u],
             locks' = [locks EXCEPT ![p] = Append(@, t)]
      PROVE  LockHeld'
  <2>1. \A q \in Plans : locks'[q] = locks[q] \/ locks'[q] = Append(locks[q], t)
    BY <1>a, <1>c
  <2>2. \A u \in Runners : pc'[u] \in InPipeline => pc[u] \in InPipeline /\ arg'[u] = arg[u]
    BY <1>a, <1>c DEF InPipeline
  <2> QED BY <2>1, <2>2, SameHolders
<1>d. ASSUME NEW t \in Runners, Holds(t), NEW x, pc' = [pc EXCEPT ![t] = x],
             UNCHANGED <<arg, locks>>
      PROVE  LockHeld'
  BY <1>a, <1>d DEF LockHeld, Holds
<1>1. ASSUME NEW r \in Requests, NEW p \in Plans, QueueRequest(r, p) \/ DismissRequest(r, p)
      PROVE  LockHeld'
  BY <1>1, <1>a, <1>b DEF QueueRequest, DismissRequest, CallEnqueue, Resume, InPipeline
<1>2. ASSUME NEW r \in Requests, NEW p \in Plans, RunRequest(r, p) PROVE LockHeld'
  BY <1>2, <1>a, <1>c DEF RunRequest, Acquire
<1>3. ASSUME NEW r \in Requests, DismissWrite(r) PROVE LockHeld'
  BY <1>3, <1>b DEF DismissWrite, InPipeline
<1>4. ASSUME NEW t \in Enqueuers, EnqueueGet(t) \/ EnqueueFault(t) PROVE LockHeld'
  BY <1>4, <1>b DEF EnqueueGet, EnqueueFault, Resume, InPipeline
<1>5. ASSUME NEW t \in Enqueuers, EnqueuePatch(t) PROVE LockHeld'
  <2> DEFINE pcs == [pc EXCEPT ![t] = Resume(t)]
  <2>1. pcs \in [Threads -> PCs] /\ \A u \in Runners : pcs[u] \in InPipeline => pc[u] \in InPipeline
    BY <1>a, PCFacts DEF Resume, InPipeline
  <2>2. Kick(pcs) /\ UNCHANGED locks
    BY <1>5 DEF EnqueuePatch
  <2>3. CASE draining
    BY <2>2, <2>3, <1>b DEF Kick, Resume, InPipeline
  <2>4. CASE ~draining
    <3>1. PICK d \in Drainers : pcs[d] = "idle" /\ Shift(d, queue, queued, pcs)
      BY <2>2, <2>4 DEF Kick
    <3>2. pcs[d] \notin InPipeline
      BY <3>1 DEF InPipeline
    <3> QED BY <3>1, <3>2, <2>1, <2>2, ShiftHolders
  <2> QED BY <2>3, <2>4
<1>6. ASSUME NEW d \in Drainers, JobSkip(d) \/ JobDone(d) \/ JobFail(d) PROVE LockHeld'
  <2>1. NextJob(d) /\ pc[d] \notin InPipeline /\ UNCHANGED locks
    BY <1>6 DEF JobSkip, JobDone, JobFail, InPipeline
  <2> QED BY <2>1, <1>a, ShiftHolders DEF NextJob
<1>7. ASSUME NEW d \in Drainers, JobGet(d) \/ JobDoneFault(d) PROVE LockHeld'
  BY <1>7, <1>b DEF JobGet, JobDoneFault, InPipeline
<1>8. ASSUME NEW d \in Drainers, JobMark(d) PROVE LockHeld'
  BY <1>8, <1>a, <1>c DEF JobMark, Acquire
<1>9. ASSUME Reboot PROVE LockHeld'
  <2>1. \A t \in Runners : pc'[t] \notin InPipeline
    BY <1>9 DEF Reboot, InPipeline
  <2> QED BY <2>1 DEF LockHeld
<1>10. ASSUME NEW t \in Runners, LockGranted(t) \/ PipelineStart(t) PROVE LockHeld'
  BY <1>10, <1>d DEF LockGranted, PipelineStart, LockHeld, InPipeline
<1>11. ASSUME NEW t \in Runners,
              DetectRequirements(t) \/ MatchProjects(t) \/ GenerateContent(t)
       PROVE  LockHeld'
  BY <1>11, <1>d DEF DetectRequirements, MatchProjects, GenerateContent, PatchRead,
       LockHeld, InPipeline
<1>12. ASSUME NEW t \in Runners, PatchWrite(t) PROVE LockHeld'
  <2>1. pc[t] \in InPipeline /\ pc' = [pc EXCEPT ![t] = AfterPut(t)[want[t]]] /\ UNCHANGED arg
        /\ pc'[t] = AfterPut(t)[want[t]]
    BY <1>12, <1>a DEF PatchWrite, InPipeline
  <2>2. CASE AfterPut(t)[want[t]] \in InPipeline
    BY <1>12, <2>1, <2>2, <1>d DEF PatchWrite, LockHeld
  <2>3. CASE AfterPut(t)[want[t]] \notin InPipeline
    BY <1>12, <2>1, <2>3, ReleaseHolders DEF PatchWrite
  <2> QED BY <2>2, <2>3
<1>13. ASSUME NEW t \in Runners, PipelineThrow(t) PROVE LockHeld'
  <2> DEFINE x == IF t \in Drainers THEN "fail" ELSE "idle"
  <2>1. x \notin InPipeline
    BY DEF InPipeline
  <2>2. pc[t] \in InPipeline /\ UNCHANGED arg /\ Release(t) /\ pc' = [pc EXCEPT ![t] = x]
    BY <1>13 DEF PipelineThrow
  <2> QED BY <2>1, <2>2, ReleaseHolders
<1>14. ASSUME BootStep \/ BootFault PROVE LockHeld'
  <2>1. UNCHANGED locks
    BY <1>14 DEF BootStep, BootList, BootNext, BootReset, BootReget, BootFault
  <2>2. \A u \in Threads : u # Boot => arg'[u] = arg[u]
    BY <1>14, <1>a DEF BootStep, BootList, BootNext, BootReset, BootReget, BootFault,
         CallEnqueue
  <2>3. \E x : x \notin InPipeline /\ pc' = [pc EXCEPT ![Boot] = x]
    BY <1>14 DEF BootStep, BootList, BootNext, BootReset, BootReget, BootFault,
         CallEnqueue, Resume, InPipeline
  <2> QED BY <2>1, <2>2, <2>3, <1>b
<1>15. ASSUME UNCHANGED vars PROVE LockHeld'
  BY <1>15 DEF LockHeld, Holds, vars
<1> QED
  BY <1>1, <1>2, <1>3, <1>4, <1>5, <1>6, <1>7, <1>8, <1>9, <1>10, <1>11, <1>12, <1>13,
     <1>14, <1>15
  DEF Next, Enqueue, Job, Pipeline, Crash, WorkerRejects

LEMMA Exclusion == LockHeld => LockExclusion
BY DEF LockHeld, LockExclusion, Holds

---------------------------------------------------------------------------
(* Pending status writes *)

\* No thread other than t writes the status of the plan t has locked, except
\* to dismiss it; so the check t made still covers its write.
LEMMA SamePending ==
  ASSUME TypeOK, PutAllowed,
         \A p \in Plans : status'[p] = status[p] \/ status'[p] = "dismissed",
         \A t \in Runners : pc'[t] = "put" =>
           pc[t] = "put" /\ arg'[t] = arg[t] /\ want'[t] = want[t]
  PROVE  PutAllowed'
BY ThreadKinds DEF PutAllowed, TypeOK

LEMMA StepPutAllowed ==
  TypeOK /\ LockHeld /\ PutAllowed /\ [Next]_vars => PutAllowed'
<1> SUFFICES ASSUME TypeOK, LockHeld, PutAllowed, [Next]_vars PROVE PutAllowed'
  OBVIOUS
<1> USE ThreadKinds
<1>a. pc \in [Threads -> PCs] /\ arg \in [Threads -> Plans] /\ status \in [Plans -> Statuses]
  BY DEF TypeOK
<1>b. ASSUME NEW t \in Threads, NEW x, x # "put", pc' = [pc EXCEPT ![t] = x],
             \A u \in Threads : u # t => arg'[u] = arg[u],
             UNCHANGED <<status, want>>
      PROVE  PutAllowed'
  BY <1>a, <1>b, SamePending
<1>1. ASSUME NEW r \in Requests, NEW p \in Plans,
             QueueRequest(r, p) \/ DismissRequest(r, p) \/ RunRequest(r, p)
      PROVE  PutAllowed'
  BY <1>1, <1>a, <1>b DEF QueueRequest, DismissRequest, RunRequest, Acquire, CallEnqueue,
       Resume, docs
<1>2. ASSUME NEW r \in Requests, DismissWrite(r) PROVE PutAllowed'
  BY <1>2, <1>a, SamePending DEF DismissWrite
<1>3. ASSUME NEW t \in Enqueuers, EnqueueGet(t) \/ EnqueueFault(t) PROVE PutAllowed'
  BY <1>3, <1>b DEF EnqueueGet, EnqueueFault, Resume, docs
<1>s. ASSUME NEW d \in Drainers, NEW q, NEW qd, NEW pcs \in [Threads -> PCs],
             Shift(d, q, qd, pcs), UNCHANGED <<status, want>>,
             pcs[d] # "put",
             \A t \in Threads : pcs[t] = "put" => pc[t] = "put"
      PROVE  PutAllowed'
  <2>1. \A t \in Threads : t # d => pc'[t] = pcs[t] /\ arg'[t] = arg[t]
    BY <1>a, <1>s DEF Shift
  <2>2. pc'[d] # "put"
    BY <1>a, <1>s DEF Shift
  <2> QED BY <1>s, <2>1, <2>2, SamePending
<1>4. ASSUME NEW t \in Enqueuers, EnqueuePatch(t) PROVE PutAllowed'
  <2> DEFINE pcs == [pc EXCEPT ![t] = Resume(t)]
  <2>1. pcs \in [Threads -> PCs] /\ \A u \in Threads : pcs[u] = "put" => pc[u] = "put"
    BY <1>a, PCFacts DEF Resume
  <2>2. Kick(pcs) /\ UNCHANGED <<status, want>>
    BY <1>4 DEF EnqueuePatch
  <2>3. CASE draining
    BY <2>2, <2>3, <1>b DEF Kick, Resume
  <2>4. CASE ~draining
    BY <2>1, <2>2, <2>4, <1>s DEF Kick
  <2> QED BY <2>3, <2>4
<1>5. ASSUME NEW d \in Drainers, JobSkip(d) \/ JobDone(d) \/ JobFail(d) PROVE PutAllowed'
  <2>1. NextJob(d) /\ pc[d] # "put" /\ UNCHANGED <<status, want>>
    BY <1>5 DEF JobSkip, JobDone, JobFail
  <2> QED BY <2>1, <1>a, <1>s DEF NextJob
<1>6. ASSUME NEW d \in Drainers, JobGet(d) \/ JobMark(d) \/ JobDoneFault(d) PROVE PutAllowed'
  BY <1>6, <1>b DEF JobGet, JobMark, JobDoneFault, Acquire, docs
<1>7. ASSUME Reboot PROVE PutAllowed'
  <2>1. \A t \in Runners : pc'[t] # "put"
    BY <1>7 DEF Reboot
  <2> QED BY <2>1 DEF PutAllowed
<1>8. ASSUME NEW t \in Runners, LockGranted(t) \/ PipelineStart(t) \/ PipelineThrow(t)
      PROVE  PutAllowed'
  BY <1>8, <1>b DEF LockGranted, PipelineStart, PipelineThrow, docs
<1>9. ASSUME NEW t \in Runners, NEW at, NEW to, PatchRead(t, at, to) PROVE PutAllowed'
  <2>1. \A u \in Runners : u # t => pc'[u] = pc[u] /\ want'[u] = want[u]
    BY <1>9, <1>a DEF PatchRead, TypeOK
  <2>2. want'[t] = to /\ Allowed(status[arg[t]], to) /\ UNCHANGED <<status, arg>>
    BY <1>9 DEF PatchRead, TypeOK, docs
  <2> QED BY <2>1, <2>2 DEF PutAllowed
<1>10. ASSUME NEW t \in Runners, PatchWrite(t) PROVE PutAllowed'
  <2>1. pc'[t] # "put" /\ UNCHANGED <<arg, want>> /\ \A u \in Runners : u # t => pc'[u] = pc[u]
    BY <1>10, <1>a DEF PatchWrite, AfterPut, TypeOK
  <2>2. ASSUME NEW u \in Runners, u # t, pc[u] = "put" PROVE status'[arg[u]] = status[arg[u]]
    <3>1. pc[t] \in InPipeline /\ pc[u] \in InPipeline
      BY <1>10, <2>2 DEF PatchWrite, InPipeline
    <3>2. arg[u] # arg[t]
      BY <3>1, <2>2, Exclusion DEF LockExclusion
    <3> QED BY <3>2, <1>10, <1>a DEF PatchWrite
  <2> QED BY <2>1, <2>2 DEF PutAllowed
<1>11. ASSUME BootStep \/ BootFault PROVE PutAllowed'
  <2>1. UNCHANGED <<status, want>>
    BY <1>11 DEF BootStep, BootList, BootNext, BootReset, BootReget, BootFault, docs
  <2>2. \A u \in Threads : u # Boot => arg'[u] = arg[u]
    BY <1>11, <1>a DEF BootStep, BootList, BootNext, BootReset, BootReget, BootFault,
         CallEnqueue
  <2>3. \E x : x # "put" /\ pc' = [pc EXCEPT ![Boot] = x]
    BY <1>11 DEF BootStep, BootList, BootNext, BootReset, BootReget, BootFault,
         CallEnqueue, Resume
  <2> QED BY <2>1, <2>2, <2>3, <1>b
<1>12. ASSUME UNCHANGED vars PROVE PutAllowed'
  BY <1>12 DEF PutAllowed, vars
<1> QED
  BY <1>1, <1>2, <1>3, <1>4, <1>5, <1>6, <1>7, <1>8, <1>9, <1>10, <1>11, <1>12
  DEF Next, Enqueue, Job, Pipeline, Crash, WorkerRejects, DetectRequirements,
      MatchProjects, GenerateContent

---------------------------------------------------------------------------
(* No lost wakeup *)

\* A step that neither pushes, nor stops the loop, nor leaves "enqPatch".
LEMMA SameWakeup ==
  ASSUME NoLostWakeup, faults' = 0 => faults = 0,
         UNCHANGED <<queue, draining>>,
         \A t \in Enqueuers : pc[t] = "enqPatch" => pc'[t] = "enqPatch"
  PROVE  NoLostWakeup'
BY DEF NoLostWakeup

LEMMA ShiftWakeup ==
  ASSUME NEW d, NEW q, NEW qd, NEW pcs, Shift(d, q, qd, pcs)
  PROVE  NoLostWakeup'
BY DEF Shift, NoLostWakeup

LEMMA StepNoLostWakeup == TypeOK /\ NoLostWakeup /\ [Next]_vars => NoLostWakeup'
<1> SUFFICES ASSUME TypeOK, NoLostWakeup, [Next]_vars PROVE NoLostWakeup'
  OBVIOUS
<1> USE ThreadKinds
<1>a. pc \in [Threads -> PCs] /\ faults \in Nat
  BY DEF TypeOK
<1>b. ASSUME NEW t \in Threads, NEW x, pc[t] # "enqPatch", pc' = [pc EXCEPT ![t] = x],
             UNCHANGED <<queue, draining>>, faults' = 0 => faults = 0
      PROVE  NoLostWakeup'
  BY <1>a, <1>b, SameWakeup
<1>f. ASSUME faults' = faults + 1 PROVE NoLostWakeup'
  BY <1>a, <1>f DEF NoLostWakeup
<1>1. ASSUME NEW r \in Requests, NEW p \in Plans,
             QueueRequest(r, p) \/ DismissRequest(r, p) \/ RunRequest(r, p)
      PROVE  NoLostWakeup'
  BY <1>1, <1>b DEF QueueRequest, DismissRequest, RunRequest, Acquire, CallEnqueue,
       worker, budget
<1>2. ASSUME NEW r \in Requests, DismissWrite(r) PROVE NoLostWakeup'
  BY <1>2, <1>b DEF DismissWrite, worker, budget
<1>3. ASSUME NEW t \in Enqueuers, EnqueueGet(t) PROVE NoLostWakeup'
  <2>1. CASE status[arg[t]] \in Runnable
    <3>1. pc'[t] = "enqPatch"
      BY <1>3, <2>1, <1>a DEF EnqueueGet
    <3> QED BY <3>1 DEF NoLostWakeup
  <2>2. CASE status[arg[t]] \notin Runnable
    BY <1>3, <2>2, <1>b DEF EnqueueGet, budget
  <2> QED BY <2>1, <2>2
<1>4. ASSUME NEW t \in Enqueuers, EnqueuePatch(t) PROVE NoLostWakeup'
  <2>1. Kick([pc EXCEPT ![t] = Resume(t)])
    BY <1>4 DEF EnqueuePatch
  <2>2. CASE draining
    BY <2>1, <2>2 DEF Kick, NoLostWakeup
  <2>3. CASE ~draining
    BY <2>1, <2>3, ShiftWakeup DEF Kick
  <2> QED BY <2>2, <2>3
<1>5. ASSUME NEW d \in Drainers, JobSkip(d) \/ JobDone(d) \/ JobFail(d) PROVE NoLostWakeup'
  <2>1. NextJob(d)
    BY <1>5 DEF JobSkip, JobDone, JobFail
  <2> QED BY <2>1, ShiftWakeup DEF NextJob
<1>6. ASSUME NEW d \in Drainers, JobGet(d) \/ JobMark(d) PROVE NoLostWakeup'
  BY <1>6, <1>b DEF JobGet, JobMark, Acquire, worker, budget
<1>7. ASSUME NEW t \in Threads,
             EnqueueFault(t) \/ JobDoneFault(t) \/ WorkerRejects(t) \/ BootFault
      PROVE  NoLostWakeup'
  BY <1>7, <1>f DEF EnqueueFault, JobDoneFault, WorkerRejects, BootFault
<1>8. ASSUME Crash PROVE NoLostWakeup'
  BY <1>8 DEF Crash, Reboot, NoLostWakeup
<1>9. ASSUME NEW t \in Runners, LockGranted(t) \/ PipelineStart(t) PROVE NoLostWakeup'
  BY <1>9, <1>b DEF LockGranted, PipelineStart, worker, budget
<1>10. ASSUME NEW t \in Runners,
              DetectRequirements(t) \/ MatchProjects(t) \/ GenerateContent(t)
       PROVE  NoLostWakeup'
  BY <1>10, <1>b DEF DetectRequirements, MatchProjects, GenerateContent, PatchRead,
       worker, budget
<1>11. ASSUME NEW t \in Runners, PatchWrite(t) \/ PipelineThrow(t) PROVE NoLostWakeup'
  BY <1>11, <1>b DEF PatchWrite, PipelineThrow, InPipeline, worker, budget
<1>12. ASSUME BootStep PROVE NoLostWakeup'
  BY <1>12, <1>b DEF BootStep, BootList, BootNext, BootReset, BootReget, CallEnqueue,
       worker, budget
<1>13. ASSUME UNCHANGED vars PROVE NoLostWakeup'
  BY <1>13 DEF NoLostWakeup, vars
<1> QED
  BY <1>1, <1>2, <1>3, <1>4, <1>5, <1>6, <1>7, <1>8, <1>9, <1>10, <1>11, <1>12, <1>13
  DEF Next, Enqueue, Job, Pipeline

---------------------------------------------------------------------------
(* A plan shown as running *)

\* Whoever accounts for a running plan keeps doing so while the boot pass is
\* where it was, or past its resets, and the drainers keep their plans.
LEMMA SameRunning ==
  ASSUME RunningKnown, faults' = 0 => faults = 0,
         pc'[Boot] = "over" => pc[Boot] = "over",
         pc[Boot] \in {"list", "reset"} => pc'[Boot] = pc[Boot] /\ arg'[Boot] = arg[Boot],
         todo' = todo,
         \A p \in Plans : pstate'[p] = "running" =>
           pstate[p] = "running" \/ \E d \in Drainers : Busy(d)' /\ arg'[d] = p,
         \A d \in Drainers : Busy(d) /\ pstate'[arg[d]] = "running" =>
           \E e \in Drainers : Busy(e)' /\ arg'[e] = arg[d]
  PROVE  RunningKnown'
BY DEF RunningKnown

\* The loop takes its next plan: only the plan d was on loses its worker.
LEMMA ShiftRunning ==
  ASSUME TypeOK, RunningKnown, faults' = 0 => faults = 0,
         NEW d \in Drainers, NEW q, NEW qd, NEW pcs \in [Threads -> PCs],
         Shift(d, q, qd, pcs),
         pcs[Boot] = "over" => pc[Boot] = "over",
         pc[Boot] \in {"list", "reset"} => pcs[Boot] = pc[Boot],
         todo' = todo,
         \A e \in Drainers : pcs[e] = pc[e],
         \A p \in Plans : pstate'[p] = "running" => pstate[p] = "running",
         Busy(d) => pstate'[arg[d]] # "running"
  PROVE  RunningKnown'
<1>1. d # Boot /\ d \in Threads /\ Boot \in Threads /\ Drainers \subseteq Threads
  BY ThreadsDisjoint, ThreadKinds
<1>2. \A u \in Threads : u # d => pc'[u] = pcs[u] /\ arg'[u] = arg[u]
  BY <1>1 DEF Shift, TypeOK
<1>3. \A e \in Drainers : Busy(e) /\ pstate'[arg[e]] = "running" =>
        Busy(e)' /\ arg'[e] = arg[e]
  BY <1>1, <1>2 DEF Busy
<1> QED BY <1>1, <1>2, <1>3, SameRunning

LEMMA StepRunningKnown == TypeOK /\ RunningKnown /\ [Next]_vars => RunningKnown'
<1> SUFFICES ASSUME TypeOK, RunningKnown, [Next]_vars PROVE RunningKnown'
  OBVIOUS
<1> USE ThreadKinds
<1>a. pc \in [Threads -> PCs] /\ arg \in [Threads -> Plans] /\ pstate \in [Plans -> PStates]
  BY DEF TypeOK
<1>d. Boot \notin Drainers /\ Boot \notin Requests /\ Requests \cap Drainers = {}
      /\ Boot \notin Runners
  BY ThreadsDisjoint DEF Runners
<1>f. ASSUME faults' = faults + 1 PROVE RunningKnown'
  BY <1>f DEF RunningKnown, TypeOK
\* One thread other than the boot pass moves, and no drainer goes idle.
<1>b. ASSUME NEW t \in Threads \ {Boot}, NEW x, pc' = [pc EXCEPT ![t] = x],
             \A u \in Threads : u # t => arg'[u] = arg[u],
             t \in Drainers => x # "idle" /\ arg'[t] = arg[t],
             faults' = 0 => faults = 0, UNCHANGED <<pstate, todo>>
      PROVE  RunningKnown'
  <2>1. \A d \in Drainers : Busy(d) => Busy(d)' /\ arg'[d] = arg[d]
    BY <1>a, <1>b DEF Busy
  <2>2. pc'[Boot] = pc[Boot] /\ arg'[Boot] = arg[Boot]
    BY <1>a, <1>b
  <2> QED BY <1>b, <2>1, <2>2, SameRunning
<1>1. ASSUME NEW r \in Requests, NEW p \in Plans,
             QueueRequest(r, p) \/ RunRequest(r, p) \/ DismissRequest(r, p)
      PROVE  RunningKnown'
  BY <1>1, <1>a, <1>b, <1>d DEF QueueRequest, RunRequest, DismissRequest, CallEnqueue, Acquire,
       docs, bootv, budget
<1>2. ASSUME NEW r \in Requests, DismissWrite(r) PROVE RunningKnown'
  BY <1>2, <1>b, <1>d DEF DismissWrite, bootv, budget
<1>3. ASSUME NEW t \in Enqueuers, EnqueueGet(t) PROVE RunningKnown'
  <2>1. /\ t \notin Drainers /\ UNCHANGED <<pstate, arg, todo, faults>>
        /\ \E x \in {"enqPatch", "next", "idle"} : pc' = [pc EXCEPT ![t] = x]
    BY <1>3, <1>d DEF EnqueueGet, Resume, docs, bootv, budget, Enqueuers
  <2>2. \A d \in Drainers : Busy(d) => Busy(d)'
    BY <1>a, <2>1 DEF Busy
  <2>3. /\ pc'[Boot] = "over" => pc[Boot] = "over"
        /\ pc[Boot] \in {"list", "reset"} => pc'[Boot] = pc[Boot]
    BY <1>3, <1>a, <2>1 DEF EnqueueGet
  <2> QED BY <2>1, <2>2, <2>3, SameRunning
<1>4. ASSUME NEW t \in Enqueuers, EnqueuePatch(t) PROVE RunningKnown'
  <2> DEFINE pcs == [pc EXCEPT ![t] = Resume(t)]
  <2>1. /\ pc[t] = "enqPatch" /\ t \notin Drainers /\ Kick(pcs) /\ UNCHANGED <<todo, faults>>
        /\ pstate' = [pstate EXCEPT ![arg[t]] = "queued"]
    BY <1>4, <1>d DEF EnqueuePatch, Enqueuers, bootv, budget
  <2>2. pcs \in [Threads -> PCs] /\ \A e \in Drainers : pcs[e] = pc[e]
    BY <1>a, <2>1, PCFacts DEF Resume
  <2>3. /\ pcs[Boot] = "over" => pc[Boot] = "over"
        /\ pc[Boot] \in {"list", "reset"} => pcs[Boot] = pc[Boot]
    BY <1>a, <1>d, <2>1 DEF Resume
  <2>4. \A p \in Plans : pstate'[p] = "running" => pstate[p] = "running"
    BY <1>a, <2>1
  <2> HIDE DEF pcs
  <2>5. CASE draining
    <3>1. pc' = pcs /\ arg' = arg
      BY <2>1, <2>5 DEF Kick
    <3>2. \A d \in Drainers : Busy(d) => Busy(d)'
      BY <2>2, <3>1 DEF Busy
    <3> QED BY <2>1, <2>3, <2>4, <3>1, <3>2, SameRunning
  <2>6. CASE ~draining
    <3>1. PICK d \in Drainers : pcs[d] = "idle" /\ Shift(d, queue, queued, pcs)
      BY <2>1, <2>6 DEF Kick
    <3>2. ~Busy(d)
      BY <2>2, <3>1 DEF Busy
    <3> QED BY <2>1, <2>2, <2>3, <2>4, <3>1, <3>2, ShiftRunning
  <2> QED BY <2>5, <2>6
<1>5. ASSUME NEW d \in Drainers, JobSkip(d) \/ JobDone(d) \/ JobFail(d), faults' = faults
      PROVE  RunningKnown'
  <2>1. PICK s \in {"idle", "failed"} : pstate' = [pstate EXCEPT ![arg[d]] = s]
    BY <1>5 DEF JobSkip, JobDone, JobFail, TypeOK
  <2>2. NextJob(d) /\ todo' = todo
    BY <1>5 DEF JobSkip, JobDone, JobFail, bootv
  <2>3. /\ pstate'[arg[d]] # "running"
        /\ \A p \in Plans : pstate'[p] = "running" => pstate[p] = "running"
    BY <1>a, <2>1
  <2> QED BY <1>5, <1>a, <2>2, <2>3, ShiftRunning DEF NextJob
<1>6. ASSUME NEW d \in Drainers, JobSkip(d) \/ JobDone(d) \/ JobFail(d), faults' # faults
      PROVE  RunningKnown'
  BY <1>6, <1>f DEF JobSkip, JobDone, JobFail, budget
<1>7. ASSUME NEW d \in Drainers, JobGet(d) PROVE RunningKnown'
  BY <1>7, <1>b, <1>d DEF JobGet, docs, bootv, budget
<1>8. ASSUME NEW d \in Drainers, JobMark(d) PROVE RunningKnown'
  <2>1. /\ pc' = [pc EXCEPT ![d] = "lock"] /\ UNCHANGED <<arg, todo, faults>>
        /\ pstate' = [pstate EXCEPT ![arg[d]] = "running"]
    BY <1>8 DEF JobMark, Acquire, bootv, budget
  <2>2. \A e \in Drainers : Busy(e) => Busy(e)'
    BY <1>a, <2>1 DEF Busy
  <2>3. Busy(d)' /\ \A p \in Plans : p # arg[d] => pstate'[p] = pstate[p]
    BY <1>a, <2>1 DEF Busy
  <2>4. pc'[Boot] = pc[Boot]
    BY <1>a, <1>d, <2>1
  <2> QED BY <2>1, <2>2, <2>3, <2>4, SameRunning
<1>9. ASSUME NEW t \in Threads,
             EnqueueFault(t) \/ JobDoneFault(t) \/ WorkerRejects(t) \/ BootFault
      PROVE  RunningKnown'
  BY <1>9, <1>f DEF EnqueueFault, JobDoneFault, WorkerRejects, BootFault
<1>10. ASSUME NEW t \in Runners, LockGranted(t) \/ PipelineStart(t) PROVE RunningKnown'
  BY <1>10, <1>b, <1>d DEF LockGranted, PipelineStart, docs, bootv, budget
<1>11. ASSUME NEW t \in Runners,
              DetectRequirements(t) \/ MatchProjects(t) \/ GenerateContent(t)
       PROVE  RunningKnown'
  BY <1>11, <1>b, <1>d DEF DetectRequirements, MatchProjects, GenerateContent, PatchRead, docs,
       bootv, budget
<1>12. ASSUME NEW t \in Runners, PatchWrite(t) \/ PipelineThrow(t) PROVE RunningKnown'
  <2>1. UNCHANGED <<pstate, todo, arg, faults>> /\ t # Boot
    BY <1>12, <1>d DEF PatchWrite, PipelineThrow, docs, bootv, budget
  <2>2. PICK x : pc' = [pc EXCEPT ![t] = x] /\ (t \in Drainers => x # "idle")
    <3>1. CASE PatchWrite(t)
      <4>1. want[t] \in Statuses
        BY DEF TypeOK
      <4>2. t \in Drainers => AfterPut(t)[want[t]] # "idle"
        BY <4>1 DEF AfterPut
      <4> QED BY <3>1, <4>2 DEF PatchWrite
    <3>2. CASE PipelineThrow(t)
      <4>1. (IF t \in Drainers THEN "fail" ELSE "idle") \in {"fail", "idle"}
            /\ (t \in Drainers => (IF t \in Drainers THEN "fail" ELSE "idle") # "idle")
        OBVIOUS
      <4>2. pc' = [pc EXCEPT ![t] = IF t \in Drainers THEN "fail" ELSE "idle"]
        BY <3>2 DEF PipelineThrow
      <4> QED BY <4>1, <4>2
    <3> QED BY <1>12, <3>1, <3>2
  <2> QED BY <2>1, <2>2, <1>b
<1>13. ASSUME BootList \/ BootNext PROVE RunningKnown'
  <2>1. UNCHANGED <<pstate, faults>> /\ \A d \in Drainers : pc'[d] = pc[d] /\ arg'[d] = arg[d]
    BY <1>13, <1>a, <1>d DEF BootList, BootNext, CallEnqueue, docs, budget
  <2>2. pc'[Boot] = "over" => todo' = {}
    BY <1>13, <1>a DEF BootList, BootNext, CallEnqueue, Resume, bootv
  <2>3. ASSUME NEW p \in Plans, pstate[p] = "running", pc[Boot] = "list" \/ p \in todo
        PROVE  p \in todo' \/ (pc'[Boot] = "reset" /\ arg'[Boot] = p)
    <3>1. CASE BootList
      BY <3>1, <2>3 DEF BootList
    <3>2. CASE BootNext
      <4>1. p \in todo
        BY <3>2, <2>3 DEF BootNext
      <4>2. PICK next \in todo : /\ todo' = todo \ {next}
                                /\ arg' = [arg EXCEPT ![Boot] = next]
                                /\ pc' = [pc EXCEPT ![Boot] = "reset"]
        BY <3>2, <4>1 DEF BootNext
      <4> QED BY <4>1, <4>2, <1>a
    <3> QED BY <1>13, <3>1, <3>2
  <2>4. pc[Boot] # "reset"
    BY <1>13 DEF BootList, BootNext
  <2> QED BY <2>1, <2>2, <2>3, <2>4 DEF RunningKnown, Busy
<1>14. ASSUME BootReset \/ BootReget PROVE RunningKnown'
  <2>1. UNCHANGED <<todo, faults>> /\ \A d \in Drainers : pc'[d] = pc[d] /\ arg'[d] = arg[d]
    BY <1>14, <1>a, <1>d DEF BootReset, BootReget, CallEnqueue, bootv, budget
  <2>2. pc'[Boot] # "over" /\ pc[Boot] # "list"
    BY <1>14, <1>a DEF BootReset, BootReget, CallEnqueue, Resume
  <2>3. \A p \in Plans : pstate'[p] = "running" =>
           pstate[p] = "running" /\ ~(pc[Boot] = "reset" /\ arg[Boot] = p)
    BY <1>14, <1>a DEF BootReset, BootReget, docs
  <2> QED BY <2>1, <2>2, <2>3 DEF RunningKnown, Busy
<1>15. ASSUME Crash PROVE RunningKnown'
  BY <1>15 DEF Crash, Reboot, RunningKnown
<1>16. ASSUME UNCHANGED vars PROVE RunningKnown'
  BY <1>16 DEF RunningKnown, Busy, vars
<1> QED
  BY <1>1, <1>2, <1>3, <1>4, <1>5, <1>6, <1>7, <1>8, <1>9, <1>10, <1>11, <1>12, <1>13,
     <1>14, <1>15, <1>16
  DEF Next, Enqueue, Job, Pipeline, BootStep

---------------------------------------------------------------------------
(* Theorems *)

LEMMA InitIInv == Init => IInv
<1> SUFFICES ASSUME Init PROVE IInv
  OBVIOUS
<1>1. \A t \in Runners : pc[t] = "idle"
  BY ThreadsDisjoint, ThreadKinds DEF Init, Runners
<1>2. SerialWorker /\ LockHeld /\ PutAllowed
  BY <1>1 DEF Init, SerialWorker, Busy, LockHeld, InPipeline, PutAllowed, Runners
<1>3. RunningKnown
  BY ThreadKinds DEF Init, RunningKnown
<1> QED BY <1>2, <1>3, InitTypeOK DEF IInv, Init, NoLostWakeup

\* The invariant of the worker and the lock holds in every reachable state.
THEOREM Invariance == Spec => []IInv
<1>1. Init => IInv
  BY InitIInv
<1>2. IInv /\ [Next]_vars => IInv'
  BY StepTypeOK, StepSerialWorker, StepLockHeld, StepPutAllowed, StepNoLostWakeup,
     StepRunningKnown
  DEF IInv
<1> QED BY <1>1, <1>2, PTL DEF Spec

\* Every variable of the worker, the lock and the documents keeps its type.
THEOREM TypeCorrect == Spec => []TypeOK
BY Invariance, PTL DEF IInv

\* However many callers kick it, the worker runs one drain loop and so one
\* background pipeline at a time, through faults, crashes and restarts.
THEOREM WorkerIsSerial == Spec => []SerialWorker
BY Invariance, PTL DEF IInv

\* withPlanLock excludes: one thread at a time changes a plan in the pipeline.
THEOREM PlanLockExcludes == Spec => []LockExclusion
<1>1. IInv => LockExclusion
  BY Exclusion DEF IInv
<1> QED BY <1>1, Invariance, PTL

\* While no Firestore call has failed, a waiting plan always has a running
\* loop or a caller about to start one.
THEOREM WakeupNotLost == Spec => []NoLostWakeup
BY Invariance, PTL DEF IInv

\* Once the boot pass is over and while no Firestore call has failed, a plan
\* marked running is the one the worker is on (runOne marks it running and
\* unmarks it in the same activation; recoverAndBackfill resets what a dead
\* process left).
THEOREM RunningNamesTheJob == Spec => []RunningIsReal
<1>1. IInv => RunningIsReal
  BY DEF IInv, RunningKnown, RunningIsReal
<1> QED BY <1>1, Invariance, PTL

\* Status writes follow the transition table (patchPlan against
\* PLAN_TRANSITIONS) except where an unlocked dismissal and a locked step meet
\* between the check and the write of one of them.
THEOREM LockedWritesFollowTable == Spec => LockedStepsFollowTable
<1> DEFINE Step == \A p \in Plans : \/ Allowed(status[p], status'[p])
                                    \/ OverwritesDismissal(p)
                                    \/ DismissesLate(p)
<1>1. IInv /\ [Next]_vars => [Step]_vars
  <2> SUFFICES ASSUME IInv, Next, NEW p \in Plans
               PROVE  \/ Allowed(status[p], status'[p])
                      \/ OverwritesDismissal(p)
                      \/ DismissesLate(p)
    OBVIOUS
  <2>a. pc \in [Threads -> PCs] /\ arg \in [Threads -> Plans] /\ status \in [Plans -> Statuses]
    BY DEF IInv, TypeOK
  <2>1. CASE UNCHANGED status
    BY <2>1 DEF Allowed
  <2>2. ASSUME NEW t \in Runners, PatchWrite(t)
        PROVE  Allowed(status[p], status'[p]) \/ OverwritesDismissal(p)
    <3>1. CASE arg[t] # p
      BY <3>1, <2>2, <2>a DEF PatchWrite, Allowed
    <3>2. CASE arg[t] = p
      <4>1. status'[p] = want[t] /\ pc[t] = "put" /\ pc'[t] # "put"
        BY <3>2, <2>2, <2>a, ThreadKinds DEF PatchWrite, AfterPut, IInv, TypeOK
      <4>2. status[p] = "dismissed" \/ Allowed(status[p], want[t])
        BY <4>1, <3>2 DEF IInv, PutAllowed
      <4> QED BY <4>1, <4>2, <3>2 DEF OverwritesDismissal
    <3> QED BY <3>1, <3>2
  <2>3. ASSUME NEW r \in Requests, DismissWrite(r)
        PROVE  Allowed(status[p], status'[p]) \/ DismissesLate(p)
    BY <2>3, <2>a, ThreadKinds DEF DismissWrite, Allowed, DismissesLate
  <2>4. UNCHANGED status \/ (\E t \in Runners : PatchWrite(t)) \/ (\E r \in Requests : DismissWrite(r))
    BY DEF Next, QueueRequest, RunRequest, DismissRequest, Enqueue, EnqueueGet, EnqueuePatch,
       EnqueueFault, Job, JobGet, JobSkip, JobMark, JobDone, JobFail, JobDoneFault,
       WorkerRejects, Crash, Reboot, Pipeline, LockGranted, PipelineStart,
       DetectRequirements, MatchProjects, GenerateContent, PatchRead, PipelineThrow,
       BootStep, BootList, BootNext, BootReset, BootReget, BootFault, docs
  <2> QED BY <2>1, <2>2, <2>3, <2>4
<1> QED BY <1>1, Invariance, PTL DEF Spec, LockedStepsFollowTable
=============================================================================
