---------------------------- MODULE AutoPipeline ----------------------------
(***************************************************************************)
(* The background pipeline worker, the per-plan lock and the requests that *)
(* meet them (src/engine/auto-pipeline.ts, src/engine/pipeline.ts,         *)
(* src/lib/plan-locks.ts, and the queue, run and dismiss routes).          *)
(*                                                                         *)
(* The process is single-threaded: everything between two awaits is one    *)
(* action.  A thread is one asynchronous activation: a request handler,    *)
(* the boot pass, or an activation of the drain loop.  status and pstate   *)
(* are the plan documents and survive a crash; the queue, the queued set,  *)
(* the draining flag, the locks and the threads do not.                    *)
(***************************************************************************)
EXTENDS PlanStatus, Naturals, Sequences, FiniteSets

CONSTANTS
  Plans,        \* plan documents
  Requests,     \* HTTP requests that can be in flight together
  Drainers,     \* activations of drain() that could coexist
  Boot,         \* the boot pass (recoverAndBackfill)
  MaxQueue,     \* bound: queue entries (duplicates can pile up without limit)
  MaxMishaps    \* bound: Firestore calls that fail, and crashes, together

ASSUME PlansNonempty == Plans # {}
ASSUME ThreadsDisjoint ==
  /\ Requests \cap Drainers = {}
  /\ Boot \notin Requests \cup Drainers
ASSUME BoundsNat == MaxQueue \in Nat /\ MaxMishaps \in Nat

Threads   == Requests \cup Drainers \cup {Boot}
Enqueuers == Requests \cup {Boot}
Runners   == Requests \cup Drainers

VARIABLES
  status,    \* the plan's workflow status (persistent)
  pstate,    \* the plan's pipelineState (persistent)
  queue,     \* FIFO of plan ids waiting for the worker
  queued,    \* the Set beside it
  draining,  \* the worker's own mutex flag
  locks,     \* per plan: the holder, then the waiters in arrival order
  pc,        \* where each thread is: the await it is suspended on
  arg,       \* the plan a thread works on
  want,      \* the status an issued patch will write
  todo,      \* boot pass: stuck plans of its snapshot still to re-enqueue
  fill,      \* boot pass: eligible plans of its snapshot still to backfill
  owed,      \* history: plans pushed on the queue and not worked on since
  faults, crashes

docs   == <<status, pstate>>
worker == <<queue, queued, draining>>
bootv  == <<todo, fill>>
budget == <<faults, crashes>>
vars   == <<status, pstate, queue, queued, draining, locks, pc, arg, want,
            todo, fill, owed, faults, crashes>>

Unlucky == faults + crashes < MaxMishaps

PStates == {"idle", "queued", "running", "failed"}

\* Awaits inside the lock, where a thread is changing the plan's documents.
InPipeline == {"start", "detect", "match", "generate", "put"}
WorkerPCs  == {"get", "skip", "mark", "lock", "done", "fail"} \cup InPipeline
PCs == {"idle", "enqGet", "enqPatch", "list", "next", "reset", "reget",
        "disPut", "over"} \cup WorkerPCs

Init ==
  /\ status = [p \in Plans |-> "awaiting_review"]
  /\ pstate = [p \in Plans |-> "idle"]
  /\ queue = <<>> /\ queued = {} /\ draining = FALSE
  /\ locks = [p \in Plans |-> <<>>]
  /\ pc = [t \in Threads |-> IF t = Boot THEN "list" ELSE "idle"]
  /\ \E p \in Plans : arg = [t \in Threads |-> p]
  /\ want = [t \in Threads |-> "dismissed"]
  /\ todo = {} /\ fill = {} /\ owed = {}
  /\ faults = 0 /\ crashes = 0

---------------------------------------------------------------------------
\* The drain loop.

\* queue.shift() and the start of runOne, or the end of the loop.
Shift(d, q, qd, pcs) ==
  IF q = <<>>
    THEN /\ queue' = q /\ queued' = qd /\ draining' = FALSE
         /\ pc' = [pcs EXCEPT ![d] = "idle"]
         /\ arg' = arg
    ELSE /\ queue' = Tail(q) /\ queued' = qd /\ draining' = TRUE
         /\ pc' = [pcs EXCEPT ![d] = "get"]
         /\ arg' = [arg EXCEPT ![d] = Head(q)]

\* runOne returned: the finally block forgets the plan, the loop goes on.
NextJob(d) == Shift(d, queue, queued \ {arg[d]}, pc)

\* Mutant: the loop is started without the draining check.
KickUnguarded(pcs) ==
  \E d \in Drainers : pcs[d] = "idle" /\ Shift(d, queue, queued, pcs)

\* drain(): a no-op while another activation is draining.
Kick(pcs) ==
  IF draining
    THEN pc' = pcs /\ UNCHANGED <<queue, queued, draining, arg>>
    ELSE \E d \in Drainers : pcs[d] = "idle" /\ Shift(d, queue, queued, pcs)

---------------------------------------------------------------------------
\* enqueuePipeline(planId), called by the queue routes and the boot pass.

\* Where the caller of enqueuePipeline resumes.
Resume(t) == IF t = Boot THEN "next" ELSE "idle"

\* The synchronous part: the has() check, then getPlan is awaited.
CallEnqueue(t, p) ==
  /\ arg' = [arg EXCEPT ![t] = p]
  /\ pc' = [pc EXCEPT ![t] = IF p \in queued THEN Resume(t) ELSE "enqGet"]

EnqueueGet(t) ==
  /\ pc[t] = "enqGet"
  /\ IF status[arg[t]] \in Runnable
       THEN /\ Len(queue) < MaxQueue
            /\ queued' = queued \cup {arg[t]}
            /\ queue' = Append(queue, arg[t])
            /\ owed' = owed \cup {arg[t]}
            /\ pc' = [pc EXCEPT ![t] = "enqPatch"]
       ELSE /\ pc' = [pc EXCEPT ![t] = Resume(t)]
            /\ UNCHANGED <<queue, queued, owed>>
  /\ UNCHANGED <<docs, draining, locks, arg, want, bootv, budget>>

\* Mutant: the caller is told true but the worker is not kicked.
EnqueuePatchUnkicked(t) ==
  /\ pc[t] = "enqPatch"
  /\ pstate' = [pstate EXCEPT ![arg[t]] = "queued"]
  /\ pc' = [pc EXCEPT ![t] = Resume(t)]
  /\ UNCHANGED <<status, worker, locks, arg, want, bootv, owed, budget>>

\* The 'queued' mark lands; the caller is told true and the worker kicked.
EnqueuePatch(t) ==
  /\ pc[t] = "enqPatch"
  /\ pstate' = [pstate EXCEPT ![arg[t]] = "queued"]
  /\ Kick([pc EXCEPT ![t] = Resume(t)])
  /\ UNCHANGED <<status, locks, want, bootv, owed, budget>>

\* Firestore fails under enqueuePipeline: the caller sees the error (the
\* boot pass ends); a plan already pushed stays in the queue, unkicked.
EnqueueFault(t) ==
  /\ pc[t] \in {"enqGet", "enqPatch"}
  /\ Unlucky /\ faults' = faults + 1
  /\ pc' = [pc EXCEPT ![t] = IF t = Boot THEN "over" ELSE "idle"]
  /\ UNCHANGED <<docs, worker, locks, arg, want, bootv, owed, crashes>>

---------------------------------------------------------------------------
\* runOne(planId): the unguarded awaits around the pipeline.

JobGet(d) ==
  /\ pc[d] = "get"
  /\ pc' = [pc EXCEPT ![d] = IF status[arg[d]] \in Runnable THEN "mark" ELSE "skip"]
  /\ UNCHANGED <<docs, worker, locks, arg, want, bootv, owed, budget>>

JobSkip(d) ==
  /\ pc[d] = "skip"
  /\ pstate' = [pstate EXCEPT ![arg[d]] = "idle"]
  /\ owed' = owed \ {arg[d]}
  /\ NextJob(d)
  /\ UNCHANGED <<status, locks, want, bootv, budget>>

\* The call of withPlanLock: take the next place in the plan's lock queue.
Acquire(t, p) ==
  /\ locks' = [locks EXCEPT ![p] = Append(@, t)]
  /\ pc' = [pc EXCEPT ![t] = "lock"]

JobMark(d) ==
  /\ pc[d] = "mark"
  /\ pstate' = [pstate EXCEPT ![arg[d]] = "running"]
  /\ Acquire(d, arg[d])
  /\ UNCHANGED <<status, worker, arg, want, bootv, owed, budget>>

\* Mutant: a finished job leaves the plan marked running.
JobDoneUnmarked(d) ==
  /\ pc[d] = "done"
  /\ owed' = owed \ {arg[d]}
  /\ NextJob(d)
  /\ UNCHANGED <<docs, locks, want, bootv, budget>>

JobDone(d) ==
  /\ pc[d] = "done"
  /\ pstate' = [pstate EXCEPT ![arg[d]] = "idle"]
  /\ owed' = owed \ {arg[d]}
  /\ NextJob(d)
  /\ UNCHANGED <<status, locks, want, bootv, budget>>

\* The success mark itself failed: the catch block records a failure.
JobDoneFault(d) ==
  /\ pc[d] = "done"
  /\ Unlucky /\ faults' = faults + 1
  /\ pc' = [pc EXCEPT ![d] = "fail"]
  /\ UNCHANGED <<docs, worker, locks, arg, want, bootv, owed, crashes>>

\* Mutant: a failure is recorded under a state the schema does not know.
JobFailMistyped(d) ==
  /\ pc[d] = "fail"
  /\ pstate' = [pstate EXCEPT ![arg[d]] = "error"]
  /\ owed' = owed \ {arg[d]}
  /\ NextJob(d)
  /\ UNCHANGED <<status, locks, want, bootv, budget>>

\* Mutant: a failure ends the drain loop with its flag still up.
JobFailStops(d) ==
  /\ pc[d] = "fail"
  /\ pstate' = [pstate EXCEPT ![arg[d]] = "failed"]
  /\ owed' = owed \ {arg[d]}
  /\ pc' = [pc EXCEPT ![d] = "idle"]
  /\ queued' = queued \ {arg[d]}
  /\ UNCHANGED <<status, queue, draining, locks, arg, want, bootv, budget>>

\* The 'failed' mark: its own failure is swallowed.
JobFail(d) ==
  /\ pc[d] = "fail"
  /\ \/ /\ pstate' = [pstate EXCEPT ![arg[d]] = "failed"]
        /\ UNCHANGED faults
     \/ /\ Unlucky /\ faults' = faults + 1
        /\ UNCHANGED pstate
  /\ owed' = owed \ {arg[d]}
  /\ NextJob(d)
  /\ UNCHANGED <<status, locks, want, bootv, crashes>>

---------------------------------------------------------------------------
\* withPlanLock and runPipeline, for the worker and for POST /plans/:id/run.

Holds(t) == locks[arg[t]] # <<>> /\ Head(locks[arg[t]]) = t

\* Mutant: fn starts without waiting for the calls ahead of it.
LockGrantedEarly(t) ==
  /\ pc[t] = "lock"
  /\ pc' = [pc EXCEPT ![t] = "start"]
  /\ UNCHANGED <<docs, worker, locks, arg, want, bootv, owed, budget>>

\* fn starts when the calls ahead of it in the plan's queue have settled.
LockGranted(t) ==
  /\ pc[t] = "lock"
  /\ Holds(t)
  /\ pc' = [pc EXCEPT ![t] = "start"]
  /\ UNCHANGED <<docs, worker, locks, arg, want, bootv, owed, budget>>

\* The lock is released when fn settles, whichever way.
Release(t) == locks' = [locks EXCEPT ![arg[t]] = Tail(@)]

\* runPipeline reads the plan to decide whether requirements are missing.
PipelineStart(t) ==
  /\ pc[t] = "start"
  /\ pc' = [pc EXCEPT ![t] =
              IF status[arg[t]] = "awaiting_review" THEN "detect" ELSE "match"]
  /\ UNCHANGED <<docs, worker, locks, arg, want, bootv, owed, budget>>

\* Each step ends in patchPlan: it reads the status and checks the table ...
PatchRead(t, at, to) ==
  /\ pc[t] = at
  /\ Allowed(status[arg[t]], to)
  /\ want' = [want EXCEPT ![t] = to]
  /\ pc' = [pc EXCEPT ![t] = "put"]
  /\ UNCHANGED <<docs, worker, locks, arg, bootv, owed, budget>>

DetectRequirements(t) == PatchRead(t, "detect", "requirements_reviewed")
MatchProjects(t)      == PatchRead(t, "match", "projects_matched")

\* Scenes are generated only from these statuses; scripts follow, and the
\* status is written once both are stored.
ScenesAllowed(t) == status[arg[t]] \in {"projects_matched", "scenes_generated"}

GenerateContent(t) ==
  /\ ScenesAllowed(t)
  /\ PatchRead(t, "generate", "scenes_generated")

\* ... and writes it later, whatever the status has become meanwhile.
AfterPut(t) ==
  [s \in Statuses |->
     IF s = "requirements_reviewed" THEN "match"
     ELSE IF s = "projects_matched" THEN "generate"
     ELSE IF t \in Drainers THEN "done" ELSE "idle"]

PatchWrite(t) ==
  /\ pc[t] = "put"
  /\ status' = [status EXCEPT ![arg[t]] = want[t]]
  /\ pc' = [pc EXCEPT ![t] = AfterPut(t)[want[t]]]
  /\ IF pc'[t] \in InPipeline THEN UNCHANGED locks ELSE Release(t)
  /\ UNCHANGED <<pstate, worker, arg, want, bootv, owed, budget>>

\* A step throws: the model call fails, its output stays invalid after the
\* retry, nothing matches, the transition is refused, or a write fails.
PipelineThrow(t) ==
  /\ pc[t] \in InPipeline
  /\ pc' = [pc EXCEPT ![t] = IF t \in Drainers THEN "fail" ELSE "idle"]
  /\ Release(t)
  /\ UNCHANGED <<docs, worker, arg, want, bootv, owed, budget>>

---------------------------------------------------------------------------
\* Requests.

QueueRequest(r, p) ==
  /\ pc[r] = "idle"
  /\ CallEnqueue(r, p)
  /\ UNCHANGED <<docs, worker, locks, want, bootv, owed, budget>>

RunRequest(r, p) ==
  /\ pc[r] = "idle"
  /\ arg' = [arg EXCEPT ![r] = p]
  /\ Acquire(r, p)
  /\ UNCHANGED <<docs, worker, want, bootv, owed, budget>>

\* POST /plans/:id/dismiss, and each plan of /plans/dismiss-stale: patchPlan
\* without the lock, read then write.
DismissRequest(r, p) ==
  /\ pc[r] = "idle"
  /\ Allowed(status[p], "dismissed")
  /\ arg' = [arg EXCEPT ![r] = p]
  /\ pc' = [pc EXCEPT ![r] = "disPut"]
  /\ UNCHANGED <<docs, worker, locks, want, bootv, owed, budget>>

DismissWrite(r) ==
  /\ pc[r] = "disPut"
  /\ status' = [status EXCEPT ![arg[r]] = "dismissed"]
  /\ pc' = [pc EXCEPT ![r] = "idle"]
  /\ UNCHANGED <<pstate, worker, locks, arg, want, bootv, owed, budget>>

---------------------------------------------------------------------------
\* The boot pass, ten seconds after the server starts listening.

\* Mutant: the boot pass looks for queued plans only.
BootListQueuedOnly ==
  /\ pc[Boot] = "list"
  /\ todo' = {p \in Plans : pstate[p] = "queued"}
  /\ \E fresh \in SUBSET Plans :
       fill' = {p \in fresh : status[p] = "awaiting_review" /\ pstate[p] = "idle"}
  /\ pc' = [pc EXCEPT ![Boot] = "next"]
  /\ UNCHANGED <<docs, worker, locks, arg, want, owed, budget>>

\* One snapshot feeds both loops; age and the config switch are data.
BootList ==
  /\ pc[Boot] = "list"
  /\ todo' = {p \in Plans : pstate[p] \in {"queued", "running"}}
  /\ \E fresh \in SUBSET Plans :
       fill' = {p \in fresh : status[p] = "awaiting_review" /\ pstate[p] = "idle"}
  /\ pc' = [pc EXCEPT ![Boot] = "next"]
  /\ UNCHANGED <<docs, worker, locks, arg, want, owed, budget>>

BootNext ==
  /\ pc[Boot] = "next"
  /\ \/ \E p \in todo :
          /\ todo' = todo \ {p} /\ UNCHANGED fill
          /\ arg' = [arg EXCEPT ![Boot] = p]
          /\ pc' = [pc EXCEPT ![Boot] = "reset"]
     \/ \E p \in fill :
          /\ todo = {} /\ fill' = fill \ {p} /\ UNCHANGED todo
          /\ CallEnqueue(Boot, p)
     \/ /\ todo = {} /\ fill = {}
        /\ pc' = [pc EXCEPT ![Boot] = "over"]
        /\ UNCHANGED <<bootv, arg>>
  /\ UNCHANGED <<docs, worker, locks, want, owed, budget>>

BootReset ==
  /\ pc[Boot] = "reset"
  /\ pstate' = [pstate EXCEPT ![arg[Boot]] = "idle"]
  /\ pc' = [pc EXCEPT ![Boot] = "reget"]
  /\ UNCHANGED <<status, worker, locks, arg, want, bootv, owed, budget>>

BootReget ==
  /\ pc[Boot] = "reget"
  /\ IF status[arg[Boot]] \in Runnable
       THEN CallEnqueue(Boot, arg[Boot])
       ELSE pc' = [pc EXCEPT ![Boot] = "next"] /\ UNCHANGED arg
  /\ UNCHANGED <<docs, worker, locks, want, bootv, owed, budget>>

\* index.ts logs the rejection of the boot pass and carries on.
BootFault ==
  /\ pc[Boot] \in {"list", "reset", "reget"}
  /\ Unlucky /\ faults' = faults + 1
  /\ pc' = [pc EXCEPT ![Boot] = "over"]
  /\ UNCHANGED <<docs, worker, locks, arg, want, bootv, owed, crashes>>

---------------------------------------------------------------------------
\* Crash and restart: the documents stay, the process memory does not.

Reboot ==
  /\ queue' = <<>> /\ queued' = {} /\ draining' = FALSE
  /\ locks' = [p \in Plans |-> <<>>]
  /\ pc' = [t \in Threads |-> IF t = Boot THEN "list" ELSE "idle"]
  /\ todo' = {} /\ fill' = {}
  /\ UNCHANGED <<docs, arg, want, owed>>

Crash ==
  /\ Unlucky /\ crashes' = crashes + 1
  /\ Reboot
  /\ UNCHANGED faults

\* A Firestore failure outside runOne's try rejects the promise drain() was
\* voided with; nothing handles it, so the process exits and is restarted.
WorkerRejects(d) ==
  /\ pc[d] \in {"get", "skip", "mark"}
  /\ Unlucky /\ faults' = faults + 1
  /\ Reboot
  /\ UNCHANGED crashes

---------------------------------------------------------------------------
Enqueue(t)  == EnqueueGet(t) \/ EnqueuePatch(t)
Job(d)      == JobGet(d) \/ JobSkip(d) \/ JobMark(d) \/ JobDone(d) \/ JobFail(d)
Pipeline(t) == LockGranted(t) \/ PipelineStart(t) \/ DetectRequirements(t)
                 \/ MatchProjects(t) \/ GenerateContent(t) \/ PatchWrite(t)
BootStep    == BootList \/ BootNext \/ BootReset \/ BootReget

Next ==
  \/ \E r \in Requests, p \in Plans :
       QueueRequest(r, p) \/ RunRequest(r, p) \/ DismissRequest(r, p)
  \/ \E r \in Requests : DismissWrite(r)
  \/ \E t \in Enqueuers : Enqueue(t) \/ EnqueueFault(t)
  \/ \E d \in Drainers : Job(d) \/ JobDoneFault(d) \/ WorkerRejects(d)
  \/ \E t \in Runners : Pipeline(t) \/ PipelineThrow(t)
  \/ BootStep \/ BootFault
  \/ Crash

Spec == Init /\ [][Next]_vars

\* Every await settles: Firestore and the model calls answer or time out.
Fairness ==
  /\ \A t \in Enqueuers : WF_vars(Enqueue(t))
  /\ \A d \in Drainers  : WF_vars(Job(d))
  /\ \A t \in Runners   : WF_vars(Pipeline(t) \/ PipelineThrow(t))
  /\ \A r \in Requests  : WF_vars(DismissWrite(r))
  /\ WF_vars(BootStep)

FairSpec == Spec /\ Fairness

---------------------------------------------------------------------------
(* Properties *)

\* Every variable keeps its type.
TypeOK ==
  /\ status \in [Plans -> Statuses]
  /\ pstate \in [Plans -> PStates]
  /\ queue \in Seq(Plans)
  /\ queued \subseteq Plans
  /\ draining \in BOOLEAN
  /\ locks \in [Plans -> Seq(Threads)]
  /\ pc \in [Threads -> PCs]
  /\ arg \in [Threads -> Plans]
  /\ want \in [Threads -> Statuses]
  /\ todo \subseteq Plans /\ fill \subseteq Plans /\ owed \subseteq Plans
  /\ faults \in Nat /\ crashes \in Nat

Busy(d) == pc[d] # "idle"

\* "In-process FIFO, one pipeline at a time": at most one activation of the
\* drain loop is alive, and the draining flag is up exactly while one is,
\* across finished jobs, crashes and concurrent kicks.
SerialWorker ==
  /\ \A d, e \in Drainers : Busy(d) /\ Busy(e) => d = e
  /\ draining <=> \E d \in Drainers : Busy(d)

\* withPlanLock: no two threads are inside the pipeline of one plan, whether
\* they came from the worker or from a request.
LockExclusion ==
  \A t, u \in Runners :
    pc[t] \in InPipeline /\ pc[u] \in InPipeline /\ arg[t] = arg[u] => t = u

\* No wakeup is lost: while plans wait, the loop is running or a caller is
\* still on its way to kick it.  Only a failed 'queued' mark breaks this.
NoLostWakeup ==
  queue # <<>> /\ faults = 0 =>
    draining \/ \E t \in Enqueuers : pc[t] = "enqPatch"

\* Once the boot pass is over, a plan the dashboard shows as running is the
\* plan the worker is on: neither the late reset of the boot pass nor a
\* second queue entry leaves a stale 'running' behind.
RunningIsReal ==
  \A p \in Plans :
    pstate[p] = "running" /\ pc[Boot] = "over" /\ faults = 0 =>
      \E d \in Drainers : Busy(d) /\ arg[d] = p

\* "Makes crashes recoverable: on boot, anything stuck in queued/running is
\* re-enqueued": a plan the worker still owes a run says so on disk, unless
\* its caller is still marking it or the boot pass, which "re-marks it
\* queued", is still busy with it.
OwedIsRecoverable ==
  \A p \in owed :
    \/ pstate[p] \in {"queued", "running"}
    \/ \E t \in Enqueuers : pc[t] = "enqPatch" /\ arg[t] = p
    \/ pc[Boot] \in {"reget", "enqGet"} /\ arg[Boot] = p

\* Every status a plan takes is one its transition table allows from the
\* status it has ("allowed status transitions ... one source of truth").
TableStep == \A p \in Plans : Allowed(status[p], status'[p])
StatusFollowsTable == [][TableStep]_vars

\* The race of an unlocked dismissal with a locked step, one way: the step's
\* write lands on a dismissal made after the step checked the table ...
OverwritesDismissal(p) ==
  /\ status[p] = "dismissed"
  /\ \E t \in Runners : pc[t] = "put" /\ pc'[t] # "put" /\ arg[t] = p

\* ... and the other: the dismissal's write lands on what the steps wrote
\* after the dismissal checked the table.
DismissesLate(p) ==
  /\ status'[p] = "dismissed"
  /\ \E r \in Requests : pc[r] = "disPut" /\ pc'[r] # "disPut" /\ arg[r] = p

\* What the lock does buy: among the worker, the run requests and the
\* dismissals, a status leaves the table only in those two races; no two
\* steps of the pipeline, whoever runs them, break it between themselves.
LockedStepsFollowTable ==
  [][\A p \in Plans : \/ Allowed(status[p], status'[p])
                      \/ OverwritesDismissal(p)
                      \/ DismissesLate(p)]_vars

\* The strengthening the proofs need: a thread in the pipeline, or waiting to
\* enter it, is where the lock queue says, and a pending status write is one
\* the table allows unless the plan was dismissed after the check.
LockHeld == \A t \in Runners : pc[t] \in InPipeline => Holds(t)

PutAllowed ==
  \A t \in Runners : pc[t] = "put" =>
    \/ status[arg[t]] = "dismissed"
    \/ Allowed(status[arg[t]], want[t])

\* A plan marked running is the worker's, or one the boot pass is to reset.
RunningKnown ==
  faults = 0 =>
    /\ pc[Boot] = "over" => todo = {}
    /\ \A p \in Plans : pstate[p] = "running" =>
         \/ pc[Boot] = "list" \/ p \in todo
         \/ pc[Boot] = "reset" /\ arg[Boot] = p
         \/ \E d \in Drainers : Busy(d) /\ arg[d] = p

IInv == TypeOK /\ SerialWorker /\ LockHeld /\ PutAllowed /\ NoLostWakeup /\ RunningKnown

\* A plan accepted into the queue is eventually worked on, while no Firestore
\* call fails and the process stays up.
Served == \A p \in Plans : p \in owed ~> p \notin owed \/ faults + crashes > 0

\* A plan shown as running eventually is not, even across a crash: the boot
\* pass resets what the dead process left behind.
RunningSettles ==
  \A p \in Plans : pstate[p] = "running" ~> pstate[p] # "running" \/ faults > 0
=============================================================================
