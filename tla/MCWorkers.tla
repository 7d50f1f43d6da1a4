------------------------------ MODULE MCWorkers ------------------------------
(***************************************************************************)
(* The two background workers of the process, the pipeline's and the write *)
(* queue's, under the fairness of each.  They share no state: a behaviour  *)
(* picks one and stays with it.                                            *)
(***************************************************************************)
EXTENDS MCAutoPipeline

CONSTANTS Entries, Drain, NoFile, MaxAttempts, MaxRows, OutboxMishaps

VARIABLES
  part,
  outbox, outboxFaults, outboxCrashes,   \* queue, faults and crashes of the write queue
  due, main, tmp, wpc, snap, fd, raced, dpc, batch, gone, rpc, rbuf, rows, dead, lost, exits

Q == INSTANCE WriteQueue
       WITH queue <- outbox, faults <- outboxFaults, crashes <- outboxCrashes,
            MaxMishaps <- OutboxMishaps

outboxVars == <<outbox, due, main, tmp, wpc, snap, fd, raced, dpc, batch, gone, rpc, rbuf,
                rows, dead, lost, outboxFaults, outboxCrashes, exits>>

workersVars == <<part, vars, outboxVars>>

WorkersInit == part \in {"pipeline", "outbox"} /\ Init /\ Q!Init

OfPipeline(A) == part = "pipeline" /\ A /\ UNCHANGED <<part, outboxVars>>
OfOutbox(A)   == part = "outbox" /\ A /\ UNCHANGED <<part, vars>>

WorkersNext == OfPipeline(Next) \/ OfOutbox(Q!Next)

\* Fairness of AutoPipeline and of WriteQueue, each for its own part.
WorkersFairness ==
  /\ \A t \in Enqueuers : WF_workersVars(OfPipeline(Enqueue(t)))
  /\ \A d \in Drainers  : WF_workersVars(OfPipeline(Job(d)))
  /\ \A t \in Runners   : WF_workersVars(OfPipeline(Pipeline(t) \/ PipelineThrow(t)))
  /\ \A r \in Requests  : WF_workersVars(OfPipeline(DismissWrite(r)))
  /\ WF_workersVars(OfPipeline(BootStep))
  /\ \A e \in Entries   : WF_workersVars(OfOutbox(Q!BackoffElapses(e)))
  /\ \A w \in Q!Writers : WF_workersVars(OfOutbox(Q!Persist(w)))
  /\ WF_workersVars(OfOutbox(Q!DrainStart))
  /\ WF_workersVars(OfOutbox(Q!Post \/ Q!DeadLetter))
  /\ WF_workersVars(OfOutbox(Q!Recover))

WorkersSpec == WorkersInit /\ [][WorkersNext]_workersVars /\ WorkersFairness

\* WriteQueue's property: every queued write is eventually in the catalog or
\* in the dead-letter file, while the process stays up.
QueuedSettles == Q!QueuedSettles

\* WriteQueue's property: a write whose enqueue resolved is eventually settled,
\* across crashes too, unless persists overlapped or recovery cannot read.
AcceptedSettles == Q!AcceptedSettles
=============================================================================
