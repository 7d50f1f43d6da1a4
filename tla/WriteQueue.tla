----------------------------- MODULE WriteQueue -----------------------------
(***************************************************************************)
(* The durable, retrying outbox of Neurocore writes                        *)
(* (src/neurocore/write-queue.ts): an in-memory queue, its file, the       *)
(* dead-letter file, the 30-second drain worker and boot recovery.         *)
(*                                                                         *)
(* Every persist writes one shared temporary file and renames it over the  *)
(* queue file; an open descriptor follows its inode through the rename.    *)
(***************************************************************************)
EXTENDS Naturals, Sequences, FiniteSets

CONSTANTS
  Entries,      \* the writes callers enqueue, each once
  Drain,        \* the drain, as a writer of the queue file
  NoFile,       \* a file that does not exist
  MaxAttempts,  \* MAX_ATTEMPTS
  MaxMishaps,   \* bound: file operations that fail, and crashes, together
  MaxRows       \* bound: rows of one entry in the catalog

ASSUME DrainIsNoEntry  == Drain \notin Entries
ASSUME AttemptsPositive == MaxAttempts \in Nat \ {0}
ASSUME BoundsNat == MaxMishaps \in Nat /\ MaxRows \in Nat

Writers == Entries \cup {Drain}
Item    == [id : Entries, n : Nat]   \* a QueueEntry: its id and attemptCount

ASSUME NoFileIsNoContent == NoFile \notin Seq(Item)

VARIABLES
  queue,      \* the in-memory FIFO
  due,        \* entries whose nextAttemptAt has passed
  main, tmp,  \* the queue file and its .tmp (persistent)
  wpc,        \* per writer: where its persistQueue call is
  snap,       \* per writer: the lines it serialized
  fd,         \* per writer: which file its descriptor now names
  raced,      \* history: a persist began during another, or over a queue
              \* file that boot recovery had not read
  dpc,        \* where the drain is
  batch,      \* indexes the drain still has to attempt
  gone,       \* indexes it will remove at the end (toRemove)
  rpc,        \* boot recovery: "read", "set", "done" or "failed"
  rbuf,       \* what recovery read
  rows,       \* external: rows in Neurocore's catalog, per entry
  dead,       \* lines in the dead-letter file, per entry (persistent)
  lost,       \* entries one of whose successful POSTs reported an error
  faults, crashes, exits

mem    == <<queue, due>>
files  == <<main, tmp>>
writer == <<wpc, snap, fd, raced>>
drain  == <<dpc, batch, gone>>
boot   == <<rpc, rbuf>>
remote == <<rows, dead, lost>>
budget == <<faults, crashes, exits>>
vars   == <<queue, due, main, tmp, wpc, snap, fd, raced, dpc, batch, gone,
            rpc, rbuf, rows, dead, lost, faults, crashes, exits>>

Unlucky == faults + crashes < MaxMishaps

Ids(s) == {s[i].id : i \in DOMAIN s}

Init ==
  /\ queue = <<>> /\ due = {}
  /\ main = NoFile /\ tmp = NoFile
  /\ wpc = [w \in Writers |-> IF w = Drain THEN "idle" ELSE "new"]
  /\ snap = [w \in Writers |-> <<>>]
  /\ fd = [w \in Writers |-> "closed"] /\ raced = FALSE
  /\ dpc = "idle" /\ batch = {} /\ gone = {}
  /\ rpc = "read" /\ rbuf = <<>>
  /\ rows = [e \in Entries |-> 0] /\ dead = [e \in Entries |-> 0] /\ lost = {}
  /\ faults = 0 /\ crashes = 0 /\ exits = 0

---------------------------------------------------------------------------
\* The process dies and is restarted: memory goes, the files stay.  A caller
\* whose enqueue had not resolved never hears of it.
Reboot ==
  /\ queue' = <<>> /\ due' = {}
  /\ wpc' = [w \in Writers |->
               IF w = Drain THEN "idle"
               ELSE IF wpc[w] \in {"open", "write", "rename"} THEN "err" ELSE wpc[w]]
  /\ snap' = [w \in Writers |-> <<>>]
  /\ fd' = [w \in Writers |-> "closed"]
  /\ dpc' = "idle" /\ batch' = {} /\ gone' = {}
  /\ rpc' = "read" /\ rbuf' = <<>>

Crash ==
  /\ Unlucky /\ crashes' = crashes + 1
  /\ Reboot
  /\ UNCHANGED <<files, raced, remote, faults, exits>>

\* drainOnce rejects.  The worker's catch logs it, but the promise derived for
\* inFlightDrain rejects too.  A later tick that found the drain in flight, as
\* it may at any time, is waiting for that promise and catches it ...
DrainRejectionCaught ==
  /\ dpc' = "idle" /\ batch' = {} /\ gone' = {}
  /\ wpc' = [wpc EXCEPT ![Drain] = "idle"]
  /\ snap' = [snap EXCEPT ![Drain] = <<>>]
  /\ fd' = [fd EXCEPT ![Drain] = "closed"]
  /\ UNCHANGED <<mem, boot, exits>>

\* ... with nobody waiting it is unhandled and the process exits.
DrainRejectionUnhandled == exits' = exits + 1 /\ Reboot

DrainRejects == DrainRejectionCaught \/ DrainRejectionUnhandled

---------------------------------------------------------------------------
\* persistQueue: serialize (in the caller's step), open and truncate the
\* temporary file, write it, rename it.

Writing(w) == wpc[w] \in {"open", "write", "rename"}

Serialize(w, q) ==
  /\ wpc' = [wpc EXCEPT ![w] = "open"]
  /\ snap' = [snap EXCEPT ![w] = q]
  /\ raced' = (raced \/ rpc # "done" \/ \E v \in Writers \ {w} : Writing(v))

\* enqueueContentCatalog: push and serialize in one synchronous stretch.
Enqueue(e) ==
  /\ wpc[e] = "new"
  /\ queue' = Append(queue, [id |-> e, n |-> 0])
  /\ due' = due \cup {e}
  /\ Serialize(e, queue')
  /\ UNCHANGED <<files, fd, drain, boot, remote, budget>>

OpenTmp(w) ==
  /\ wpc[w] = "open"
  /\ tmp' = <<>>
  /\ fd' = [fd EXCEPT ![w] = "tmp"]
  /\ wpc' = [wpc EXCEPT ![w] = "write"]
  /\ UNCHANGED <<mem, main, snap, raced, drain, boot, remote, budget>>

\* The file after writing new from offset 0 over old: a longer old content
\* leaves its last lines behind, the first of them possibly torn (recovery
\* discards a torn line).
Overwrite(old, new) ==
  {new} \cup {new \o SubSeq(old, j, Len(old)) : j \in {Len(new) + 1, Len(new) + 2}}

WriteTmp(w) ==
  /\ wpc[w] = "write"
  /\ \/ fd[w] = "tmp"  /\ tmp' \in Overwrite(tmp, snap[w]) /\ UNCHANGED main
     \/ fd[w] = "main" /\ main' \in Overwrite(main, snap[w]) /\ UNCHANGED tmp
     \/ fd[w] = "replaced" /\ UNCHANGED files
  /\ wpc' = [wpc EXCEPT ![w] = "rename"]
  /\ snap' = [snap EXCEPT ![w] = <<>>]
  /\ UNCHANGED <<mem, fd, raced, drain, boot, remote, budget>>

\* Descriptors on the renamed file now name the queue file; descriptors on
\* the file it replaced name nothing anyone reads.
Rename(w) ==
  /\ wpc[w] = "rename" /\ tmp # NoFile
  /\ main' = tmp /\ tmp' = NoFile
  /\ fd' = [v \in Writers |->
              IF v = w THEN "closed"
              ELSE IF fd[v] = "tmp" THEN "main"
              ELSE IF fd[v] = "main" THEN "replaced" ELSE fd[v]]
  /\ IF w = Drain
       THEN /\ wpc' = [wpc EXCEPT ![w] = "idle"]
            /\ dpc' = "idle"
            /\ UNCHANGED <<batch, gone>>
       ELSE wpc' = [wpc EXCEPT ![w] = "ok"] /\ UNCHANGED drain
  /\ UNCHANGED <<mem, snap, raced, boot, remote, budget>>

\* persistQueue throws: into the caller of enqueueContentCatalog, who only
\* logs it (the entry stays in memory), or out of the drain.
PersistThrows(w) ==
  IF w = Drain
    THEN DrainRejects
    ELSE /\ wpc' = [wpc EXCEPT ![w] = "err"]
         /\ snap' = [snap EXCEPT ![w] = <<>>]
         /\ fd' = [fd EXCEPT ![w] = "closed"]
         /\ UNCHANGED <<mem, drain, boot, exits>>

\* Another writer renamed the shared temporary file away.
RenameMissing(w) ==
  /\ wpc[w] = "rename" /\ tmp = NoFile
  /\ PersistThrows(w)
  /\ UNCHANGED <<files, raced, remote, faults, crashes>>

PersistFault(w) ==
  /\ Writing(w)
  /\ Unlucky /\ faults' = faults + 1
  /\ PersistThrows(w)
  /\ UNCHANGED <<files, raced, remote, crashes>>

---------------------------------------------------------------------------
\* drainOnce, called by the worker's interval.

\* The worker is started after recovery, whether or not that succeeded.
Recovered == rpc \in {"done", "failed"}

DueIndexes == {i \in DOMAIN queue : queue[i].id \in due}

DrainStart ==
  /\ dpc = "idle" /\ Recovered
  /\ DueIndexes # {}
  /\ dpc' = "post" /\ batch' = DueIndexes /\ gone' = {}
  /\ UNCHANGED <<mem, files, writer, boot, remote, budget>>

Current == CHOOSE i \in batch : \A j \in batch : i <= j

\* Mutant: as many entries are dropped as were settled, from the front.
WithoutFront(q, is) == SubSeq(q, Cardinality(is) + 1, Len(q))

\* queue.filter((_, idx) => !toRemove.has(idx))
Without(q, is) ==
  LET Kept == {i \in DOMAIN q : i \notin is}
      At   == [k \in 1..Cardinality(Kept) |->
                 CHOOSE i \in Kept : Cardinality({j \in Kept : j <= i}) = k]
  IN  [k \in DOMAIN At |-> q[At[k]]]

\* The loop moves on; after the last index the queue is filtered and saved.
NextIndex(q, ready, removed) ==
  /\ batch' = batch \ {Current}
  /\ IF batch' # {}
       THEN /\ queue' = q /\ due' = ready
            /\ gone' = removed /\ dpc' = "post"
            /\ UNCHANGED <<wpc, snap, raced>>
       ELSE /\ queue' = Without(q, removed)
            /\ due' = ready \cap Ids(queue')
            /\ gone' = {}
            /\ dpc' = "persist"
            /\ Serialize(Drain, queue')
  /\ UNCHANGED fd

Posted(e) == rows[e] < MaxRows /\ rows' = [rows EXCEPT ![e] = @ + 1]

\* Mutant: a successful write is not marked for removal.
PostOkKept ==
  /\ dpc = "post"
  /\ Posted(queue[Current].id)
  /\ NextIndex(queue, due, gone)
  /\ UNCHANGED <<files, boot, dead, lost, budget>>

PostOk ==
  /\ dpc = "post"
  /\ Posted(queue[Current].id)
  /\ NextIndex(queue, due, gone \cup {Current})
  /\ UNCHANGED <<files, boot, dead, lost, budget>>

Attempted == [queue EXCEPT ![Current].n = @ + 1]

\* Mutant: a retryable failure is rescheduled without counting the attempt.
PostRetryableUncounted ==
  /\ dpc = "post"
  /\ UNCHANGED <<rows, lost>>
  /\ NextIndex(queue, due \ {queue[Current].id}, gone)
  /\ UNCHANGED <<files, boot, dead, budget>>

\* A retryable failure, with or without the row having been written.
PostRetryable ==
  /\ dpc = "post"
  /\ \/ UNCHANGED <<rows, lost>>
     \/ /\ Posted(queue[Current].id)
        /\ lost' = lost \cup {queue[Current].id}
  /\ IF Attempted[Current].n >= MaxAttempts
       THEN /\ queue' = Attempted /\ dpc' = "dead"
            /\ UNCHANGED <<due, writer, batch, gone>>
       ELSE NextIndex(Attempted, due \ {queue[Current].id}, gone)
  /\ UNCHANGED <<files, boot, dead, budget>>

\* A non-retryable answer is dead-lettered at once.
PostPoison ==
  /\ dpc = "post"
  /\ queue' = Attempted /\ dpc' = "dead"
  /\ UNCHANGED <<due, files, writer, batch, gone, boot, remote, budget>>

DeadLetter ==
  /\ dpc = "dead"
  /\ dead' = [dead EXCEPT ![queue[Current].id] = @ + 1]
  /\ NextIndex(queue, due, gone \cup {Current})
  /\ UNCHANGED <<files, boot, rows, lost, budget>>

\* appendFile fails: the drain aborts and removes nothing.
DeadLetterFault ==
  /\ dpc = "dead"
  /\ Unlucky /\ faults' = faults + 1
  /\ DrainRejects
  /\ UNCHANGED <<files, raced, remote, crashes>>

\* nextAttemptAt passes (every backoff is shorter than the drain interval).
BackoffElapses(e) ==
  /\ e \in Ids(queue) \ due
  /\ due' = due \cup {e}
  /\ UNCHANGED <<queue, files, writer, drain, boot, remote, budget>>

---------------------------------------------------------------------------
\* initializeWriteQueue: the server is already accepting requests.

\* Mutant: a missing file is not told apart from a file with entries.
RecoverReadMissing ==
  /\ rpc = "read" /\ rpc' = "set"
  /\ rbuf' = main
  /\ UNCHANGED <<mem, files, writer, drain, remote, budget>>

\* Mutant: recovery finds nothing worth recovering.
RecoverReadNothing ==
  /\ rpc = "read" /\ rpc' = "done"
  /\ rbuf' = <<>>
  /\ UNCHANGED <<mem, files, writer, drain, remote, budget>>

RecoverRead ==
  /\ rpc = "read"
  /\ rpc' = IF main = NoFile THEN "done" ELSE "set"
  /\ rbuf' = IF main = NoFile THEN <<>> ELSE main
  /\ UNCHANGED <<mem, files, writer, drain, remote, budget>>

\* The file exists but cannot be read: the server carries on without it.
RecoverFault ==
  /\ rpc = "read" /\ rpc' = "failed"
  /\ Unlucky /\ faults' = faults + 1
  /\ UNCHANGED <<mem, files, writer, drain, rbuf, remote, crashes, exits>>

\* queue = recovered: whatever was enqueued meanwhile is overwritten.
RecoverSet ==
  /\ rpc = "set" /\ rpc' = "done"
  /\ queue' = rbuf /\ rbuf' = <<>>
  /\ due' = Ids(rbuf)
  /\ UNCHANGED <<files, writer, drain, remote, budget>>

---------------------------------------------------------------------------
Persist(w) == OpenTmp(w) \/ WriteTmp(w) \/ Rename(w) \/ RenameMissing(w)
Post       == PostOk \/ PostRetryable \/ PostPoison
Recover    == RecoverRead \/ RecoverSet

Next ==
  \/ \E e \in Entries : Enqueue(e) \/ BackoffElapses(e)
  \/ \E w \in Writers : Persist(w) \/ PersistFault(w)
  \/ DrainStart \/ Post \/ DeadLetter \/ DeadLetterFault
  \/ Recover \/ RecoverFault
  \/ Crash

Spec == Init /\ [][Next]_vars

\* The interval keeps firing, backoffs elapse and file operations settle.
Fairness ==
  /\ \A e \in Entries : WF_vars(BackoffElapses(e))
  /\ \A w \in Writers : WF_vars(Persist(w))
  /\ WF_vars(DrainStart) /\ WF_vars(Post \/ DeadLetter) /\ WF_vars(Recover)

FairSpec == Spec /\ Fairness

---------------------------------------------------------------------------
(* Properties *)

Lines == Seq(Item) \cup {NoFile}

\* Every variable keeps its type.
TypeOK ==
  /\ queue \in Seq(Item) /\ due \subseteq Entries
  /\ main \in Lines /\ tmp \in Lines
  /\ wpc \in [Writers -> {"idle", "new", "open", "write", "rename", "ok", "err"}]
  /\ snap \in [Writers -> Seq(Item)]
  /\ fd \in [Writers -> {"closed", "tmp", "main", "replaced"}]
  /\ raced \in BOOLEAN
  /\ dpc \in {"idle", "post", "dead", "persist"}
  /\ batch \in SUBSET Nat /\ gone \in SUBSET Nat
  /\ rpc \in {"read", "set", "done", "failed"} /\ rbuf \in Seq(Item)
  /\ rows \in [Entries -> Nat] /\ dead \in [Entries -> Nat]
  /\ lost \subseteq Entries
  /\ faults \in Nat /\ crashes \in Nat /\ exits \in Nat

Settled(e) == rows[e] > 0 \/ dead[e] > 0

\* Without a restart, a failed file operation or an unreported success, an
\* entry is settled once: one row or one dead letter, never two, never both.
SettledOnce ==
  \A e \in Entries :
    crashes + exits + faults = 0 /\ e \notin lost => rows[e] + dead[e] <= 1

\* The queue keeps the promises of Outbox through file races, partial drains,
\* failed file operations, crashes and recovery: writes are attempted only
\* while they are queued, none is ever made up, and until a restart an entry
\* leaves the live queue only because it reached the catalog or the
\* dead-letter file: the removal by index survives every enqueue that lands
\* in the middle of a drain.
Promised ==
  INSTANCE Outbox WITH
    Writes  <- Entries,
    up      <- Recovered,
    offered <- {e \in Entries : wpc[e] # "new"},
    pending <- IF Recovered THEN Ids(queue) ELSE {}

ImplementsOutbox == Promised!Spec

\* "Persisted ... so a service restart doesn't lose writes": an enqueue that
\* resolved is settled or in the queue file.
AcceptedIsDurable ==
  \A e \in Entries :
    wpc[e] = "ok" => Settled(e) \/ (main # NoFile /\ e \in Ids(main))

\* What the file does promise: as long as no persist overlaps another or the
\* boot recovery, a write whose enqueue resolved survives every crash, until
\* it is settled.
DurableUnlessRaced == ~raced => AcceptedIsDurable

\* Every queued write is eventually in the catalog or in the dead-letter
\* file, whatever Neurocore answers, while the process stays up.
QueuedSettles ==
  \A e \in Entries :
    e \in Ids(queue) /\ Recovered ~> Settled(e) \/ crashes + exits > 0

\* A write whose enqueue resolved is eventually settled even across a crash
\* or a failing drain, as long as no persist overlaps another one: what the
\* dead process still owed comes back with boot recovery, if that can read
\* the queue file.
AcceptedSettles ==
  \A e \in Entries : wpc[e] = "ok" ~> Settled(e) \/ raced \/ rpc = "failed"

---------------------------------------------------------------------------
(* The inductive invariant behind TypeOK and ImplementsOutbox              *)

\* An open descriptor names a file that is there.
OpenFiles ==
  \A w \in Writers :
    /\ fd[w] = "tmp" => tmp \in Seq(Item)
    /\ fd[w] = "main" => main \in Seq(Item)

\* The drain works on indexes of the queue, and only while the queue has been
\* set up; what it means to remove is settled.
Indexes ==
  /\ dpc # "idle" => Recovered
  /\ dpc \in {"post", "dead"} <=> batch # {}
  /\ dpc \notin {"post", "dead"} => gone = {}
  /\ batch \cup gone \subseteq DOMAIN queue
  /\ \A i \in gone : Settled(queue[i].id)
  /\ Writing(Drain) => dpc = "persist"
  /\ wpc[Drain] # "new"

\* Whatever is remembered anywhere, somebody offered.
Offered == {e \in Entries : wpc[e] # "new"}

Known ==
  /\ Ids(queue) \cup Ids(rbuf) \subseteq Offered
  /\ \A w \in Writers : Ids(snap[w]) \subseteq Offered
  /\ \A file \in {main, tmp} : file # NoFile => Ids(file) \subseteq Offered

QueueInv == TypeOK /\ OpenFiles /\ Indexes /\ Known

---------------------------------------------------------------------------
(* The inductive invariant behind SettledOnce                              *)

Calm == crashes + exits + faults = 0

Distinct(s) == \A i, j \in DOMAIN s : s[i].id = s[j].id => i = j

Starts(s, q) == \A i \in DOMAIN s : i \in DOMAIN q /\ s[i].id = q[i].id

\* Lines of the queue q in its order, some perhaps missing: what a file holds
\* while the queue only grows.
Trails(s, q) ==
  /\ Distinct(s)
  /\ \A i \in DOMAIN s : \E j \in DOMAIN q : i <= j /\ s[i].id = q[j].id

\* Until boot recovery is over nothing is attempted, and what it finds in the
\* queue file was serialized by enqueues of this process.
Recovering ==
  /\ \A w \in Writers : Starts(snap[w], queue)
  /\ \A file \in {main, tmp} : file # NoFile => Trails(file, queue)
  /\ Trails(rbuf, queue)
  /\ \A e \in Entries : rows[e] + dead[e] = 0

\* An entry is queued once, and is not settled before the drain has put its
\* index aside.
Accounted ==
  /\ Distinct(queue) /\ rpc # "failed"
  /\ batch \cap gone = {}
  /\ ~Recovered => Recovering
  /\ \A e \in Entries :
       /\ wpc[e] = "new" => rows[e] + dead[e] = 0
       /\ e \notin lost => rows[e] + dead[e] <= 1
  /\ \A i \in DOMAIN queue \ gone :
       queue[i].id \notin lost => rows[queue[i].id] + dead[queue[i].id] = 0

OnceInv == QueueInv /\ (Calm => Accounted)

---------------------------------------------------------------------------
(* The inductive invariant behind DurableUnlessRaced                       *)

\* A lone writer brings exactly the entries of the queue to the queue file.
LoneWriter ==
  /\ \A v, w \in Writers : Writing(v) /\ Writing(w) => v = w
  /\ \A w \in Writers : Writing(w) => rpc = "done" /\ (w \in Entries => w \in Ids(queue))
  /\ \A w \in Writers :
       /\ wpc[w] \in {"open", "write"} => Ids(snap[w]) = Ids(queue)
       /\ wpc[w] = "write" => fd[w] = "tmp" /\ tmp = <<>>
       /\ wpc[w] = "rename" => tmp # NoFile /\ Ids(tmp) = Ids(queue)

\* An accepted write that is not settled is in the queue file, in what boot
\* recovery has read of it, and then in the queue.
Kept ==
  \A e \in Entries : wpc[e] = "ok" /\ ~Settled(e) =>
    /\ main # NoFile /\ e \in Ids(main)
    /\ rpc = "set" => e \in Ids(rbuf)
    /\ rpc = "done" => e \in Ids(queue)

DurableInv == QueueInv /\ (~raced => LoneWriter /\ Kept)
=============================================================================
