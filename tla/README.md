# A TLA+ model of DREK

DREK is a single Node process that turns job listings and video ideas into
shooting plans. It polls Neurocore for listings, creates a *plan* document per
listing, runs a four-step LLM pipeline on the plan, lets one operator edit and
publish the result, and reports publications back to Neurocore. Its state is in
Firestore, in a few files under `WORKSPACE_ROOT`, and in the process's memory.
Paths below are relative to `src/src/`.

The process has one thread, so two pieces of code interleave only at an `await`.
Everything hard about it follows from that: a value read before an await and
used after it, several documents written one after the other, calls that fail
half way, and a process that may die at any await and comes back with its
documents and files but without its queues, flags and locks.

## 1. Inventory

| Component | State it keeps | Operations | Correct when |
|---|---|---|---|
| Plan status table (`db/schemas.ts`) | none | `isAllowedPlanTransition` | every status change of a plan follows it |
| Plan store (`db/plans.ts`) | plan documents | create, get, patch (read, check, write), list, find by listing | a patch is checked against the status it replaces |
| Plan lock (`lib/plan-locks.ts`) | a promise chain per plan | `withPlanLock` | one holder per plan, arrival order, a failure does not wedge the next |
| Auto-pipeline (`engine/auto-pipeline.ts`) | FIFO, `queued` set, `draining` flag; `pipelineState` on the plan | enqueue, drain loop, run one, boot pass | one pipeline at a time, no lost wakeup, no plan forgotten, `pipelineState` tells the truth |
| Pipeline (`engine/pipeline.ts` and its four steps) | status, requirements, matches, scenes | detect, match, generate scenes, write scripts | each step leaves from the status it requires |
| Write queue (`neurocore/write-queue.ts`) | in-memory FIFO, queue file, dead-letter file, in-flight promise | enqueue, persist, drain, dead-letter, recover | no accepted write lost, none settled twice, attempts bounded |
| Listing ingestion (`polling/service.ts`, `db/listings.ts`) | cycle mutex; listings; polling config | poll cycle, form submission, settings | one polled plan per listing, ack after plan, nothing stays pending for ever |
| Lifecycle (`index.ts`, `lib/scheduler.ts`, `shutdown.ts`) | timers | boot, ticks, shutdown | a restart at any point is recovered from |
| CLI runner (`providers/`) | circuit breaker per provider, live children | run with retry, kill all | every call settles, the breaker opens and closes as documented |
| LLM steps (`engine/generate-*.ts`, `write-scripts.ts`, `extract-shorts.ts`, ...) | none | read, ask, validate, ask again, store | what is stored fits what it cites |
| `youtube_advanced` workflow (`engine/*-hook*`, `*-title*`, `*-thumbnail*`, `*-shot-list*`, `*-shorts*`, `change-format.ts`) | hook, title and thumbnail drafts, deliverables | generate, select, extract, reset | plan, deliverable and drafts agree on what is selected |
| Publication (`engine/publish-deliverable.ts`) | deliverable status | publish, signal, enqueue catalog row | a published deliverable has one catalog row |
| Brief intake (`intake/`, `engine/transform-brief.ts`, `critique-plan.ts`, `revise-plan.ts`) | briefs, findings, scores | create, score, critique, revise, promote | a brief becomes one plan |
| Scene editing (`db/scenes.ts`, `routes/scenes.tsx`) | scene documents with an order | create, move, delete, replace all | orders stay 1..n |
| YouTube client (`youtube/`), nightly aggregation (`cron/`) | token cache, quota counter | refresh, charge, aggregate | one refresh at a time, quota never exceeded |
| Model configuration, catalog, counters | caches | refresh, read, increment | the freshest value wins |
| Workspace (`workspace/`, bundle export in `routes/deliverables.tsx`) | a folder per plan | create, export bundles | a recorded folder is complete, nobody finds half a file |
| Research (`research/`) | one field of the plan | search, synthesise | a synthesis the schema refuses is not stored |
| Views, prompts, format profiles, logging | none of their own | rendering, text, I/O | not a concern of this project |

How they interact. The scheduler and `POST /poll` start poll cycles; a cycle
creates a plan and calls `enqueuePipeline`. The queue routes and the boot pass
call it too. The drain loop takes the plan lock and runs the pipeline; the run,
analyze, match, generate, finalize and change-format routes take the same lock;
the dismiss routes, the export (`routes/export.tsx:28`) and the routes of a
deliverable write status without it. `publishDeliverable` calls `enqueueContentCatalog`;
an interval drains that queue. On boot, `index.ts` starts queue recovery at
once, the boot pass ten seconds later and the scheduler's jobs after one
interval, while requests are already being served.

Hard behaviours, per component: two callers of one operation between whose check
and act lies an await (enqueue, poll, patch, promote, move scene); one shared
file name for every persist; several documents for one fact (plan and listing;
plan, deliverable and concept); failures outside a `try` that end the process;
restarts between any two writes; redelivery by Neurocore. `PROJECT.json` lists
each at its line under `hazards`.

## 2. The modules

Common conventions. An action is the code between two awaits; its name is the
function's, and a `pc`-like variable holds the await an activation is suspended
on. Documents and files survive a crash, everything else is reset by it. A
Firestore, Neurocore or file call may fail while the mishap budget
(`MaxMishaps`, one bound for failing calls and crashes together) lasts. A call
that reports a failure may have taken effect where its caller can tell
the difference (`Ack`, `ListingFault`, `PostRetryable`).

**PlanStatus** is constant-level: the transition table, `Allowed` and the
runnable statuses. `AutoPipeline` and `Workflow` extend it.

**AutoPipeline** covers `auto-pipeline.ts`, `plan-locks.ts`, `pipeline.ts`, the
status protocol of the four steps and the routes that meet them.

| In the model | In the code |
|---|---|
| `Requests`, `Drainers`, `Boot` | request handlers, activations of `drain()`, the boot pass |
| `queue`, `queued`, `draining` | the module variables of the same names |
| `locks[p]` | the promise chain of plan `p`: the holder first, then waiters |
| `status`, `pstate` | `status` and `pipelineState` of the plan document |
| `want[t]` | the status an issued `patchPlan` has checked and not yet written |
| `todo`, `fill` | the boot pass's snapshot: plans to re-enqueue, plans to backfill |
| `owed` | history only: plans pushed on the queue and not finished since |
| `CallEnqueue`, `EnqueueGet`, `EnqueuePatch` | `enqueuePipeline` up to its first await, up to its second, to its end |
| `Kick`, `Shift`, `NextJob` | `drain()`: the flag, `queue.shift()`, the `finally` that deletes from `queued` |
| `JobGet` ... `JobFail` | `runOne` |
| `PatchRead`, `PatchWrite` | the two halves of `patchPlan` with a status; a patch of `pipelineState` alone depends on nothing it read and is one action |
| `BootList` ... `BootReget` | `recoverAndBackfill` |
| `WorkerRejects` | a failing call outside `runOne`'s `try`: `void drain(opts)` has no catch, so the process exits |
| `Reboot`, `Crash` | the process dies and is started again |

The pipeline is that of a v1 plan (`cover_letter`). The model takes no view of
scene contents, `pipelineError`, ages or the auto-run switch: whether a plan is
fresh enough to be backfilled is a nondeterministic choice. A write that
Firestore applies after the process that issued it has died is not modelled, nor
is a call that never settles.

**WriteQueue** covers `write-queue.ts` down to the file operations. `Writers` are
the enqueuing callers and the drain. `persistQueue` is serialize (in the
caller's synchronous stretch), open-and-truncate, write, rename, because every
call uses the one `.tmp` path. `fd[w]` says what file an open descriptor
now names: after a rename by somebody else it writes straight into the queue
file, and after a second one into a file nobody reads. `Overwrite` is what a
write from offset 0 over a longer content leaves; a torn line, which recovery
discards, is dropped. `rows` is Neurocore's catalog and external. `lost` and
`raced` are history: entries one of whose successful POSTs reported an error,
and whether a persist ever began during another or over a file recovery had not
read. `DrainRejects` models a detail that is easy to miss: `inFlightDrain` is a
second promise derived from the drain, and when the drain rejects with nobody
awaiting it the rejection is unhandled and ends the process. A later tick may
have found the drain in flight at any time before, so whether one is waiting is
chosen when the drain rejects.

**Polling** covers `runPollCycle`, `processListing`, the listing and config
documents, the cover-letter form and the settings. `pending` is what Neurocore
still delivers; `ListingOf` lets several signals be about one listing; `polled`
counts the plans the poll created per listing, `manual` holds listings with a
plan made through the form; `cpc` and `fpc` are where cycles and form
submissions are. Handing a plan to `enqueuePipeline` is one action here: its
inside is `AutoPipeline`'s.

**Outbox** is what the write queue promises, with no files, indexes or drains: a
write offered while the queue is up stays pending until it is in the catalog or
in the dead-letter file, only pending writes are attempted, and a restart brings
back only writes somebody offered. `WriteQueue!ImplementsOutbox` is the
refinement: the queue is up once boot recovery is over (`Recovered`), offered are
the writes whose caller has got as far as `queue.push`, pending are the ids of the
in-memory queue while it is up.

**Workflow** covers a `youtube_advanced` plan from matched projects to published
metadata: scenes, hooks, shot list, titles, thumbnails, shorts, finalize,
publish metadata and the change of format.

| In the model | In the code |
|---|---|
| `Requests`, `req[r]` | a request and the await it is suspended on |
| `Steps` | per route: the statuses it accepts, the one it writes, the documents it touches |
| `lock` | the plan lock; the deliverable routes, the shorts and the export do not take it |
| `scenes` | none made yet, none left, blank or scripted |
| `docs[k]`, `flag[k]` | the stored hook drafts, title and thumbnail concepts, and which are flagged selected |
| `planSel`, `delSel` | the selected ids on the plan and on its deliverable |
| `meta`, `metaRef` | publish metadata, and the deliverable's reference to it |
| `cache`, `made` | the shorts candidates held in memory, the clips made from one of them |
| `Wipe`, `Create`, `CreateFault` | a generation deletes the previous variants, then stores the new ones one by one and wipes them if one fails |
| `FlipHook` | a hook selection: flags, reference and status in one batch |
| `ListVariants`, `Flip`, `Point`, `SyncPlan` | a title or thumbnail selection: list, flag batch, deliverable, plan |
| `ReplaceScenes`, `WriteScripts` | the scenes of a generation, which may be none at all after a second answer, and the attempt to script them that follows |
| `EditScenes` | the user deletes the last scene or adds one where there is none, without the lock |
| `Extracted`, `NothingExtracted` | an extraction that moves the plan on, and one that found no candidate and does not |
| `DrainScenes` ... `DeleteClips` | `changePlanFormatProfile`: five drains, the batch that resets the plan, the clips, of which some may fail to go |
| `spoiled` | history: aspects on which two requests overlapped or one broke off |

Titles, thumbnails and publish metadata each have two routes: that of the plan holds
the lock (`PostGenerateTitles` ...), that of the deliverable does not
(`PostDeliverableTitles` ...); both call the same step. Overlaps without a lock,
`EditScenes`, empty generations, clips that do not go, faults and crashes share the
bound `MaxMishaps`.

**Intake** covers briefs from the form to publication: manual, requested and
background scoring, the transformer with its critic and revisor, edits of the
build plan from a page that may be outdated, stage moves, promotion, and the
look-up of the brief when its video is published, which is made for nothing when
the URL names no video (`hasId`; the last such publications are in `bare`). Several
batches may be scored at once: `queues` holds what is left of each, and `Workers` is
one pool for all of them, where the code starts three per batch. Nothing there is
locked, so an action is the code of one request between two awaits. A build plan is the number
of the transform it came from and a video plan is its position, which is all the
properties need to know of them.

**CliRunner**, **Scenes**, **ModelConfig**, **Channel**, **Generation** and
**Workspace** are small and share no state; **MCServices** puts them in one
specification of which every behaviour picks one, so that one run checks all.
**MCWorkers** does the same for `AutoPipeline` and `WriteQueue` under their fairness.

* `CliRunner`: two calls over one breaker; time passes in ticks. `failures` is the
  breaker's list, `pause` the rest of the break, `past` the history the property
  judges it by. A child ends by itself, by its timeout or its output cap; behind a
  shim (`shim`) the child under it may keep the pipe open (`strays`). A child that
  goes away before it has read its prompt may end the process, since nobody listens
  for errors of its stdin (`ProcessExits`).
* `Scenes`: the orders of the stored scenes, requests to create, move, patch,
  delete, and the pipeline's replacement of all, which may be by none; each is a
  read and a write with an await between. `tangled` is history: two of them
  overlapped or one broke off since the last undisturbed renumbering.
* `ModelConfig`: the cache, its 15-minute timer, forced fetches and the fetch on
  demand, while Neurocore comes and goes.
* `Channel`: quota, access token and one request with its retry, in the nightly
  refresh of stack performance; midnight, an expiring token or a restart may come
  at any step.
* `Generation`: what a step reads, the answer it gets (`Garbage`, or a sequence of
  entries that cite something, cite nothing, or are flawed), what is checked,
  when it asks again (research never does), and what it stores, while scenes are edited without a lock. Of
  an accepted answer the set of what it cites and the number of entries are kept.
* `Workspace`: the creation of a plan's folder, and exports of bundles: per file a
  temporary name, a write and a rename, two exports at a time.

**MCAutoPipeline, MCWriteQueue, MCWorkers, MCPolling, MCWorkflow, MCIntake** define
the instances TLC uses. **AutoPipeline_proofs, Polling_proofs, WriteQueue_proofs,
Workflow_proofs, Intake_proofs, Scenes_proofs, Workspace_proofs, Services_proofs** hold the
theorems; the last one those about `CliRunner`, `Generation`, `Channel` and
`MCServices`.

Definitions called mutants are deliberately broken variants of an action, kept
beside it. None is part of a specification; each shows that a property notices
the bug it is there for.

## 3. What the runs check

| Run | Instance | Shows |
|---|---|---|
| `AutoSafe` | 1 plan, 2 requests, boot pass, 2 drain activations, queue of 2, 1 mishap | `SerialWorker`, `LockExclusion`, `NoLostWakeup`, `RunningIsReal`, `LockedStepsFollowTable` |
| `AutoUnrecoverable` | as `AutoSafe`, no mishap | `OwedIsRecoverable` is violated |
| `AutoTable` | as `AutoSafe`, no mishap | `StatusFollowsTable` is violated |
| `QueueSafe` | 2 entries, 2 attempts, 1 mishap, 2 rows | `SettledOnce`, `DurableUnlessRaced`, and that the queue implements `Outbox` |
| `WorkersLive` | fair; the pipeline's worker with 1 plan, 1 request, 1 drain activation, 1 mishap, or the write queue with 1 entry, 2 attempts, 2 mishaps | `Served`, `RunningSettles`; `QueuedSettles`, `AcceptedSettles` |
| `QueueDurable` | 2 entries, no mishap | `AcceptedIsDurable` is violated |
| `Ingest` | 2 signals about 1 listing, 2 cycles, 1 form, 2 mishaps, fair | `PolledOnce`, `AckedIsPlanned`, `SelectionSurvives`, `Ingested` |
| `IngestListed` | the same, 1 mishap | `AckedIsListed` is violated |
| `WorkflowSafe` | 2 requests, 1 hook, 2 titles, 1 thumbnail, 2 clips, 2 mishaps | `OneFlagged`, `SelectionNamed`, `StageMatchesDocs`, `ApprovedOnce` |
| `WorkflowScripts` | the same | `ScriptsFindHook` is violated |
| `IntakeSafe` | 1 brief, 2 requests at a time and 4 in all, 1 scorer, 1 finding, 1 mishap | `PromotedPlanFindsBrief`, `FindingsAreAboutPlan`, `PublishedIsCatalogued`, `VerdictStands`, `StageFollowsTable` |
| `Services` | 2 calls, 2 scene edits and 3 scenes, 2 videos and stacks with caps of 10 and 20, 2 nightly runs, answers of 2 entries, 2 exports of 2 deliverables with 2 files | `BreakerKeepsWord`, `EveryCallEnds`; `OrdersInLine`, `DeletedStaysDeleted`; `ConfigRecovers`; `QuotaStopsTheRun`; `AnswersFit`; `BundlesWhole` |

Each passing run also checks its module's one type invariant, except `WorkersLive`,
whose two parts are smaller or longer instances of modules the safety runs check.

Why the bounds are enough. The plan lock, the `has()` check and the status table
work plan by plan; the races of the worker are between a plan's own threads, and
two requests, the boot pass and the worker are all the kinds there are. A queue
of two lets a plan be queued twice, the largest surprise the `has()` check
permits. Two drain activations are enough to see two alive at once. For the
write queue, two entries and the drain give three writers of one temporary file,
enough for each descriptor to end up naming each file; two attempts have a
last-but-one and a last. For ingestion, two signals for one listing, a second
cycle and the form cover the ways a second plan could arise. One mishap is one
failing call or one crash, anywhere; the runs where recovery from a mishap can
meet another have two. In `WorkflowSafe` two requests with two mishaps let an
unlocked request overlap a locked one and one of them break off, or a second
overlap follow the first; two titles are what it takes for two to be flagged,
and they stand for the thumbnails, which the same actions treat alike. Two clips
are one more than a format change that deletes only one would leave. In
`IntakeSafe` four requests are a
transform, a promotion and a publication, and one more that spoils them;
scoring of a batch in the background and requests that are one write do not
count. In `Services`, two is the number of actors that can overlap; two scenes
can swap, a third can be in the way; a refresh of
two videos charges 1 unit for the statistics and 5 per video for the analytics,
so that a cap of 10 stops a run between the videos and one of 20 stops only the
second run of a day; answers of two entries can be short, right, repeated or
in part wrong. The breaker's threshold and attempts are the code's, its minute is
scaled to one or two ticks.
The theorems of section 5 do not depend on the bounds.

`AutoSafe` uses symmetry of requests and of drain activations, `QueueSafe` of
entries, `WorkflowSafe` and `IntakeSafe` of requests; the runs with liveness use none.
`AutoSafe` has a view that leaves out what a thread remembers but will not use
again; `QueueSafe` one that leaves out descriptors already written to, a
temporary file nobody will rename, and history its properties no longer ask
for.

`CHECK_DEADLOCK FALSE` is set where the system rightly stops: each entry of the
write queue is enqueued once and nothing is left when all are settled; in
`IntakeSafe` and `Services` the requests, scenes, runs and exports of the
bounds are used up; in `WorkflowSafe` an exported plan whose scenes the user has
deleted takes no further step once the mishaps are spent, and an approval waits for
ever when the clips of the bound are made.

### Fairness

`AutoPipeline!Fairness`: an issued await settles, so every activation that is
suspended eventually takes its next step; a pipeline step may settle by
throwing. Requests, crashes and failures are never forced. `Served` is claimed only while nothing
fails, because a failed `queued` mark really strands the plan until the next
enqueue. `WriteQueue!Fairness`: the 30-second interval keeps firing, backoffs
(at most 16 s) elapse, file operations and POSTs settle, recovery runs. It does
not say that a POST ever succeeds: entries that keep failing reach the
dead-letter file. `Polling!Fairness`: the scheduler keeps ticking
(`setInterval`) and calls settle. A tick that finds a cycle running is lost, so
starting a cycle is only weakly fair. `Ingested` excuses polling being switched
off at some time after the signal arrived. `MCServices!Fairness`: the timeout
of a child fires, a killed child dies and a pause before a retry ends; the
timer of the model configuration fires, and each of its fetches comes
back, with an answer or an error. Neither a success of the model nor Neurocore's
being reachable is assumed: `ConfigRecovers` speaks of behaviours in which
Neurocore stays reachable from some time on, `EveryCallEnds` excepts a child that
outlives its killed shim.

### What the properties found

* **A queued plan can be forgotten by a crash** (`AutoUnrecoverable`). The boot
  pass takes its snapshot while requests are being served. For a plan a request
  has queued meanwhile it writes `idle`, calls `enqueuePipeline`, and that
  returns at its `has()` check without marking the plan again. The plan runs if
  the process lives; if it dies first, nothing on disk says it was owed.
* **A dismissal can be overwritten** (`AutoTable`). `patchPlan` checks one read
  and writes later; the dismiss routes do not take the plan lock.
  `LockedStepsFollowTable` shows that among the worker, the run requests and the
  dismissals a status leaves the table in this race only, which has two outcomes:
  the step's write lands on the dismissal, or the dismissal lands on what a step
  wrote after its check, so that `projects_matched` becomes `dismissed`. The export
  and the deliverable routes write status without the lock too; they are in
  `Workflow`, whose properties say what survives them.
* **An accepted write can be missing from the queue file** (`QueueDurable`). Two
  overlapping enqueues share `.tmp`: the second truncates it, the first renames
  the empty file and resolves. `DurableUnlessRaced` shows the file is reliable
  when persists do not overlap each other or recovery.
* **A listing can be acked and never listed** (`IngestListed`). `upsertListing`
  fails after `createPlan`; on redelivery the existing plan short-circuits
  processing and the signal is acked.
* **Nobody reaches write-scripts with a hook** (`WorkflowScripts`). A comment and an
  error text in `write-scripts.ts:112-119` say that the table brings a
  `youtube_advanced` plan there only after `hook_selected`, and line 188 puts the
  hook's text into the first scene. But scripts are written in the request that
  makes the scenes, from `projects_matched` or `scenes_generated`, before there are
  hooks, and the statuses from `hook_selected` on have no way back there. The step
  throws, and the scripts `generate-scenes.ts:500` leaves to it stay blank. The theorem
  `NeverScripted` shows this is so in every behaviour.

Smaller observations, which no run shows as a violation:

* `enqueuePipeline` can queue a plan twice (its `has()` check precedes an await),
  although its comment says it returns false for a queued plan.
* The header of `write-queue.ts` gives backoffs of "1s, 2s, 4s ..." and
  dead-lettering "on the 6th try", while the first backoff is 2 s and the fifth
  failure dead-letters. `PostRetryable` has the boundary the code has.
* `generate-scenes.ts` (v2, from line 432) asks again when a beat is unknown and
  does not count the scenes of the second answer; even an empty one is stored.
  `BARKER-PLAN-drek-v2-youtube-2026-05-18.md:1195` asks for a rejection and a
  retry. `AnswersFit` therefore excepts an answer that was refused for its beats.
* `planSlug` in `workspace/paths.ts` says it always returns a slug that passes
  `validateSlug`. A title cut at 80 characters may end in a hyphen, and a title
  may be a reserved device name: then no folder is made and `workspacePath` stays
  null. Comments in `workspace/service.ts:79` and `intake/service.ts:300` promise
  a retry; the only callers are the two that create a plan.
* `write-scripts.ts` keeps two scripts for one scene when the answer has two (the
  later wins), the list of requirements may be empty, and
  `ensureCompleteCoverage` lets a finding be both applied and skipped.
* After the kill sweep of a shutdown a failed call backs off and spawns again;
  that child outlives the sweep until the forced exit. `CliRunner` has the
  action; no property claims otherwise.
* `finalize` reads the scenes before it waits for the plan lock and sends those
  scripts to Neurocore, even if a regeneration replaced them meanwhile.
* Two titles (or thumbnails) can be flagged at once: a selection lists the
  concepts and clears those it listed, so one created in between keeps its
  flag. `OneFlagged` states when this is excluded, and that it never happens to
  hooks.
* A URL that passes `YOUTUBE_URL_REGEX` but from which no 11-character id can be
  taken is published and not catalogued (`publish-deliverable.ts:183`, as its line
  59 says); `PublishedIsCatalogued` is about the other URLs.

## 4. What is assumed of the outside

Firestore reads and single-document writes are atomic. A rejected promise nobody
handles ends the process (Node's default), and a service manager restarts it.
Neurocore delivers a signal until an ack takes effect. `fs.writeFile` opens with
truncation and then writes; `rename` replaces atomically.

## 5. What is proved

TLAPS proves, for every value of the constants that satisfies the named
assumptions, and without regard to the bounds:

| Module | Theorems | Inductive invariant |
|---|---|---|
| `AutoPipeline_proofs` | `TypeCorrect`, `WorkerIsSerial`, `PlanLockExcludes`, `WakeupNotLost`, `RunningNamesTheJob`, `LockedWritesFollowTable` | `IInv` |
| `Polling_proofs` | `PollingTypes`, `OnePlanPerListing`, `AckNeverOvertakes`, `SelectionIsKept` | `IInv` |
| `WriteQueue_proofs` | `QueueTypes`, `QueueImplementsOutbox` | `QueueInv` |
| | `NeverSettledTwice` | `OnceInv` |
| | `AcceptedWritesKept` | `DurableInv` |
| `Workflow_proofs` | `WorkflowTypes`, `FlaggedOnce` | `WorkflowInv` |
| | `OneClipPerCandidate`, `NeverScripted` | `PlanInv` |
| | `SelectionAlwaysNamed` | `StageInv` |
| | `StatusTellsTheStore` | `SceneInv` |
| `Intake_proofs` | `IntakeTypes`, `PromotedPlansFindBrief`, `VerdictsStand` | `IntakeInv` |
| | `PublishedAreCatalogued`, `FindingsFollowPlan`, `StagesFollowTable` | `BoardInv` |
| `Scenes_proofs` | `DeletedForGood` | `WritesTouched` |
| | `ScenesTypes`, `OrdersStayInLine` | `ScenesInv` |
| `Workspace_proofs` | `WorkspaceTypes`, `BundlesStayWhole` | `WorkspaceInv` |
| `Services_proofs` | `BreakerAlwaysKeepsWord` | `CliInv` |
| | `AnswersAlwaysFit` | `GenInv` |
| | `ChannelTypes`, `QuotaIsFinal` | `ChannelInv` |
| | `ServicesTypes` | `PartsInv` |

With these every safety property a passing run checks (invariants and action
properties) is a theorem. The strengthened invariants were tried with TLC on small
instances before they were proved (`Matching` with its `j` bounded).

The assumptions are the named `ASSUME`s of the modules: there is a plan, the
kinds of threads are disjoint, the bounds are naturals, `ListingOf` is a
function from signals to listings, each kind has a positive number of variants,
and the values that stand for nothing are none of the values proper (`None` and
`Gone` are no variants, `None` is no brief; `NoFile` is no content of a file).

*The worker.* `SerialWorker` is inductive as it stands: an activation starts only
through `Kick`, which finds the flag down and so nobody alive. `LockExclusion`
is not: nothing in it says why a thread inside the pipeline keeps others out.
`LockHeld` does (a thread inside is the head of its plan's lock queue), and
exclusion follows since a sequence has one head. The table property needs
`PutAllowed`: a checked but unwritten status is still allowed unless the plan was
dismissed since; a dismissal's own write is excused by the property
(`DismissesLate`). That is preserved because, by `LockHeld`, no other thread inside
the pipeline of the same plan writes its status in between. `NoLostWakeup` is
inductive because each append is followed by the appender's own kick.
`RunningIsReal` looks only at the time after the boot pass; `RunningKnown` says what
holds before: a plan marked running is the one the worker is busy with, or the boot
pass has yet to list the plans, has listed this one, or is resetting it; when it is
over nothing is left listed.

*Ingestion.* `PolledOnce` needs that a cycle about to create a plan is right that
there is none (`CreateIsNeeded`), which survives only because no second cycle
runs (`OneCycle`, the mutex). `AckedIsPlanned` needs `AckIsPlanned`: a cycle past
the creation has its plan. `SelectionSurvives` needs `ListedIsPlanned`: a listing
is written at most once, after its plan, so the overwrite never meets a
selection.

*The write queue.* That an entry leaves the queue only when it is settled is about
indexes: the drain collects indexes across many awaits and filters by them at the
end. `Indexes` says that those to remove and those to attempt are indexes of the
present queue, that what is to be removed is settled, and that a drain runs only
after recovery, so that `queue = recovered` never meets one. The lemma
`WithoutKeeps` says what the filter keeps: every entry whose index is not removed.
`Known` says that queue, files, snapshots and what recovery read hold only writes
somebody offered, across overwritten and renamed files; for that `OpenFiles` must
know that an open descriptor names a file that is there. Each step then is an
`Outbox` step or leaves its view unchanged.

`SettledOnce` fails to be inductive for the reason the code could fail: an index
that a drain takes up must not be of an entry it has settled before. `Accounted`
says that an entry is queued once and is unsettled while its index is not set
aside in `gone`. Boot recovery replaces the queue by what it read, so before it is
over nothing may have been settled at all, and what it reads are earlier states
of this very queue: `Trails`, in `Recovering`, says that an entry of a file is no
later in the queue than in the file.

`DurableUnlessRaced` rests on `LoneWriter`: without a race there is one persist at a
time, what it serialized is still exactly the queue when it renames, and its
temporary file is its own. `Kept` follows an accepted write from the file through
the reading and setting of recovery back into the queue, so that the next persist
cannot drop it.

*The workflow.* `OneFlagged` is about a selection that clears the variants it
listed and flags another. `Locked` says that whatever touches the hooks holds the
plan lock, so no hook appears between list and flags. For titles and thumbnails
`Apart` says that two requests at work on one kind have spoiled it, and `Chosen`
that otherwise the flagged variants are among those listed. A format change
removes what an earlier one that broke off had left flagged, so `Flags` excepts a
kind it has yet to clear (`Clearing`). The type of `clips`, a number that is
counted down, needs that a format change has listed only clips that are still there.

`ApprovedOnce` needs `OneApproval`: unless the shorts are spoiled, an approval has
them to itself from its check to its eviction, so a candidate is made once and
leaves the cache after. `NeverScripted` needs `Hookless`: no hook is selected
while the status is early or scenes are generated, which holds because the steps
that move the early statuses hold the plan lock (`Path` ties places to steps).

`SelectionNamed` and `StageMatchesDocs` are about a status that several requests
write with no lock, long after they have checked it. `Phases` says that the steps up
to the shot list have the status to themselves and that later ones never see it
back there; `Window` that a request alone with a kind meets the status it began
at; `LateWrites` which late statuses a stale write, finalize's above all, can no
longer meet. With the status thus pinned down, `Stages` gives per kind what
is stored, flagged and named at each place of the one request at work on it, and
`Published` does so for the metadata. `Alone` is what `spoiled` stands for: two
requests at work on one aspect have spoiled it. `ScenesThere` adds, for
`StatusTellsTheStore`, that scenes exist from their generation until a format change
is at work, and that a finalize about to write has seen a plan past
`projects_matched`.

*The intake.* Nothing is locked here, so the argument is about identities. A
verdict could be lost by a finding stored over the one it is on; `Numbered` says
that a transform which has not stored its findings shares its number with no
other such transform and with no finding, so keys stay unique, and a revisor marks only
findings of its own number. `PromotedPlanFindsBrief` needs `Promotions`: a
promotion about to commit is of a brief without a plan and alone with it, unless
a second one has passed the same check, which is what the check read before an
await cannot exclude. `Placed` says what each process holds where it stands.

`BoardInv` carries the three properties about overlaps. `Exclusive` says that two
processes on one aspect of a brief have spoiled it; `Moves` then keeps a checked stage
move legal until it is written. `FindingsAreAboutPlan` needs to know, place by
place of a transform, whose findings are stored (`Fit`: the old plan's until they are
unlinked, none, then its own) and that no two transforms share a number
(`Transforms`); with nobody at work the findings are those of the stored plan
(`Reviewed`). `PublishedIsCatalogued` is about publications whose URL names a video
and whose brief had a build plan then; it needs that no build plan is ever taken
away (`Lookups`), so the look-up after publication finds what publication saw.

*Scenes.* A prepared batch updates documents and fails if one is
missing; `WritesTouched` says it holds none its request has not read, and a
deletion in between makes it fail. `OrdersInLine` is a statement about quiet
moments; `ScenesInv` says what holds in between. `Unshared`: who is not in `overlap`
is alone. `Current`: what such a request has read is what is stored, so a
renumbering writes 1 .. n whatever was there. `Straight`: untangled scenes are a
bijection onto 1 .. n (`Lined`) except between the two steps of a delete, and what a
swap is about to write keeps them so. The lemmas say that a listing, a swap, an
appended scene and a replacement are in line.

*The circuit breaker.* The code keeps only recent failures and the time its break
ends; the property judges it by all failures since the last success. `Matching`
aligns the two lists from their ends: where both have an entry the ages agree as
far as they are recent, and where one is longer its surplus is old. `Pausing` says
the rest of the break is what the youngest rapid run of failures opened. Both use
that ages never rise along the list (`Falling`). `Counted` is there because a
call that has used up its attempts must not wait for another.

*Generation.* `Accepted` says that what waits to be stored fits the scenes the
step has read, in first and second answers alike. `AnswersFit` judges what was
stored for as long as the scenes are those that were read, or those that the step
itself has just stored.

*Quota, bundles.* `ChannelInv` adds that calls are made in the
two phases that ask, and that a run that met the quota is over. `WorkspaceInv`
adds that a temporary file belongs to the export in its name (`OwnTemps`), how far
the loops are (`InLoop`), and that an export that met no other is alone (`Apart`).

*Side by side.* A step of one part of `MCServices` is a stutter of the others
(`OnePartMoves`), so the conjunction of the parts' invariants is an invariant of the
composition, and `TypesOK` follows.

Only model-checked: liveness, which is out of the prover's reach (`Served`,
`RunningSettles`, `QueuedSettles`, `AcceptedSettles`, `Ingested`, `EveryCallEnds`,
`ConfigRecovers`).

## 6. What is not modelled, and what could come next

Modelled in part, and where the rest is: routes that only read or that edit one
field of one document; the publication of a clip; the token refresh shared by
concurrent callers (the one caller today is sequential); recording sessions and
footage (single writes); the timers of the scheduler, of which only the ticks
are modelled.

Worth adding:

1. Ingestion and pipeline composed: a polled plan, handed over or backfilled by the
   boot pass, is eventually worked on.
2. The arithmetic of scores and of runtimes against a reference definition.

Left out for good: views, prompts, profiles and logging (text, no state), the search
behind research (stateless calls of others), the catalog of models, counters
shown to an administrator, `deletePlan` and `deleteListing` (no caller in the
service), scripts and tests.
