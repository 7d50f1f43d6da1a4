------------------------------ MODULE Workflow ------------------------------
(***************************************************************************)
(* The youtube_advanced workflow of one plan: scenes, hooks, shot list,    *)
(* titles, thumbnails, shorts, finalize, publish metadata, export and the  *)
(* change of format that takes everything back (src/engine/generate-*.ts,  *)
(* select-*.ts, extract-shorts.ts, change-format.ts and their routes).     *)
(*                                                                         *)
(* The routes of the plan run under the plan lock; those of a deliverable, *)
(* the shorts and the export do not.  An action is the code between two    *)
(* awaits.  The variants of a kind are deleted all at once, so the stored ones  *)
(* are numbered from 1; the id of a deleted one, which no store call tells *)
(* from any other missing id, is Gone wherever it is still written down.   *)
(***************************************************************************)
EXTENDS PlanStatus, Naturals, FiniteSets

CONSTANTS
  Requests,    \* HTTP requests in flight at the same time
  Variants,    \* per kind: how many variants one generation creates
  None, Gone,
  MaxClips,    \* bound: short_clip deliverables of the plan
  MaxMishaps   \* bound: unlocked overlaps, scenes emptied or begun by hand, failing
               \* store operations and crashes

Kinds   == {"hook", "title", "thumb"}
Aspects == Kinds \cup {"meta", "short"}

ASSUME VariantsAssumption == Variants \in [Kinds -> Nat \ {0}]
ASSUME AbsentAssumption ==
  /\ None \notin Nat \cup Requests \cup {Gone}
  /\ Gone \notin Nat
ASSUME BoundsAssumption == MaxClips \in Nat /\ MaxMishaps \in Nat

VARIABLES
  status,    \* plan.status
  scenes,    \* the plan's scenes: "none" (not made yet, or taken by a format change),
             \* "empty" (none left), "blank" (without the hook's text) or "scripted"
  docs,      \* per kind: how many variants are stored, numbered 1 .. docs[k]
  flag,      \* per kind: those with selected = true
  planSel,   \* plan.selectedHookVariantId / TitleVariantId / ThumbnailConceptId
  delSel,    \* the same two fields of the long-form deliverable
  meta,      \* the publish_metadata document exists
  metaRef,   \* deliverable.publishMetadataId = 'current'
  cache,     \* the in-process shorts cache holds an unapproved candidate
  made,      \* clips made from the candidate of the latest extraction
  clips,     \* short_clip deliverables of the plan
  lock,      \* holder of the plan lock
  req,       \* per request: where it is and what it has read
  spoiled,   \* history: aspects whose last steps overlapped or broke off
  mishaps    \* of the bounded events, how many so far

refs   == <<planSel, delSel>>
store  == <<status, scenes, docs, flag, planSel, delSel, meta, metaRef, clips>>
shorts == <<cache, made>>
vars   == <<status, scenes, docs, flag, planSel, delSel, meta, metaRef, cache, made,
            clips, lock, req, spoiled, mishaps>>

Unlucky == mishaps < MaxMishaps

---------------------------------------------------------------------------
(* The steps: the plan statuses a step accepts (entry), what else it needs, *)
(* the status it moves the plan to and from which statuses it does so, and  *)
(* the first thing it does once its checks passed and the model answered.   *)

Step(op, entry, moves, to, first, touches) ==
  [op |-> op, entry |-> entry, moves |-> moves, to |-> to, first |-> first,
   touches |-> touches]

NoStep == Step("none", {}, {}, "none", "idle", {})

GenerateScenes ==
  Step("generateScenes", {"projects_matched", "scenes_generated"},
       {"projects_matched", "scenes_generated"}, "scenes_generated", "replace", {})

GenerateHookVariants ==
  Step("generateHookVariants", {"scenes_generated", "hooks_generated"},
       {"scenes_generated", "hooks_generated"}, "hooks_generated", "wipe", {"hook"})

SelectHook ==
  Step("selectHook", {"hooks_generated", "hook_selected"},
       {"hooks_generated", "hook_selected"}, "hook_selected", "flipAll", {"hook"})

GenerateShotList ==
  Step("generateShotList", {"hook_selected", "shot_list_generated"},
       {"hook_selected"}, "shot_list_generated", "shots", {})

GenerateTitleVariants ==
  Step("generateTitleVariants", {"shot_list_generated", "titles_generated"},
       {"shot_list_generated"}, "titles_generated", "wipe", {"title"})

SelectTitle ==
  Step("selectTitle", {"titles_generated", "title_selected"},
       {"titles_generated"}, "title_selected", "list", {"title"})

GenerateThumbnailConcepts ==
  Step("generateThumbnailConcepts", {"title_selected", "thumbnails_generated"},
       {"title_selected"}, "thumbnails_generated", "wipe", {"thumb"})

SelectThumbnail ==
  Step("selectThumbnail", {"thumbnails_generated", "thumbnail_selected"},
       {"thumbnails_generated"}, "thumbnail_selected", "list", {"thumb"})

\* Re-extraction from a later status does not roll the status back.
ExtractShortsCandidates ==
  Step("extractShortsCandidates",
       {"thumbnail_selected", "shorts_extracted", "finalized", "metadata_generated"},
       {"thumbnail_selected"}, "shorts_extracted", "extract", {"short"})

GeneratePublishMetadata ==
  Step("generatePublishMetadata", {"finalized", "metadata_generated"},
       {"finalized"}, "metadata_generated", "upsert", {"meta"})

ApproveShortCandidate ==
  Step("approveShortCandidate", Statuses, {}, "none", "make", {"short"})

\* finalize has no check of its own: any status, the table decides later.
Finalize == Step("finalize", Statuses, Statuses, "finalized", "queued", {})

Export == Step("export", {"finalized"}, {"finalized"}, "exported", "check", {})

NoWipeStatuses == {"awaiting_review", "dismissed", "requirements_reviewed",
                   "projects_matched"}

\* At a no-wipe status only the format id is written: nothing kept here.
ChangePlanFormatProfile ==
  Step("changePlanFormatProfile", Statuses \ (NoWipeStatuses \cup {"exported"}),
       {}, "projects_matched", "scenes", Aspects)

Steps == {GenerateScenes, GenerateHookVariants, SelectHook, GenerateShotList,
          GenerateTitleVariants, SelectTitle, GenerateThumbnailConcepts,
          SelectThumbnail, ExtractShortsCandidates, GeneratePublishMetadata,
          ApproveShortCandidate, Finalize, Export, ChangePlanFormatProfile}

KindOf(step) == CHOOSE k \in Kinds : k \in step.touches

---------------------------------------------------------------------------
(* Requests *)

Idle == [pc |-> "idle", step |-> NoStep, locked |-> FALSE, moving |-> FALSE,
         pick |-> None, created |-> 0, seen |-> {}, listed |-> 0]

Stored(k) == 1 .. docs[k]

Active(r) == req[r].pc # "idle"
At(r, pc) == req[r].pc = pc
Goto(r, pc) == req' = [req EXCEPT ![r].pc = pc]

Init ==
  /\ status = "projects_matched" /\ scenes = "none"
  /\ docs = [k \in Kinds |-> 0] /\ flag = [k \in Kinds |-> {}]
  /\ planSel = [k \in Kinds |-> None]
  /\ delSel = [k \in {"title", "thumb"} |-> None]
  /\ meta = FALSE /\ metaRef = FALSE
  /\ cache = FALSE /\ made = 0 /\ clips = 0
  /\ lock = None /\ req = [r \in Requests |-> Idle]
  /\ spoiled = {} /\ mishaps = 0

\* What two overlapping requests spoil: both move the plan's status, so all
\* either of them touches.  Two locked ones do not overlap.
Clash(locked, step, other) ==
  IF other.pc = "idle" \/ (locked /\ other.locked) THEN {}
  ELSE step.touches \cup other.step.touches

\* A format change on its own starts from a clean slate.
Overlaps(r, locked, step) ==
  LET clash == UNION {Clash(locked, step, req[o]) : o \in Requests \ {r}}
  IN  IF step = ChangePlanFormatProfile /\ clash = {}
        THEN spoiled \cap {"short"}
        ELSE spoiled \cup clash

\* Another request is at work, and no lock keeps the two apart.
Meets(r, locked) ==
  \E o \in Requests \ {r} : Active(o) /\ ~(locked /\ req[o].locked)

\* The checks a step makes before it does anything, in one read.
Begin(r, step, locked, pick) ==
  /\ ~Active(r)
  /\ status \in step.entry
  /\ locked => lock = None
  /\ lock' = IF locked THEN r ELSE lock
  /\ req' = [req EXCEPT ![r] =
               [pc |-> step.first, step |-> step, locked |-> locked,
                moving |-> status \in step.moves, pick |-> pick, created |-> 0, seen |-> {},
                listed |-> IF step = ChangePlanFormatProfile THEN clips ELSE 0]]
  /\ spoiled' = Overlaps(r, locked, step)
  /\ IF Meets(r, locked) THEN Unlucky /\ mishaps' = mishaps + 1 ELSE UNCHANGED mishaps
  /\ UNCHANGED <<store, shorts>>

Release(r) == lock' = IF lock = r THEN None ELSE lock

End(r) == req' = [req EXCEPT ![r] = Idle] /\ Release(r)

\* The work is done: move the plan, or end.
Proceed(r) ==
  IF req[r].moving
    THEN Goto(r, "check") /\ UNCHANGED lock
    ELSE End(r)

---------------------------------------------------------------------------
(* The routes *)

HasScenes == scenes \in {"blank", "scripted"}

PostGenerate(r)         == Begin(r, GenerateScenes, TRUE, None)
PostGenerateHooks(r)    == Begin(r, GenerateHookVariants, TRUE, None)
PostSelectHook(r)       == \E p \in Stored("hook") : Begin(r, SelectHook, TRUE, p)
PostGenerateShotList(r) == HasScenes /\ Begin(r, GenerateShotList, TRUE, None)
PostChangeFormat(r)     == Begin(r, ChangePlanFormatProfile, TRUE, None)

\* Three steps have a route of the plan, which holds the lock, and one of the
\* deliverable, which does not.
PostGenerateTitles(r)     == Begin(r, GenerateTitleVariants, TRUE, None)
PostDeliverableTitles(r)  == Begin(r, GenerateTitleVariants, FALSE, None)

PostGenerateThumbnails(r) ==
  delSel.title # None /\ Begin(r, GenerateThumbnailConcepts, TRUE, None)
PostDeliverableThumbnails(r) ==
  delSel.title # None /\ Begin(r, GenerateThumbnailConcepts, FALSE, None)

Describable == delSel.title # None /\ delSel.thumb # None /\ HasScenes

PostGenerateMetadata(r) ==
  Describable /\ Begin(r, GeneratePublishMetadata, TRUE, None)
PostDeliverableMetadata(r) ==
  Describable /\ Begin(r, GeneratePublishMetadata, FALSE, None)

PostSelectTitle(r) ==
  \E p \in Stored("title") : Begin(r, SelectTitle, FALSE, p)

PostSelectThumbnail(r) ==
  \E p \in Stored("thumb") : Begin(r, SelectThumbnail, FALSE, p)

PostExtractShorts(r) ==
  HasScenes /\ Begin(r, ExtractShortsCandidates, FALSE, None)

\* The candidate is looked up in the cache before the first await.
PostApproveShort(r) ==
  cache /\ Begin(r, ApproveShortCandidate, FALSE, None)

GetExport(r) == Begin(r, Export, FALSE, None)

\* finalize reads plan and scenes, then waits for the lock.
PostFinalize(r) ==
  /\ ~Active(r) /\ HasScenes
  /\ req' = [req EXCEPT ![r] =
               [Idle EXCEPT !.pc = "queued", !.step = Finalize, !.locked = TRUE]]
  /\ UNCHANGED <<store, shorts, lock, spoiled, mishaps>>

FinalizeUnderLock(r) ==
  /\ At(r, "queued") /\ lock = None
  /\ lock' = r /\ Goto(r, "check")
  /\ UNCHANGED <<store, shorts, spoiled, mishaps>>

\* Dismissing a candidate, and the hour after which the cache forgets it.
PostDismissShort ==
  /\ cache /\ cache' = FALSE
  /\ UNCHANGED <<store, made, lock, req, spoiled, mishaps>>

---------------------------------------------------------------------------
(* The plan document *)

\* patchPlan reads the plan and checks the transition ...
PatchCheck(r) ==
  /\ At(r, "check")
  /\ IF Allowed(status, req[r].step.to)
       THEN Goto(r, "write") /\ UNCHANGED lock
       ELSE End(r)
  /\ UNCHANGED <<store, shorts, spoiled, mishaps>>

\* ... and writes it.
PatchWrite(r) ==
  /\ At(r, "write")
  /\ status' = req[r].step.to
  /\ planSel' = IF req[r].step \in {SelectTitle, SelectThumbnail}
                  THEN [planSel EXCEPT ![KindOf(req[r].step)] = req[r].pick]
                  ELSE planSel
  /\ CASE req[r].step = GenerateScenes          -> Goto(r, "scripts") /\ UNCHANGED lock
       [] req[r].step = ExtractShortsCandidates -> Goto(r, "cache") /\ UNCHANGED lock
       [] OTHER                                 -> End(r)
  /\ UNCHANGED <<scenes, docs, flag, delSel, meta, metaRef, clips, shorts, spoiled, mishaps>>

---------------------------------------------------------------------------
(* Scenes and scripts *)

\* An answer asked for because of unknown beats is not counted again, and may
\* have no scene in it.
ReplaceScenes(r) ==
  /\ At(r, "replace")
  /\ \/ scenes' = "blank" /\ UNCHANGED mishaps
     \/ scenes' = "empty" /\ Unlucky /\ mishaps' = mishaps + 1
  /\ Proceed(r)
  /\ UNCHANGED <<status, docs, flag, refs, meta, metaRef, clips, shorts, spoiled>>

\* The user deletes the last scene, or adds one where there is none, at any
\* status and without the lock.
EditScenes ==
  /\ scenes' = IF HasScenes THEN "empty" ELSE "blank"
  /\ Unlucky /\ mishaps' = mishaps + 1
  /\ UNCHANGED <<status, docs, flag, refs, meta, metaRef, clips, shorts, lock, req, spoiled>>

\* writeScripts, called right after: without a scene or a selected hook it throws.
WriteScripts(r) ==
  /\ At(r, "scripts")
  /\ scenes' = IF HasScenes /\ planSel.hook # None /\ flag.hook # {} THEN "scripted" ELSE scenes
  /\ End(r)
  /\ UNCHANGED <<status, docs, flag, refs, meta, metaRef, clips, shorts, spoiled, mishaps>>

\* Camera directions are patched into the scenes one by one; not kept here.
PatchShots(r) ==
  /\ At(r, "shots")
  /\ Proceed(r)
  /\ UNCHANGED <<store, shorts, spoiled, mishaps>>

---------------------------------------------------------------------------
(* Variants: wiped, created one by one, selected *)

\* All variants of kind k are deleted: a reference to one dangles.
Dangling(x) == IF x \in Nat THEN Gone ELSE x

Delete(k) ==
  /\ docs' = [docs EXCEPT ![k] = 0]
  /\ flag' = [flag EXCEPT ![k] = {}]
  /\ planSel' = [planSel EXCEPT ![k] = Dangling(@)]
  /\ delSel' = [j \in DOMAIN delSel |->
                  IF j = k THEN Dangling(delSel[j]) ELSE delSel[j]]

\* What the other requests had read of them names nothing any more.
Outdated(k) ==
  [o \in Requests |->
     IF req[o].step.touches = {k}
       THEN [req[o] EXCEPT !.pick = Dangling(@), !.seen = {Dangling(x) : x \in @}]
       ELSE req[o]]

Wipe(r) ==
  /\ At(r, "wipe")
  /\ Delete(KindOf(req[r].step))
  /\ req' = [Outdated(KindOf(req[r].step)) EXCEPT ![r].pc = "create"]
  /\ UNCHANGED <<status, scenes, meta, metaRef, clips, shorts, lock, spoiled, mishaps>>

Create(r) ==
  /\ At(r, "create")
  /\ LET k == KindOf(req[r].step)
         n == req[r].created + 1
     IN  /\ docs' = [docs EXCEPT ![k] = @ + 1]
         /\ IF n < Variants[k]
              THEN req' = [req EXCEPT ![r].created = n] /\ UNCHANGED lock
              ELSE Proceed(r)
  /\ UNCHANGED <<status, scenes, flag, refs, meta, metaRef, clips, shorts, spoiled, mishaps>>

\* A create fails: what is there is wiped, if that works.
CreateFault(r) ==
  /\ At(r, "create")
  /\ Unlucky /\ mishaps' = mishaps + 1
  /\ Delete(KindOf(req[r].step))
  /\ req' = [Outdated(KindOf(req[r].step)) EXCEPT ![r] = Idle]
  /\ Release(r)
  /\ spoiled' = spoiled \cup req[r].step.touches
  /\ UNCHANGED <<status, scenes, meta, metaRef, clips, shorts>>

\* selectHook: flags, reference and status in one batch.
FlipHook(r) ==
  /\ At(r, "flipAll")
  /\ flag' = [flag EXCEPT !.hook = {req[r].pick}]
  /\ planSel' = [planSel EXCEPT !.hook = req[r].pick]
  /\ status' = "hook_selected"
  /\ End(r)
  /\ UNCHANGED <<scenes, docs, delSel, meta, metaRef, clips, shorts, spoiled, mishaps>>

\* setSelectedTitleConcept, setSelectedThumbnailConcept: list all ...
ListVariants(r) ==
  /\ At(r, "list")
  /\ LET k == KindOf(req[r].step)
     IN  IF req[r].pick \in Stored(k)
           THEN /\ req' = [req EXCEPT ![r].pc = "flip", ![r].seen = Stored(k)]
                /\ UNCHANGED lock
           ELSE End(r)
  /\ UNCHANGED <<store, shorts, spoiled, mishaps>>

\* Mutant: only the chosen variant is updated.
FlipOne(r) ==
  /\ At(r, "flip")
  /\ LET k == KindOf(req[r].step)
     IN  IF req[r].pick \in Stored(k)
           THEN /\ flag' = [flag EXCEPT ![k] = @ \cup {req[r].pick}]
                /\ req' = [req EXCEPT ![r].pc = "point", ![r].seen = {}]
                /\ UNCHANGED lock
           ELSE End(r) /\ UNCHANGED flag
  /\ UNCHANGED <<status, scenes, docs, refs, meta, metaRef, clips, shorts, spoiled, mishaps>>

\* ... and update all in one batch, which fails if one of them is missing.
Flip(r) ==
  /\ At(r, "flip")
  /\ LET k == KindOf(req[r].step)
     IN  IF req[r].seen \subseteq Stored(k)
           THEN /\ flag' = [flag EXCEPT ![k] = (@ \ req[r].seen) \cup {req[r].pick}]
                /\ req' = [req EXCEPT ![r].pc = "point", ![r].seen = {}]
                /\ UNCHANGED lock
           ELSE End(r) /\ UNCHANGED flag
  /\ UNCHANGED <<status, scenes, docs, refs, meta, metaRef, clips, shorts, spoiled, mishaps>>

\* Mutant: the deliverable is not told.
PointNowhere(r) ==
  /\ At(r, "point")
  /\ IF req[r].moving
       THEN Goto(r, "check") ELSE Goto(r, "sync")
  /\ UNCHANGED <<store, lock, shorts, spoiled, mishaps>>

\* patchDeliverable.
Point(r) ==
  /\ At(r, "point")
  /\ delSel' = [delSel EXCEPT ![KindOf(req[r].step)] = req[r].pick]
  /\ IF req[r].moving
       THEN Goto(r, "check") ELSE Goto(r, "sync")
  /\ UNCHANGED <<status, scenes, docs, flag, planSel, meta, metaRef, clips, lock,
                 shorts, spoiled, mishaps>>

\* Already selected: only the plan's copy of the reference is patched.
SyncPlan(r) ==
  /\ At(r, "sync")
  /\ planSel' = [planSel EXCEPT ![KindOf(req[r].step)] = req[r].pick]
  /\ End(r)
  /\ UNCHANGED <<status, scenes, docs, flag, delSel, meta, metaRef, clips, shorts,
                 spoiled, mishaps>>

---------------------------------------------------------------------------
(* Publish metadata and shorts *)

UpsertMetadata(r) ==
  /\ At(r, "upsert")
  /\ meta' = TRUE
  /\ Goto(r, "link")
  /\ UNCHANGED <<status, scenes, docs, flag, refs, metaRef, clips, shorts, lock, spoiled, mishaps>>

LinkMetadata(r) ==
  /\ At(r, "link")
  /\ metaRef' = TRUE
  /\ Proceed(r)
  /\ UNCHANGED <<status, scenes, docs, flag, refs, meta, clips, shorts, spoiled, mishaps>>

Extracted(r) ==
  /\ At(r, "extract")
  /\ IF req[r].moving THEN Goto(r, "check") ELSE Goto(r, "cache")
  /\ UNCHANGED <<store, shorts, lock, spoiled, mishaps>>

\* No candidate is worth keeping: the status stays, the empty list is cached.
NothingExtracted(r) ==
  /\ At(r, "extract")
  /\ cache' = FALSE
  /\ End(r)
  /\ UNCHANGED <<store, made, spoiled, mishaps>>

\* The fresh candidates replace the cached ones.
CacheCandidates(r) ==
  /\ At(r, "cache")
  /\ cache' = TRUE /\ made' = 0
  /\ req' = [o \in Requests |->
               IF o = r THEN Idle
               ELSE IF req[o].step = ApproveShortCandidate THEN [req[o] EXCEPT !.pick = Gone]
               ELSE req[o]]
  /\ spoiled' = IF \E o \in Requests : req[o].step = ApproveShortCandidate
                  THEN spoiled ELSE spoiled \ {"short"}
  /\ UNCHANGED <<store, lock, mishaps>>

MakeClip(r) ==
  /\ At(r, "make") /\ clips < MaxClips
  /\ clips' = clips + 1
  /\ made' = IF req[r].pick = Gone THEN made ELSE made + 1
  /\ Goto(r, "evict")
  /\ UNCHANGED <<status, scenes, docs, flag, refs, meta, metaRef, cache, lock, spoiled, mishaps>>

\* Mutant: the approved candidate stays in the cache.
EvictNothing(r) ==
  /\ At(r, "evict")
  /\ End(r)
  /\ UNCHANGED <<store, shorts, spoiled, mishaps>>

EvictCandidates(r) ==
  /\ At(r, "evict")
  /\ cache' = FALSE
  /\ End(r)
  /\ UNCHANGED <<store, made, spoiled, mishaps>>

---------------------------------------------------------------------------
(* changePlanFormatProfile: one drain after the other, then one batch *)

DrainScenes(r) ==
  /\ At(r, "scenes")
  /\ scenes' = "none"
  /\ Goto(r, "hook")
  /\ UNCHANGED <<status, docs, flag, refs, meta, metaRef, clips, shorts, lock, spoiled, mishaps>>

AfterDrain == [hook |-> "title", title |-> "thumb", thumb |-> "meta"]

\* Mutant: the thumbnails are forgotten.
DrainTwo(r) ==
  \E k \in Kinds :
    /\ At(r, k)
    /\ IF k = "thumb" THEN UNCHANGED <<docs, flag, refs>> ELSE Delete(k)
    /\ req' = [Outdated(k) EXCEPT ![r].pc = AfterDrain[k]]
    /\ UNCHANGED <<status, scenes, meta, metaRef, clips, shorts, lock, spoiled, mishaps>>

Drain(r) ==
  \E k \in Kinds :
    /\ At(r, k)
    /\ Delete(k)
    /\ req' = [Outdated(k) EXCEPT ![r].pc = AfterDrain[k]]
    /\ UNCHANGED <<status, scenes, meta, metaRef, clips, shorts, lock, spoiled, mishaps>>

DrainMetadata(r) ==
  /\ At(r, "meta")
  /\ meta' = FALSE
  /\ Goto(r, "reset")
  /\ UNCHANGED <<status, scenes, docs, flag, refs, metaRef, clips, shorts, lock, spoiled, mishaps>>

ResetFields(r) ==
  /\ At(r, "reset")
  /\ status' = "projects_matched"
  /\ planSel' = [k \in Kinds |-> None]
  /\ delSel' = [k \in DOMAIN delSel |-> None]
  /\ metaRef' = FALSE
  /\ Goto(r, "clips")
  /\ UNCHANGED <<scenes, docs, flag, meta, clips, shorts, lock, spoiled, mishaps>>

\* Mutant: one clip is taken for granted.
DeleteOneClip(r) ==
  /\ At(r, "clips")
  /\ clips' = clips - 1
  /\ End(r)
  /\ UNCHANGED <<status, scenes, docs, flag, refs, meta, metaRef, shorts, spoiled, mishaps>>

\* The clips listed at the beginning go; one whose deletion fails is logged
\* and left, and the next one is tried.
DeleteClips(r) ==
  /\ At(r, "clips")
  /\ \E left \in 0 .. req[r].listed :
       /\ clips' = (clips - req[r].listed) + left
       /\ IF left > 0 THEN Unlucky /\ mishaps' = mishaps + 1 ELSE UNCHANGED mishaps
  /\ End(r)
  /\ UNCHANGED <<status, scenes, docs, flag, refs, meta, metaRef, shorts, spoiled>>

---------------------------------------------------------------------------
(* Failures *)

\* The language model fails or its answer is refused twice.
ModelFails(r) ==
  /\ \/ req[r].pc \in {"wipe", "shots", "extract", "upsert"}
     \/ At(r, "replace")
  /\ End(r)
  /\ UNCHANGED <<store, shorts, spoiled, mishaps>>

\* A store operation fails: the request ends where it is.
StoreFault(r) ==
  /\ req[r].pc \notin {"idle", "queued", "cache", "evict", "clips"}
  /\ Unlucky /\ mishaps' = mishaps + 1
  /\ End(r)
  /\ spoiled' = spoiled \cup req[r].step.touches
  /\ UNCHANGED <<store, shorts>>

\* The process dies: requests, lock and cache go, the store stays.
Crash ==
  /\ Unlucky /\ mishaps' = mishaps + 1
  /\ req' = [r \in Requests |-> Idle] /\ lock' = None
  /\ cache' = FALSE
  /\ spoiled' = spoiled \cup UNION {req[r].step.touches : r \in Requests}
  /\ UNCHANGED <<store, made>>

---------------------------------------------------------------------------
Routes(r) ==
  \/ PostGenerate(r) \/ PostGenerateHooks(r) \/ PostSelectHook(r)
  \/ PostGenerateShotList(r) \/ PostSelectTitle(r) \/ PostSelectThumbnail(r)
  \/ PostGenerateTitles(r) \/ PostDeliverableTitles(r)
  \/ PostGenerateThumbnails(r) \/ PostDeliverableThumbnails(r)
  \/ PostExtractShorts(r) \/ PostApproveShort(r) \/ PostFinalize(r)
  \/ PostGenerateMetadata(r) \/ PostDeliverableMetadata(r)
  \/ GetExport(r) \/ PostChangeFormat(r)

Work(r) ==
  \/ FinalizeUnderLock(r) \/ PatchCheck(r) \/ PatchWrite(r)
  \/ ReplaceScenes(r) \/ WriteScripts(r) \/ PatchShots(r)
  \/ Wipe(r) \/ Create(r)
  \/ FlipHook(r) \/ ListVariants(r) \/ Flip(r) \/ Point(r) \/ SyncPlan(r)
  \/ UpsertMetadata(r) \/ LinkMetadata(r)
  \/ Extracted(r) \/ NothingExtracted(r) \/ CacheCandidates(r)
  \/ MakeClip(r) \/ EvictCandidates(r)
  \/ DrainScenes(r) \/ Drain(r) \/ DrainMetadata(r) \/ ResetFields(r) \/ DeleteClips(r)

Next ==
  \/ \E r \in Requests :
       Routes(r) \/ Work(r) \/ ModelFails(r) \/ StoreFault(r) \/ CreateFault(r)
  \/ PostDismissShort \/ EditScenes
  \/ Crash

Spec == Init /\ [][Next]_vars

---------------------------------------------------------------------------
(* Properties *)

Refs == Nat \cup {None, Gone}

Places ==
  {"idle", "queued", "check", "write", "replace", "scripts", "shots", "wipe", "create",
   "flipAll", "list", "flip", "point", "sync", "upsert", "link", "extract", "cache", "make",
   "evict", "scenes", "hook", "title", "thumb", "meta", "reset", "clips"}

Request ==
  [pc : Places, step : Steps \cup {NoStep}, locked : BOOLEAN, moving : BOOLEAN,
   pick : Refs, created : Nat, seen : SUBSET Refs, listed : Nat]

\* Every variable keeps its type.
TypeOK ==
  /\ status \in Statuses /\ scenes \in {"none", "empty", "blank", "scripted"}
  /\ docs \in [Kinds -> Nat] /\ flag \in [Kinds -> SUBSET Nat]
  /\ planSel \in [Kinds -> Refs] /\ delSel \in [{"title", "thumb"} -> Refs]
  /\ meta \in BOOLEAN /\ metaRef \in BOOLEAN /\ cache \in BOOLEAN
  /\ made \in Nat /\ clips \in Nat
  /\ lock \in Requests \cup {None}
  /\ req \in [Requests -> Request]
  /\ spoiled \subseteq Aspects /\ mishaps \in Nat

\* No request is working on aspect a, and its last steps neither overlapped
\* another request nor broke off, since the last format change at least.
Settled(a) ==
  /\ a \notin spoiled
  /\ \A r \in Requests : a \notin req[r].step.touches

\* A variant is flagged only while it exists, however selections, generations,
\* format changes and failures interleave, and never two of a kind.  Hooks are
\* flagged and listed under one lock; a title or thumbnail created after a
\* selection listed the others may escape it, so there two may be flagged
\* while selections and generations of that kind overlap, and after.
OneFlagged ==
  \A k \in Kinds :
    /\ flag[k] \subseteq Stored(k)
    /\ k = "hook" \/ Settled(k) => Cardinality(flag[k]) <= 1

Early == {"projects_matched", "scenes_generated"}

\* The statuses before the variants of a kind are made, the one they are made
\* at, and those from their selection on, as far as they tell.
Unmade ==
  [hook  |-> Early,
   title |-> Early \cup {"hooks_generated", "hook_selected", "shot_list_generated"},
   thumb |-> Early \cup {"hooks_generated", "hook_selected", "shot_list_generated",
                         "titles_generated", "title_selected"}]

MadeAt == [hook |-> "hooks_generated", title |-> "titles_generated",
           thumb |-> "thumbnails_generated"]

Decided ==
  [hook  |-> {"hook_selected", "shot_list_generated", "titles_generated", "title_selected",
              "thumbnails_generated", "thumbnail_selected", "shorts_extracted"},
   title |-> {"title_selected", "thumbnails_generated", "thumbnail_selected",
              "shorts_extracted", "metadata_generated"},
   thumb |-> {"thumbnail_selected", "shorts_extracted", "metadata_generated"}]

Agreed(k) == k # "hook" => delSel[k] = planSel[k]
Unset(k)  == planSel[k] = None /\ Agreed(k)
Picked(k) == planSel[k] \in Stored(k) /\ flag[k] = {planSel[k]} /\ Agreed(k)

\* From the selection of a hook, title or thumbnail on, the reference names
\* an existing variant, it is the flagged one, and the plan and its
\* deliverable agree on it.
SelectionNamed ==
  \A k \in Kinds : Settled(k) /\ status \in Decided[k] => Picked(k)

\* Before a stage is generated nothing of it exists, so a format change leaves
\* nothing behind, not even what an earlier one that broke off had left; a
\* stage the status claims is there; so are the scenes from their generation on,
\* until the user deletes them, a generation that came out empty aside; and the
\* deliverable refers to metadata exactly when there is some.
StageMatchesDocs ==
  /\ \A k \in Kinds : Settled(k) =>
       /\ status \in Unmade[k] => docs[k] = 0 /\ Unset(k)
       /\ status = MadeAt[k] => docs[k] > 0
  /\ Settled("hook") /\ status # "projects_matched" => scenes # "none"
  /\ Settled("meta") => metaRef = meta /\ (status = "metadata_generated" => meta)

\* A candidate becomes at most one deliverable, unless two requests worked on
\* the plan's shorts at the same time.
ApprovedOnce == "short" \notin spoiled => made <= 1

\* "The transition table should prevent reaching write-scripts without a hook
\* selection on youtube_advanced plans" (write-scripts.ts:112): when the scripts
\* of a plan are about to be written, its hook is selected.
ScriptsFindHook == \A r \in Requests : At(r, "scripts") => planSel["hook"] # None

---------------------------------------------------------------------------
(* The inductive invariant behind TypeOK and OneFlagged                    *)

\* Where a request stands tells what its step is about.
InStep ==
  \A r \in Requests :
    /\ At(r, "idle") => req[r] = Idle
    /\ At(r, "queued") => req[r].step = Finalize
    /\ At(r, "write") => req[r].step.to \in Statuses
    /\ req[r].pc \in {"wipe", "create"} => \E k \in Kinds : req[r].step.touches = {k}
    /\ At(r, "flipAll") => req[r].step.touches = {"hook"}
    /\ req[r].pc \in {"list", "flip", "point", "sync"} =>
         \E k \in {"title", "thumb"} : req[r].step.touches = {k}
    /\ req[r].pc \in {"scenes", "hook", "title", "thumb", "meta", "reset", "clips"} =>
         req[r].step = ChangePlanFormatProfile

\* Whatever touches the hooks, a format change included, holds the lock, and
\* a format change has listed clips that are still there.
Locked ==
  \A r \in Requests :
    /\ req[r].locked /\ req[r].pc \notin {"idle", "queued"} => lock = r
    /\ "hook" \in req[r].step.touches => req[r].locked
    /\ req[r].step = ChangePlanFormatProfile => req[r].listed <= clips

\* Two requests at work on one kind spoil it.
Apart ==
  \A k \in Kinds \ spoiled : \A r, o \in Requests :
    k \in req[r].step.touches \cap req[o].step.touches => r = o

\* A chosen variant exists as long as nobody else may touch its kind, and is
\* among those that were listed.
Chosen ==
  \A r \in Requests :
    /\ At(r, "flipAll") => req[r].pick \in Stored("hook")
    /\ At(r, "flip") =>
         /\ req[r].pick \in req[r].seen
         /\ \A k \in Kinds \ spoiled : req[r].step.touches = {k} => flag[k] \subseteq req[r].seen

One(S) == \A x, y \in S : x = y

\* A format change has yet to delete the variants of kind k.
Clearing(k) ==
  \E r \in Requests :
    /\ req[r].step = ChangePlanFormatProfile
    /\ req[r].pc \in {"scenes", "hook", "title"} \cup {k}

\* A selection flags one variant in place of all others.
Flags ==
  \A k \in Kinds :
    /\ flag[k] \subseteq Stored(k)
    /\ k = "hook" => One(flag[k])
    /\ k \notin spoiled => One(flag[k]) \/ Clearing(k)

WorkflowInv == TypeOK /\ InStep /\ Locked /\ Apart /\ Chosen /\ Flags

---------------------------------------------------------------------------
(* The inductive invariants behind ApprovedOnce and NeverScripted          *)

\* Every place belongs to the steps that go through it.
Path ==
  \A r \in Requests :
    /\ req[r].pc \in {"wipe", "create"} =>
         req[r].step \in {GenerateHookVariants, GenerateTitleVariants, GenerateThumbnailConcepts}
    /\ req[r].pc \in {"list", "flip", "point", "sync"} =>
         req[r].step \in {SelectTitle, SelectThumbnail}
    /\ At(r, "flipAll") => req[r].step = SelectHook
    /\ req[r].pc \in {"replace", "scripts"} => req[r].step = GenerateScenes
    /\ At(r, "shots") => req[r].step = GenerateShotList
    /\ req[r].pc \in {"upsert", "link"} => req[r].step = GeneratePublishMetadata
    /\ req[r].pc \in {"extract", "cache"} => req[r].step = ExtractShortsCandidates
    /\ req[r].pc \in {"make", "evict"} => req[r].step = ApproveShortCandidate
    /\ req[r].pc \in {"check", "write"} =>
         /\ req[r].step \notin {NoStep, SelectHook, ApproveShortCandidate,
                                ChangePlanFormatProfile}
         /\ req[r].moving \/ req[r].step = Finalize
    /\ req[r].step \in {GenerateScenes, GenerateHookVariants, SelectHook, GenerateShotList,
                        ChangePlanFormatProfile, Finalize} => req[r].locked
    /\ req[r].step \in {GenerateScenes, GenerateHookVariants, SelectHook} => req[r].moving

\* An approval at work has the plan's shorts to itself, its candidate is
\* still to be made into a clip or made and still in the cache.
OneApproval ==
  "short" \notin spoiled =>
    /\ \A a, o \in Requests :
         req[a].step = ApproveShortCandidate /\ "short" \in req[o].step.touches => a = o
    /\ made <= 1
    /\ cache => made = 0 \/ \E r \in Requests : At(r, "evict")
    /\ \A r \in Requests : At(r, "make") => made = 0

\* No hook is selected while scenes are generated, nor while they may be.
Hookless ==
  /\ status \in Early \/ (\E r \in Requests : req[r].step = GenerateScenes)
       => planSel["hook"] = None
  /\ scenes # "scripted"

PlanInv == WorkflowInv /\ Path /\ OneApproval /\ Hookless

---------------------------------------------------------------------------
(* The inductive invariant behind SelectionNamed and StageMatchesDocs      *)

Alone ==
  \A r, o \in Requests :
    r # o /\ req[r].step \notin {NoStep, Finalize} /\ req[o].step \notin {NoStep, Finalize}
      => (req[r].step.touches \cup req[o].step.touches) \ {"short"} \subseteq spoiled

Ruined == Aspects \ {"short"} \subseteq spoiled

EarlySteps == {GenerateScenes, GenerateHookVariants, SelectHook, GenerateShotList}

LateSteps == {GenerateTitleVariants, SelectTitle, GenerateThumbnailConcepts, SelectThumbnail,
              ExtractShortsCandidates, GeneratePublishMetadata, Export}

\* Steps before the shot list have the status to themselves; later steps
\* share the later statuses with each other and with finalize.
Phases ==
  ~Ruined => \A r \in Requests :
    /\ req[r].step \in EarlySteps /\ req[r].moving => status \in req[r].step.moves
    /\ req[r].step \in LateSteps =>
         status \notin Early \cup {"hooks_generated", "hook_selected"}

\* A request alone with a kind meets the status it began at.
Window ==
  \A r \in Requests, k \in {"title", "thumb"} \ spoiled :
    req[r].step.touches = {k} =>
      IF req[r].moving THEN status \in req[r].step.moves
      ELSE /\ status \notin Unmade[k]
           /\ req[r].step.to = MadeAt[k] => status = MadeAt[k]
           /\ req[r].step.to # MadeAt[k] => status # MadeAt[k]

\* What a stale write to a late status cannot meet: finalize and all that
\* follows does not wait for the title and the thumbnail, their steps do.
TitleSteps == {GenerateTitleVariants, SelectTitle}
LastSteps  == {ExtractShortsCandidates, GeneratePublishMetadata, Export}
Ahead == {"shot_list_generated", "titles_generated", "title_selected", "thumbnails_generated"}

LateWrites ==
  \A r \in Requests :
    /\ At(r, "write") /\ req[r].step = Finalize /\ "title" \notin spoiled =>
         status \notin {"shot_list_generated", "titles_generated"}
    /\ "thumb" \notin spoiled =>
         /\ At(r, "write") /\ req[r].step = Finalize => status \notin Ahead
         /\ req[r].step \in LastSteps => status \notin Ahead
         /\ req[r].step \in TitleSteps => status \in Ahead \ {"thumbnails_generated"}

\* What the status says of the variants of kind k while nobody works on them.
Held(k) ==
  /\ Unset(k) \/ Picked(k)
  /\ status \in Unmade[k] => docs[k] = 0 /\ Unset(k)
  /\ status = MadeAt[k] => docs[k] > 0 /\ Unset(k)
  /\ status \in Decided[k] => Picked(k)

\* How far request r, alone with kind k, has come.
Progress(r, k) ==
  /\ req[r].pc \in {"wipe", "list", "flipAll", "flip"} => Held(k)
  /\ At(r, "wipe") => Unset(k) /\ req[r].created = 0
  /\ At(r, "list") => req[r].pick \in Stored(k)
  /\ At(r, "create") => docs[k] = req[r].created /\ req[r].created < Variants[k] /\ Unset(k)
  /\ At(r, "flip") => req[r].pick \in Stored(k) /\ req[r].seen = Stored(k)
  /\ req[r].pc \in {"check", "write"} /\ req[r].step.to = MadeAt[k] => docs[k] > 0 /\ Unset(k)
  /\ req[r].pc \in {"point", "sync"} => req[r].pick \in Stored(k) /\ flag[k] = {req[r].pick}
  /\ At(r, "sync") => delSel[k] = req[r].pick /\ ~req[r].moving
  /\ req[r].pc \in {"check", "write"} /\ req[r].step.to # MadeAt[k] =>
       /\ req[r].pick \in Stored(k) /\ flag[k] = {req[r].pick}
       /\ delSel[k] = req[r].pick

\* What format change r has cleared of kind k.
Cleared(r, k) ==
  /\ req[r].pc \in ([hook |-> {"title", "thumb"}, title |-> {"thumb"}, thumb |-> {}])[k]
                   \cup {"meta", "reset", "clips"} => docs[k] = 0
  /\ At(r, "clips") => status = "projects_matched" /\ Unset(k)

\* The steps that need the selection of kind k.
Users ==
  [hook  |-> {GenerateShotList, GenerateTitleVariants, SelectTitle, GenerateThumbnailConcepts,
              SelectThumbnail, ExtractShortsCandidates},
   title |-> {GenerateThumbnailConcepts, SelectThumbnail, ExtractShortsCandidates,
              GeneratePublishMetadata},
   thumb |-> {ExtractShortsCandidates, GeneratePublishMetadata}]

Uses(r, k) ==
  req[r].step \in Users[k] /\ (req[r].step = ExtractShortsCandidates => req[r].moving)

Stage(k) ==
  /\ Settled(k) => Held(k)
  /\ \A r \in Requests :
       /\ req[r].step.touches = {k} => Progress(r, k)
       /\ req[r].step = ChangePlanFormatProfile => Cleared(r, k)
       /\ Uses(r, k) => Picked(k)

Stages == \A k \in Kinds \ spoiled : Stage(k)

\* Publish metadata, its reference and the status that claims it.
Published ==
  "meta" \notin spoiled =>
    /\ Settled("meta") => metaRef = meta /\ (status = "metadata_generated" => meta)
    /\ \A r \in Requests :
         /\ At(r, "upsert") => metaRef = meta /\ (status = "metadata_generated" => meta)
         /\ At(r, "link") => meta
         /\ req[r].pc \in {"check", "write"} /\ req[r].step = GeneratePublishMetadata =>
              meta /\ metaRef
         /\ req[r].pc \in {"reset", "clips"} => ~meta
         /\ At(r, "clips") => ~metaRef /\ status = "projects_matched"

StageInv == PlanInv /\ Alone /\ Phases /\ Window /\ LateWrites /\ Stages /\ Published

\* The scenes are there from their generation until a format change takes the
\* plan back, and a finalize that has checked the status has found them.
ScenesThere ==
  /\ \A r \in Requests :
       At(r, "write") /\ req[r].step = Finalize => status # "projects_matched"
  /\ "hook" \notin spoiled =>
       /\ \/ status = "projects_matched" \/ scenes # "none"
          \/ \E r \in Requests : req[r].step = ChangePlanFormatProfile
       /\ \A r \in Requests :
            req[r].pc \in {"check", "write", "scripts"} /\ req[r].step = GenerateScenes =>
              scenes # "none"

SceneInv == StageInv /\ ScenesThere
=============================================================================
