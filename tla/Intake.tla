------------------------------- MODULE Intake -------------------------------
(***************************************************************************)
(* The intake of briefs (src/intake/, src/engine/transform-brief.ts,       *)
(* src/engine/publish-deliverable.ts, src/routes/intake.tsx): briefs are   *)
(* scored by hand, by the model or in the background for a whole batch,    *)
(* transformed into a build plan that a critic and a revisor go over,      *)
(* edited, moved between stages, promoted to a video plan, and looked up   *)
(* again when that plan's video is published.                              *)
(*                                                                         *)
(* Nothing is locked here.  A process is a request or a background scoring *)
(* worker; an action is its code between two awaits.  A build plan is the  *)
(* number of the transform it came from, a video plan its position.        *)
(***************************************************************************)
EXTENDS Naturals, Sequences, FiniteSets

CONSTANTS
  Briefs,       \* the briefs that will ever be posted
  Requests,     \* HTTP requests in flight at the same time
  Workers,      \* scoring workers: BATCH_SCORING_CONCURRENCY of them per batch
  None,
  MaxFindings,  \* bound: findings of one critique
  MaxRequests,  \* bound: requests in all, but for those of a single write
  MaxMishaps    \* bound: requests that overlap others, faults and crashes

Procs == Requests \cup Workers

ASSUME ProcsAssumption == Requests \cap Workers = {} /\ None \notin Briefs
ASSUME BoundsAssumption ==
  MaxFindings \in Nat \ {0} /\ MaxRequests \in Nat /\ MaxMishaps \in Nat

VARIABLES
  brief,      \* pipeline_briefs: one record per brief
  findings,   \* critique_findings: a set of records
  plans,      \* video plans: the brief each was promoted from, or None
  published,  \* plans whose video is published
  catalog,    \* of these, the ones enqueued for the content catalog
  queues,     \* the batches still to be scored, each a sequence (in memory)
  page,       \* the build plan each brief's page shows in the browser
  proc,       \* per process: where it is and what it has read
  transforms, \* transforms begun so far
  spoiled,    \* history: aspects of briefs whose writers overlapped or broke off
  bare,       \* history: plans whose last publication needs no row: their brief
              \* had no build plan yet, the URL no video id, or it was cut off
  requests, mishaps

docs   == <<brief, findings, plans, published, catalog>>
memory == <<queues, page>>
hist   == <<spoiled, bare>>
vars   == <<brief, findings, plans, published, catalog, queues, page, proc, transforms,
            spoiled, bare, requests, mishaps>>

Unlucky == mishaps < MaxMishaps

---------------------------------------------------------------------------
(* Briefs *)

Stages == {"candidate", "vetted", "selected", "in_production", "published", "retired"}

StageTable ==
  [candidate     |-> {"vetted", "retired"},
   vetted        |-> {"selected", "candidate", "retired"},
   selected      |-> {"in_production", "vetted", "retired"},
   in_production |-> {"published", "selected", "retired"},
   published     |-> {"retired"},
   retired       |-> {"candidate"}]

\* Whose score it is, and whether it passes the gate of the transformer.
Scores == [by : {"none", "model", "hand"}, fit : BOOLEAN]

Unscored == [by |-> "none", fit |-> FALSE]

NewBrief == [is |-> "new", stage |-> "candidate", score |-> Unscored, plan |-> 0,
             promoted |-> 0]

Stored(b) == brief[b].is = "stored"

FindingsOf(b) == {f \in findings : f.brief = b}

---------------------------------------------------------------------------
(* Processes *)

Idle == [pc |-> "idle", aspect |-> "none", brief |-> None, n |-> 0, stage |-> "none",
         todo |-> {}, found |-> {}]

Active(p) == proc[p].pc # "idle"
At(p, pc) == proc[p].pc = pc
Goto(p, pc) == proc' = [proc EXCEPT ![p].pc = pc]
End(p)      == proc' = [proc EXCEPT ![p] = Idle]

Init ==
  /\ brief = [b \in Briefs |-> NewBrief] /\ findings = {}
  /\ plans = <<>> /\ published = {} /\ catalog = {}
  /\ queues = {} /\ page = [b \in Briefs |-> 0]
  /\ proc = [p \in Procs |-> Idle] /\ transforms = 0
  /\ spoiled = {} /\ bare = {} /\ requests = 0 /\ mishaps = 0

\* A request is let in.
Answered == requests < MaxRequests /\ requests' = requests + 1

\* A promotion moves the brief's stage as well.
Writes(aspect) == IF aspect = "promotion" THEN {"promotion", "stage"} ELSE {aspect}

\* What of the brief another process is already working on.
Overlapped(r, aspect, b) ==
  {<<b, a>> : a \in {w \in Writes(aspect) :
     \E p \in Procs \ {r} : proc[p].brief = b /\ w \in Writes(proc[p].aspect)}}

\* Request r starts to work on an aspect of brief b.
Begin(r, aspect, b, pc, n) ==
  /\ ~Active(r) /\ Answered
  /\ proc' = [proc EXCEPT ![r] = [Idle EXCEPT !.pc = pc, !.aspect = aspect,
                                              !.brief = b, !.n = n]]
  /\ spoiled' = spoiled \cup Overlapped(r, aspect, b)
  /\ IF \E p \in Procs : Active(p) THEN Unlucky /\ mishaps' = mishaps + 1
                                   ELSE UNCHANGED mishaps
  /\ UNCHANGED <<docs, memory, bare>>

---------------------------------------------------------------------------
(* Creating, deleting, looking at briefs *)

CreatePipelineBrief(b) ==
  /\ brief[b].is = "new"
  /\ brief' = [brief EXCEPT ![b].is = "stored"]
  /\ UNCHANGED <<findings, plans, published, catalog, memory, proc, transforms, hist,
                 requests, mishaps>>

\* A batch is stored at once and scored in the background, with a queue of its
\* own.
CreateBriefBatchWithScoring(bs) ==
  /\ \A i \in DOMAIN bs : brief[bs[i]].is = "new"
  /\ brief' = [b \in Briefs |-> IF \E i \in DOMAIN bs : bs[i] = b
                                  THEN [brief[b] EXCEPT !.is = "stored"] ELSE brief[b]]
  /\ queues' = queues \cup {bs}
  /\ UNCHANGED <<findings, plans, published, catalog, page, proc, transforms, hist,
                 requests, mishaps>>

Batches == {bs \in UNION {[1 .. n -> Briefs] : n \in 1 .. Cardinality(Briefs)} :
              \A i, j \in DOMAIN bs : i # j => bs[i] # bs[j]}

\* One brief or several, in one batch; their findings are not cascaded to.
DeletePipelineBriefs(bs) ==
  /\ bs # {}
  /\ brief' = [b \in Briefs |-> IF b \in bs THEN [brief[b] EXCEPT !.is = "deleted"]
                                            ELSE brief[b]]
  /\ spoiled' = spoiled \cup {<<b, "plan">> : b \in bs}
  /\ UNCHANGED <<findings, plans, published, catalog, memory, proc, transforms, bare,
                 requests, mishaps>>

\* The bulk action skips briefs that are gone already.
ApplyBulkDelete(bs) == DeletePipelineBriefs({b \in bs : Stored(b)})

\* The browser shows the brief's build plan until the page is loaded again.
GetBriefPage(b) ==
  /\ Stored(b) /\ page[b] # brief[b].plan
  /\ page' = [page EXCEPT ![b] = brief[b].plan]
  /\ UNCHANGED <<docs, queues, proc, transforms, hist, requests, mishaps>>

---------------------------------------------------------------------------
(* Scores *)

\* A background worker takes the next brief of a batch.
TakeNext(w) ==
  /\ ~Active(w)
  /\ \E batch \in queues :
       /\ queues' = (queues \ {batch}) \cup ({Tail(batch)} \ {<<>>})
       /\ proc' = [proc EXCEPT ![w] = [Idle EXCEPT !.pc = "read", !.aspect = "score",
                                                   !.brief = Head(batch)]]
       /\ spoiled' = spoiled \cup Overlapped(w, "score", Head(batch))
  /\ UNCHANGED <<docs, page, transforms, bare, requests, mishaps>>

PostScore(r, b) ==
  brief[b].is # "new" /\ Begin(r, "score", b, "read", 0) /\ UNCHANGED transforms

\* scoreBriefViaLLM: the brief is read, the model is asked ...
ScoreRead(p) ==
  /\ At(p, "read")
  /\ IF Stored(proc[p].brief) THEN Goto(p, "score") ELSE End(p)
  /\ UNCHANGED <<docs, memory, transforms, hist, requests, mishaps>>

\* Mutant: the whole brief is written back as it was when scoring began.
ScoreSaveAll(p) ==
  /\ At(p, "score")
  /\ LET b == proc[p].brief
     IN  \E fit \in BOOLEAN :
           brief' = IF Stored(b)
                      THEN [brief EXCEPT ![b].score = [by |-> "model", fit |-> fit],
                                         ![b].promoted = 0]
                      ELSE brief
  /\ End(p)
  /\ UNCHANGED <<findings, plans, published, catalog, memory, transforms, hist, requests,
                 mishaps>>

\* ... and its score replaces whatever is there.
ScoreSave(p) ==
  /\ At(p, "score")
  /\ LET b == proc[p].brief
     IN  \E fit \in BOOLEAN :
           brief' = IF Stored(b)
                      THEN [brief EXCEPT ![b].score = [by |-> "model", fit |-> fit]]
                      ELSE brief
  /\ End(p)
  /\ UNCHANGED <<findings, plans, published, catalog, memory, transforms, hist, requests,
                 mishaps>>

\* The model fails, or twice answers nonsense: the score stays.
ScoreFails(p) ==
  /\ At(p, "score")
  /\ End(p)
  /\ UNCHANGED <<docs, memory, transforms, hist, requests, mishaps>>

PatchScore(r, b) ==
  Stored(b) /\ Begin(r, "score", b, "override", 0) /\ UNCHANGED transforms

\* Mutant: the axes are stored without what the gate reads.
OverrideScorePartly(p) ==
  /\ At(p, "override")
  /\ brief' = [brief EXCEPT ![proc[p].brief].score = [by |-> "hand"]]
  /\ End(p)
  /\ UNCHANGED <<findings, plans, published, catalog, memory, transforms, hist, requests,
                 mishaps>>

OverrideScore(p) ==
  /\ At(p, "override")
  /\ LET b == proc[p].brief
     IN  \E fit \in BOOLEAN :
           brief' = IF Stored(b)
                      THEN [brief EXCEPT ![b].score = [by |-> "hand", fit |-> fit]]
                      ELSE brief
  /\ End(p)
  /\ UNCHANGED <<findings, plans, published, catalog, memory, transforms, hist, requests,
                 mishaps>>

---------------------------------------------------------------------------
(* Stages *)

\* Mutant: a stage move looks at nothing but the brief's existence.
StageCheckAny(p, b, to) ==
  proc' = [proc EXCEPT ![p] = [Idle EXCEPT !.pc = "stage", !.aspect = "stage",
             !.brief = b, !.stage = to, !.todo = proc[p].todo \ {b}]]

\* transitionBriefStage reads the stage and checks the move ...
StageCheck(p, b, to) ==
  /\ to \in StageTable[brief[b].stage]
  /\ proc' = [proc EXCEPT ![p] = [Idle EXCEPT !.pc = "stage", !.aspect = "stage",
                !.brief = b, !.stage = to, !.todo = proc[p].todo \ {b}]]

PostStage(r, b, to) ==
  /\ ~Active(r) /\ Stored(b) /\ Answered
  /\ StageCheck(r, b, to)
  /\ spoiled' = spoiled \cup Overlapped(r, "stage", b)
  /\ IF \E p \in Procs : Active(p) THEN Unlucky /\ mishaps' = mishaps + 1
                                   ELSE UNCHANGED mishaps
  /\ UNCHANGED <<docs, memory, transforms, bare>>

\* Several briefs are retired one after the other; a failure skips one.
PostBulkRetire(r, bs) ==
  /\ ~Active(r) /\ bs # {} /\ Answered
  /\ proc' = [proc EXCEPT ![r] = [Idle EXCEPT !.pc = "bulk", !.todo = bs]]
  /\ UNCHANGED <<docs, memory, transforms, hist, mishaps>>

RetireNext(p) ==
  /\ At(p, "bulk")
  /\ \E b \in proc[p].todo :
       IF Stored(b) /\ brief[b].stage # "retired"
         THEN /\ StageCheck(p, b, "retired")
              /\ spoiled' = spoiled \cup Overlapped(p, "stage", b)
         ELSE /\ proc' = [proc EXCEPT ![p] =
                    IF proc[p].todo = {b} THEN Idle
                      ELSE [proc[p] EXCEPT !.todo = proc[p].todo \ {b}]]
              /\ UNCHANGED spoiled
  /\ UNCHANGED <<docs, memory, transforms, bare, requests, mishaps>>

\* ... and patches it.
StageSave(p) ==
  /\ At(p, "stage")
  /\ brief' = IF Stored(proc[p].brief)
                THEN [brief EXCEPT ![proc[p].brief].stage = proc[p].stage] ELSE brief
  /\ IF proc[p].todo = {}
       THEN End(p)
       ELSE proc' = [proc EXCEPT ![p] = [Idle EXCEPT !.pc = "bulk", !.todo = proc[p].todo]]
  /\ UNCHANGED <<findings, plans, published, catalog, memory, transforms, hist, requests,
                 mishaps>>

---------------------------------------------------------------------------
(* Build plans: draft, critique, revision, save *)

PostTransform(r, b) ==
  /\ Stored(b) /\ brief[b].score.by # "none" /\ brief[b].score.fit
  /\ transforms' = transforms + 1
  /\ Begin(r, "plan", b, "draft", transforms')

\* The draft is there; whether it is criticised is a setting.  Without a
\* critique the findings on the previous plan stay.
Drafted(p) ==
  /\ At(p, "draft")
  /\ \/ Goto(p, "query") /\ UNCHANGED spoiled
     \/ /\ Goto(p, "save")
        /\ spoiled' = spoiled \cup
             {<<b, "plan">> : b \in {proc[p].brief} \cap {f.brief : f \in findings}}
  /\ UNCHANGED <<docs, memory, transforms, bare, requests, mishaps>>

\* deleteFindingsByBriefId: the query, then one batch of deletes.
QueryFindings(p) ==
  /\ proc[p].pc \in {"query", "undo"}
  /\ LET found == FindingsOf(proc[p].brief)
         next  == IF At(p, "query") THEN "unlink" ELSE "unlinkUndo"
     IN  proc' = [proc EXCEPT ![p].pc = next, ![p].found = found]
  /\ UNCHANGED <<docs, memory, transforms, hist, requests, mishaps>>

\* Mutant: nothing is deleted.
UnlinkNothing(p) ==
  /\ proc[p].pc \in {"unlink", "unlinkUndo"}
  /\ IF At(p, "unlink")
       THEN proc' = [proc EXCEPT ![p].pc = "critique", ![p].found = {}]
       ELSE End(p)
  /\ UNCHANGED <<docs, memory, transforms, hist, requests, mishaps>>

UnlinkFindings(p) ==
  /\ proc[p].pc \in {"unlink", "unlinkUndo"}
  /\ findings' = findings \ {f \in findings : \E g \in proc[p].found :
                                f.of = g.of /\ f.n = g.n /\ f.brief = g.brief}
  /\ IF At(p, "unlink")
       THEN proc' = [proc EXCEPT ![p].pc = "critique", ![p].found = {}]
       ELSE End(p)
  /\ UNCHANGED <<brief, plans, published, catalog, memory, transforms, hist, requests,
                 mishaps>>

\* The critic has nothing to say, or is unavailable after three attempts.
NoFindings(p) ==
  /\ At(p, "critique")
  /\ Goto(p, "save")
  /\ UNCHANGED <<docs, memory, transforms, hist, requests, mishaps>>

\* Its findings are stored in one batch, before the plan they are about.
PersistFindings(p) ==
  /\ At(p, "critique")
  /\ \E k \in 1 .. MaxFindings :
       findings' = findings \cup
         {[brief |-> proc[p].brief, of |-> proc[p].n, n |-> i, status |-> "unresolved"] :
            i \in 1 .. k}
  /\ Goto(p, "revise")
  /\ UNCHANGED <<brief, plans, published, catalog, memory, transforms, hist, requests,
                 mishaps>>

\* The revisor applies some findings, none, or is unavailable.
Revise(p) ==
  /\ At(p, "revise")
  /\ \E applied \in SUBSET (1 .. MaxFindings) :
       /\ \A i \in applied : \E f \in findings : f.of = proc[p].n /\ f.n = i
       /\ proc' = [proc EXCEPT ![p].pc = IF applied = {} THEN "save" ELSE "mark",
                               ![p].todo = applied]
  /\ UNCHANGED <<docs, memory, transforms, hist, requests, mishaps>>

Marked(p) == {f \in findings : f.of = proc[p].n /\ f.n \in proc[p].todo}

\* Mutant: every finding of the brief is marked as applied.
MarkAppliedAll(p) ==
  /\ At(p, "mark")
  /\ findings' = {IF f.brief = proc[p].brief THEN [f EXCEPT !.status = "applied"] ELSE f :
                    f \in findings}
  /\ proc' = [proc EXCEPT ![p].pc = "save", ![p].todo = {}]
  /\ UNCHANGED <<brief, plans, published, catalog, memory, transforms, hist, requests,
                 mishaps>>

\* markAppliedByRevisor: one batch of updates, which fails if one is missing;
\* the transform then throws before it has saved its plan.
MarkAppliedByRevisor(p) ==
  /\ At(p, "mark")
  /\ IF Cardinality(Marked(p)) = Cardinality(proc[p].todo)
       THEN /\ findings' = {IF f \in Marked(p) THEN [f EXCEPT !.status = "applied"] ELSE f :
                              f \in findings}
            /\ proc' = [proc EXCEPT ![p].pc = "save", ![p].todo = {}]
       ELSE End(p) /\ UNCHANGED findings
  /\ UNCHANGED <<brief, plans, published, catalog, memory, transforms, hist, requests,
                 mishaps>>

\* Tech stack and plan are patched together, in the middle of nothing else.
SavePlan(p) ==
  /\ At(p, "save")
  /\ brief' = IF Stored(proc[p].brief)
                THEN [brief EXCEPT ![proc[p].brief].plan = proc[p].n] ELSE brief
  /\ End(p)
  /\ UNCHANGED <<findings, plans, published, catalog, memory, transforms, hist, requests,
                 mishaps>>

\* Mutant: a plan that could not be saved leaves its findings behind.
SavePlanFaultKept(p) ==
  /\ At(p, "save")
  /\ Unlucky /\ mishaps' = mishaps + 1
  /\ End(p)
  /\ UNCHANGED <<docs, memory, transforms, hist, requests>>

\* The patch fails: findings of this run, if any, are rolled back, and all
\* others of the brief with them.
SavePlanFault(p) ==
  /\ At(p, "save")
  /\ Unlucky /\ mishaps' = mishaps + 1
  /\ IF \E f \in findings : f.of = proc[p].n THEN Goto(p, "undo") ELSE End(p)
  /\ UNCHANGED <<docs, memory, transforms, hist, requests>>

\* The user saves the plan his page shows, edited.
PostBuildPlan(r, b) ==
  /\ Stored(b) /\ brief[b].plan # 0 /\ page[b] # 0
  /\ Begin(r, "edit", b, "edit", page[b])
  /\ UNCHANGED transforms

EditBuildPlan(p) ==
  /\ At(p, "edit")
  /\ LET b == proc[p].brief
     IN  IF Stored(b)
           THEN /\ brief' = [brief EXCEPT ![b].plan = proc[p].n]
                /\ spoiled' = IF brief[b].plan = proc[p].n
                                THEN spoiled ELSE spoiled \cup {<<b, "plan">>}
           ELSE UNCHANGED <<brief, spoiled>>
  /\ End(p)
  /\ UNCHANGED <<findings, plans, published, catalog, memory, transforms, bare, requests,
                 mishaps>>

\* The user's word on a finding: read, update.  A verdict may be given again.
PatchFinding(f, status) ==
  /\ f \in findings /\ f.status # status
  /\ findings' = (findings \ {f}) \cup {[f EXCEPT !.status = status]}
  /\ UNCHANGED <<brief, plans, published, catalog, memory, proc, transforms, hist,
                 requests, mishaps>>

PostOverride(f) == PatchFinding(f, "overridden")
PostResolve(f)  == PatchFinding(f, "resolved")

---------------------------------------------------------------------------
(* Promotion and publication *)

\* Mutant: a promoted brief can be promoted again.
PostPromoteAgain(r, b) ==
  /\ Stored(b) /\ brief[b].score.by # "none"
  /\ Begin(r, "promotion", b, "promote", 0)
  /\ UNCHANGED transforms

\* The checks, before the audience profile is fetched.
PostPromote(r, b) ==
  /\ Stored(b) /\ brief[b].score.by # "none" /\ brief[b].promoted = 0
  /\ Begin(r, "promotion", b, "promote", 0)
  /\ UNCHANGED transforms

\* Plan, deliverable and brief in one batch, which fails without the brief;
\* whatever its stage was, the brief is selected now.
PromoteCommit(p) ==
  /\ At(p, "promote")
  /\ LET b == proc[p].brief
     IN  IF Stored(b)
           THEN /\ plans' = Append(plans, b)
                /\ brief' = [brief EXCEPT ![b].stage = "selected", ![b].promoted = Len(plans')]
           ELSE UNCHANGED <<plans, brief>>
  /\ End(p)
  /\ UNCHANGED <<findings, published, catalog, memory, transforms, hist, requests, mishaps>>

\* A plan made without a brief.
CreateYoutubeAdvancedPlanDirect ==
  /\ Answered
  /\ plans' = Append(plans, None)
  /\ UNCHANGED <<brief, findings, published, catalog, memory, proc, transforms, hist, mishaps>>

\* publishDeliverable: the deliverable is marked first, under a URL that may
\* pass the allowlist and still have no video id in it ...
PostPublish(r, k, hasId) ==
  /\ ~Active(r) /\ Answered
  /\ published' = published \cup {k}
  /\ bare' = IF hasId /\ (plans[k] # None => brief[plans[k]].plan # 0)
               THEN bare \ {k} ELSE bare \cup {k}
  /\ proc' = [proc EXCEPT ![r] = [Idle EXCEPT !.pc = IF hasId THEN "lookup" ELSE "skip",
                                              !.n = k]]
  /\ IF \E p \in Procs : Active(p) THEN Unlucky /\ mishaps' = mishaps + 1
                                   ELSE UNCHANGED mishaps
  /\ UNCHANGED <<brief, findings, plans, catalog, memory, transforms, spoiled>>

\* ... then the brief promoted to the plan is looked up for its tech stack, and
\* the video enqueued if both are there.
LookUpBrief(p) ==
  /\ proc[p].pc \in {"lookup", "skip"}
  /\ catalog' = IF At(p, "lookup") /\
                   \E b \in Briefs :
                     Stored(b) /\ brief[b].promoted = proc[p].n /\ brief[b].plan # 0
                  THEN catalog \cup {proc[p].n} ELSE catalog
  /\ End(p)
  /\ UNCHANGED <<brief, findings, plans, published, memory, transforms, hist, requests,
                 mishaps>>

---------------------------------------------------------------------------
(* Failures *)

\* The model, a catalog or an audience profile is missing or fails.
GivesUp(p) ==
  /\ proc[p].pc \in {"draft", "promote"}
  /\ End(p)
  /\ UNCHANGED <<docs, memory, transforms, hist, requests, mishaps>>

\* The transform of p, cut off, may leave findings without their plan.
CutOff(p) == {<<b, "plan">> : b \in {c \in Briefs : proc[p].aspect = "plan"
                                                    /\ proc[p].brief = c}}

\* A store operation fails: the request ends where it is.
StoreFault(p) ==
  /\ proc[p].pc \in {"query", "unlink", "critique", "mark", "undo", "unlinkUndo",
                     "edit", "override", "stage", "lookup", "skip"}
  /\ Unlucky /\ mishaps' = mishaps + 1
  /\ End(p)
  /\ spoiled' = spoiled \cup CutOff(p)
  /\ bare' = bare \cup {k \in {proc[p].n} : At(p, "lookup")}
  /\ UNCHANGED <<docs, memory, transforms, requests>>

\* The process dies: requests, workers and the batches are gone.
Crash ==
  /\ Unlucky /\ mishaps' = mishaps + 1
  /\ proc' = [p \in Procs |-> Idle] /\ queues' = {}
  /\ spoiled' = spoiled \cup UNION {CutOff(p) : p \in Procs}
  /\ bare' = bare \cup {k \in published : \E p \in Procs : At(p, "lookup") /\ proc[p].n = k}
  /\ UNCHANGED <<docs, page, transforms, requests>>

---------------------------------------------------------------------------
Scoring(p)  == ScoreRead(p) \/ ScoreSave(p) \/ ScoreFails(p)

Transforming(p) ==
  \/ Drafted(p) \/ QueryFindings(p) \/ UnlinkFindings(p) \/ NoFindings(p)
  \/ PersistFindings(p) \/ Revise(p) \/ MarkAppliedByRevisor(p) \/ SavePlan(p)
  \/ SavePlanFault(p)

Work(p) ==
  \/ Scoring(p) \/ OverrideScore(p) \/ RetireNext(p) \/ StageSave(p) \/ Transforming(p)
  \/ EditBuildPlan(p) \/ PromoteCommit(p) \/ LookUpBrief(p)

Routes(r) ==
  \/ \E b \in Briefs :
       \/ PostScore(r, b) \/ PatchScore(r, b) \/ PostTransform(r, b)
       \/ PostBuildPlan(r, b) \/ PostPromote(r, b)
       \/ \E to \in Stages : PostStage(r, b, to)
  \/ \E bs \in SUBSET Briefs : PostBulkRetire(r, bs)
  \/ \E k \in DOMAIN plans, hasId \in BOOLEAN : PostPublish(r, k, hasId)

Next ==
  \/ \E b \in Briefs : CreatePipelineBrief(b) \/ GetBriefPage(b)
  \/ \E bs \in Batches : CreateBriefBatchWithScoring(bs)
  \/ \E bs \in SUBSET Briefs : ApplyBulkDelete(bs)
  \/ \E f \in findings : PostOverride(f) \/ PostResolve(f)
  \/ CreateYoutubeAdvancedPlanDirect
  \/ \E r \in Requests : Routes(r)
  \/ \E w \in Workers : TakeNext(w)
  \/ \E p \in Procs : Work(p) \/ GivesUp(p) \/ StoreFault(p)
  \/ Crash

Spec == Init /\ [][Next]_vars

---------------------------------------------------------------------------
(* Properties *)

Finding ==
  [brief : Briefs, of : Nat, n : Nat,
   status : {"unresolved", "applied", "overridden", "resolved"}]

Process ==
  [pc : {"idle", "read", "score", "override", "stage", "bulk", "draft", "query", "unlink",
         "critique", "revise", "mark", "save", "undo", "unlinkUndo", "edit", "promote",
         "lookup", "skip"},
   aspect : {"none", "score", "stage", "plan", "edit", "promotion"},
   brief : Briefs \cup {None}, n : Nat, stage : Stages \cup {"none"},
   todo : SUBSET (Briefs \cup Nat), found : SUBSET Finding]

\* Every variable keeps its type.
TypeOK ==
  /\ brief \in [Briefs -> [is : {"new", "stored", "deleted"}, stage : Stages,
                           score : Scores, plan : Nat, promoted : Nat]]
  /\ findings \subseteq Finding /\ plans \in Seq(Briefs \cup {None})
  /\ published \subseteq Nat /\ catalog \subseteq Nat
  /\ queues \subseteq Seq(Briefs) \ {<<>>} /\ page \in [Briefs -> Nat]
  /\ proc \in [Procs -> Process] /\ transforms \in Nat
  /\ spoiled \subseteq Briefs \X {"score", "stage", "plan", "edit", "promotion"}
  /\ bare \subseteq Nat /\ requests \in Nat /\ mishaps \in Nat

\* Whatever else happens to the brief, a plan promoted from it is the plan it
\* names, so that publication finds the brief again; only a deleted brief, or
\* two promotions that both passed the check, leave a plan nobody names.
PromotedPlanFindsBrief ==
  \A k \in DOMAIN plans :
    LET b == plans[k]
    IN  b # None /\ Stored(b) /\ <<b, "promotion">> \notin spoiled => brief[b].promoted = k

\* The findings stored for a brief are about the build plan it has, once no
\* transform is running on it: neither failed patches nor edits leave any
\* about a plan that is not there.  The exceptions are in spoiled: transforms
\* that overlap, one without a critique, an edit of an outdated page, a
\* transform cut off by a crash or by a failing write other than the last,
\* and a deleted brief.
FindingsAreAboutPlan ==
  \A f \in findings :
    \/ <<f.brief, "plan">> \in spoiled
    \/ \E p \in Procs : proc[p].aspect = "plan" /\ proc[p].brief = f.brief
    \/ f.of = brief[f.brief].plan

\* A verdict of the user on a finding is overwritten only by the transform
\* that made the finding and has not ended yet.
VerdictStands ==
  [][\A f \in findings : f.status \in {"overridden", "resolved"} =>
       \A g \in findings' :
         g.brief = f.brief /\ g.of = f.of /\ g.n = f.n =>
           \/ g.status \in {"overridden", "resolved"}
           \/ \E p \in Procs : At(p, "mark") /\ proc[p].n = f.of]_vars

\* A stage changes along the table, or to selected by a promotion, unless two
\* moves of one brief overlapped: then a stage may be written that the brief
\* could not reach from where it is.
StageFollowsTable ==
  [][\A b \in Briefs :
       \/ brief'[b].stage \in StageTable[brief[b].stage] \cup {brief[b].stage}
       \/ brief'[b].promoted # brief[b].promoted /\ brief'[b].stage = "selected"
       \/ <<b, "stage">> \in spoiled]_vars

\* A published plan is catalogued if the URL of its last publication names a
\* video and its brief had a build plan then, whatever became of the brief in
\* between: scored again, transformed again, moved.
PublishedIsCatalogued ==
  \A k \in published :
    \/ k \in catalog \cup bare
    \/ plans[k] = None
    \/ ~Stored(plans[k]) \/ <<plans[k], "promotion">> \in spoiled
    \/ \E p \in Procs : At(p, "lookup") /\ proc[p].n = k

---------------------------------------------------------------------------
(* The inductive invariant behind VerdictStands and PromotedPlanFindsBrief *)

\* What a process works on, by where it stands.
Placed ==
  \A p \in Procs :
    /\ proc[p].pc \notin {"idle", "bulk", "lookup", "skip"} => proc[p].brief \in Briefs
    /\ proc[p].pc \in {"idle", "bulk", "stage"} => proc[p].todo \subseteq Briefs
    /\ At(p, "stage") => proc[p].stage \in Stages

Fresh == {"draft", "query", "unlink", "critique"}

\* A transform that has not stored its findings has a number of its own, and
\* there are none of that number yet; so no finding is stored over another.
Numbered ==
  /\ \A f \in findings : f.of <= transforms
  /\ \A f, g \in findings : f.brief = g.brief /\ f.of = g.of /\ f.n = g.n => f = g
  /\ \A p \in Procs : proc[p].pc \in Fresh =>
       /\ proc[p].n <= transforms
       /\ \A f \in findings : f.of # proc[p].n
       /\ \A q \in Procs : proc[q].pc \in Fresh /\ proc[q].n = proc[p].n => p = q

\* A promotion that may commit is of a brief without a plan, unless a second
\* promotion of it has passed the check too.
Promotions ==
  /\ \A k \in DOMAIN plans : plans[k] # None => brief[plans[k]].is # "new"
  /\ \A p \in Procs : At(p, "promote") =>
       LET b == proc[p].brief
       IN  /\ proc[p].aspect = "promotion" /\ brief[b].is # "new"
           /\ <<b, "promotion">> \notin spoiled =>
                /\ \A k \in DOMAIN plans : plans[k] # b
                /\ \A q \in Procs : At(q, "promote") /\ proc[q].brief = b => p = q

IntakeInv == TypeOK /\ Placed /\ Numbered /\ Promotions /\ PromotedPlanFindsBrief

---------------------------------------------------------------------------
(* The inductive invariant behind StageFollowsTable, PublishedIsCatalogued *)
(* and FindingsAreAboutPlan                                                *)

\* Two processes work on one aspect of a brief only where spoiled says so.
Exclusive ==
  \A p, q \in Procs, a \in {"stage", "plan"} :
    /\ proc[p].brief \in Briefs /\ proc[q].brief = proc[p].brief
    /\ a \in Writes(proc[p].aspect) /\ a \in Writes(proc[q].aspect)
    /\ <<proc[p].brief, a>> \notin spoiled
    => p = q

\* A move that was checked is still one of the table when it is written.
Moves ==
  /\ \A b \in Briefs : brief[b].promoted <= Len(plans)
  /\ \A p \in Procs : At(p, "stage") =>
       /\ proc[p].aspect = "stage"
       /\ <<proc[p].brief, "stage">> \notin spoiled =>
            proc[p].stage \in StageTable[brief[proc[p].brief].stage]

\* From draft to save, with the ways out of a failed save.
Writing == {"draft", "query", "unlink", "critique", "revise", "mark", "save", "undo",
            "unlinkUndo"}

\* The plan of a brief is never taken away, so that a published plan not in
\* bare still has a brief with a build plan when it is looked up.
Lookups ==
  /\ \A k \in published :
       /\ k \in DOMAIN plans
       /\ k \in bare \/ plans[k] = None \/ brief[plans[k]].plan # 0
  /\ \A p \in Procs : proc[p].pc \in Writing \cup {"edit"} => proc[p].n # 0

\* The findings of a transform are its brief's; it unlinks no other brief's.
Transforms ==
  \A p \in Procs : proc[p].pc \in Writing =>
    /\ proc[p].aspect = "plan" /\ proc[p].n <= transforms
    /\ brief[proc[p].brief].is # "new"
    /\ \A q \in Procs : proc[q].pc \in Writing /\ proc[q].n = proc[p].n => p = q
    /\ \A f \in findings : f.of = proc[p].n => f.brief = proc[p].brief
    /\ \A g \in proc[p].found : proc[p].pc \in {"unlink", "unlinkUndo"} =>
         g.brief = proc[p].brief

\* What the findings of the brief are about, by how far its transform is.
Fit(p) ==
  LET own == FindingsOf(proc[p].brief)
  IN  /\ proc[p].pc \in {"draft", "query"} =>
           \A f \in own : f.of = brief[proc[p].brief].plan
      /\ proc[p].pc \in {"unlink", "unlinkUndo"} =>
           \A f \in own : \E g \in proc[p].found : g.of = f.of /\ g.n = f.n
      /\ At(p, "critique") => own = {}
      /\ proc[p].pc \in {"revise", "mark", "save", "undo"} =>
           \A f \in own : f.of = proc[p].n
      /\ At(p, "mark") => /\ proc[p].todo \subseteq 1 .. MaxFindings
                          /\ \A i \in proc[p].todo : \E f \in own : f.n = i

WritingOn(p, b) == proc[p].pc \in Writing /\ proc[p].brief = b

Reviewed ==
  \A b \in Briefs : <<b, "plan">> \notin spoiled =>
    /\ brief[b].is # "deleted"
    /\ \A p \in Procs : WritingOn(p, b) => Fit(p)
    /\ (\A p \in Procs : ~WritingOn(p, b)) =>
         \A f \in FindingsOf(b) : f.of = brief[b].plan

BoardInv ==
  IntakeInv /\ Exclusive /\ Moves /\ Lookups /\ PublishedIsCatalogued /\ Transforms /\ Reviewed
=============================================================================
