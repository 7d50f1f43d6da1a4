-------------------------- MODULE Workflow_proofs --------------------------
(***************************************************************************)
(* Theorems about Workflow, for every set of requests, every number of     *)
(* variants and every bound on clips, overlaps, failures and crashes.      *)
(***************************************************************************)
EXTENDS Workflow, FiniteSetTheorems, TLAPS

\* What a request is about while it is at a place of its own.
LEMMA StepFacts ==
  /\ NoStep.touches = {} /\ Finalize.touches = {}
  /\ ChangePlanFormatProfile.touches = Aspects
  /\ NoStep # ChangePlanFormatProfile /\ Finalize # ChangePlanFormatProfile
  /\ Idle.step = NoStep /\ Idle.pc = "idle" /\ Idle.locked = FALSE
  /\ Idle.pick = None /\ Idle.seen = {} /\ Idle.listed = 0 /\ Idle.created = 0
  /\ Idle.moving = FALSE
BY DEF NoStep, Finalize, ChangePlanFormatProfile, Step, Idle

LEMMA StepTouches == \A s \in Steps \cup {NoStep} : s.touches \subseteq Aspects
BY DEF Steps, NoStep, Step, Aspects, Kinds, GenerateScenes, GenerateHookVariants, SelectHook,
       GenerateShotList, GenerateTitleVariants, SelectTitle, GenerateThumbnailConcepts,
       SelectThumbnail, ExtractShortsCandidates, GeneratePublishMetadata,
       ApproveShortCandidate, Finalize, Export, ChangePlanFormatProfile

LEMMA KindOfIs == \A s, k : k \in Kinds /\ s.touches = {k} => KindOf(s) = k
BY DEF KindOf

LEMMA IdleFits == Idle \in Request
BY DEF Idle, Request, Places, Refs, NoStep

LEMMA EndFits ==
  ASSUME NEW r \in Requests, req \in [Requests -> Request], req' = [req EXCEPT ![r] = Idle]
  PROVE  req' \in [Requests -> Request]
BY IdleFits

LEMMA GotoFits ==
  ASSUME NEW r \in Requests, NEW p \in Places, req \in [Requests -> Request],
         req' = [req EXCEPT ![r].pc = p]
  PROVE  req' \in [Requests -> Request]
<1> DEFINE new == [req[r] EXCEPT !.pc = p]
<1>1. req[r] \in Request
  OBVIOUS
<1>2. new \in Request
  BY <1>1 DEF Request
<1>3. req' = [req EXCEPT ![r] = new]
  OBVIOUS
<1> HIDE DEF new
<1> QED BY <1>2, <1>3

---------------------------------------------------------------------------
(* A request that ends, and one that goes on.                              *)

Drains == {"scenes", "hook", "title", "thumb"}

LEMMA EndPlaces ==
  ASSUME req \in [Requests -> Request], InStep, Locked, Apart,
         NEW r \in Requests, End(r), spoiled \subseteq spoiled',
         \A o \in Requests \ {r} :
           req[o].step = ChangePlanFormatProfile => req[o].listed <= clips'
  PROVE  InStep' /\ Locked' /\ Apart'
<1>1. /\ req'[r] = Idle
      /\ \A o \in Requests \ {r} : req'[o] = req[o]
      /\ lock' = IF lock = r THEN None ELSE lock
  BY DEF End, Release
<1>2. InStep'
  BY <1>1, StepFacts DEF InStep, At
<1>3. Locked'
  BY <1>1, StepFacts DEF Locked
<1>4. Apart'
  BY <1>1, StepFacts DEF Apart
<1> QED BY <1>2, <1>3, <1>4

LEMMA GotoPlaces ==
  ASSUME req \in [Requests -> Request], InStep, Locked, Apart,
         NEW r \in Requests, NEW p, Goto(r, p), lock' = lock, spoiled \subseteq spoiled',
         ~At(r, "idle"), ~At(r, "queued") \/ lock = r,
         clips <= clips', clips \in Nat, clips' \in Nat,
         p \notin {"idle", "queued", "wipe", "create", "flipAll", "list", "flip"},
         p = "write" => req[r].step.to \in Statuses,
         p \in {"point", "sync"} => \E k \in {"title", "thumb"} : req[r].step.touches = {k},
         p \in Drains \cup {"meta", "reset", "clips"} => req[r].step = ChangePlanFormatProfile
  PROVE  InStep' /\ Locked' /\ Apart'
<1>1. /\ req'[r] = [req[r] EXCEPT !.pc = p]
      /\ \A o \in Requests \ {r} : req'[o] = req[o]
  BY DEF Goto
<1>2. /\ req'[r].pc = p
      /\ req'[r].step = req[r].step /\ req'[r].locked = req[r].locked
      /\ req'[r].listed = req[r].listed
  BY <1>1 DEF Request
<1>3. InStep'
  <2>1. ASSUME NEW o \in Requests \ {r} PROVE req'[o] = req[o]
    BY <1>1
  <2> QED BY <1>2, <2>1 DEF InStep, At, Drains
<1>4. \A o \in Requests : req[o].listed \in Nat
  BY DEF Request
<1>5. Locked'
  <2>1. ASSUME NEW o \in Requests, req'[o].locked, req'[o].pc \notin {"idle", "queued"}
        PROVE  lock' = o
    <3>1. CASE o = r
      BY <1>2, <2>1, <3>1, Zenon DEF Locked, At
    <3>2. CASE o # r
      BY <1>1, <2>1, <3>2, Zenon DEF Locked
    <3> QED BY <3>1, <3>2
  <2>2. ASSUME NEW o \in Requests, "hook" \in req'[o].step.touches PROVE req'[o].locked
    BY <1>1, <1>2, <2>2, Zenon DEF Locked
  <2>3. ASSUME NEW o \in Requests, req'[o].step = ChangePlanFormatProfile
        PROVE  req'[o].listed <= clips'
    <3>1. req'[o].listed = req[o].listed /\ req'[o].step = req[o].step
      BY <1>1, <1>2
    <3>2. req[o].listed <= clips
      BY <2>3, <3>1 DEF Locked
    <3> QED BY <1>4, <3>1, <3>2
  <2> QED BY <2>1, <2>2, <2>3 DEF Locked
<1>6. \A o \in Requests : req'[o].step = req[o].step
  BY <1>1, <1>2
<1>7. Apart'
  BY <1>6 DEF Apart
<1> QED BY <1>3, <1>5, <1>7

\* Choices and flags are not disturbed by a step that writes no variant and
\* puts nobody in front of a flip.
LEMMA ChosenStays ==
  ASSUME Chosen, docs' = docs, flag' = flag, spoiled \subseteq spoiled',
         \A o \in Requests : req'[o].pc \in {"flipAll", "flip"} => req'[o] = req[o]
  PROVE  Chosen'
BY DEF Chosen, At, Stored

LEMMA FlagsStay ==
  ASSUME Flags, docs' = docs, flag' = flag, spoiled \subseteq spoiled',
         NEW r \in Requests,
         req[r].pc \in Drains => Kinds \subseteq spoiled',
         \A o \in Requests \ {r} : req'[o] = req[o]
  PROVE  Flags'
<1>1. ASSUME NEW k \in Kinds, k \notin spoiled', Clearing(k) PROVE Clearing(k)'
  <2>1. PICK o \in Requests : /\ req[o].step = ChangePlanFormatProfile
                              /\ req[o].pc \in {"scenes", "hook", "title"} \cup {k}
    BY <1>1 DEF Clearing
  <2>2. o # r
    BY <1>1, <2>1 DEF Drains, Kinds
  <2> QED BY <2>1, <2>2 DEF Clearing
<1> QED BY <1>1 DEF Flags, Stored

---------------------------------------------------------------------------
(* A request that begins.                                                  *)

First == {"replace", "wipe", "flipAll", "shots", "list", "extract", "upsert", "make",
          "check", "scenes"}

\* What a step needs to begin at its first place.
Begins(step, locked, pick) ==
  /\ step.first \in First
  /\ step.first = "wipe" => \E k \in Kinds : step.touches = {k}
  /\ step.first = "flipAll" => step.touches = {"hook"} /\ pick \in Stored("hook")
  /\ step.first = "list" => \E k \in {"title", "thumb"} : step.touches = {k}
  /\ step.first = "scenes" <=> step = ChangePlanFormatProfile
  /\ "hook" \in step.touches => locked

Clashes(r, locked, step) == UNION {Clash(locked, step, req[o]) : o \in Requests \ {r}}

LEMMA BeginApart ==
  ASSUME TypeOK, InStep, Locked, Apart, NEW r \in Requests, NEW step \in Steps,
         NEW locked \in BOOLEAN, NEW pick, Begin(r, step, locked, pick), NEW k \in Kinds,
         k \notin spoiled', k \in step.touches, NEW o \in Requests \ {r},
         k \in req[o].step.touches
  PROVE  FALSE
<1> DEFINE clash == Clashes(r, locked, step)
<1>1. spoiled' = IF step = ChangePlanFormatProfile /\ clash = {}
                   THEN spoiled \cap {"short"} ELSE spoiled \cup clash
  BY DEF Begin, Overlaps, Clashes
<1>2. Clash(locked, step, req[o]) \subseteq clash
  BY DEF Clashes
<1>3. k \notin Clash(locked, step, req[o])
  <2>1. SUFFICES ASSUME k \in clash PROVE FALSE
    BY <1>2
  <2> HIDE DEF clash
  <2> QED BY <1>1, <2>1
<1>4. req[o].pc # "idle" /\ req[o].pc # "queued"
  BY StepFacts DEF InStep, At
<1>5. locked /\ req[o].locked
  BY <1>3, <1>4 DEF Clash
<1>6. lock = o /\ lock = None
  BY <1>4, <1>5 DEF Locked, Begin
<1> QED BY <1>6, AbsentAssumption

LEMMA BeginSpoils ==
  ASSUME NEW r \in Requests, NEW step, NEW locked, NEW pick, Begin(r, step, locked, pick),
         NEW k \in Kinds, k \in spoiled, k \notin spoiled'
  PROVE  step = ChangePlanFormatProfile
<1> DEFINE clash == Clashes(r, locked, step)
<1>1. spoiled' = IF step = ChangePlanFormatProfile /\ clash = {}
                   THEN spoiled \cap {"short"} ELSE spoiled \cup clash
  BY DEF Begin, Overlaps, Clashes
<1> HIDE DEF clash
<1> QED BY <1>1

LEMMA BeginTypes ==
  ASSUME TypeOK, NEW r \in Requests, NEW step \in Steps, NEW locked \in BOOLEAN,
         NEW pick \in Refs, Begin(r, step, locked, pick), step.first \in First
  PROVE  TypeOK'
<1> DEFINE new == [pc |-> step.first, step |-> step, locked |-> locked,
                   moving |-> status \in step.moves, pick |-> pick, created |-> 0, seen |-> {},
                   listed |-> IF step = ChangePlanFormatProfile THEN clips ELSE 0]
<1>1. req' = [req EXCEPT ![r] = new]
  BY DEF Begin
<1>2. new \in Request
  <2>1. step.first \in Places
    BY DEF First, Places
  <2>2. (IF step = ChangePlanFormatProfile THEN clips ELSE 0) \in Nat
    BY DEF TypeOK
  <2>3. (status \in step.moves) \in BOOLEAN
    OBVIOUS
  <2> QED BY <2>1, <2>2, <2>3 DEF Request
<1>3. req' \in [Requests -> Request]
  <2> HIDE DEF new
  <2> QED BY <1>1, <1>2 DEF TypeOK
<1>4. spoiled' \subseteq Aspects
  <2>1. \A o \in Requests : Clash(locked, step, req[o]) \subseteq Aspects
    <3> TAKE o \in Requests
    <3>1. req[o].step \in Steps \cup {NoStep}
      BY DEF TypeOK, Request
    <3>2. req[o].step.touches \subseteq Aspects /\ step.touches \subseteq Aspects
      BY <3>1, StepTouches
    <3> QED BY <3>2 DEF Clash
  <2>2. Clashes(r, locked, step) \subseteq Aspects
    BY <2>1 DEF Clashes
  <2>3. spoiled' \subseteq spoiled \cup Clashes(r, locked, step)
    BY DEF Begin, Overlaps, Clashes
  <2> QED BY <2>2, <2>3 DEF TypeOK
<1>5. mishaps' \in Nat
  BY DEF Begin, TypeOK
<1>6. lock' \in Requests \cup {None}
  BY DEF Begin, TypeOK
<1> QED BY <1>3, <1>4, <1>5, <1>6 DEF Begin, TypeOK, store, shorts, refs

LEMMA BeginKeeps ==
  ASSUME WorkflowInv, NEW r \in Requests, NEW step \in Steps, NEW locked \in BOOLEAN,
         NEW pick \in Refs, Begin(r, step, locked, pick), Begins(step, locked, pick)
  PROVE  WorkflowInv'
<1>1. TypeOK'
  BY BeginTypes DEF WorkflowInv, Begins
<1>2. /\ req'[r].pc = step.first /\ req'[r].step = step /\ req'[r].locked = locked
      /\ req'[r].pick = pick /\ req'[r].seen = {}
      /\ req'[r].listed = IF step = ChangePlanFormatProfile THEN clips ELSE 0
      /\ \A o \in Requests \ {r} : req'[o] = req[o]
  BY DEF Begin, WorkflowInv, TypeOK
<1>3. /\ req[r].pc = "idle" /\ (locked => lock = None)
      /\ lock' = (IF locked THEN r ELSE lock)
      /\ docs' = docs /\ flag' = flag /\ clips' = clips
  BY DEF Begin, Active, store
<1>4. step.first \notin {"idle", "queued", "write", "create", "flip", "point", "sync", "hook", "title",
                         "thumb", "meta", "reset", "clips"}
  BY DEF Begins, First
<1>5. ASSUME NEW k \in Kinds, k \notin spoiled', k \in step.touches,
             NEW o \in Requests \ {r}, k \in req[o].step.touches
      PROVE  FALSE
  BY <1>5, BeginApart DEF WorkflowInv
<1>6. ASSUME NEW k \in Kinds, k \in spoiled, k \notin spoiled'
      PROVE  step = ChangePlanFormatProfile /\ k \in step.touches
  BY <1>6, BeginSpoils, StepFacts DEF Aspects
<1>7. InStep'
  <2>1. ASSUME NEW o \in Requests \ {r} PROVE req'[o] = req[o]
    BY <1>2
  <2> QED BY <1>2, <1>4, <2>1 DEF InStep, At, Begins, WorkflowInv
<1>8. Locked'
  <2>1. ASSUME NEW o \in Requests, req'[o].locked, req'[o].pc \notin {"idle", "queued"}
        PROVE  lock' = o
    <3>1. CASE o = r
      BY <1>2, <1>3, <2>1, <3>1, Zenon
    <3>2. CASE o # r
      <4>1. lock = o
        BY <1>2, <2>1, <3>2, Zenon DEF Locked, WorkflowInv
      <4>2. lock # None
        BY <4>1, AbsentAssumption
      <4> QED BY <1>3, <4>1, <4>2, Zenon
    <3> QED BY <3>1, <3>2
  <2>2. ASSUME NEW o \in Requests, "hook" \in req'[o].step.touches PROVE req'[o].locked
    BY <1>2, <2>2, Zenon DEF Locked, Begins, WorkflowInv
  <2>3. ASSUME NEW o \in Requests, req'[o].step = ChangePlanFormatProfile
        PROVE  req'[o].listed <= clips'
    <3>1. clips \in Nat
      BY DEF WorkflowInv, TypeOK
    <3> QED BY <1>2, <1>3, <2>3, <3>1 DEF Locked, WorkflowInv
  <2> QED BY <2>1, <2>2, <2>3 DEF Locked
<1>9. Apart'
  <2> SUFFICES ASSUME NEW k \in Kinds, k \notin spoiled', NEW a \in Requests, NEW b \in Requests,
                      k \in req'[a].step.touches, k \in req'[b].step.touches, a # b
               PROVE  FALSE
    BY DEF Apart
  <2>1. CASE a = r
    BY <1>2, <1>5, <2>1
  <2>2. CASE b = r
    BY <1>2, <1>5, <2>2
  <2>3. CASE a # r /\ b # r
    BY <1>2, <1>5, <1>6, <2>3 DEF Apart, WorkflowInv
  <2> QED BY <2>1, <2>2, <2>3
<1>10. Chosen'
  <2> SUFFICES ASSUME NEW o \in Requests
               PROVE  /\ At(o, "flipAll")' => req'[o].pick \in Stored("hook")'
                      /\ At(o, "flip")' =>
                           /\ req'[o].pick \in req'[o].seen
                           /\ \A k \in Kinds \ spoiled' :
                                req'[o].step.touches = {k} => flag'[k] \subseteq req'[o].seen
    BY DEF Chosen
  <2>1. CASE o = r
    BY <1>2, <1>3, <1>4, <2>1 DEF Begins, At, Stored
  <2>2. CASE o # r
    <3>1. req'[o] = req[o]
      BY <1>2, <2>2
    <3>2. ASSUME NEW k \in Kinds, k \notin spoiled', req[o].step.touches = {k}
          PROVE  k \notin spoiled
      BY <1>5, <1>6, <2>2, <3>2
    <3> QED BY <1>3, <3>1, <3>2 DEF Chosen, At, Stored, WorkflowInv
  <2> QED BY <2>1, <2>2
<1>11. Flags'
  <2>1. ASSUME NEW k \in Kinds, k \notin spoiled' PROVE One(flag[k]) \/ Clearing(k)'
    <3>1. CASE k \in spoiled
      BY <1>2, <1>6, <2>1, <3>1 DEF Clearing, Begins
    <3>2. CASE k \notin spoiled /\ Clearing(k)
      <4>1. PICK o \in Requests : /\ req[o].step = ChangePlanFormatProfile
                                  /\ req[o].pc \in {"scenes", "hook", "title"} \cup {k}
        BY <3>2 DEF Clearing
      <4>2. o # r
        BY <1>3, <4>1 DEF Kinds
      <4> QED BY <1>2, <4>1, <4>2 DEF Clearing
    <3>3. CASE k \notin spoiled /\ One(flag[k])
      BY <3>3
    <3> QED BY <3>1, <3>2, <3>3 DEF Flags, WorkflowInv
  <2> QED BY <1>3, <2>1 DEF Flags, Stored, WorkflowInv
<1> QED BY <1>1, <1>7, <1>8, <1>9, <1>10, <1>11 DEF WorkflowInv

---------------------------------------------------------------------------
(* The routes.                                                             *)

\* Every step but the selection of a hook may begin with any lock and choice
\* its route gives it.
LEMMA StepsBegin ==
  ASSUME NEW locked \in BOOLEAN, NEW pick
  PROVE  /\ Begins(GenerateScenes, locked, pick) /\ Begins(GenerateHookVariants, TRUE, pick)
         /\ Begins(GenerateShotList, locked, pick) /\ Begins(GenerateTitleVariants, locked, pick)
         /\ Begins(SelectTitle, locked, pick) /\ Begins(GenerateThumbnailConcepts, locked, pick)
         /\ Begins(SelectThumbnail, locked, pick) /\ Begins(ExtractShortsCandidates, locked, pick)
         /\ Begins(ApproveShortCandidate, locked, pick)
         /\ Begins(GeneratePublishMetadata, locked, pick) /\ Begins(Export, locked, pick)
         /\ Begins(ChangePlanFormatProfile, TRUE, pick)
<1> USE DEF Begins, First, Step, Kinds, Aspects
<1>1. Begins(GenerateScenes, locked, pick)
  BY DEF GenerateScenes, ChangePlanFormatProfile
<1>2. Begins(GenerateHookVariants, TRUE, pick)
  BY DEF GenerateHookVariants, ChangePlanFormatProfile
<1>3. Begins(GenerateShotList, locked, pick)
  BY DEF GenerateShotList, ChangePlanFormatProfile
<1>4. Begins(GenerateTitleVariants, locked, pick)
  BY DEF GenerateTitleVariants, ChangePlanFormatProfile
<1>5. Begins(SelectTitle, locked, pick)
  BY DEF SelectTitle, ChangePlanFormatProfile
<1>6. Begins(GenerateThumbnailConcepts, locked, pick)
  BY DEF GenerateThumbnailConcepts, ChangePlanFormatProfile
<1>7. Begins(SelectThumbnail, locked, pick)
  BY DEF SelectThumbnail, ChangePlanFormatProfile
<1>8. Begins(ExtractShortsCandidates, locked, pick)
  BY DEF ExtractShortsCandidates, ChangePlanFormatProfile
<1>9. Begins(ApproveShortCandidate, locked, pick)
  BY DEF ApproveShortCandidate, ChangePlanFormatProfile
<1>10. Begins(GeneratePublishMetadata, locked, pick)
  BY DEF GeneratePublishMetadata, ChangePlanFormatProfile
<1>11. Begins(Export, locked, pick)
  BY DEF Export, ChangePlanFormatProfile
<1>12. Begins(ChangePlanFormatProfile, TRUE, pick)
  BY DEF ChangePlanFormatProfile
<1> QED BY <1>1, <1>2, <1>3, <1>4, <1>5, <1>6, <1>7, <1>8, <1>9, <1>10, <1>11, <1>12

LEMMA SelectHookBegins ==
  ASSUME NEW pick, pick \in Stored("hook")
  PROVE  Begins(SelectHook, TRUE, pick)
BY DEF Begins, First, Step, Kinds, Aspects, SelectHook, ChangePlanFormatProfile

\* finalize is let in and waits; it touches nothing.
LEMMA FinalizeKeeps ==
  ASSUME WorkflowInv, NEW r \in Requests, PostFinalize(r)
  PROVE  WorkflowInv'
<1> DEFINE new == [Idle EXCEPT !.pc = "queued", !.step = Finalize, !.locked = TRUE]
<1>1. /\ req' = [req EXCEPT ![r] = new] /\ req[r].pc = "idle"
      /\ docs' = docs /\ flag' = flag /\ clips' = clips /\ lock' = lock /\ spoiled' = spoiled
  BY DEF PostFinalize, Active, store
<1>2. new \in Request
  BY DEF Idle, Request, Places, Refs, Steps
<1>3. new.pc = "queued" /\ new.step = Finalize
  BY DEF Idle
<1> HIDE DEF new
<1>4. /\ req'[r] = new
      /\ \A o \in Requests \ {r} : req'[o] = req[o]
  BY <1>1 DEF WorkflowInv, TypeOK
<1>5. TypeOK'
  BY <1>1, <1>2 DEF WorkflowInv, TypeOK, PostFinalize, store, shorts, refs
<1>6. InStep'
  <2>1. ASSUME NEW o \in Requests \ {r} PROVE req'[o] = req[o]
    BY <1>4
  <2> QED BY <1>3, <1>4, <2>1 DEF InStep, At, WorkflowInv
<1>7. Locked'
  BY <1>1, <1>3, <1>4, StepFacts DEF Locked, WorkflowInv
<1>8. Apart'
  BY <1>1, <1>3, <1>4, StepFacts DEF Apart, WorkflowInv
<1>9. Chosen'
  BY <1>1, <1>3, <1>4, ChosenStays DEF WorkflowInv
<1>10. Flags'
  BY <1>1, <1>4, FlagsStay DEF WorkflowInv, Drains
<1> QED BY <1>5, <1>6, <1>7, <1>8, <1>9, <1>10 DEF WorkflowInv

LEMMA RoutesKeep ==
  ASSUME WorkflowInv, NEW r \in Requests, Routes(r)
  PROVE  WorkflowInv'
<1>0. None \in Refs /\ \A k \in Kinds : Stored(k) \subseteq Refs
  BY DEF Refs, Stored, WorkflowInv, TypeOK
<1>1. CASE PostGenerate(r)
  <2>1. GenerateScenes \in Steps /\ Begin(r, GenerateScenes, TRUE, None)
    BY <1>1 DEF PostGenerate, Steps
  <2> QED BY <1>0, <2>1, BeginKeeps, StepsBegin
<1>2. CASE PostGenerateHooks(r)
  <2>1. GenerateHookVariants \in Steps /\ Begin(r, GenerateHookVariants, TRUE, None)
    BY <1>2 DEF PostGenerateHooks, Steps
  <2> QED BY <1>0, <2>1, BeginKeeps, StepsBegin
<1>3. CASE PostSelectHook(r)
  <2>1. PICK pick \in Stored("hook") : Begin(r, SelectHook, TRUE, pick)
    BY <1>3 DEF PostSelectHook
  <2>2. SelectHook \in Steps /\ pick \in Refs
    BY <1>0 DEF Steps, Kinds
  <2> QED BY <2>1, <2>2, BeginKeeps, SelectHookBegins
<1>4. CASE PostGenerateShotList(r)
  <2>1. GenerateShotList \in Steps /\ Begin(r, GenerateShotList, TRUE, None)
    BY <1>4 DEF PostGenerateShotList, Steps
  <2> QED BY <1>0, <2>1, BeginKeeps, StepsBegin
<1>5. CASE PostGenerateTitles(r) \/ PostDeliverableTitles(r)
  <2>1. PICK locked \in BOOLEAN : Begin(r, GenerateTitleVariants, locked, None)
    BY <1>5 DEF PostGenerateTitles, PostDeliverableTitles
  <2>2. GenerateTitleVariants \in Steps
    BY DEF Steps
  <2> QED BY <1>0, <2>1, <2>2, BeginKeeps, StepsBegin
<1>6. CASE PostSelectTitle(r)
  <2>1. PICK pick \in Stored("title") : Begin(r, SelectTitle, FALSE, pick)
    BY <1>6 DEF PostSelectTitle
  <2>2. SelectTitle \in Steps /\ pick \in Refs
    BY <1>0 DEF Steps, Kinds
  <2> QED BY <2>1, <2>2, BeginKeeps, StepsBegin
<1>7. CASE PostGenerateThumbnails(r) \/ PostDeliverableThumbnails(r)
  <2>1. PICK locked \in BOOLEAN : Begin(r, GenerateThumbnailConcepts, locked, None)
    BY <1>7 DEF PostGenerateThumbnails, PostDeliverableThumbnails
  <2>2. GenerateThumbnailConcepts \in Steps
    BY DEF Steps
  <2> QED BY <1>0, <2>1, <2>2, BeginKeeps, StepsBegin
<1>8. CASE PostSelectThumbnail(r)
  <2>1. PICK pick \in Stored("thumb") : Begin(r, SelectThumbnail, FALSE, pick)
    BY <1>8 DEF PostSelectThumbnail
  <2>2. SelectThumbnail \in Steps /\ pick \in Refs
    BY <1>0 DEF Steps, Kinds
  <2> QED BY <2>1, <2>2, BeginKeeps, StepsBegin
<1>9. CASE PostExtractShorts(r)
  <2>1. ExtractShortsCandidates \in Steps /\ Begin(r, ExtractShortsCandidates, FALSE, None)
    BY <1>9 DEF PostExtractShorts, Steps
  <2> QED BY <1>0, <2>1, BeginKeeps, StepsBegin
<1>10. CASE PostApproveShort(r)
  <2>1. ApproveShortCandidate \in Steps /\ Begin(r, ApproveShortCandidate, FALSE, None)
    BY <1>10 DEF PostApproveShort, Steps
  <2> QED BY <1>0, <2>1, BeginKeeps, StepsBegin
<1>11. CASE PostGenerateMetadata(r) \/ PostDeliverableMetadata(r)
  <2>1. PICK locked \in BOOLEAN : Begin(r, GeneratePublishMetadata, locked, None)
    BY <1>11 DEF PostGenerateMetadata, PostDeliverableMetadata
  <2>2. GeneratePublishMetadata \in Steps
    BY DEF Steps
  <2> QED BY <1>0, <2>1, <2>2, BeginKeeps, StepsBegin
<1>12. CASE GetExport(r)
  <2>1. Export \in Steps /\ Begin(r, Export, FALSE, None)
    BY <1>12 DEF GetExport, Steps
  <2> QED BY <1>0, <2>1, BeginKeeps, StepsBegin
<1>13. CASE PostChangeFormat(r)
  <2>1. ChangePlanFormatProfile \in Steps /\ Begin(r, ChangePlanFormatProfile, TRUE, None)
    BY <1>13 DEF PostChangeFormat, Steps
  <2> QED BY <1>0, <2>1, BeginKeeps, StepsBegin
<1>14. CASE PostFinalize(r)
  BY <1>14, FinalizeKeeps
<1> QED BY <1>1, <1>2, <1>3, <1>4, <1>5, <1>6, <1>7, <1>8, <1>9, <1>10, <1>11, <1>12, <1>13, <1>14 DEF Routes

---------------------------------------------------------------------------
(* The steps that write no variant.                                        *)

\* A request goes on to a place where nothing is known of its variants.
Advances(r, p) ==
  /\ Goto(r, p) /\ lock' = lock
  /\ p \in Places \ (Drains \cup {"idle", "queued", "wipe", "create", "flipAll", "list", "flip"})
  /\ p = "write" => req[r].step.to \in Statuses
  /\ p \in {"point", "sync"} => \E k \in {"title", "thumb"} : req[r].step.touches = {k}
  /\ p \in {"meta", "reset", "clips"} => req[r].step = ChangePlanFormatProfile

LEMMA QuietEnd ==
  ASSUME WorkflowInv, NEW r \in Requests, End(r),
         docs' = docs, flag' = flag, spoiled \subseteq spoiled',
         clips' \in Nat, clips <= clips',
         req[r].pc \in Drains => Kinds \subseteq spoiled'
  PROVE  /\ req' \in [Requests -> Request] /\ lock' \in Requests \cup {None}
         /\ InStep' /\ Locked' /\ Apart' /\ Chosen' /\ Flags'
<1>1. /\ req \in [Requests -> Request] /\ clips \in Nat /\ lock \in Requests \cup {None}
      /\ InStep /\ Locked /\ Apart /\ Chosen /\ Flags
  BY DEF WorkflowInv, TypeOK
<1>2. /\ req' = [req EXCEPT ![r] = Idle]
      /\ lock' = IF lock = r THEN None ELSE lock
  BY DEF End, Release
<1>3. ASSUME NEW o \in Requests \ {r}, req[o].step = ChangePlanFormatProfile
      PROVE  req[o].listed <= clips'
  <2>1. req[o].listed <= clips /\ req[o].listed \in Nat
    BY <1>1, <1>3 DEF Locked, Request
  <2> QED BY <1>1, <2>1
<1>4. InStep' /\ Locked' /\ Apart'
  BY <1>1, <1>3, EndPlaces
<1>5. /\ req'[r].pc = "idle"
      /\ \A o \in Requests \ {r} : req'[o] = req[o]
  BY <1>1, <1>2, StepFacts
<1>6. Chosen'
  BY <1>1, <1>5, ChosenStays
<1>7. Flags'
  BY <1>1, <1>5, FlagsStay
<1> QED BY <1>1, <1>2, <1>4, <1>6, <1>7, EndFits

LEMMA QuietGoto ==
  ASSUME WorkflowInv, NEW r \in Requests, NEW p, Advances(r, p),
         docs' = docs, flag' = flag, spoiled' = spoiled,
         clips' \in Nat, clips <= clips',
         req[r].pc \notin Drains \cup {"idle", "queued"}
  PROVE  /\ req' \in [Requests -> Request] /\ lock' \in Requests \cup {None}
         /\ InStep' /\ Locked' /\ Apart' /\ Chosen' /\ Flags'
<1>1. /\ req \in [Requests -> Request] /\ clips \in Nat /\ lock \in Requests \cup {None}
      /\ InStep /\ Locked /\ Apart /\ Chosen /\ Flags
  BY DEF WorkflowInv, TypeOK
<1>2. /\ req' = [req EXCEPT ![r].pc = p] /\ p \in Places
      /\ p \notin {"flipAll", "flip"}
  BY DEF Advances, Goto
<1>3. InStep' /\ Locked' /\ Apart'
  BY <1>1, GotoPlaces DEF Advances, At, Drains
<1>4. /\ req'[r].pc = p
      /\ \A o \in Requests \ {r} : req'[o] = req[o]
  BY <1>1, <1>2 DEF Request
<1>5. Chosen'
  BY <1>1, <1>2, <1>4, ChosenStays
<1>6. Flags'
  BY <1>1, <1>4, FlagsStay
<1> QED BY <1>1, <1>2, <1>3, <1>5, <1>6, GotoFits DEF Advances

LEMMA QuietProceed ==
  ASSUME WorkflowInv, NEW r \in Requests, Proceed(r),
         docs' = docs, flag' = flag, spoiled' = spoiled, clips' = clips,
         req[r].pc \notin Drains \cup {"idle", "queued"}
  PROVE  /\ req' \in [Requests -> Request] /\ lock' \in Requests \cup {None}
         /\ InStep' /\ Locked' /\ Apart' /\ Chosen' /\ Flags'
<1>1. clips \in Nat /\ clips' \in Nat /\ clips <= clips'
  BY DEF WorkflowInv, TypeOK
<1>2. CASE req[r].moving
  <2>1. Advances(r, "check")
    BY <1>2 DEF Proceed, Advances, Places, Drains
  <2> QED BY <1>1, <2>1, QuietGoto
<1>3. CASE ~req[r].moving
  <2>1. End(r)
    BY <1>3 DEF Proceed
  <2> QED BY <1>1, <2>1, QuietEnd
<1> QED BY <1>2, <1>3

\* The quiet actions of Work, and a failing model.
Quiet(r) ==
  \/ PatchCheck(r) \/ PatchWrite(r) \/ ReplaceScenes(r) \/ WriteScripts(r) \/ PatchShots(r)
  \/ Point(r) \/ SyncPlan(r) \/ UpsertMetadata(r) \/ LinkMetadata(r) \/ Extracted(r)
  \/ NothingExtracted(r) \/ MakeClip(r) \/ EvictCandidates(r) \/ DrainMetadata(r) \/ ResetFields(r) \/ ModelFails(r)

LEMMA QuietKeeps ==
  ASSUME WorkflowInv, NEW r \in Requests, Quiet(r)
  PROVE  WorkflowInv'
<1> USE DEF store, shorts, refs
<1>0. TypeOK /\ InStep /\ clips \in Nat /\ clips <= clips /\ req[r] \in Request
  BY DEF WorkflowInv, TypeOK
<1> DEFINE Fine == /\ req' \in [Requests -> Request] /\ lock' \in Requests \cup {None}
                   /\ InStep' /\ Locked' /\ Apart' /\ Chosen' /\ Flags'
<1>1. CASE PatchCheck(r)
  <2>1. CASE Allowed(status, req[r].step.to)
    <3>1. req[r].step.to \in Statuses
      BY <1>0, <2>1 DEF TypeOK, Allowed, Transitions, Statuses, V1Statuses, V2Statuses
    <3>2. Advances(r, "write")
      BY <1>1, <2>1, <3>1 DEF PatchCheck, Advances, Places, Drains
    <3>3. Fine
      BY <1>0, <1>1, <3>2, QuietGoto DEF PatchCheck, At, Drains
    <3> QED BY <1>0, <1>1, <3>3 DEF PatchCheck, WorkflowInv, TypeOK
  <2>2. CASE ~Allowed(status, req[r].step.to)
    <3>1. Fine
      BY <1>0, <1>1, <2>2, QuietEnd DEF PatchCheck, At, Drains
    <3> QED BY <1>0, <1>1, <3>1 DEF PatchCheck, WorkflowInv, TypeOK
  <2> QED BY <2>1, <2>2
<1>2. CASE PatchWrite(r)
  <2>1. \/ (Goto(r, "scripts") /\ lock' = lock) \/ (Goto(r, "cache") /\ lock' = lock) \/ End(r)
    BY <1>2, Zenon DEF PatchWrite
  <2>2. /\ At(r, "write") /\ docs' = docs /\ flag' = flag /\ clips' = clips /\ spoiled' = spoiled
        /\ status' = req[r].step.to
        /\ UNCHANGED <<scenes, docs, flag, delSel, meta, metaRef, clips, cache, made, spoiled, mishaps>>
    BY <1>2 DEF PatchWrite
  <2>3. Fine
    <3>1. CASE Goto(r, "scripts") /\ lock' = lock
      <4>1. Advances(r, "scripts")
        BY <3>1 DEF Advances, Places, Drains
      <4> QED BY <1>0, <2>2, <4>1, QuietGoto DEF At, Drains
    <3>2. CASE Goto(r, "cache") /\ lock' = lock
      <4>1. Advances(r, "cache")
        BY <3>2 DEF Advances, Places, Drains
      <4> QED BY <1>0, <2>2, <4>1, QuietGoto DEF At, Drains
    <3>3. CASE End(r)
      BY <1>0, <2>2, <3>3, QuietEnd DEF At, Drains
    <3> QED BY <2>1, <3>1, <3>2, <3>3
  <2>4. planSel' \in [Kinds -> Refs]
    <3>1. req[r].pick \in Refs /\ planSel \in [Kinds -> Refs]
      BY <1>0 DEF TypeOK, Request
    <3>2. \/ planSel' = planSel
          \/ planSel' = [planSel EXCEPT ![KindOf(req[r].step)] = req[r].pick]
      BY <1>2 DEF PatchWrite
    <3> QED BY <3>1, <3>2
  <2>5. status' \in Statuses
    BY <1>0, <2>2 DEF InStep
  <2> QED BY <1>0, <2>2, <2>3, <2>4, <2>5 DEF WorkflowInv, TypeOK
<1>3. CASE ReplaceScenes(r)
  <2>1. Fine
    BY <1>0, <1>3, QuietProceed DEF ReplaceScenes, At, Drains
  <2> QED BY <1>0, <1>3, <2>1 DEF ReplaceScenes, WorkflowInv, TypeOK
<1>4. CASE WriteScripts(r)
  <2>1. Fine
    BY <1>0, <1>4, QuietEnd DEF WriteScripts, At, Drains
  <2> QED BY <1>0, <1>4, <2>1 DEF WriteScripts, WorkflowInv, TypeOK
<1>5. CASE PatchShots(r)
  <2>1. Fine
    BY <1>0, <1>5, QuietProceed DEF PatchShots, At, Drains
  <2> QED BY <1>0, <1>5, <2>1 DEF PatchShots, WorkflowInv, TypeOK
<1>6. CASE Point(r)
  <2>1. Advances(r, "check") \/ Advances(r, "sync")
    BY <1>0, <1>6 DEF Point, Advances, Places, Drains, InStep, At
  <2>2. Fine
    BY <1>0, <1>6, <2>1, QuietGoto DEF Point, At, Drains
  <2>3. delSel' \in [{"title", "thumb"} -> Refs]
    BY <1>0, <1>6 DEF Point, TypeOK, Request
  <2> QED BY <1>0, <1>6, <2>2, <2>3 DEF Point, WorkflowInv, TypeOK
<1>7. CASE SyncPlan(r)
  <2>1. Fine
    BY <1>0, <1>7, QuietEnd DEF SyncPlan, At, Drains
  <2>2. planSel' \in [Kinds -> Refs]
    BY <1>0, <1>7 DEF SyncPlan, TypeOK, Request
  <2> QED BY <1>0, <1>7, <2>1, <2>2 DEF SyncPlan, WorkflowInv, TypeOK
<1>8. CASE UpsertMetadata(r)
  <2>1. Advances(r, "link")
    BY <1>0, <1>8 DEF UpsertMetadata, Advances, Places, Drains, InStep, At
  <2>2. Fine
    BY <1>0, <1>8, <2>1, QuietGoto DEF UpsertMetadata, At, Drains
  <2> QED BY <1>0, <1>8, <2>2 DEF UpsertMetadata, WorkflowInv, TypeOK
<1>9. CASE LinkMetadata(r)
  <2>1. Fine
    BY <1>0, <1>9, QuietProceed DEF LinkMetadata, At, Drains
  <2> QED BY <1>0, <1>9, <2>1 DEF LinkMetadata, WorkflowInv, TypeOK
<1>10. CASE Extracted(r)
  <2>1. Advances(r, "check") \/ Advances(r, "cache")
    BY <1>0, <1>10 DEF Extracted, Advances, Places, Drains, InStep, At
  <2>2. Fine
    BY <1>0, <1>10, <2>1, QuietGoto DEF Extracted, At, Drains
  <2> QED BY <1>0, <1>10, <2>2 DEF Extracted, WorkflowInv, TypeOK, Request
<1>11. CASE MakeClip(r)
  <2>1. Advances(r, "evict")
    BY <1>11 DEF MakeClip, Advances, Places, Drains
  <2>2. clips' \in Nat /\ clips <= clips' /\ made' \in Nat
    BY <1>0, <1>11 DEF MakeClip, TypeOK
  <2>3. Fine
    BY <1>11, <2>1, <2>2, QuietGoto DEF MakeClip, At, Drains
  <2> QED BY <1>0, <1>11, <2>2, <2>3 DEF MakeClip, WorkflowInv, TypeOK
<1>12. CASE EvictCandidates(r) \/ NothingExtracted(r)
  <2>1. Fine
    BY <1>0, <1>12, QuietEnd DEF EvictCandidates, NothingExtracted, At, Drains
  <2> QED BY <1>0, <1>12, <2>1 DEF EvictCandidates, NothingExtracted, WorkflowInv, TypeOK
<1>13. CASE DrainMetadata(r)
  <2>1. Advances(r, "reset")
    BY <1>0, <1>13 DEF DrainMetadata, Advances, Places, Drains, InStep, At
  <2>2. Fine
    BY <1>0, <1>13, <2>1, QuietGoto DEF DrainMetadata, At, Drains
  <2> QED BY <1>0, <1>13, <2>2 DEF DrainMetadata, WorkflowInv, TypeOK
<1>14. CASE ResetFields(r)
  <2>1. Advances(r, "clips")
    BY <1>0, <1>14 DEF ResetFields, Advances, Places, Drains, InStep, At
  <2>2. Fine
    BY <1>0, <1>14, <2>1, QuietGoto DEF ResetFields, At, Drains
  <2>3. /\ status' \in Statuses /\ metaRef' \in BOOLEAN
        /\ planSel' \in [Kinds -> Refs] /\ delSel' \in [{"title", "thumb"} -> Refs]
    BY <1>0, <1>14 DEF ResetFields, TypeOK, Refs, Statuses, V1Statuses
  <2> QED BY <1>0, <1>14, <2>2, <2>3 DEF ResetFields, WorkflowInv, TypeOK
<1>15. CASE ModelFails(r)
  <2>1. Fine
    BY <1>0, <1>15, QuietEnd DEF ModelFails, At, Drains
  <2> QED BY <1>0, <1>15, <2>1 DEF ModelFails, WorkflowInv, TypeOK
<1> QED BY <1>1, <1>2, <1>3, <1>4, <1>5, <1>6, <1>7, <1>8, <1>9, <1>10, <1>11, <1>12, <1>13, <1>14, <1>15 DEF Quiet

---------------------------------------------------------------------------
(* The deletion of all variants of one kind.                               *)

LEMMA DeleteTypes ==
  ASSUME TypeOK, NEW k \in Kinds, Delete(k)
  PROVE  /\ docs' \in [Kinds -> Nat] /\ flag' \in [Kinds -> SUBSET Nat]
         /\ planSel' \in [Kinds -> Refs] /\ delSel' \in [{"title", "thumb"} -> Refs]
         /\ docs'[k] = 0 /\ flag'[k] = {}
         /\ \A j \in Kinds \ {k} : docs'[j] = docs[j] /\ flag'[j] = flag[j]
<1>1. \A x \in Refs : Dangling(x) \in Refs
  BY DEF Dangling, Refs
<1>2. planSel' \in [Kinds -> Refs]
  <2>1. planSel' = [planSel EXCEPT ![k] = Dangling(planSel[k])]
    BY DEF Delete
  <2> QED BY <1>1, <2>1 DEF TypeOK
<1>3. delSel' \in [{"title", "thumb"} -> Refs]
  BY <1>1 DEF Delete, TypeOK
<1> QED BY <1>2, <1>3 DEF Delete, TypeOK

LEMMA OutdatedFits ==
  ASSUME req \in [Requests -> Request], NEW k \in Kinds, NEW o \in Requests
  PROVE  /\ Outdated(k)[o] \in Request
         /\ Outdated(k)[o].pc = req[o].pc /\ Outdated(k)[o].step = req[o].step
         /\ Outdated(k)[o].locked = req[o].locked /\ Outdated(k)[o].listed = req[o].listed
         /\ Outdated(k)[o].moving = req[o].moving /\ Outdated(k)[o].created = req[o].created
         /\ req[o].step.touches # {k} => Outdated(k)[o] = req[o]
         /\ req[o].pick \in req[o].seen => Outdated(k)[o].pick \in Outdated(k)[o].seen
<1>1. req[o] \in Request
  OBVIOUS
<1>2. CASE req[o].step.touches # {k}
  BY <1>1, <1>2 DEF Outdated
<1>3. CASE req[o].step.touches = {k}
  <2> DEFINE pick == Dangling(req[o].pick)
             seen == {Dangling(x) : x \in req[o].seen}
             new  == [req[o] EXCEPT !.pick = pick, !.seen = seen]
  <2>1. Outdated(k)[o] = new
    BY <1>3 DEF Outdated
  <2>2. pick \in Refs /\ seen \in SUBSET Refs
    BY <1>1 DEF Request, Dangling, Refs
  <2>3. req[o].pick \in req[o].seen => pick \in seen
    OBVIOUS
  <2> HIDE DEF pick, seen
  <2>4. /\ new \in Request
        /\ new.pc = req[o].pc /\ new.step = req[o].step /\ new.locked = req[o].locked
        /\ new.listed = req[o].listed /\ new.pick = pick /\ new.seen = seen
        /\ new.moving = req[o].moving /\ new.created = req[o].created
    BY <1>1, <2>2 DEF Request
  <2> HIDE DEF new
  <2> QED BY <1>3, <2>1, <2>3, <2>4
<1> QED BY <1>2, <1>3

\* What a deletion by request r leaves of the invariant.
LEMMA DeleteKeeps ==
  ASSUME WorkflowInv, NEW r \in Requests, NEW k \in Kinds, k \in req[r].step.touches,
         Delete(k), spoiled \subseteq spoiled',
         \A o \in Requests \ {r} : req'[o] = Outdated(k)[o],
         req'[r].pc \notin {"flipAll", "flip"},
         \A j \in {"title", "thumb"} \ ({k} \cup spoiled') :
           req[r].step = ChangePlanFormatProfile /\ req[r].pc \in {"scenes", "hook", "title"} \cup {j}
             => /\ req'[r].step = ChangePlanFormatProfile
                /\ req'[r].pc \in {"scenes", "hook", "title"} \cup {j}
  PROVE  Chosen' /\ Flags'
<1>0. /\ TypeOK /\ InStep /\ Locked /\ Chosen /\ Flags
      /\ req \in [Requests -> Request]
  BY DEF WorkflowInv, TypeOK
<1>1. /\ docs'[k] = 0 /\ flag'[k] = {}
      /\ \A j \in Kinds \ {k} : docs'[j] = docs[j] /\ flag'[j] = flag[j]
  BY <1>0, DeleteTypes
<1>2. Chosen'
  <2> SUFFICES ASSUME NEW o \in Requests, o # r
               PROVE  /\ At(o, "flipAll")' => req'[o].pick \in Stored("hook")'
                      /\ At(o, "flip")' =>
                           /\ req'[o].pick \in req'[o].seen
                           /\ \A j \in Kinds \ spoiled' :
                                req'[o].step.touches = {j} => flag'[j] \subseteq req'[o].seen
    BY DEF Chosen, At
  <2>1. /\ req'[o] = Outdated(k)[o]
        /\ req'[o].pc = req[o].pc /\ req'[o].step = req[o].step
        /\ req[o].step.touches # {k} => req'[o] = req[o]
        /\ req[o].pick \in req[o].seen => req'[o].pick \in req'[o].seen
    BY <1>0, OutdatedFits
  <2>2. CASE At(o, "flipAll")
    <3>1. req[o].step.touches = {"hook"} /\ req[o].locked
      BY <1>0, <2>2 DEF InStep, Locked
    <3>2. k # "hook"
      <4> SUFFICES ASSUME k = "hook" PROVE FALSE
        OBVIOUS
      <4>1. req[r].locked /\ req[r].pc \notin {"idle", "queued"}
        BY <1>0, StepFacts DEF Locked, InStep, At
      <4>2. lock = r
        BY <1>0, <4>1 DEF Locked
      <4>3. lock = o
        BY <1>0, <2>2, <3>1 DEF Locked, At
      <4> QED BY <4>2, <4>3
    <3> QED BY <1>0, <1>1, <2>1, <2>2, <3>1, <3>2 DEF Chosen, At, Stored, Kinds
  <2>3. CASE At(o, "flip")
    <3>1. ASSUME NEW j \in Kinds \ spoiled', req[o].step.touches = {j}
          PROVE  flag'[j] \subseteq req'[o].seen
      <4>1. CASE j = k
        BY <1>1, <4>1
      <4>2. CASE j # k
        <5>1. req'[o] = req[o] /\ flag'[j] = flag[j]
          BY <1>1, <2>1, <3>1, <4>2
        <5> QED BY <1>0, <2>3, <3>1, <5>1 DEF Chosen
      <4> QED BY <4>1, <4>2
    <3>2. req'[o].pick \in req'[o].seen
      BY <1>0, <2>1, <2>3 DEF Chosen
    <3> QED BY <2>1, <2>3, <3>1, <3>2 DEF At
  <2>4. CASE ~At(o, "flipAll") /\ ~At(o, "flip")
    BY <2>1, <2>4 DEF At
  <2> QED BY <2>2, <2>3, <2>4
<1>3. Flags'
  <2>1. ASSUME NEW j \in Kinds, j # k, j # "hook", j \notin spoiled', Clearing(j)
        PROVE  Clearing(j)'
    <3>1. PICK o \in Requests : /\ req[o].step = ChangePlanFormatProfile
                                /\ req[o].pc \in {"scenes", "hook", "title"} \cup {j}
      BY <2>1 DEF Clearing
    <3>2. CASE o = r
      BY <2>1, <3>1, <3>2 DEF Clearing, Kinds
    <3>3. CASE o # r
      <4>1. req'[o].step = ChangePlanFormatProfile
            /\ req'[o].pc \in {"scenes", "hook", "title"} \cup {j}
        BY <1>0, <3>1, <3>3, OutdatedFits
      <4> QED BY <4>1 DEF Clearing
    <3> QED BY <3>2, <3>3
  <2>2. ASSUME NEW j \in Kinds, j # k PROVE flag'[j] = flag[j] /\ Stored(j)' = Stored(j)
    BY <1>1, <2>2 DEF Stored
  <2> SUFFICES ASSUME NEW j \in Kinds
               PROVE  /\ flag'[j] \subseteq Stored(j)'
                      /\ j = "hook" => One(flag'[j])
                      /\ j \notin spoiled' => One(flag'[j]) \/ Clearing(j)'
    BY DEF Flags
  <2>3. CASE j = k
    BY <1>1, <2>3 DEF One
  <2>4. CASE j # k
    BY <1>0, <2>1, <2>2, <2>4 DEF Flags
  <2> QED BY <2>3, <2>4
<1> QED BY <1>2, <1>3

\* Requests that keep their step and their lock.
LEMMA SameWork ==
  ASSUME WorkflowInv, spoiled \subseteq spoiled', lock' = lock, clips' = clips,
         \A o \in Requests :
           /\ req'[o].step = req[o].step /\ req'[o].locked = req[o].locked
           /\ req'[o].listed = req[o].listed
           /\ req[o].pc \in {"idle", "queued"} => req'[o].pc \in {"idle", "queued"}
  PROVE  Locked' /\ Apart'
<1>1. Locked'
  BY DEF WorkflowInv, Locked
<1>2. Apart'
  BY DEF WorkflowInv, Apart
<1> QED BY <1>1, <1>2

---------------------------------------------------------------------------
(* The steps that write variants.                                          *)

LEMMA WipeKeeps ==
  ASSUME WorkflowInv, NEW r \in Requests, Wipe(r)
  PROVE  WorkflowInv'
<1>0. TypeOK /\ InStep /\ req \in [Requests -> Request]
  BY DEF WorkflowInv, TypeOK
<1>1. PICK k \in Kinds : req[r].step.touches = {k}
  BY <1>0 DEF Wipe, InStep, At
<1>2. KindOf(req[r].step) = k
  BY <1>1, KindOfIs
<1> DEFINE out == Outdated(k)
<1>3. /\ Delete(k) /\ req' = [out EXCEPT ![r].pc = "create"] /\ At(r, "wipe")
      /\ UNCHANGED <<status, scenes, meta, metaRef, clips, cache, made, lock, spoiled, mishaps>>
  BY <1>2 DEF Wipe, shorts
<1>4. /\ out \in [Requests -> Request]
      /\ \A o \in Requests : /\ out[o].step = req[o].step /\ out[o].pc = req[o].pc
                             /\ out[o].locked = req[o].locked /\ out[o].listed = req[o].listed
  <2>1. out = [o \in Requests |-> out[o]]
    BY DEF Outdated
  <2>2. \A o \in Requests : out[o] \in Request
    BY <1>0, OutdatedFits
  <2>3. \A o \in Requests : /\ out[o].step = req[o].step /\ out[o].pc = req[o].pc
                            /\ out[o].locked = req[o].locked /\ out[o].listed = req[o].listed
    BY <1>0, OutdatedFits
  <2> HIDE DEF out
  <2> QED BY <2>1, <2>2, <2>3
<1> HIDE DEF out
<1>5. /\ req' \in [Requests -> Request]
      /\ req'[r].pc = "create" /\ req'[r].step = req[r].step /\ req'[r].locked = req[r].locked
      /\ req'[r].listed = req[r].listed
      /\ \A o \in Requests \ {r} : req'[o] = out[o]
  <2> DEFINE new == [out[r] EXCEPT !.pc = "create"]
  <2>1. out[r] \in Request /\ "create" \in Places
    BY <1>4 DEF Places
  <2>2. /\ new \in Request /\ new.pc = "create" /\ new.step = out[r].step
        /\ new.locked = out[r].locked /\ new.listed = out[r].listed
    BY <2>1 DEF Request
  <2>3. req' = [out EXCEPT ![r] = new]
    BY <1>3
  <2> HIDE DEF new
  <2> QED BY <1>4, <2>2, <2>3
<1>6. TypeOK'
  BY <1>0, <1>3, <1>5, DeleteTypes DEF TypeOK
<1>7. InStep'
  <2>1. ASSUME NEW o \in Requests \ {r}
        PROVE  /\ req'[o].pc = req[o].pc /\ req'[o].step = req[o].step
               /\ At(o, "idle") => req'[o] = req[o]
    <3>1. At(o, "idle") => req[o].step.touches # {k}
      BY <1>0, StepFacts DEF InStep
    <3> QED BY <1>0, <1>4, <1>5, <3>1, OutdatedFits DEF out
  <2> QED BY <1>0, <1>1, <1>5, <2>1 DEF InStep, At
<1>8. Locked' /\ Apart'
  <2>1. ASSUME NEW o \in Requests
        PROVE  /\ req'[o].step = req[o].step /\ req'[o].locked = req[o].locked
               /\ req'[o].listed = req[o].listed
               /\ req[o].pc \in {"idle", "queued"} => req'[o].pc \in {"idle", "queued"}
    BY <1>3, <1>4, <1>5 DEF At
  <2> QED BY <1>3, <2>1, SameWork
<1>9. Chosen' /\ Flags'
  <2>1. \A o \in Requests \ {r} : req'[o] = Outdated(k)[o]
    BY <1>5 DEF out
  <2> QED BY <1>1, <1>3, <1>5, <2>1, DeleteKeeps DEF At, Kinds
<1> QED BY <1>6, <1>7, <1>8, <1>9 DEF WorkflowInv

LEMMA CreateFaultKeeps ==
  ASSUME WorkflowInv, NEW r \in Requests, CreateFault(r)
  PROVE  WorkflowInv'
<1>0. TypeOK /\ InStep /\ Locked /\ Apart /\ req \in [Requests -> Request]
  BY DEF WorkflowInv, TypeOK
<1>1. PICK k \in Kinds : req[r].step.touches = {k}
  BY <1>0 DEF CreateFault, InStep, At
<1>2. KindOf(req[r].step) = k
  BY <1>1, KindOfIs
<1> DEFINE out == Outdated(k)
<1>3. /\ Delete(k) /\ req' = [out EXCEPT ![r] = Idle] /\ At(r, "create")
      /\ lock' = (IF lock = r THEN None ELSE lock)
      /\ spoiled' = spoiled \cup req[r].step.touches /\ mishaps' = mishaps + 1
      /\ UNCHANGED <<status, scenes, meta, metaRef, clips, cache, made>>
  BY <1>2 DEF CreateFault, shorts, Release
<1>4. out \in [Requests -> Request]
  <2>1. out = [o \in Requests |-> out[o]]
    BY DEF Outdated
  <2>2. \A o \in Requests : out[o] \in Request
    BY <1>0, OutdatedFits
  <2> HIDE DEF out
  <2> QED BY <2>1, <2>2
<1>5. /\ req' \in [Requests -> Request] /\ req'[r] = Idle
      /\ \A o \in Requests \ {r} : req'[o] = out[o]
  <2> HIDE DEF out
  <2> QED BY <1>3, <1>4, IdleFits
<1>6. TypeOK'
  <2>1. spoiled' \subseteq Aspects
    BY <1>0, <1>1, <1>3 DEF TypeOK, Aspects
  <2>2. mishaps' \in Nat /\ lock' \in Requests \cup {None}
    BY <1>0, <1>3 DEF TypeOK
  <2> QED BY <1>0, <1>3, <1>5, <2>1, <2>2, DeleteTypes DEF TypeOK
<1>7. ASSUME NEW o \in Requests \ {r}
      PROVE  /\ req'[o].pc = req[o].pc /\ req'[o].step = req[o].step
             /\ req'[o].locked = req[o].locked /\ req'[o].listed = req[o].listed
             /\ At(o, "idle") => req'[o] = req[o]
  <2>1. At(o, "idle") => req[o].step.touches # {k}
    BY <1>0, StepFacts DEF InStep
  <2> QED BY <1>0, <1>5, <2>1, OutdatedFits
<1>8. InStep'
  BY <1>0, <1>5, <1>7, StepFacts DEF InStep, At
<1>9. Locked'
  BY <1>0, <1>3, <1>5, <1>7, StepFacts DEF Locked
<1>10. Apart'
  BY <1>0, <1>3, <1>5, <1>7, StepFacts DEF Apart
<1>11. Chosen' /\ Flags'
  BY <1>1, <1>3, <1>5, DeleteKeeps, StepFacts DEF At, Kinds
<1> QED BY <1>6, <1>8, <1>9, <1>10, <1>11 DEF WorkflowInv

\* A format change deletes one kind after the other.
LEMMA DrainKeeps ==
  ASSUME WorkflowInv, NEW r \in Requests, Drain(r)
  PROVE  WorkflowInv'
<1>0. TypeOK /\ InStep /\ req \in [Requests -> Request]
  BY DEF WorkflowInv, TypeOK
<1>1. PICK k \in Kinds :
        /\ At(r, k) /\ Delete(k) /\ req' = [Outdated(k) EXCEPT ![r].pc = AfterDrain[k]]
        /\ UNCHANGED <<status, scenes, meta, metaRef, clips, cache, made, lock, spoiled, mishaps>>
  BY DEF Drain, shorts
<1> DEFINE out == Outdated(k)
<1>2. req[r].step = ChangePlanFormatProfile
  BY <1>0, <1>1 DEF InStep, At, Kinds
<1>3. k \in req[r].step.touches
  BY <1>2, StepFacts DEF Aspects
<1>4. AfterDrain[k] \in {"title", "thumb", "meta"}
  BY DEF AfterDrain, Kinds
<1>5. /\ out \in [Requests -> Request]
      /\ \A o \in Requests : /\ out[o].step = req[o].step /\ out[o].pc = req[o].pc
                             /\ out[o].locked = req[o].locked /\ out[o].listed = req[o].listed
  <2>1. out = [o \in Requests |-> out[o]]
    BY DEF Outdated
  <2>2. \A o \in Requests : out[o] \in Request
    BY <1>0, OutdatedFits
  <2>3. \A o \in Requests : /\ out[o].step = req[o].step /\ out[o].pc = req[o].pc
                            /\ out[o].locked = req[o].locked /\ out[o].listed = req[o].listed
    BY <1>0, OutdatedFits
  <2> HIDE DEF out
  <2> QED BY <2>1, <2>2, <2>3
<1>6. /\ req' \in [Requests -> Request]
      /\ req'[r].pc = AfterDrain[k] /\ req'[r].step = req[r].step
      /\ req'[r].locked = req[r].locked /\ req'[r].listed = req[r].listed
      /\ \A o \in Requests \ {r} : req'[o] = out[o]
  <2> DEFINE new == [out[r] EXCEPT !.pc = AfterDrain[k]]
  <2>1. out[r] \in Request /\ AfterDrain[k] \in Places
    BY <1>4, <1>5 DEF Places
  <2>2. /\ new \in Request /\ new.pc = AfterDrain[k] /\ new.step = out[r].step
        /\ new.locked = out[r].locked /\ new.listed = out[r].listed
    BY <2>1 DEF Request
  <2>3. req' = [out EXCEPT ![r] = new]
    BY <1>1
  <2> HIDE DEF new, out
  <2> QED BY <1>5, <2>2, <2>3
<1>7. TypeOK'
  BY <1>0, <1>1, <1>6, DeleteTypes DEF TypeOK
<1>8. InStep'
  <2>1. ASSUME NEW o \in Requests \ {r}
        PROVE  /\ req'[o].pc = req[o].pc /\ req'[o].step = req[o].step
               /\ At(o, "idle") => req'[o] = req[o]
    <3>1. At(o, "idle") => req[o].step.touches # {k}
      BY <1>0, StepFacts DEF InStep
    <3> QED BY <1>0, <1>5, <1>6, <3>1, OutdatedFits
  <2> QED BY <1>0, <1>2, <1>4, <1>6, <2>1 DEF InStep, At
<1>9. Locked' /\ Apart'
  <2>1. ASSUME NEW o \in Requests
        PROVE  /\ req'[o].step = req[o].step /\ req'[o].locked = req[o].locked
               /\ req'[o].listed = req[o].listed
               /\ req[o].pc \in {"idle", "queued"} => req'[o].pc \in {"idle", "queued"}
    BY <1>1, <1>5, <1>6 DEF At, Kinds
  <2> QED BY <1>1, <2>1, SameWork
<1>10. Chosen' /\ Flags'
  <2>1. \A j \in {"title", "thumb"} \ {k} :
          req[r].pc \in {"scenes", "hook", "title"} \cup {j}
            => req'[r].pc \in {"scenes", "hook", "title"} \cup {j}
    BY <1>1, <1>6 DEF At, Kinds, AfterDrain
  <2> QED BY <1>1, <1>2, <1>3, <1>4, <1>6, <2>1, DeleteKeeps
<1> QED BY <1>7, <1>8, <1>9, <1>10 DEF WorkflowInv

LEMMA CreateKeeps ==
  ASSUME WorkflowInv, NEW r \in Requests, Create(r)
  PROVE  WorkflowInv'
<1>0. /\ TypeOK /\ InStep /\ Locked /\ Apart /\ Chosen /\ Flags
      /\ req \in [Requests -> Request] /\ clips \in Nat /\ clips <= clips
      /\ lock \in Requests \cup {None}
  BY DEF WorkflowInv, TypeOK
<1>1. PICK k \in Kinds : req[r].step.touches = {k}
  BY <1>0 DEF Create, InStep, At
<1>2. KindOf(req[r].step) = k
  BY <1>1, KindOfIs
<1>3. /\ At(r, "create")
      /\ docs' = [docs EXCEPT ![k] = docs[k] + 1] /\ flag' = flag
      /\ clips' = clips /\ spoiled' = spoiled
      /\ UNCHANGED <<status, scenes, planSel, delSel, meta, metaRef, cache, made, mishaps>>
  BY <1>2 DEF Create, shorts, refs
<1>4. /\ docs' \in [Kinds -> Nat]
      /\ \A j \in Kinds : Stored(j) \subseteq Stored(j)'
  <2>1. docs' \in [Kinds -> Nat] /\ \A j \in Kinds : docs[j] \in Nat /\ docs[j] <= docs'[j]
    BY <1>0, <1>3 DEF TypeOK
  <2> QED BY <2>1 DEF Stored
<1>5. \/ \E n \in Nat : req' = [req EXCEPT ![r].created = n] /\ lock' = lock
      \/ Goto(r, "check") /\ lock' = lock
      \/ End(r)
  <2>1. req[r].created + 1 \in Nat
    BY <1>0 DEF Request
  <2> QED BY <2>1 DEF Create, Proceed
<1>6. /\ req' \in [Requests -> Request] /\ lock' \in Requests \cup {None}
      /\ InStep' /\ Locked' /\ Apart'
      /\ req'[r].pc \in {"idle", "create", "check"}
      /\ \A o \in Requests \ {r} : req'[o] = req[o]
  <2>1. CASE \E n \in Nat : req' = [req EXCEPT ![r].created = n] /\ lock' = lock
    <3>1. PICK n \in Nat : req' = [req EXCEPT ![r].created = n]
      BY <2>1
    <3> DEFINE new == [req[r] EXCEPT !.created = n]
    <3>2. /\ new \in Request /\ new.pc = req[r].pc /\ new.step = req[r].step
          /\ new.locked = req[r].locked /\ new.listed = req[r].listed
      <4>1. req[r] \in Request
        BY <1>0
      <4> QED BY <4>1 DEF Request
    <3>3. req' = [req EXCEPT ![r] = new]
      BY <3>1
    <3> HIDE DEF new
    <3>4. /\ req' \in [Requests -> Request] /\ req'[r] = new
          /\ \A o \in Requests \ {r} : req'[o] = req[o]
      BY <1>0, <3>2, <3>3
    <3>5. ASSUME NEW o \in Requests
          PROVE  /\ req'[o].pc = req[o].pc /\ req'[o].step = req[o].step
                 /\ req'[o].locked = req[o].locked /\ req'[o].listed = req[o].listed
                 /\ At(o, "idle") => req'[o] = req[o]
      BY <1>3, <3>2, <3>4 DEF At
    <3>6. InStep'
      BY <1>0, <3>5 DEF InStep, At
    <3>7. Locked' /\ Apart'
      BY <1>3, <2>1, <3>5, SameWork
    <3> QED BY <1>0, <1>3, <2>1, <3>4, <3>5, <3>6, <3>7 DEF At
  <2>2. CASE Goto(r, "check") /\ lock' = lock
    <3>1. InStep' /\ Locked' /\ Apart'
      BY <1>0, <1>3, <2>2, GotoPlaces DEF At, Drains
    <3>2. req' \in [Requests -> Request]
      BY <1>0, <2>2, GotoFits DEF Goto, Places
    <3>3. req'[r].pc = "check" /\ \A o \in Requests \ {r} : req'[o] = req[o]
      BY <1>0, <2>2 DEF Goto, Request
    <3> QED BY <1>0, <2>2, <3>1, <3>2, <3>3
  <2>3. CASE End(r)
    <3>1. \A o \in Requests : req[o].step = ChangePlanFormatProfile => req[o].listed <= clips'
      BY <1>0, <1>3 DEF Locked
    <3>2. InStep' /\ Locked' /\ Apart'
      BY <1>0, <1>3, <2>3, <3>1, EndPlaces
    <3>3. req' \in [Requests -> Request] /\ lock' \in Requests \cup {None}
      BY <1>0, <2>3, EndFits DEF End, Release
    <3>4. req'[r].pc = "idle" /\ \A o \in Requests \ {r} : req'[o] = req[o]
      BY <1>0, <2>3, StepFacts DEF End
    <3> QED BY <3>2, <3>3, <3>4
  <2> QED BY <1>5, <2>1, <2>2, <2>3
<1>7. TypeOK'
  BY <1>0, <1>3, <1>4, <1>6 DEF TypeOK
<1>8. Chosen'
  <2>1. ASSUME NEW o \in Requests, req'[o].pc \in {"flipAll", "flip"}
        PROVE  req'[o] = req[o]
    BY <1>6, <2>1
  <2>2. Stored("hook") \subseteq Stored("hook")'
    BY <1>4 DEF Kinds
  <2> QED BY <1>0, <1>3, <2>1, <2>2 DEF Chosen, At
<1>9. Flags'
  <2>1. ASSUME NEW j \in Kinds, Clearing(j) PROVE Clearing(j)'
    <3>1. PICK o \in Requests : /\ req[o].step = ChangePlanFormatProfile
                                /\ req[o].pc \in {"scenes", "hook", "title"} \cup {j}
      BY <2>1 DEF Clearing
    <3>2. o # r
      BY <1>3, <3>1 DEF At, Kinds
    <3> QED BY <1>6, <3>1, <3>2 DEF Clearing
  <2> QED BY <1>0, <1>3, <1>4, <2>1 DEF Flags
<1> QED BY <1>6, <1>7, <1>8, <1>9 DEF WorkflowInv

LEMMA FlipHookKeeps ==
  ASSUME WorkflowInv, NEW r \in Requests, FlipHook(r)
  PROVE  WorkflowInv'
<1>0. /\ TypeOK /\ InStep /\ Locked /\ Apart /\ Chosen /\ Flags
      /\ req \in [Requests -> Request]
  BY DEF WorkflowInv, TypeOK
<1>1. /\ At(r, "flipAll") /\ End(r)
      /\ flag' = [flag EXCEPT !["hook"] = {req[r].pick}]
      /\ planSel' = [planSel EXCEPT !["hook"] = req[r].pick]
      /\ status' = "hook_selected"
      /\ UNCHANGED <<scenes, docs, delSel, meta, metaRef, clips, cache, made, spoiled, mishaps>>
  BY DEF FlipHook, shorts
<1>2. req[r].pick \in Stored("hook") /\ req[r].pick \in Refs
  BY <1>0, <1>1 DEF Chosen, Request
<1>3. /\ req'[r].pc = "idle" /\ \A o \in Requests \ {r} : req'[o] = req[o]
  BY <1>0, <1>1, StepFacts DEF End
<1>4. InStep' /\ Locked' /\ Apart'
  <2>1. \A o \in Requests : req[o].step = ChangePlanFormatProfile => req[o].listed <= clips'
    BY <1>0, <1>1 DEF Locked
  <2> QED BY <1>0, <1>1, <2>1, EndPlaces
<1>5. /\ flag' \in [Kinds -> SUBSET Nat] /\ flag'["hook"] = {req[r].pick}
      /\ \A j \in Kinds \ {"hook"} : flag'[j] = flag[j]
  BY <1>0, <1>1, <1>2 DEF TypeOK, Stored, Kinds
<1>6. TypeOK'
  <2>1. req' \in [Requests -> Request] /\ lock' \in Requests \cup {None}
    BY <1>0, <1>1, EndFits DEF End, Release, TypeOK
  <2>2. planSel' \in [Kinds -> Refs] /\ status' \in Statuses
    BY <1>0, <1>1, <1>2 DEF TypeOK, Statuses, V2Statuses
  <2> QED BY <1>0, <1>1, <1>5, <2>1, <2>2 DEF TypeOK
<1>7. Chosen'
  <2> SUFFICES ASSUME NEW o \in Requests, o # r
               PROVE  /\ At(o, "flipAll") => req[o].pick \in Stored("hook")
                      /\ At(o, "flip") =>
                           /\ req[o].pick \in req[o].seen
                           /\ \A j \in Kinds \ spoiled :
                                req[o].step.touches = {j} => flag'[j] \subseteq req[o].seen
    BY <1>1, <1>3 DEF Chosen, At, Stored
  <2>1. ASSUME NEW j \in Kinds, At(o, "flip"), req[o].step.touches = {j} PROVE j # "hook"
    BY <1>0, <2>1 DEF InStep, At
  <2> QED BY <1>0, <1>5, <2>1 DEF Chosen
<1>8. Flags'
  <2>1. ASSUME NEW j \in Kinds, Clearing(j) PROVE Clearing(j)'
    <3>1. PICK o \in Requests : /\ req[o].step = ChangePlanFormatProfile
                                /\ req[o].pc \in {"scenes", "hook", "title"} \cup {j}
      BY <2>1 DEF Clearing
    <3>2. o # r
      BY <1>1, <3>1 DEF At, Kinds
    <3> QED BY <1>3, <3>1, <3>2 DEF Clearing
  <2>2. \A j \in Kinds : Stored(j)' = Stored(j)
    BY <1>1 DEF Stored
  <2>3. One(flag'["hook"]) /\ flag'["hook"] \subseteq Stored("hook")
    BY <1>2, <1>5 DEF One
  <2> QED BY <1>0, <1>1, <1>5, <2>1, <2>2, <2>3 DEF Flags
<1> QED BY <1>4, <1>6, <1>7, <1>8 DEF WorkflowInv

LEMMA ListKeeps ==
  ASSUME WorkflowInv, NEW r \in Requests, ListVariants(r)
  PROVE  WorkflowInv'
<1>0. /\ TypeOK /\ InStep /\ Locked /\ Apart /\ Chosen /\ Flags
      /\ req \in [Requests -> Request] /\ clips \in Nat /\ clips <= clips
  BY DEF WorkflowInv, TypeOK
<1>1. PICK k \in {"title", "thumb"} : req[r].step.touches = {k}
  BY <1>0 DEF ListVariants, InStep, At
<1>2. KindOf(req[r].step) = k
  BY <1>1, KindOfIs DEF Kinds
<1>3. At(r, "list") /\ UNCHANGED <<store, shorts, spoiled, mishaps>>
  BY DEF ListVariants
<1>4. CASE req[r].pick \notin Stored(k)
  <2>1. End(r)
    BY <1>2, <1>4 DEF ListVariants
  <2>2. /\ req' \in [Requests -> Request] /\ lock' \in Requests \cup {None}
        /\ InStep' /\ Locked' /\ Apart' /\ Chosen' /\ Flags'
    BY <1>0, <1>3, <2>1, QuietEnd DEF At, Drains, store
  <2> QED BY <1>0, <1>3, <2>2 DEF WorkflowInv, TypeOK, store, shorts, refs
<1>5. CASE req[r].pick \in Stored(k)
  <2> DEFINE new == [req[r] EXCEPT !.pc = "flip", !.seen = Stored(k)]
  <2>1. req' = [req EXCEPT ![r] = new] /\ lock' = lock
    BY <1>2, <1>5 DEF ListVariants
  <2>2. /\ new \in Request /\ new.pc = "flip" /\ new.step = req[r].step
        /\ new.locked = req[r].locked /\ new.listed = req[r].listed
        /\ new.pick = req[r].pick /\ new.seen = Stored(k)
    <3>1. req[r] \in Request /\ Stored(k) \in SUBSET Refs
      BY <1>0 DEF Stored, Refs
    <3> HIDE DEF Stored
    <3> QED BY <3>1 DEF Request, Places
  <2> HIDE DEF new
  <2>3. /\ req' \in [Requests -> Request] /\ req'[r] = new
        /\ \A o \in Requests \ {r} : req'[o] = req[o]
    BY <1>0, <2>1, <2>2
  <2>4. TypeOK'
    BY <1>0, <1>3, <2>1, <2>3 DEF TypeOK, store, shorts, refs
  <2>5. InStep'
    <3>1. ASSUME NEW o \in Requests \ {r} PROVE req'[o] = req[o]
      BY <2>3
    <3> QED BY <1>0, <1>1, <2>2, <2>3, <3>1 DEF InStep, At
  <2>6. Locked' /\ Apart'
    <3>1. ASSUME NEW o \in Requests
          PROVE  /\ req'[o].step = req[o].step /\ req'[o].locked = req[o].locked
                 /\ req'[o].listed = req[o].listed
                 /\ req[o].pc \in {"idle", "queued"} => req'[o].pc \in {"idle", "queued"}
      BY <1>3, <2>2, <2>3 DEF At
    <3> QED BY <1>3, <2>1, <3>1, SameWork DEF store
  <2>7. Chosen'
    <3>1. UNCHANGED <<docs, flag, spoiled>>
      BY <1>3 DEF store
    <3>2. /\ req'[r].pc = "flip" /\ req'[r].pick \in req'[r].seen
          /\ req'[r].step.touches = {k} /\ flag[k] \subseteq req'[r].seen
      BY <1>0, <1>1, <1>5, <2>2, <2>3 DEF Flags, Kinds
    <3>3. \A j : req'[r].step.touches = {j} => j = k
      BY <3>2
    <3> QED BY <1>0, <2>3, <3>1, <3>2, <3>3 DEF Chosen, At, Stored
  <2>8. Flags'
    BY <1>0, <1>3, <2>3, FlagsStay DEF At, Drains, store
  <2> QED BY <2>4, <2>5, <2>6, <2>7, <2>8 DEF WorkflowInv
<1> QED BY <1>4, <1>5

LEMMA FlipKeeps ==
  ASSUME WorkflowInv, NEW r \in Requests, Flip(r)
  PROVE  WorkflowInv'
<1>0. /\ TypeOK /\ InStep /\ Locked /\ Apart /\ Chosen /\ Flags
      /\ req \in [Requests -> Request] /\ clips \in Nat /\ clips <= clips
  BY DEF WorkflowInv, TypeOK
<1>1. PICK k \in {"title", "thumb"} : req[r].step.touches = {k}
  BY <1>0 DEF Flip, InStep, At
<1>2. KindOf(req[r].step) = k /\ k \in Kinds /\ k # "hook"
  BY <1>1, KindOfIs DEF Kinds
<1>3. /\ At(r, "flip")
      /\ UNCHANGED <<status, scenes, docs, planSel, delSel, meta, metaRef, clips, cache, made,
                     spoiled, mishaps>>
  BY DEF Flip, shorts, refs
<1>4. CASE ~(req[r].seen \subseteq Stored(k))
  <2>1. End(r) /\ flag' = flag
    BY <1>2, <1>4 DEF Flip
  <2>2. /\ req' \in [Requests -> Request] /\ lock' \in Requests \cup {None}
        /\ InStep' /\ Locked' /\ Apart' /\ Chosen' /\ Flags'
    BY <1>0, <1>3, <2>1, QuietEnd DEF At, Drains
  <2> QED BY <1>0, <1>3, <2>1, <2>2 DEF WorkflowInv, TypeOK
<1>5. CASE req[r].seen \subseteq Stored(k)
  <2> DEFINE new == [req[r] EXCEPT !.pc = "point", !.seen = {}]
             now == (flag[k] \ req[r].seen) \cup {req[r].pick}
  <2>1. req' = [req EXCEPT ![r] = new] /\ lock' = lock /\ flag' = [flag EXCEPT ![k] = now]
    BY <1>2, <1>5 DEF Flip
  <2>2. /\ new \in Request /\ new.pc = "point" /\ new.step = req[r].step
        /\ new.locked = req[r].locked /\ new.listed = req[r].listed
    <3>1. req[r] \in Request
      BY <1>0
    <3> QED BY <3>1 DEF Request, Places
  <2> HIDE DEF new
  <2>3. /\ req' \in [Requests -> Request] /\ req'[r] = new
        /\ \A o \in Requests \ {r} : req'[o] = req[o]
    BY <1>0, <2>1, <2>2
  <2>4. req[r].pick \in req[r].seen /\ (k \notin spoiled => flag[k] \subseteq req[r].seen)
    BY <1>0, <1>1, <1>2, <1>3 DEF Chosen
  <2>5. now \subseteq Stored(k) /\ (k \notin spoiled => One(now))
    <3>1. now \subseteq Stored(k)
      BY <1>0, <1>2, <1>5, <2>4 DEF Flags
    <3>2. ASSUME k \notin spoiled PROVE now = {req[r].pick}
      BY <2>4, <3>2
    <3> HIDE DEF now
    <3> QED BY <3>1, <3>2 DEF One
  <2>6. now \in SUBSET Nat
    BY <2>5 DEF Stored
  <2> HIDE DEF now
  <2>7. /\ flag' \in [Kinds -> SUBSET Nat] /\ flag'[k] = now
        /\ \A j \in Kinds \ {k} : flag'[j] = flag[j]
    BY <1>0, <1>2, <2>1, <2>6 DEF TypeOK
  <2>8. TypeOK'
    BY <1>0, <1>3, <2>1, <2>3, <2>7 DEF TypeOK
  <2>9. InStep'
    <3>1. ASSUME NEW o \in Requests \ {r} PROVE req'[o] = req[o]
      BY <2>3
    <3> QED BY <1>0, <1>1, <2>2, <2>3, <3>1 DEF InStep, At
  <2>10. Locked' /\ Apart'
    <3>1. ASSUME NEW o \in Requests
          PROVE  /\ req'[o].step = req[o].step /\ req'[o].locked = req[o].locked
                 /\ req'[o].listed = req[o].listed
                 /\ req[o].pc \in {"idle", "queued"} => req'[o].pc \in {"idle", "queued"}
      BY <1>3, <2>2, <2>3 DEF At
    <3> QED BY <1>3, <2>1, <3>1, SameWork
  <2>11. Chosen'
    <3> SUFFICES ASSUME NEW o \in Requests, o # r
                 PROVE  /\ At(o, "flipAll") => req[o].pick \in Stored("hook")
                        /\ At(o, "flip") =>
                             /\ req[o].pick \in req[o].seen
                             /\ \A j \in Kinds \ spoiled :
                                  req[o].step.touches = {j} => flag'[j] \subseteq req[o].seen
      BY <1>3, <2>2, <2>3 DEF Chosen, At, Stored
    <3>1. ASSUME NEW j \in Kinds \ spoiled, req[o].step.touches = {j} PROVE j # k
      BY <1>0, <1>1, <1>2, <3>1 DEF Apart
    <3> QED BY <1>0, <2>7, <3>1 DEF Chosen
  <2>12. Flags'
    <3>1. ASSUME NEW j \in Kinds, Clearing(j) PROVE Clearing(j)'
      <4>1. PICK o \in Requests : /\ req[o].step = ChangePlanFormatProfile
                                  /\ req[o].pc \in {"scenes", "hook", "title"} \cup {j}
        BY <3>1 DEF Clearing
      <4>2. o # r
        BY <1>3, <4>1 DEF At, Kinds
      <4> QED BY <2>3, <4>1, <4>2 DEF Clearing
    <3>2. \A j \in Kinds : Stored(j)' = Stored(j)
      BY <1>3 DEF Stored
    <3> QED BY <1>0, <1>2, <1>3, <2>5, <2>7, <3>1, <3>2 DEF Flags
  <2> QED BY <2>8, <2>9, <2>10, <2>11, <2>12 DEF WorkflowInv
<1> QED BY <1>4, <1>5

---------------------------------------------------------------------------
(* The other steps.                                                        *)

\* No two format changes are past their first check at the same time.
LEMMA OneFormatChange ==
  ASSUME InStep, Locked, NEW r \in Requests, NEW o \in Requests,
         req[r].step = ChangePlanFormatProfile, req[o].step = ChangePlanFormatProfile
  PROVE  r = o
<1>1. ASSUME NEW q \in Requests, req[q].step = ChangePlanFormatProfile PROVE lock = q
  <2>1. req[q].locked
    BY <1>1, StepFacts DEF Locked, Aspects, Kinds
  <2>2. req[q].pc \notin {"idle", "queued"}
    BY <1>1, StepFacts DEF InStep, At
  <2> QED BY <2>1, <2>2 DEF Locked
<1> QED BY <1>1

LEMMA FinalizeUnderLockKeeps ==
  ASSUME WorkflowInv, NEW r \in Requests, FinalizeUnderLock(r)
  PROVE  WorkflowInv'
<1>0. /\ TypeOK /\ InStep /\ Locked /\ Apart /\ Chosen /\ Flags
      /\ req \in [Requests -> Request]
  BY DEF WorkflowInv, TypeOK
<1>1. /\ At(r, "queued") /\ lock = None /\ lock' = r /\ Goto(r, "check")
      /\ UNCHANGED <<store, cache, made, spoiled, mishaps>>
  BY DEF FinalizeUnderLock, shorts
<1>2. req' \in [Requests -> Request]
  BY <1>0, <1>1, GotoFits DEF Goto, Places
<1>3. /\ req'[r].pc = "check" /\ req'[r].step = req[r].step /\ req'[r].locked = req[r].locked
      /\ req'[r].listed = req[r].listed
      /\ \A o \in Requests \ {r} : req'[o] = req[o]
  BY <1>0, <1>1 DEF Goto, Request
<1>4. TypeOK'
  BY <1>0, <1>1, <1>2 DEF TypeOK, store, refs
<1>5. InStep'
  <2>1. ASSUME NEW o \in Requests \ {r} PROVE req'[o] = req[o]
    BY <1>3
  <2> QED BY <1>0, <1>3, <2>1 DEF InStep, At
<1>6. Locked'
  <2>1. ASSUME NEW o \in Requests, req'[o].locked, req'[o].pc \notin {"idle", "queued"}
        PROVE  lock' = o
    <3>1. CASE o = r
      BY <1>1, <3>1
    <3>2. CASE o # r
      <4>1. lock = o
        BY <1>0, <1>3, <2>1, <3>2, Zenon DEF Locked
      <4> QED BY <1>1, <4>1, AbsentAssumption
    <3> QED BY <3>1, <3>2
  <2>2. ASSUME NEW o \in Requests, "hook" \in req'[o].step.touches PROVE req'[o].locked
    BY <1>0, <1>3, <2>2, Zenon DEF Locked
  <2>3. ASSUME NEW o \in Requests, req'[o].step = ChangePlanFormatProfile
        PROVE  req'[o].listed <= clips'
    BY <1>0, <1>1, <1>3, <2>3 DEF Locked, store
  <2> QED BY <2>1, <2>2, <2>3 DEF Locked
<1>7. Apart'
  BY <1>0, <1>1, <1>3 DEF Apart
<1>8. Chosen'
  BY <1>0, <1>1, <1>3, ChosenStays DEF store
<1>9. Flags'
  BY <1>0, <1>1, <1>3, FlagsStay DEF At, Drains, store
<1> QED BY <1>4, <1>5, <1>6, <1>7, <1>8, <1>9 DEF WorkflowInv

\* A new extraction outdates what the approvals at work have read, no more.
LEMMA CacheKeeps ==
  ASSUME WorkflowInv, NEW r \in Requests, CacheCandidates(r)
  PROVE  WorkflowInv'
<1>0. /\ TypeOK /\ InStep /\ Locked /\ Apart /\ Chosen /\ Flags
      /\ req \in [Requests -> Request]
  BY DEF WorkflowInv, TypeOK
<1>1. /\ At(r, "cache") /\ cache' = TRUE /\ made' = 0
      /\ spoiled' \subseteq spoiled /\ \A k \in Kinds : k \in spoiled' <=> k \in spoiled
      /\ UNCHANGED <<store, lock, mishaps>>
  BY DEF CacheCandidates, Kinds
<1>2. /\ ApproveShortCandidate.touches = {"short"} /\ ApproveShortCandidate # NoStep
      /\ ApproveShortCandidate # ChangePlanFormatProfile
      /\ ApproveShortCandidate # Finalize
  BY DEF ApproveShortCandidate, NoStep, ChangePlanFormatProfile, Finalize, Step
<1>3. req'[r] = Idle
  BY DEF CacheCandidates
<1>4. ASSUME NEW o \in Requests \ {r}
      PROVE  /\ req'[o] \in Request
             /\ req'[o].pc = req[o].pc /\ req'[o].step = req[o].step
             /\ req'[o].locked = req[o].locked /\ req'[o].listed = req[o].listed
             /\ req[o].step # ApproveShortCandidate => req'[o] = req[o]
  <2>1. req[o] \in Request /\ Gone \in Refs
    BY <1>0 DEF Refs
  <2>2. req'[o] = IF req[o].step = ApproveShortCandidate
                    THEN [req[o] EXCEPT !.pick = Gone] ELSE req[o]
    BY DEF CacheCandidates
  <2> QED BY <2>1, <2>2 DEF Request
<1>5. req' \in [Requests -> Request]
  <2>1. req' = [o \in Requests |-> req'[o]]
    BY DEF CacheCandidates
  <2> QED BY <1>3, <1>4, <2>1, IdleFits
<1>6. TypeOK'
  BY <1>0, <1>1, <1>5 DEF TypeOK, store, refs
<1>7. InStep'
  <2>1. ASSUME NEW o \in Requests \ {r}
        PROVE  At(o, "idle") => req'[o] = req[o]
    BY <1>0, <1>2, <1>4, StepFacts DEF InStep
  <2> QED BY <1>0, <1>3, <1>4, <2>1, StepFacts DEF InStep, At
<1>8. Locked'
  BY <1>0, <1>1, <1>3, <1>4, StepFacts DEF Locked, store
<1>9. Apart'
  BY <1>0, <1>1, <1>3, <1>4, StepFacts DEF Apart
<1>10. Chosen'
  <2> SUFFICES ASSUME NEW o \in Requests \ {r}, At(o, "flipAll") \/ At(o, "flip")
               PROVE  req'[o] = req[o]
    BY <1>0, <1>1, <1>3, <1>4, StepFacts DEF Chosen, At, Stored, store
  <2>1. "short" \notin req[o].step.touches
    BY <1>0 DEF InStep, At
  <2> QED BY <1>2, <1>4, <2>1
<1>11. Flags'
  <2>1. ASSUME NEW k \in Kinds, Clearing(k) PROVE Clearing(k)'
    <3>1. PICK o \in Requests : /\ req[o].step = ChangePlanFormatProfile
                                /\ req[o].pc \in {"scenes", "hook", "title"} \cup {k}
      BY <2>1 DEF Clearing
    <3>2. o # r
      BY <1>1, <3>1 DEF At, Kinds
    <3> QED BY <1>2, <1>4, <3>1, <3>2 DEF Clearing
  <2> QED BY <1>0, <1>1, <2>1 DEF Flags, Stored, store
<1> QED BY <1>6, <1>7, <1>8, <1>9, <1>10, <1>11 DEF WorkflowInv

LEMMA DrainScenesKeeps ==
  ASSUME WorkflowInv, NEW r \in Requests, DrainScenes(r)
  PROVE  WorkflowInv'
<1>0. /\ TypeOK /\ InStep /\ Locked /\ Apart /\ Chosen /\ Flags
      /\ req \in [Requests -> Request] /\ clips \in Nat /\ clips <= clips
  BY DEF WorkflowInv, TypeOK
<1>1. /\ At(r, "scenes") /\ scenes' = "none" /\ Goto(r, "hook") /\ lock' = lock
      /\ UNCHANGED <<status, docs, flag, planSel, delSel, meta, metaRef, clips, cache, made,
                     spoiled, mishaps>>
  BY DEF DrainScenes, shorts, refs
<1>2. req' \in [Requests -> Request]
  BY <1>0, <1>1, GotoFits DEF Goto, Places
<1>3. /\ req'[r].pc = "hook" /\ req'[r].step = req[r].step
      /\ \A o \in Requests \ {r} : req'[o] = req[o]
  BY <1>0, <1>1 DEF Goto, Request
<1>4. req[r].step = ChangePlanFormatProfile
  BY <1>0, <1>1 DEF InStep, At
<1>5. lock = r
  <2>1. req[r].locked /\ req[r].pc \notin {"idle", "queued"}
    BY <1>0, <1>1, <1>4, StepFacts DEF Locked, Aspects, Kinds, At
  <2> QED BY <1>0, <2>1 DEF Locked
<1>6. InStep' /\ Locked' /\ Apart'
  BY <1>0, <1>1, <1>4, <1>5, GotoPlaces DEF At, Drains
<1>7. Chosen'
  BY <1>0, <1>1, <1>3, ChosenStays
<1>8. Flags'
  <2>1. ASSUME NEW k \in Kinds PROVE Clearing(k) => Clearing(k)'
    BY <1>1, <1>3, <1>4 DEF Clearing
  <2> QED BY <1>0, <1>1, <2>1 DEF Flags, Stored
<1>9. TypeOK'
  BY <1>0, <1>1, <1>2 DEF TypeOK
<1> QED BY <1>6, <1>7, <1>8, <1>9 DEF WorkflowInv

\* The clips a format change listed are still there when it deletes them.
LEMMA DeleteClipsKeeps ==
  ASSUME WorkflowInv, NEW r \in Requests, DeleteClips(r)
  PROVE  WorkflowInv'
<1>0. /\ TypeOK /\ InStep /\ Locked /\ Apart /\ Chosen /\ Flags
      /\ req \in [Requests -> Request] /\ clips \in Nat
  BY DEF WorkflowInv, TypeOK
<1>1. PICK left \in 0 .. req[r].listed :
        /\ At(r, "clips") /\ clips' = (clips - req[r].listed) + left /\ End(r)
        /\ mishaps' = mishaps \/ mishaps' = mishaps + 1
        /\ UNCHANGED <<status, scenes, docs, flag, planSel, delSel, meta, metaRef, cache, made,
                       spoiled>>
  BY DEF DeleteClips, shorts, refs
<1>2. req[r].step = ChangePlanFormatProfile
  BY <1>0, <1>1 DEF InStep, At
<1>3. clips' \in Nat
  <2>1. req[r].listed \in Nat /\ req[r].listed <= clips
    BY <1>0, <1>2 DEF Request, Locked
  <2> QED BY <1>0, <1>1, <2>1
<1>4. \A o \in Requests \ {r} : req[o].step # ChangePlanFormatProfile
  BY <1>0, <1>2, OneFormatChange
<1>5. InStep' /\ Locked' /\ Apart'
  BY <1>0, <1>1, <1>4, EndPlaces
<1>6. /\ req' \in [Requests -> Request] /\ lock' \in Requests \cup {None}
      /\ req'[r].pc = "idle" /\ \A o \in Requests \ {r} : req'[o] = req[o]
  BY <1>0, <1>1, EndFits, StepFacts DEF End, Release, TypeOK
<1>7. Chosen'
  BY <1>0, <1>1, <1>6, ChosenStays
<1>8. Flags'
  BY <1>0, <1>1, <1>6, FlagsStay DEF At, Drains
<1>9. mishaps' \in Nat
  BY <1>0, <1>1 DEF TypeOK
<1>10. TypeOK'
  BY <1>0, <1>1, <1>3, <1>6, <1>9 DEF TypeOK
<1> QED BY <1>5, <1>7, <1>8, <1>10 DEF WorkflowInv

LEMMA StoreFaultKeeps ==
  ASSUME WorkflowInv, NEW r \in Requests, StoreFault(r)
  PROVE  WorkflowInv'
<1>0. TypeOK /\ InStep /\ req[r] \in Request /\ clips \in Nat /\ clips <= clips
  BY DEF WorkflowInv, TypeOK
<1>1. /\ End(r) /\ mishaps' = mishaps + 1
      /\ spoiled' = spoiled \cup req[r].step.touches
      /\ UNCHANGED <<store, shorts>>
  BY DEF StoreFault
<1>2. req[r].step.touches \subseteq Aspects
  BY <1>0, StepTouches DEF Request
<1>3. req[r].pc \in Drains => Kinds \subseteq spoiled'
  <2>1. req[r].pc \in Drains => req[r].step = ChangePlanFormatProfile
    BY <1>0 DEF InStep, At, Drains
  <2> QED BY <1>1, <2>1, StepFacts DEF Aspects
<1>4. UNCHANGED <<status, scenes, docs, flag, planSel, delSel, meta, metaRef, clips, cache, made>>
  BY <1>1 DEF store, shorts
<1>5. /\ req' \in [Requests -> Request] /\ lock' \in Requests \cup {None}
      /\ InStep' /\ Locked' /\ Apart' /\ Chosen' /\ Flags'
  BY <1>0, <1>1, <1>3, <1>4, QuietEnd
<1>6. spoiled' \subseteq Aspects /\ mishaps' \in Nat
  BY <1>0, <1>1, <1>2 DEF TypeOK
<1>7. TypeOK'
  BY <1>0, <1>4, <1>5, <1>6 DEF TypeOK
<1> QED BY <1>5, <1>7 DEF WorkflowInv

LEMMA CrashKeeps ==
  ASSUME WorkflowInv, Crash
  PROVE  WorkflowInv'
<1>0. /\ TypeOK /\ Flags /\ req \in [Requests -> Request]
  BY DEF WorkflowInv, TypeOK
<1>1. /\ req' = [r \in Requests |-> Idle] /\ lock' = None /\ cache' = FALSE
      /\ mishaps' = mishaps + 1
      /\ UNCHANGED <<status, scenes, docs, flag, planSel, delSel, meta, metaRef, clips, made>>
  BY DEF Crash, store
<1>2. spoiled' = spoiled \cup UNION {req[r].step.touches : r \in Requests}
  BY DEF Crash
<1>3. \A r \in Requests : req'[r] = Idle
  BY <1>1
<1>4. spoiled' \subseteq Aspects
  <2>1. \A r \in Requests : req[r].step.touches \subseteq Aspects
    BY <1>0, StepTouches DEF Request
  <2> QED BY <1>0, <1>2, <2>1 DEF TypeOK
<1>5. TypeOK'
  <2>1. req' \in [Requests -> Request]
    BY <1>1, IdleFits
  <2>2. mishaps' \in Nat
    BY <1>0, <1>1 DEF TypeOK
  <2> QED BY <1>0, <1>1, <1>4, <2>1, <2>2 DEF TypeOK
<1>6. InStep'
  BY <1>3, StepFacts DEF InStep, At
<1>7. Locked'
  BY <1>3, StepFacts DEF Locked
<1>8. Apart'
  BY <1>3, StepFacts DEF Apart
<1>9. Chosen'
  BY <1>3, StepFacts DEF Chosen, At
<1>10. Flags'
  <2>1. ASSUME NEW k \in Kinds, Clearing(k) PROVE k \in spoiled'
    <3>1. PICK o \in Requests : req[o].step = ChangePlanFormatProfile
      BY <2>1 DEF Clearing
    <3>2. k \in req[o].step.touches
      BY <3>1, StepFacts DEF Aspects
    <3> QED BY <1>2, <3>2
  <2>2. spoiled \subseteq spoiled'
    BY <1>2
  <2> QED BY <1>0, <1>1, <2>1, <2>2 DEF Flags, Stored
<1> QED BY <1>5, <1>6, <1>7, <1>8, <1>9, <1>10 DEF WorkflowInv

\* What looks at neither the candidates' cache nor the scenes keeps all.
LEMMA DismissKeeps ==
  ASSUME WorkflowInv, PostDismissShort \/ EditScenes \/ UNCHANGED vars
  PROVE  WorkflowInv'
<1>1. /\ UNCHANGED <<status, docs, flag, planSel, delSel, meta, metaRef, clips, made,
                     lock, req, spoiled>>
      /\ scenes' \in {"none", "empty", "blank", "scripted"}
      /\ cache' \in BOOLEAN /\ mishaps' \in Nat
  <2>1. scenes \in {"none", "empty", "blank", "scripted"} /\ cache \in BOOLEAN /\ mishaps \in Nat
    BY DEF WorkflowInv, TypeOK
  <2>2. CASE PostDismissShort
    BY <2>1, <2>2 DEF PostDismissShort, store, refs
  <2>3. CASE EditScenes
    BY <2>1, <2>3 DEF EditScenes, refs, shorts
  <2>4. CASE UNCHANGED vars
    BY <2>1, <2>4 DEF vars
  <2> QED BY <2>2, <2>3, <2>4
<1>2. TypeOK'
  BY <1>1 DEF WorkflowInv, TypeOK
<1>3. InStep' /\ Locked' /\ Apart'
  BY <1>1 DEF WorkflowInv, InStep, Locked, Apart, At
<1>4. Chosen' /\ Flags'
  BY <1>1 DEF WorkflowInv, Chosen, Flags, Clearing, At, Stored
<1> QED BY <1>2, <1>3, <1>4 DEF WorkflowInv

---------------------------------------------------------------------------
(* Where one step takes the requests.                                      *)

\* A request that is not served stays where it is.
Same(o) ==
  /\ req'[o].pc = req[o].pc /\ req'[o].step = req[o].step
  /\ req'[o].locked = req[o].locked /\ req'[o].moving = req[o].moving
  /\ req'[o].created = req[o].created

\* The places a request goes to from each place.
NextPlaces(p) ==
  {q \in Places :
     \/ q = "check" /\ p \in {"queued", "replace", "shots", "create", "point", "link", "extract"}
     \/ q = "cache" /\ p \in {"write", "extract"}
     \/ <<p, q>> \in {<<"check", "write">>, <<"write", "scripts">>, <<"wipe", "create">>,
                      <<"create", "create">>, <<"list", "flip">>, <<"flip", "point">>,
                      <<"point", "sync">>, <<"upsert", "link">>, <<"make", "evict">>,
                      <<"scenes", "hook">>, <<"hook", "title">>, <<"title", "thumb">>,
                      <<"thumb", "meta">>, <<"meta", "reset">>, <<"reset", "clips">>}}

\* The served request goes on.
Onward(r) ==
  /\ req'[r].pc \in NextPlaces(req[r].pc)
  /\ req'[r].step = req[r].step /\ req'[r].locked = req[r].locked
  /\ req'[r].moving = req[r].moving
  /\ req'[r].pc = "check" => req[r].moving \/ At(r, "queued")
  /\ req'[r].pc = "scripts" => req[r].step = GenerateScenes
  /\ req'[r].pc = "cache" => req[r].step = ExtractShortsCandidates

Served(r) ==
  /\ \A o \in Requests \ {r} : Same(o)
  /\ req'[r] = Idle \/ Onward(r)
  /\ ~At(r, "idle")

LEMMA GotoServes ==
  ASSUME req \in [Requests -> Request], NEW r \in Requests, NEW p, Goto(r, p),
         ~At(r, "idle"), p \in NextPlaces(req[r].pc),
         p = "check" => req[r].moving \/ At(r, "queued"),
         p = "scripts" => req[r].step = GenerateScenes,
         p = "cache" => req[r].step = ExtractShortsCandidates
  PROVE  Served(r)
<1>1. /\ \A o \in Requests \ {r} : req'[o] = req[o]
      /\ req'[r] = [req[r] EXCEPT !.pc = p] /\ req[r] \in Request
  BY DEF Goto
<1>2. /\ req'[r].pc = p /\ req'[r].step = req[r].step /\ req'[r].locked = req[r].locked
      /\ req'[r].moving = req[r].moving
  BY <1>1 DEF Request
<1> QED BY <1>1, <1>2 DEF Served, Onward, Same

LEMMA EndServes ==
  ASSUME req \in [Requests -> Request], NEW r \in Requests, End(r), ~At(r, "idle")
  PROVE  Served(r)
BY DEF End, Served, Same

LEMMA ProceedServes ==
  ASSUME req \in [Requests -> Request], NEW r \in Requests, Proceed(r), ~At(r, "idle"),
         "check" \in NextPlaces(req[r].pc)
  PROVE  Served(r)
<1>1. CASE req[r].moving
  BY <1>1, GotoServes DEF Proceed
<1>2. CASE ~req[r].moving
  BY <1>2, EndServes DEF Proceed
<1> QED BY <1>1, <1>2

LEMMA QuietServes ==
  ASSUME WorkflowInv, Path, NEW r \in Requests, Quiet(r)
  PROVE  Served(r)
<1>0. req \in [Requests -> Request] /\ "check" \in Places /\ "cache" \in Places
  BY DEF WorkflowInv, TypeOK, Places
<1> USE DEF NextPlaces, At, Places
<1>1. CASE PatchCheck(r)
  BY <1>0, <1>1, GotoServes, EndServes DEF PatchCheck
<1>2. CASE PatchWrite(r)
  <2>1. \/ (Goto(r, "scripts") /\ req[r].step = GenerateScenes)
        \/ (Goto(r, "cache") /\ req[r].step = ExtractShortsCandidates)
        \/ End(r)
    BY <1>2, Zenon DEF PatchWrite
  <2>2. At(r, "write")
    BY <1>2 DEF PatchWrite
  <2> QED BY <1>0, <2>1, <2>2, GotoServes, EndServes
<1>3. CASE ReplaceScenes(r) \/ PatchShots(r) \/ LinkMetadata(r)
  BY <1>0, <1>3, ProceedServes DEF ReplaceScenes, PatchShots, LinkMetadata
<1>4. CASE WriteScripts(r) \/ SyncPlan(r) \/ EvictCandidates(r) \/ NothingExtracted(r)
           \/ ModelFails(r)
  BY <1>0, <1>4, EndServes
     DEF WriteScripts, SyncPlan, EvictCandidates, NothingExtracted, ModelFails
<1>5. CASE Point(r)
  BY <1>0, <1>5, GotoServes DEF Point
<1>6. CASE Extracted(r)
  BY <1>0, <1>6, GotoServes DEF Extracted, Path
<1>7. CASE UpsertMetadata(r) \/ MakeClip(r)
  BY <1>0, <1>7, GotoServes DEF UpsertMetadata, MakeClip
<1>8. CASE DrainMetadata(r) \/ ResetFields(r)
  BY <1>0, <1>8, GotoServes DEF DrainMetadata, ResetFields
<1> QED BY <1>1, <1>2, <1>3, <1>4, <1>5, <1>6, <1>7, <1>8 DEF Quiet

LEMMA DeletionServes ==
  ASSUME WorkflowInv, NEW r \in Requests, Wipe(r) \/ Drain(r) \/ CreateFault(r)
  PROVE  Served(r)
<1>0. req \in [Requests -> Request]
  BY DEF WorkflowInv, TypeOK
<1>1. PICK k \in Kinds :
        /\ \/ (At(r, "wipe") /\ req' = [Outdated(k) EXCEPT ![r].pc = "create"])
           \/ (At(r, k) /\ req' = [Outdated(k) EXCEPT ![r].pc = AfterDrain[k]])
           \/ (At(r, "create") /\ req' = [Outdated(k) EXCEPT ![r] = Idle])
  <2>1. CASE Drain(r)
    BY <2>1 DEF Drain
  <2>2. CASE Wipe(r) \/ CreateFault(r)
    <3>1. PICK k \in Kinds : req[r].step.touches = {k}
      BY <2>2 DEF WorkflowInv, InStep, At, Wipe, CreateFault
    <3>2. KindOf(req[r].step) = k
      BY <3>1, KindOfIs
    <3> QED BY <2>2, <3>2 DEF Wipe, CreateFault
  <2> QED BY <2>1, <2>2
<1> DEFINE out == Outdated(k)
<1>2. \A o \in Requests :
        /\ out[o].pc = req[o].pc /\ out[o].step = req[o].step /\ out[o].locked = req[o].locked
        /\ out[o].moving = req[o].moving /\ out[o].created = req[o].created
        /\ out[o] \in Request
  BY <1>0, OutdatedFits
<1>3. DOMAIN out = Requests
  BY DEF Outdated
<1>4. \/ (At(r, "wipe") /\ req' = [out EXCEPT ![r].pc = "create"])
      \/ (At(r, k) /\ req' = [out EXCEPT ![r].pc = AfterDrain[k]])
      \/ (At(r, "create") /\ req' = [out EXCEPT ![r] = Idle])
  BY <1>1
<1> HIDE DEF out
<1>5. \A o \in Requests \ {r} : Same(o)
  <2> TAKE o \in Requests \ {r}
  <2>1. req'[o] = out[o]
    BY <1>3, <1>4
  <2> QED BY <1>2, <2>1 DEF Same
<1>6. CASE At(r, "create") /\ req' = [out EXCEPT ![r] = Idle]
  BY <1>3, <1>5, <1>6 DEF Served, At
<1>7. ASSUME NEW p, req' = [out EXCEPT ![r].pc = p], <<req[r].pc, p>> \in
               {<<"wipe", "create">>, <<"hook", "title">>, <<"title", "thumb">>, <<"thumb", "meta">>}
      PROVE  Served(r)
  <2>1. /\ req'[r].pc = p /\ req'[r].step = req[r].step /\ req'[r].locked = req[r].locked
        /\ req'[r].moving = req[r].moving
    BY <1>2, <1>3, <1>7 DEF Request
  <2>2. p \in NextPlaces(req[r].pc) /\ p \notin {"check", "scripts", "cache"} /\ ~At(r, "idle")
    BY <1>7 DEF NextPlaces, Places, At
  <2> QED BY <1>5, <2>1, <2>2 DEF Served, Onward
<1>8. CASE At(r, "wipe") /\ req' = [out EXCEPT ![r].pc = "create"]
  BY <1>7, <1>8 DEF At
<1>9. CASE At(r, k) /\ req' = [out EXCEPT ![r].pc = AfterDrain[k]]
  <2>1. <<req[r].pc, AfterDrain[k]>> \in
          {<<"hook", "title">>, <<"title", "thumb">>, <<"thumb", "meta">>}
    BY <1>9 DEF At, AfterDrain, Kinds
  <2> QED BY <1>7, <1>9, <2>1
<1> QED BY <1>6, <1>8, <1>9, <1>4

LEMMA SelectionServes ==
  ASSUME WorkflowInv, NEW r \in Requests,
         Create(r) \/ FlipHook(r) \/ ListVariants(r) \/ Flip(r)
  PROVE  Served(r)
<1>0. req \in [Requests -> Request] /\ req[r] \in Request
  BY DEF WorkflowInv, TypeOK
<1> USE DEF NextPlaces, At, Places
<1>1. CASE FlipHook(r)
  BY <1>0, <1>1, EndServes DEF FlipHook
<1>2. CASE Create(r)
  <2>1. At(r, "create")
    BY <1>2 DEF Create
  <2>2. \/ (\E n : req' = [req EXCEPT ![r].created = n]) \/ Proceed(r)
    BY <1>2 DEF Create
  <2>3. CASE Proceed(r)
    BY <1>0, <2>1, <2>3, ProceedServes
  <2>4. ASSUME NEW n, req' = [req EXCEPT ![r].created = n] PROVE Served(r)
    <3>1. /\ req'[r].pc = req[r].pc /\ req'[r].step = req[r].step
          /\ req'[r].locked = req[r].locked /\ req'[r].moving = req[r].moving
          /\ \A o \in Requests \ {r} : req'[o] = req[o]
      BY <1>0, <2>4 DEF Request
    <3> QED BY <2>1, <3>1 DEF Served, Onward, Same
  <2> QED BY <2>2, <2>3, <2>4
<1>3. CASE ListVariants(r) \/ Flip(r)
  <2>1. \/ End(r)
        \/ \E S : req' = [req EXCEPT ![r].pc = "flip", ![r].seen = S] /\ At(r, "list")
        \/ \E S : req' = [req EXCEPT ![r].pc = "point", ![r].seen = S] /\ At(r, "flip")
    BY <1>3, Zenon DEF ListVariants, Flip
  <2>2. ~At(r, "idle")
    BY <1>3 DEF ListVariants, Flip
  <2>3. CASE End(r)
    BY <1>0, <2>2, <2>3, EndServes
  <2>4. ASSUME NEW S, NEW p \in {"flip", "point"},
               req' = [req EXCEPT ![r].pc = p, ![r].seen = S],
               (p = "flip" /\ At(r, "list")) \/ (p = "point" /\ At(r, "flip"))
        PROVE  Served(r)
    <3>1. /\ req'[r].pc = p /\ req'[r].step = req[r].step
          /\ req'[r].locked = req[r].locked /\ req'[r].moving = req[r].moving
          /\ \A o \in Requests \ {r} : req'[o] = req[o]
      BY <1>0, <2>4 DEF Request
    <3> QED BY <2>4, <3>1 DEF Served, Onward, Same
  <2> QED BY <2>1, <2>3, <2>4
<1> QED BY <1>1, <1>2, <1>3

LEMMA WorkServes ==
  ASSUME WorkflowInv, Path, NEW r \in Requests,
         Work(r) \/ ModelFails(r) \/ StoreFault(r) \/ CreateFault(r)
  PROVE  Served(r)
<1>0. req \in [Requests -> Request]
  BY DEF WorkflowInv, TypeOK
<1>1. CASE Quiet(r)
  BY <1>1, QuietServes
<1>2. CASE FinalizeUnderLock(r)
  BY <1>0, <1>2, GotoServes DEF FinalizeUnderLock, NextPlaces, At, Places
<1>3. CASE DrainScenes(r)
  BY <1>0, <1>3, GotoServes DEF DrainScenes, NextPlaces, At, Places
<1>4. CASE DeleteClips(r) \/ StoreFault(r)
  BY <1>0, <1>4, EndServes DEF DeleteClips, StoreFault, At
<1>5. CASE CacheCandidates(r)
  <2>1. req'[r] = Idle /\ ~At(r, "idle")
    BY <1>5 DEF CacheCandidates, At
  <2>2. ASSUME NEW o \in Requests \ {r} PROVE Same(o)
    <3>1. req[o] \in Request
      BY <1>0
    <3>2. req'[o] = req[o] \/ req'[o] = [req[o] EXCEPT !.pick = Gone]
      BY <1>5 DEF CacheCandidates
    <3> QED BY <3>1, <3>2 DEF Same, Request
  <2> QED BY <2>1, <2>2 DEF Served
<1>6. CASE Wipe(r) \/ Drain(r) \/ CreateFault(r)
  BY <1>6, DeletionServes
<1>7. CASE Create(r) \/ FlipHook(r) \/ ListVariants(r) \/ Flip(r)
  BY <1>7, SelectionServes
<1> QED BY <1>1, <1>2, <1>3, <1>4, <1>5, <1>6, <1>7 DEF Work, Quiet

---------------------------------------------------------------------------
(* The table of the steps, and the routes that begin them.                 *)

LEMMA StepTable ==
  /\ NoStep.op = "none" /\ NoStep.touches = {} /\ NoStep.to = "none"
  /\ Finalize.op = "finalize" /\ Finalize.touches = {} /\ Finalize.to = "finalized"
  /\ Finalize.first = "queued"
  /\ Export.op = "export" /\ Export.touches = {} /\ Export.to = "exported"
  /\ Export.first = "check" /\ Export.moves = {"finalized"} /\ Export.entry = {"finalized"}
  /\ GenerateScenes.op = "generateScenes" /\ GenerateScenes.touches = {}
  /\ GenerateScenes.to = "scenes_generated" /\ GenerateScenes.first = "replace"
  /\ GenerateScenes.moves = Early /\ GenerateScenes.entry = Early
  /\ GenerateShotList.op = "generateShotList" /\ GenerateShotList.touches = {}
  /\ GenerateShotList.to = "shot_list_generated" /\ GenerateShotList.first = "shots"
  /\ GenerateShotList.moves = {"hook_selected"}
  /\ GenerateShotList.entry = {"hook_selected", "shot_list_generated"}
  /\ GenerateHookVariants.op = "generateHookVariants" /\ GenerateHookVariants.touches = {"hook"}
  /\ GenerateHookVariants.to = "hooks_generated" /\ GenerateHookVariants.first = "wipe"
  /\ GenerateHookVariants.moves = {"scenes_generated", "hooks_generated"}
  /\ GenerateHookVariants.entry = {"scenes_generated", "hooks_generated"}
  /\ SelectHook.op = "selectHook" /\ SelectHook.touches = {"hook"}
  /\ SelectHook.to = "hook_selected" /\ SelectHook.first = "flipAll"
  /\ SelectHook.moves = {"hooks_generated", "hook_selected"}
  /\ SelectHook.entry = {"hooks_generated", "hook_selected"}
  /\ GenerateTitleVariants.op = "generateTitleVariants"
  /\ GenerateTitleVariants.touches = {"title"}
  /\ GenerateTitleVariants.to = "titles_generated" /\ GenerateTitleVariants.first = "wipe"
  /\ GenerateTitleVariants.moves = {"shot_list_generated"}
  /\ GenerateTitleVariants.entry = {"shot_list_generated", "titles_generated"}
  /\ SelectTitle.op = "selectTitle" /\ SelectTitle.touches = {"title"}
  /\ SelectTitle.to = "title_selected" /\ SelectTitle.first = "list"
  /\ SelectTitle.moves = {"titles_generated"}
  /\ SelectTitle.entry = {"titles_generated", "title_selected"}
  /\ GenerateThumbnailConcepts.op = "generateThumbnailConcepts"
  /\ GenerateThumbnailConcepts.touches = {"thumb"}
  /\ GenerateThumbnailConcepts.to = "thumbnails_generated"
  /\ GenerateThumbnailConcepts.first = "wipe"
  /\ GenerateThumbnailConcepts.moves = {"title_selected"}
  /\ GenerateThumbnailConcepts.entry = {"title_selected", "thumbnails_generated"}
  /\ SelectThumbnail.op = "selectThumbnail" /\ SelectThumbnail.touches = {"thumb"}
  /\ SelectThumbnail.to = "thumbnail_selected" /\ SelectThumbnail.first = "list"
  /\ SelectThumbnail.moves = {"thumbnails_generated"}
  /\ SelectThumbnail.entry = {"thumbnails_generated", "thumbnail_selected"}
  /\ ExtractShortsCandidates.op = "extractShortsCandidates"
  /\ ExtractShortsCandidates.touches = {"short"}
  /\ ExtractShortsCandidates.to = "shorts_extracted"
  /\ ExtractShortsCandidates.first = "extract"
  /\ ExtractShortsCandidates.moves = {"thumbnail_selected"}
  /\ ExtractShortsCandidates.entry =
       {"thumbnail_selected", "shorts_extracted", "finalized", "metadata_generated"}
  /\ GeneratePublishMetadata.op = "generatePublishMetadata"
  /\ GeneratePublishMetadata.touches = {"meta"}
  /\ GeneratePublishMetadata.to = "metadata_generated"
  /\ GeneratePublishMetadata.first = "upsert"
  /\ GeneratePublishMetadata.moves = {"finalized"}
  /\ GeneratePublishMetadata.entry = {"finalized", "metadata_generated"}
  /\ ApproveShortCandidate.op = "approveShortCandidate"
  /\ ApproveShortCandidate.touches = {"short"}
  /\ ApproveShortCandidate.to = "none" /\ ApproveShortCandidate.first = "make"
  /\ ApproveShortCandidate.moves = {} /\ ApproveShortCandidate.entry = Statuses
  /\ ChangePlanFormatProfile.op = "changePlanFormatProfile"
  /\ ChangePlanFormatProfile.touches = {"hook", "title", "thumb", "meta", "short"}
  /\ ChangePlanFormatProfile.to = "projects_matched"
  /\ ChangePlanFormatProfile.first = "scenes" /\ ChangePlanFormatProfile.moves = {}
BY DEF Step, NoStep, Finalize, Export, GenerateScenes, GenerateShotList, GenerateHookVariants,
       SelectHook, GenerateTitleVariants, SelectTitle, GenerateThumbnailConcepts,
       SelectThumbnail, ExtractShortsCandidates, GeneratePublishMetadata,
       ApproveShortCandidate, ChangePlanFormatProfile, Early, Aspects, Kinds

LEMMA StepKinds ==
  /\ KindOf(GenerateHookVariants) = "hook"
  /\ KindOf(GenerateTitleVariants) = "title" /\ KindOf(SelectTitle) = "title"
  /\ KindOf(GenerateThumbnailConcepts) = "thumb" /\ KindOf(SelectThumbnail) = "thumb"
<1>1. {"hook", "title", "thumb"} \subseteq Kinds
  BY DEF Kinds
<1>2. ASSUME NEW s, NEW k \in Kinds, s.touches = {k} PROVE KindOf(s) = k
  BY <1>2, KindOfIs
<1> QED BY <1>1, <1>2, StepTable

\* What the routes have made sure of when they begin a step.
Let(step, locked, pick) ==
  /\ step \in EarlySteps \cup {ChangePlanFormatProfile} => locked
  /\ step = SelectHook => pick \in Stored("hook")
  /\ step = SelectTitle => pick \in Stored("title")
  /\ step = SelectThumbnail => pick \in Stored("thumb")
  /\ step \in {GenerateThumbnailConcepts, GeneratePublishMetadata} => delSel["title"] # None
  /\ step = GeneratePublishMetadata => delSel["thumb"] # None
  /\ step = ApproveShortCandidate => cache /\ ~locked
  /\ step # ApproveShortCandidate => step \in EarlySteps \cup LateSteps \cup {ChangePlanFormatProfile}

LEMMA RoutesBegin ==
  ASSUME NEW r \in Requests, Routes(r), ~PostFinalize(r)
  PROVE  \E step \in Steps, locked \in BOOLEAN : \E pick :
           Begin(r, step, locked, pick) /\ Let(step, locked, pick)
<1> DEFINE Begun == \E step \in Steps, locked \in BOOLEAN : \E pick :
                      Begin(r, step, locked, pick) /\ Let(step, locked, pick)
<1>0. ASSUME NEW step \in Steps, NEW locked \in BOOLEAN, NEW pick,
             Begin(r, step, locked, pick), Let(step, locked, pick)
      PROVE  Begun
  BY <1>0
<1> HIDE DEF Begun
<1> USE StepTable DEF Let, EarlySteps, LateSteps, Steps
<1>1. CASE PostGenerate(r)
  BY <1>0, <1>1 DEF PostGenerate
<1>2. CASE PostGenerateHooks(r)
  BY <1>0, <1>2 DEF PostGenerateHooks
<1>3. CASE PostSelectHook(r)
  BY <1>0, <1>3 DEF PostSelectHook
<1>4. CASE PostGenerateShotList(r)
  BY <1>0, <1>4 DEF PostGenerateShotList
<1>5. CASE PostGenerateTitles(r) \/ PostDeliverableTitles(r)
  BY <1>0, <1>5 DEF PostGenerateTitles, PostDeliverableTitles
<1>6. CASE PostSelectTitle(r)
  BY <1>0, <1>6 DEF PostSelectTitle
<1>7. CASE PostGenerateThumbnails(r) \/ PostDeliverableThumbnails(r)
  BY <1>0, <1>7 DEF PostGenerateThumbnails, PostDeliverableThumbnails
<1>8. CASE PostSelectThumbnail(r)
  BY <1>0, <1>8 DEF PostSelectThumbnail
<1>9. CASE PostExtractShorts(r)
  BY <1>0, <1>9 DEF PostExtractShorts
<1>10. CASE PostApproveShort(r)
  BY <1>0, <1>10 DEF PostApproveShort
<1>11. CASE PostGenerateMetadata(r) \/ PostDeliverableMetadata(r)
  BY <1>0, <1>11 DEF PostGenerateMetadata, PostDeliverableMetadata, Describable
<1>12. CASE GetExport(r)
  BY <1>0, <1>12 DEF GetExport
<1>13. CASE PostChangeFormat(r)
  BY <1>0, <1>13 DEF PostChangeFormat
<1> QED BY <1>1, <1>2, <1>3, <1>4, <1>5, <1>6, <1>7, <1>8, <1>9, <1>10, <1>11, <1>12, <1>13
        DEF Routes, Begun

\* What the record of a request that begins says.
LEMMA BeginIs ==
  ASSUME req \in [Requests -> Request], NEW r \in Requests, NEW step, NEW locked, NEW pick,
         Begin(r, step, locked, pick)
  PROVE  /\ req'[r].pc = step.first /\ req'[r].step = step /\ req'[r].locked = locked
         /\ req'[r].pick = pick /\ req'[r].moving = (status \in step.moves)
         /\ \A o \in Requests \ {r} : req'[o] = req[o]
         /\ status \in step.entry /\ req[r].pc = "idle" /\ (locked => lock = None)
         /\ spoiled' = Overlaps(r, locked, step)
         /\ UNCHANGED <<status, scenes, docs, flag, planSel, delSel, meta, metaRef, clips,
                        cache, made>>
BY DEF Begin, Active, store, shorts, refs

---------------------------------------------------------------------------
(* Every place belongs to the steps that go through it.                    *)

LEMMA ServedPath ==
  ASSUME Path, InStep, NEW r \in Requests, Served(r)
  PROVE  Path'
<1>1. ASSUME NEW o \in Requests \ {r} PROVE Same(o)
  BY DEF Served
<1>2. CASE req'[r] = Idle
  BY <1>1, <1>2, StepFacts, StepTable DEF Path, At, Same
<1>3. CASE Onward(r)
  BY <1>1, <1>3, StepTable DEF Path, InStep, At, Same, Onward, NextPlaces
<1> QED BY <1>2, <1>3 DEF Served

LEMMA BeginPath ==
  ASSUME Path, req \in [Requests -> Request], NEW r \in Requests, NEW step \in Steps,
         NEW locked \in BOOLEAN, NEW pick,
         Begin(r, step, locked, pick), Let(step, locked, pick)
  PROVE  Path'
<1>1. /\ req'[r].pc = step.first /\ req'[r].step = step /\ req'[r].locked = locked
      /\ req'[r].moving = (status \in step.moves) /\ status \in step.entry
      /\ \A o \in Requests \ {r} : req'[o] = req[o]
  BY BeginIs
<1>2. ASSUME NEW o \in Requests \ {r} PROVE req'[o] = req[o]
  BY <1>1
<1>3. step # Finalize
  BY StepTable DEF Let, EarlySteps, LateSteps
<1>4. step.first = "check" => step = Export /\ req'[r].moving
  <2>1. step.first = "check" => step = Export
    BY <1>3, StepTable DEF Steps
  <2>2. step = Export => status \in step.moves
    BY <1>1, StepTable
  <2> QED BY <1>1, <2>1, <2>2
<1> QED BY <1>1, <1>2, <1>3, <1>4, StepTable DEF Path, At, Steps, Let, EarlySteps

LEMMA FinalizePath ==
  ASSUME Path, req \in [Requests -> Request], NEW r \in Requests, PostFinalize(r)
  PROVE  /\ req'[r].pc = "queued" /\ req'[r].step = Finalize /\ req'[r].locked /\ ~At(r, "queued")
         /\ \A o \in Requests \ {r} : req'[o] = req[o]
         /\ Path'
<1> DEFINE new == [Idle EXCEPT !.pc = "queued", !.step = Finalize, !.locked = TRUE]
<1>1. new.pc = "queued" /\ new.step = Finalize /\ new.locked
  BY DEF Idle
<1>2. req' = [req EXCEPT ![r] = new] /\ req[r].pc = "idle"
  BY DEF PostFinalize, Active
<1> HIDE DEF new
<1>3. ASSUME NEW o \in Requests \ {r} PROVE req'[o] = req[o]
  BY <1>2
<1>4. req'[r] = new
  BY <1>2
<1> QED BY <1>1, <1>2, <1>3, <1>4, StepTable DEF Path, At

LEMMA CrashPath ==
  ASSUME Crash
  PROVE  Path' /\ \A r \in Requests : req'[r] = Idle
<1>1. \A r \in Requests : req'[r] = Idle
  BY DEF Crash
<1> QED BY <1>1, StepFacts, StepTable DEF Path, At

---------------------------------------------------------------------------
(* An approval makes one clip of a candidate.                              *)

LEMMA ApproveTouches == ApproveShortCandidate.touches = {"short"} /\ NoStep.touches = {}
BY StepTable

\* A step that leaves cache and count alone, and nobody at a clip.
LEMMA ApprovalStays ==
  ASSUME OneApproval, UNCHANGED shorts, "short" \in spoiled => "short" \in spoiled',
         NEW r \in Requests,
         \A o \in Requests \ {r} : req'[o].pc = req[o].pc /\ req'[o].step = req[o].step,
         req'[r].step \in {req[r].step, NoStep},
         req[r].pc \notin {"make", "evict"}, req'[r].pc \notin {"make", "evict"}
  PROVE  OneApproval'
<1>1. \A o \in Requests : req'[o].step \in {req[o].step, NoStep}
  OBVIOUS
<1>2. \A o \in Requests, p \in {"make", "evict"} : req'[o].pc = p <=> req[o].pc = p
  OBVIOUS
<1>3. NoStep # ApproveShortCandidate
  BY StepTable
<1>4. ASSUME NEW o \in Requests, req'[o].step # NoStep PROVE req'[o].step = req[o].step
  BY <1>1, <1>4
<1> QED BY <1>2, <1>3, <1>4, ApproveTouches DEF OneApproval, At, shorts

LEMMA ServedApproval ==
  ASSUME PlanInv, NEW r \in Requests,
         Work(r) \/ ModelFails(r) \/ StoreFault(r) \/ CreateFault(r)
  PROVE  OneApproval'
<1>0. /\ WorkflowInv /\ Path /\ OneApproval /\ req \in [Requests -> Request] /\ made \in Nat
      /\ req[r].pc \in {"make", "evict"} => req[r].step = ApproveShortCandidate
      /\ cache \in BOOLEAN
  BY DEF PlanInv, WorkflowInv, TypeOK, Path
<1>1. Served(r)
  BY <1>0, WorkServes
<1>2. /\ \A o \in Requests \ {r} : req'[o].pc = req[o].pc /\ req'[o].step = req[o].step
      /\ req'[r].step \in {req[r].step, NoStep}
      /\ req'[r].pc = "make" => FALSE
  BY <1>1, StepFacts DEF Served, Same, Onward, NextPlaces
<1>3. CASE MakeClip(r)
  <2>1. /\ At(r, "make") /\ cache' = cache /\ spoiled' = spoiled /\ req'[r].pc = "evict"
        /\ made' = made \/ made' = made + 1
    <3>1. /\ At(r, "make") /\ cache' = cache /\ spoiled' = spoiled /\ Goto(r, "evict")
          /\ made' = made \/ made' = made + 1
      BY <1>3 DEF MakeClip
    <3> QED BY <1>0, <3>1 DEF Goto, Request
  <2>2. ASSUME "short" \notin spoiled, NEW o \in Requests \ {r} PROVE req[o].pc \notin {"make", "evict"}
    BY <1>0, <2>1, <2>2, ApproveTouches DEF OneApproval, Path, At, PlanInv
  <2>3. "short" \notin spoiled => made = 0
    BY <1>0, <2>1 DEF OneApproval
  <2>4. NoStep # ApproveShortCandidate
    BY StepTable
  <2> QED BY <1>0, <1>2, <2>1, <2>2, <2>3, <2>4, ApproveTouches DEF OneApproval, At
<1>4. CASE EvictCandidates(r) \/ NothingExtracted(r)
  <2>1. cache' = FALSE /\ made' = made /\ spoiled' = spoiled /\ req'[r] = Idle
    BY <1>0, <1>4 DEF EvictCandidates, NothingExtracted, End
  <2> QED BY <1>0, <1>2, <2>1, StepFacts, ApproveTouches DEF OneApproval, At
<1>5. CASE CacheCandidates(r)
  <2>1. /\ cache' = TRUE /\ made' = 0 /\ req'[r] = Idle
        /\ \/ spoiled' = spoiled
           \/ \A o \in Requests : req[o].step # ApproveShortCandidate
    BY <1>5 DEF CacheCandidates
  <2>2. ASSUME "short" \notin spoiled', NEW a \in Requests, NEW o \in Requests,
               req'[a].step = ApproveShortCandidate, "short" \in req'[o].step.touches
        PROVE  a = o
    <3>1. a # r /\ o # r /\ req[a].step = ApproveShortCandidate /\ "short" \in req[o].step.touches
      BY <1>2, <2>1, <2>2, StepFacts, StepTable
    <3> QED BY <1>0, <2>1, <2>2, <3>1 DEF OneApproval
  <2> QED BY <2>1, <2>2 DEF OneApproval
<1>6. CASE ~(MakeClip(r) \/ EvictCandidates(r) \/ NothingExtracted(r) \/ CacheCandidates(r)
             \/ StoreFault(r))
  <2>1. UNCHANGED shorts /\ spoiled \subseteq spoiled'
    BY <1>6, Zenon DEF Work, PatchCheck, PatchWrite, ReplaceScenes, WriteScripts, PatchShots, Wipe, Create,
           FlipHook, ListVariants, Flip, Point, SyncPlan, UpsertMetadata, LinkMetadata,
           Extracted, DrainScenes, Drain, DrainMetadata, ResetFields, DeleteClips,
           FinalizeUnderLock, ModelFails, CreateFault
  <2>2. req[r].pc \notin {"make", "evict"}
    BY <1>6 DEF Work, PatchCheck, PatchWrite, ReplaceScenes, WriteScripts, PatchShots, Wipe, Create,
           FlipHook, ListVariants, Flip, Point, SyncPlan, UpsertMetadata, LinkMetadata,
           Extracted, DrainScenes, Drain, DrainMetadata, ResetFields, DeleteClips,
           FinalizeUnderLock, ModelFails, CreateFault, At, Kinds
  <2>3. req'[r].pc \notin {"make", "evict"}
    BY <1>1, <2>2, StepFacts DEF Served, Onward, NextPlaces
  <2> QED BY <1>0, <1>2, <2>1, <2>2, <2>3, ApprovalStays
<1>7. CASE StoreFault(r)
  <2>1. /\ UNCHANGED shorts /\ spoiled' = spoiled \cup req[r].step.touches
        /\ req[r].pc # "evict" /\ req'[r] = Idle
    BY <1>0, <1>7 DEF StoreFault, End
  <2>2. CASE At(r, "make")
    BY <1>0, <2>1, <2>2, ApproveTouches DEF OneApproval, At
  <2>3. CASE ~At(r, "make")
    BY <1>0, <1>2, <2>1, <2>3, ApprovalStays, StepFacts DEF At
  <2> QED BY <2>2, <2>3
<1> QED BY <1>3, <1>4, <1>5, <1>6, <1>7

LEMMA BeginApproval ==
  ASSUME PlanInv, NEW r \in Requests, NEW step \in Steps,
         NEW locked \in BOOLEAN, NEW pick,
         Begin(r, step, locked, pick), Let(step, locked, pick)
  PROVE  OneApproval'
<1>0. /\ InStep /\ Path /\ OneApproval /\ req \in [Requests -> Request] /\ made \in Nat
  BY DEF PlanInv, WorkflowInv, TypeOK
<1>1. /\ req'[r].pc = step.first /\ req'[r].step = step /\ req'[r].locked = locked
      /\ \A o \in Requests \ {r} : req'[o] = req[o]
      /\ req[r].pc = "idle" /\ UNCHANGED <<cache, made>>
      /\ spoiled' = Overlaps(r, locked, step)
  BY <1>0, BeginIs
<1>2. "short" \in spoiled => "short" \in spoiled'
  BY <1>1 DEF Overlaps
<1>3. step.first # "evict" /\ (step.first = "make" <=> step = ApproveShortCandidate)
  BY StepTable DEF Steps
<1>4. req[r].step = NoStep
  BY <1>0, <1>1, StepFacts DEF InStep, At
<1>5. ASSUME NEW o \in Requests \ {r}, req[o].pc # "idle", ~(locked /\ req[o].locked),
             "short" \notin spoiled'
      PROVE  "short" \notin step.touches \cup req[o].step.touches
  <2> DEFINE clash == UNION {Clash(locked, step, req[q]) : q \in Requests \ {r}}
  <2>1. Clash(locked, step, req[o]) \subseteq clash
    OBVIOUS
  <2>2. Clash(locked, step, req[o]) = step.touches \cup req[o].step.touches
    BY <1>5 DEF Clash
  <2>3. spoiled' = IF step = ChangePlanFormatProfile /\ clash = {}
                     THEN spoiled \cap {"short"} ELSE spoiled \cup clash
    BY <1>1 DEF Overlaps
  <2> HIDE DEF clash
  <2> QED BY <1>5, <2>1, <2>2, <2>3
<1>6. ASSUME NEW a \in Requests, NEW o \in Requests, "short" \notin spoiled', a # o,
             req'[a].step = ApproveShortCandidate, "short" \in req'[o].step.touches
      PROVE  FALSE
  <2>1. CASE a = r
    <3>1. req[o].pc # "idle" /\ ~locked
      BY <1>0, <1>1, <1>6, <2>1, StepFacts, StepTable DEF InStep, At, Let
    <3> QED BY <1>1, <1>5, <1>6, <2>1, <3>1
  <2>2. CASE o = r
    <3>1. req[a].pc # "idle" /\ req[a].step = ApproveShortCandidate
      BY <1>0, <1>1, <1>6, <2>2, StepFacts, StepTable DEF InStep, At
    <3>2. ~(locked /\ req[a].locked)
      <4>1. req[a].pc # "queued"
        BY <1>0, <3>1, StepTable DEF InStep, At
      <4> QED BY <1>0, <3>1, <4>1, AbsentAssumption DEF PlanInv, WorkflowInv, Locked, Begin
    <3> QED BY <1>1, <1>5, <1>6, <2>2, <3>1, <3>2
  <2>3. CASE a # r /\ o # r
    BY <1>0, <1>1, <1>2, <1>6, <2>3 DEF OneApproval
  <2> QED BY <2>1, <2>2, <2>3
<1>7. ASSUME "short" \notin spoiled', cache PROVE made = 0 \/ \E o \in Requests : At(o, "evict")'
  BY <1>0, <1>1, <1>2, <1>7 DEF OneApproval, At
<1>8. ASSUME "short" \notin spoiled', NEW o \in Requests, At(o, "make")' PROVE made = 0
  <2>1. CASE o # r
    BY <1>0, <1>1, <1>2, <1>8, <2>1 DEF OneApproval, At
  <2>2. CASE o = r
    <3>1. step = ApproveShortCandidate /\ cache /\ ~locked
      BY <1>1, <1>3, <1>8, <2>2 DEF Let, At
    <3>2. ASSUME NEW q \in Requests, At(q, "evict") PROVE FALSE
      BY <1>0, <1>1, <1>5, <1>8, <3>1, <3>2, ApproveTouches DEF Path, At
    <3> QED BY <1>0, <1>2, <1>8, <3>1, <3>2 DEF OneApproval
  <2> QED BY <2>1, <2>2
<1> QED BY <1>0, <1>1, <1>2, <1>6, <1>7, <1>8 DEF OneApproval

LEMMA OtherApproval ==
  ASSUME PlanInv, Crash \/ PostDismissShort \/ EditScenes \/ UNCHANGED vars
  PROVE  OneApproval'
<1>0. OneApproval
  BY DEF PlanInv
<1>1. CASE Crash
  <2>1. \A r \in Requests : req'[r] = Idle
    BY <1>1, CrashPath
  <2>2. made' = made /\ cache' = FALSE /\ spoiled \subseteq spoiled'
    BY <1>1 DEF Crash
  <2> QED BY <1>0, <2>1, <2>2, StepFacts, StepTable DEF OneApproval, At
<1>2. CASE PostDismissShort \/ EditScenes \/ UNCHANGED vars
  <2>1. made' = made /\ cache' \in {cache, FALSE} /\ UNCHANGED <<req, spoiled>>
    BY <1>2 DEF PostDismissShort, EditScenes, vars, shorts
  <2> QED BY <1>0, <2>1 DEF OneApproval, At
<1> QED BY <1>1, <1>2

LEMMA FinalizeApproval ==
  ASSUME PlanInv, NEW r \in Requests, PostFinalize(r)
  PROVE  OneApproval'
<1>0. OneApproval /\ Path /\ req \in [Requests -> Request]
  BY DEF PlanInv, WorkflowInv, TypeOK
<1>1. /\ req'[r].pc = "queued" /\ req'[r].step = Finalize
      /\ \A o \in Requests \ {r} : req'[o] = req[o]
  BY <1>0, FinalizePath
<1>2. req[r].pc = "idle" /\ UNCHANGED <<cache, made, spoiled>>
  BY DEF PostFinalize, Active, shorts
<1>3. Finalize # ApproveShortCandidate /\ Finalize.touches = {}
  BY StepTable
<1> QED BY <1>0, <1>1, <1>2, <1>3 DEF OneApproval, At

---------------------------------------------------------------------------
(* No hook is selected while scenes are generated.                         *)

LEMMA HooklessStays ==
  ASSUME Hookless, scenes' # "scripted",
         status' \in Early => status \in Early,
         planSel["hook"] = None => planSel'["hook"] = None,
         \A o \in Requests : req'[o].step = GenerateScenes =>
           req[o].step = GenerateScenes \/ status \in Early
  PROVE  Hookless'
BY DEF Hookless

\* Who generates scenes has the lock.
LEMMA ScenesLocked ==
  ASSUME WorkflowInv, Path, NEW r \in Requests, req[r].step = GenerateScenes
  PROVE  lock = r
<1>1. req[r].locked
  BY DEF Path
<1>2. req[r].pc \notin {"idle", "queued"}
  BY StepTable, StepFacts DEF WorkflowInv, InStep, At
<1> QED BY <1>1, <1>2 DEF WorkflowInv, Locked

LEMMA ServedHookless ==
  ASSUME PlanInv, NEW r \in Requests,
         Work(r) \/ ModelFails(r) \/ StoreFault(r) \/ CreateFault(r)
  PROVE  Hookless'
<1>0. /\ WorkflowInv /\ Path /\ Hookless /\ InStep /\ TypeOK
      /\ planSel \in [Kinds -> Refs] /\ scenes # "scripted" /\ "hook" \in Kinds
  BY DEF PlanInv, WorkflowInv, TypeOK, Hookless, Kinds
<1>1. \A o \in Requests : req'[o].step = GenerateScenes => req[o].step = GenerateScenes
  BY <1>0, WorkServes, StepFacts, StepTable DEF Served, Same, Onward
<1>2. ASSUME UNCHANGED <<status, scenes>>, planSel["hook"] = None => planSel'["hook"] = None
      PROVE  Hookless'
  BY <1>0, <1>1, <1>2, HooklessStays
<1>3. ASSUME NEW k \in Kinds, Delete(k) PROVE planSel["hook"] = None => planSel'["hook"] = None
  <2>1. planSel' = [planSel EXCEPT ![k] = Dangling(planSel[k])]
    BY <1>3 DEF Delete
  <2>2. Dangling(None) = None
    BY AbsentAssumption DEF Dangling
  <2> QED BY <1>0, <2>1, <2>2
<1>4. CASE WriteScripts(r)
  <2>1. req[r].step = GenerateScenes
    BY <1>0, <1>4 DEF WriteScripts, Path, At
  <2>2. planSel["hook"] = None
    BY <1>0, <2>1 DEF Hookless
  <2>3. UNCHANGED <<status, scenes, planSel>>
    BY <1>4, <2>2 DEF WriteScripts, refs
  <2> QED BY <1>2, <2>3
<1>5. CASE ReplaceScenes(r) \/ DrainScenes(r)
  <2>1. scenes' \in {"blank", "empty", "none"} /\ UNCHANGED <<status, planSel>>
    BY <1>5 DEF ReplaceScenes, DrainScenes, refs
  <2> QED BY <1>0, <1>1, <2>1, HooklessStays
<1>6. CASE PatchWrite(r)
  <2>1. At(r, "write") /\ status' = req[r].step.to /\ scenes' = scenes
    BY <1>6 DEF PatchWrite
  <2>2. planSel'["hook"] = planSel["hook"]
    <3>1. CASE req[r].step \in {SelectTitle, SelectThumbnail}
      <4>1. KindOf(req[r].step) # "hook"
        BY <3>1, StepKinds
      <4> QED BY <1>0, <1>6, <4>1 DEF PatchWrite
    <3>2. CASE req[r].step \notin {SelectTitle, SelectThumbnail}
      BY <1>6, <3>2 DEF PatchWrite
    <3> QED BY <3>1, <3>2
  <2>3. ASSUME status' \in Early PROVE req[r].step = GenerateScenes
    <3>1. req[r].step \in Steps /\ req[r].step # ChangePlanFormatProfile
      BY <1>0, <2>1 DEF Path, At, TypeOK, Request
    <3> QED BY <2>1, <2>3, <3>1, StepTable DEF Steps, Early
  <2> QED BY <1>0, <1>1, <2>1, <2>2, <2>3 DEF Hookless
<1>7. CASE FlipHook(r)
  <2>1. /\ At(r, "flipAll") /\ status' = "hook_selected" /\ scenes' = scenes
    BY <1>7 DEF FlipHook
  <2>2. lock = r /\ req[r].step # GenerateScenes
    BY <1>0, <2>1, StepTable DEF Path, At, WorkflowInv, Locked
  <2>3. \A o \in Requests : req'[o].step # GenerateScenes
    BY <1>0, <1>1, <2>2, ScenesLocked
  <2> QED BY <1>0, <2>1, <2>3 DEF Hookless, Early
<1>8. CASE Wipe(r) \/ Drain(r) \/ CreateFault(r)
  <2>1. PICK k \in Kinds : Delete(k)
    <3>1. CASE Drain(r)
      BY <3>1 DEF Drain
    <3>2. CASE Wipe(r) \/ CreateFault(r)
      <4>1. PICK k \in Kinds : req[r].step.touches = {k}
        BY <1>0, <3>2 DEF InStep, At, Wipe, CreateFault
      <4> QED BY <3>2, <4>1, KindOfIs DEF Wipe, CreateFault
    <3> QED BY <1>8, <3>1, <3>2
  <2>2. UNCHANGED <<status, scenes>>
    BY <1>8 DEF Wipe, Drain, CreateFault
  <2> QED BY <1>2, <1>3, <2>1, <2>2
<1>9. CASE SyncPlan(r)
  <2>1. req[r].step \in {SelectTitle, SelectThumbnail}
    BY <1>0, <1>9 DEF SyncPlan, Path, At
  <2>2. KindOf(req[r].step) # "hook"
    BY <2>1, StepKinds
  <2> QED BY <1>0, <1>2, <1>9, <2>2 DEF SyncPlan
<1>10. CASE ResetFields(r)
  <2>1. planSel'["hook"] = None /\ scenes' = scenes
    BY <1>10 DEF ResetFields, Kinds
  <2> QED BY <1>0, <2>1 DEF Hookless
<1>11. CASE ~(WriteScripts(r) \/ ReplaceScenes(r) \/ DrainScenes(r) \/ PatchWrite(r) \/ FlipHook(r)
              \/ Wipe(r) \/ Drain(r) \/ CreateFault(r) \/ SyncPlan(r) \/ ResetFields(r))
  <2>1. UNCHANGED <<status, scenes, planSel>>
    BY <1>11, Zenon DEF Work, PatchCheck, PatchShots, Create, ListVariants, Flip, Point,
           UpsertMetadata, LinkMetadata, Extracted, CacheCandidates, MakeClip, EvictCandidates, NothingExtracted,
           DrainMetadata, DeleteClips, FinalizeUnderLock, ModelFails, StoreFault, store, refs
  <2> QED BY <1>2, <2>1
<1> QED BY <1>4, <1>5, <1>6, <1>7, <1>8, <1>9, <1>10, <1>11

LEMMA BeginHookless ==
  ASSUME PlanInv, NEW r \in Requests, Routes(r)
  PROVE  Hookless'
<1>0. Hookless /\ Path /\ req \in [Requests -> Request]
  BY DEF PlanInv, WorkflowInv, TypeOK
<1>1. CASE PostFinalize(r)
  <2>1. UNCHANGED <<status, scenes, planSel>>
    BY <1>1 DEF PostFinalize, store
  <2>2. Finalize # GenerateScenes
    BY StepTable
  <2>3. req'[r].step = Finalize /\ \A o \in Requests \ {r} : req'[o] = req[o]
    BY <1>0, <1>1, FinalizePath
  <2> QED BY <1>0, <2>1, <2>2, <2>3, HooklessStays DEF Hookless
<1>2. CASE ~PostFinalize(r)
  <2>1. PICK step \in Steps, locked \in BOOLEAN : \E pick : Begin(r, step, locked, pick)
    BY <1>2, RoutesBegin
  <2>2. /\ req'[r].step = step /\ status \in step.entry
        /\ \A o \in Requests \ {r} : req'[o] = req[o]
        /\ UNCHANGED <<status, scenes, planSel>>
    BY <1>0, <2>1, BeginIs
  <2>3. step = GenerateScenes => status \in Early
    BY <2>2, StepTable
  <2> QED BY <1>0, <2>2, <2>3, HooklessStays DEF Hookless
<1> QED BY <1>1, <1>2

LEMMA OtherHookless ==
  ASSUME PlanInv, Crash \/ PostDismissShort \/ EditScenes \/ UNCHANGED vars
  PROVE  Hookless'
<1>0. Hookless
  BY DEF PlanInv
<1>1. UNCHANGED <<status, planSel>> /\ scenes' \in {scenes, "empty", "blank"}
  BY DEF Crash, PostDismissShort, EditScenes, vars, store, refs
<1>2. \A r \in Requests : req'[r] = Idle \/ req'[r] = req[r]
  BY CrashPath DEF PostDismissShort, EditScenes, vars
<1>3. Idle.step # GenerateScenes
  BY StepFacts, StepTable
<1> QED BY <1>0, <1>1, <1>2, <1>3, HooklessStays DEF Hookless

---------------------------------------------------------------------------
(* Who overlaps whom, and what that leaves of the status.                  *)

\* Only a format change that meets nobody forgets what was spoiled, but for
\* the shorts.
LEMMA Spoiling ==
  ASSUME NEW r \in Requests, Work(r) \/ ModelFails(r) \/ StoreFault(r) \/ CreateFault(r)
  PROVE  spoiled \ {"short"} \subseteq spoiled'
<1>1. CASE CacheCandidates(r)
  BY <1>1 DEF CacheCandidates
<1>2. CASE StoreFault(r) \/ CreateFault(r)
  BY <1>2 DEF StoreFault, CreateFault
<1>3. CASE ~(CacheCandidates(r) \/ StoreFault(r) \/ CreateFault(r))
  <2>1. spoiled' = spoiled
    BY <1>3, Zenon DEF Work, PatchCheck, PatchWrite, ReplaceScenes, WriteScripts, PatchShots, Wipe,
           Create, FlipHook, ListVariants, Flip, Point, SyncPlan, UpsertMetadata, LinkMetadata,
           Extracted, DrainScenes, Drain, DrainMetadata, ResetFields, DeleteClips,
           FinalizeUnderLock, ModelFails, MakeClip, EvictCandidates, NothingExtracted
  <2> QED BY <2>1
<1> QED BY <1>1, <1>2, <1>3

LEMMA AtWork ==
  ASSUME PlanInv, NEW r \in Requests
  PROVE  /\ req[r].step \notin {NoStep, Finalize} => req[r].pc \notin {"idle", "queued"}
         /\ req[r].step = Finalize => req[r].pc \in {"queued", "check", "write"}
         /\ req[r].pc \notin {"idle", "queued"} /\ req[r].locked => lock = r
<1>0. req[r] \in Request /\ InStep /\ Path /\ Locked
  BY DEF PlanInv, WorkflowInv, TypeOK
<1>1. req[r].pc \in Places
  BY <1>0 DEF Request
<1>2. req[r].step = Finalize => req[r].pc \in {"queued", "check", "write"}
  BY <1>0, <1>1, StepTable, StepFacts DEF Places, Path, InStep, At
<1> QED BY <1>0, <1>2, StepFacts DEF InStep, Locked, At

LEMMA BeginMeets ==
  ASSUME PlanInv, NEW r \in Requests, NEW step \in Steps, NEW locked \in BOOLEAN, NEW pick,
         Begin(r, step, locked, pick), Let(step, locked, pick)
  PROVE  /\ \A o \in Requests \ {r} : req[o].step \notin {NoStep, Finalize} =>
              step.touches \cup req[o].step.touches \subseteq spoiled'
         /\ \/ spoiled \subseteq spoiled'
            \/ /\ step = ChangePlanFormatProfile
               /\ \A o \in Requests \ {r} : /\ req[o].step \in {NoStep, Finalize}
                                            /\ req[o].pc \in {"idle", "queued"}
<1> DEFINE clash == UNION {Clash(locked, step, req[q]) : q \in Requests \ {r}}
<1>0. (locked => lock = None) /\ Path
  BY DEF Begin, PlanInv
<1>1. spoiled' = IF step = ChangePlanFormatProfile /\ clash = {}
                   THEN spoiled \cap {"short"} ELSE spoiled \cup clash
  BY DEF Begin, Overlaps
<1>2. \A o \in Requests \ {r} : Clash(locked, step, req[o]) \subseteq clash
  OBVIOUS
<1> HIDE DEF clash
<1>3. ASSUME NEW o \in Requests \ {r}, req[o].step \notin {NoStep, Finalize}
      PROVE  step.touches \cup req[o].step.touches \subseteq clash
  <2>1. req[o].pc \notin {"idle", "queued"}
    BY <1>3, AtWork
  <2>2. ~(locked /\ req[o].locked)
    BY <1>0, <2>1, AtWork, AbsentAssumption
  <2>3. Clash(locked, step, req[o]) = step.touches \cup req[o].step.touches
    BY <2>1, <2>2 DEF Clash
  <2> QED BY <1>2, <2>3
<1>4. CASE step = ChangePlanFormatProfile /\ clash = {}
  <2>1. ASSUME NEW o \in Requests \ {r}
        PROVE  req[o].step \in {NoStep, Finalize} /\ req[o].pc \in {"idle", "queued"}
    <3>1. req[o].step \in {NoStep, Finalize}
      BY <1>3, <1>4, StepTable
    <3>2. CASE req[o].step = Finalize
      BY <1>0, <1>4, <3>2, AtWork, AbsentAssumption DEF Path, Let
    <3>3. CASE req[o].step = NoStep
      <4>1. req[o].pc \in Places
        BY DEF PlanInv, WorkflowInv, TypeOK, Request
      <4> QED BY <1>0, <3>3, <4>1, StepTable DEF PlanInv, WorkflowInv, InStep, Path, At, Places
    <3> QED BY <3>1, <3>2, <3>3
  <2> QED BY <1>4, <2>1
<1>5. CASE ~(step = ChangePlanFormatProfile /\ clash = {})
  <2>1. spoiled \subseteq spoiled' /\ clash \subseteq spoiled'
    BY <1>1, <1>5
  <2> QED BY <1>3, <2>1
<1> QED BY <1>4, <1>5

LEMMA ServedAlone ==
  ASSUME Alone, NEW r \in Requests, Served(r), spoiled \ {"short"} \subseteq spoiled'
  PROVE  Alone'
<1>1. \A o \in Requests : req'[o].step \in {req[o].step, NoStep}
  BY StepFacts DEF Served, Same, Onward
<1> QED BY <1>1 DEF Alone

LEMMA BeginAlone ==
  ASSUME PlanInv, Alone, NEW r \in Requests, NEW step \in Steps, NEW locked \in BOOLEAN,
         NEW pick, Begin(r, step, locked, pick), Let(step, locked, pick)
  PROVE  Alone'
<1>1. req'[r].step = step /\ \A o \in Requests \ {r} : req'[o] = req[o]
  BY BeginIs DEF PlanInv, WorkflowInv, TypeOK
<1> SUFFICES ASSUME NEW a \in Requests, NEW o \in Requests, a # o,
                    req'[a].step \notin {NoStep, Finalize}, req'[o].step \notin {NoStep, Finalize}
             PROVE  (req'[a].step.touches \cup req'[o].step.touches) \ {"short"} \subseteq spoiled'
  BY DEF Alone
<1>2. CASE a = r \/ o = r
  BY <1>1, <1>2, BeginMeets
<1>3. CASE a # r /\ o # r
  BY <1>1, <1>3, BeginMeets DEF Alone
<1> QED BY <1>2, <1>3

\* Who writes the status, what, and where that leaves the request.
Writes(r) ==
  /\ req[r].pc \in {"write", "flipAll", "reset"}
  /\ status' = req[r].step.to
  /\ req[r].step \in EarlySteps \cup LateSteps \cup {Finalize, ChangePlanFormatProfile}
  /\ req'[r].step = NoStep \/ req[r].step \in {GenerateScenes, ExtractShortsCandidates,
                                              ChangePlanFormatProfile}
  /\ req'[r].pc # "write"

LEMMA StatusMoves ==
  ASSUME PlanInv, NEW r \in Requests,
         Work(r) \/ ModelFails(r) \/ StoreFault(r) \/ CreateFault(r)
  PROVE  status' = status \/ Writes(r)
<1>0. req \in [Requests -> Request] /\ req[r] \in Request /\ Path /\ InStep
  BY DEF PlanInv, WorkflowInv, TypeOK
<1>1. CASE PatchWrite(r)
  <2>1. At(r, "write") /\ status' = req[r].step.to
    BY <1>1 DEF PatchWrite
  <2>2. \/ Goto(r, "scripts") /\ req[r].step = GenerateScenes
        \/ Goto(r, "cache") /\ req[r].step = ExtractShortsCandidates
        \/ End(r)
    BY <1>1, Zenon DEF PatchWrite
  <2>3. \/ req'[r].pc \in {"scripts", "cache"} /\ req[r].step \in {GenerateScenes, ExtractShortsCandidates}
        \/ req'[r] = Idle
    BY <1>0, <2>2 DEF Goto, End, Request
  <2>4. req[r].step \in EarlySteps \cup LateSteps \cup {Finalize}
    BY <1>0, <2>1 DEF Path, At, Request, Steps, EarlySteps, LateSteps
  <2> QED BY <2>1, <2>3, <2>4, StepFacts DEF Writes, At
<1>2. CASE FlipHook(r)
  <2>1. At(r, "flipAll") /\ status' = "hook_selected" /\ req'[r] = Idle
    BY <1>0, <1>2 DEF FlipHook, End
  <2>2. req[r].step = SelectHook
    BY <1>0, <2>1 DEF Path
  <2> QED BY <2>1, <2>2, StepFacts, StepTable DEF Writes, At, EarlySteps
<1>3. CASE ResetFields(r)
  <2>1. At(r, "reset") /\ status' = "projects_matched" /\ req'[r].pc = "clips"
    BY <1>0, <1>3 DEF ResetFields, Goto, Request
  <2>2. req[r].step = ChangePlanFormatProfile
    BY <1>0, <2>1 DEF InStep, At
  <2> QED BY <2>1, <2>2, StepTable DEF Writes, At
<1>4. CASE ~(PatchWrite(r) \/ FlipHook(r) \/ ResetFields(r))
  <2>1. status' = status
    BY <1>4, Zenon DEF Work, PatchCheck, ReplaceScenes, WriteScripts, PatchShots, Wipe, Create, Drain,
           DrainScenes, ListVariants, Flip, Point, SyncPlan, UpsertMetadata, LinkMetadata,
           Extracted, CacheCandidates, MakeClip, EvictCandidates, NothingExtracted, DrainMetadata, DeleteClips,
           FinalizeUnderLock, ModelFails, StoreFault, CreateFault, store
  <2> QED BY <2>1
<1> QED BY <1>1, <1>2, <1>3, <1>4

\* What is known of a request that writes the status.
LEMMA Writers ==
  ASSUME PlanInv, NEW r \in Requests, Writes(r)
  PROVE  /\ req[r].step \in EarlySteps \cup LateSteps => req[r].moving
         /\ req[r].step \in EarlySteps \cup {Finalize} => lock = r
         /\ req[r].step = Finalize => At(r, "write")
<1>0. InStep /\ Path
  BY DEF PlanInv, WorkflowInv
<1>1. req[r].pc = "reset" => req[r].step = ChangePlanFormatProfile
  BY <1>0 DEF InStep, At
<1>2. req[r].pc = "flipAll" => req[r].step = SelectHook /\ req[r].moving
  BY <1>0 DEF Path, At
<1>3. req[r].pc = "write" => req[r].moving \/ req[r].step = Finalize
  BY <1>0 DEF Path
<1>4. req[r].step \in EarlySteps \cup {Finalize} => req[r].locked
  BY <1>0 DEF Path, EarlySteps
<1>5. lock = r \/ ~req[r].locked
  BY AtWork DEF Writes
<1> QED BY <1>1, <1>2, <1>3, <1>4, <1>5, StepTable DEF Writes, EarlySteps, LateSteps, At

Drafted == Early \cup {"hooks_generated", "hook_selected"}

\* What the table says of the early and the late steps.
LEMMA EarlyAndLate ==
  /\ \A s \in EarlySteps : s.moves \subseteq Drafted
  /\ \A s \in LateSteps : s.to \notin Drafted /\ s.entry \cap Drafted = {}
  /\ "finalized" \notin Drafted /\ GenerateScenes.to \in GenerateScenes.moves
  /\ EarlySteps \cap LateSteps = {}
  /\ {NoStep, Finalize, ChangePlanFormatProfile} \cap (EarlySteps \cup LateSteps) = {}
BY StepTable DEF EarlySteps, LateSteps, Drafted, Early

\* Two steps before the shot list are never at work together, nor with a
\* finalize that holds the lock.
LEMMA EarlyLocks ==
  ASSUME PlanInv, NEW r \in Requests, lock = r, NEW o \in Requests, o # r
  PROVE  /\ req[o].step \notin EarlySteps
         /\ req[o].step = Finalize => ~At(o, "write") /\ ~At(o, "check")
<1>1. req[o].step \in EarlySteps \cup {Finalize} => req[o].locked
  BY DEF PlanInv, Path, EarlySteps
<1>2. req[o].step \in EarlySteps => req[o].step \notin {NoStep, Finalize}
  BY EarlyAndLate
<1> QED BY <1>1, <1>2, AtWork DEF At

LEMMA RuinedStays ==
  ASSUME spoiled \ {"short"} \subseteq spoiled', ~Ruined'
  PROVE  ~Ruined
BY DEF Ruined

LEMMA ServedSteps ==
  ASSUME NEW r \in Requests, Served(r)
  PROVE  /\ \A o \in Requests : req'[o].step \in {req[o].step, NoStep}
         /\ \A o \in Requests : req'[o].step # NoStep => req'[o].moving = req[o].moving
         /\ \A o \in Requests \ {r} : req'[o].pc = req[o].pc /\ req'[o].step = req[o].step
BY StepFacts DEF Served, Same, Onward

LEMMA ServedPhases ==
  ASSUME PlanInv, Alone, Phases, NEW r \in Requests, Served(r),
         spoiled \ {"short"} \subseteq spoiled', status' = status \/ Writes(r)
  PROVE  Phases'
<1> SUFFICES ASSUME ~Ruined', NEW o \in Requests
             PROVE  /\ req'[o].step \in EarlySteps /\ req'[o].moving => status' \in req'[o].step.moves
                    /\ req'[o].step \in LateSteps => status' \notin Drafted
  BY DEF Phases, Drafted
<1>0. /\ ~Ruined
      /\ req'[o].step \in {req[o].step, NoStep}
      /\ req'[o].step # NoStep => req'[o].moving = req[o].moving
  BY RuinedStays, ServedSteps
<1>1. \A q \in Requests :
        /\ req[q].step \in EarlySteps /\ req[q].moving => status \in req[q].step.moves
        /\ req[q].step \in LateSteps => status \notin Drafted
  BY <1>0 DEF Phases, Drafted
<1>2. CASE status' = status
  BY <1>0, <1>1, <1>2, EarlyAndLate
<1>3. CASE Writes(r) /\ o = r
  <2>1. req'[r].step = NoStep \/ req[r].step \in {GenerateScenes, ExtractShortsCandidates,
                                                  ChangePlanFormatProfile}
    BY <1>3 DEF Writes
  <2> QED BY <1>0, <1>3, <2>1, EarlyAndLate DEF Writes, EarlySteps, LateSteps
<1>4. CASE Writes(r) /\ o # r
  <2>1. CASE req[r].step \in EarlySteps
    <3>1. lock = r /\ status \in Drafted
      BY <1>1, <1>4, <2>1, Writers, EarlyAndLate
    <3>2. req[o].step \notin EarlySteps /\ req[o].step \notin LateSteps
      BY <1>1, <1>4, <3>1, EarlyLocks
    <3> QED BY <1>0, <3>2, EarlyAndLate
  <2>2. CASE req[r].step \in LateSteps
    <3>1. status' \notin Drafted /\ status \notin Drafted
      BY <1>1, <1>4, <2>2, EarlyAndLate DEF Writes
    <3> QED BY <1>0, <1>1, <3>1, EarlyAndLate
  <2>3. CASE req[r].step = Finalize
    <3>1. status' \notin Drafted /\ lock = r
      BY <1>4, <2>3, Writers, EarlyAndLate, StepTable DEF Writes
    <3>2. req[o].step \notin EarlySteps
      BY <1>4, <3>1, EarlyLocks
    <3> QED BY <1>0, <3>1, <3>2, EarlyAndLate
  <2>4. CASE req[r].step = ChangePlanFormatProfile
    <3>1. req[o].step \in {NoStep, Finalize}
      BY <1>0, <1>4, <2>4, StepFacts, EarlyAndLate DEF Alone, Ruined
    <3> QED BY <1>0, <3>1, EarlyAndLate
  <2> QED BY <1>4, <2>1, <2>2, <2>3, <2>4 DEF Writes
<1> QED BY <1>2, <1>3, <1>4

LEMMA BeginPhases ==
  ASSUME PlanInv, Phases, NEW r \in Requests, NEW step \in Steps, NEW locked \in BOOLEAN,
         NEW pick, Begin(r, step, locked, pick), Let(step, locked, pick)
  PROVE  Phases'
<1> SUFFICES ASSUME ~Ruined', NEW o \in Requests
             PROVE  /\ req'[o].step \in EarlySteps /\ req'[o].moving => status' \in req'[o].step.moves
                    /\ req'[o].step \in LateSteps => status' \notin Drafted
  BY DEF Phases, Drafted
<1>1. /\ req'[r].step = step /\ req'[r].moving = (status \in step.moves)
      /\ status \in step.entry /\ status' = status
      /\ \A q \in Requests \ {r} : req'[q] = req[q]
  BY BeginIs DEF PlanInv, WorkflowInv, TypeOK
<1>2. CASE o = r
  BY <1>1, <1>2, EarlyAndLate
<1>3. CASE o # r
  <2>1. req'[o] = req[o]
    BY <1>1, <1>3
  <2>2. CASE req[o].step \in {NoStep, Finalize}
    BY <2>1, <2>2, EarlyAndLate
  <2>3. CASE req[o].step \notin {NoStep, Finalize}
    <3>1. spoiled \subseteq spoiled'
      BY <1>3, <2>3, BeginMeets
    <3>2. ~Ruined
      BY <3>1 DEF Ruined
    <3> QED BY <1>1, <2>1, <3>2 DEF Phases, Drafted
  <2> QED BY <2>2, <2>3
<1> QED BY <1>2, <1>3

\* The steps of one kind, and what the table says of them.
Maker  == [hook |-> GenerateHookVariants, title |-> GenerateTitleVariants,
           thumb |-> GenerateThumbnailConcepts]
Picker == [hook |-> SelectHook, title |-> SelectTitle, thumb |-> SelectThumbnail]

LEMMA KindSteps ==
  /\ \A s \in Steps \cup {NoStep}, k \in Kinds : s.touches = {k} <=> s \in {Maker[k], Picker[k]}
  /\ \A k \in Kinds : /\ Maker[k].to = MadeAt[k] /\ Picker[k].to # MadeAt[k]
                      /\ Maker[k] # Picker[k]
                      /\ Picker[k].to \in Decided[k] \ Unmade[k]
                      /\ Maker[k].first = "wipe" /\ MadeAt[k] \in Maker[k].entry
  /\ \A k \in {"title", "thumb"} :
       /\ Maker[k] \in LateSteps /\ Picker[k] \in LateSteps
       /\ Maker[k].moves \subseteq Unmade[k] /\ Maker[k].entry \ Maker[k].moves = {MadeAt[k]}
       /\ Picker[k].moves = {MadeAt[k]} /\ Picker[k].first = "list"
       /\ Picker[k].entry \cap (Unmade[k] \cup {MadeAt[k]}) \subseteq Picker[k].moves
<1>1. Maker["hook"] = GenerateHookVariants /\ Picker["hook"] = SelectHook
  BY DEF Maker, Picker
<1>2. Maker["title"] = GenerateTitleVariants /\ Picker["title"] = SelectTitle
  BY DEF Maker, Picker
<1>3. Maker["thumb"] = GenerateThumbnailConcepts /\ Picker["thumb"] = SelectThumbnail
  BY DEF Maker, Picker
<1>4. /\ MadeAt["hook"] = "hooks_generated" /\ MadeAt["title"] = "titles_generated"
      /\ MadeAt["thumb"] = "thumbnails_generated"
  BY DEF MadeAt
<1>5. ASSUME NEW s \in Steps \cup {NoStep}, NEW k \in Kinds
      PROVE  s.touches = {k} <=> s \in {Maker[k], Picker[k]}
  <2>1. CASE k = "hook"
    BY <1>1, <2>1, StepTable DEF Steps
  <2>2. CASE k = "title"
    BY <1>2, <2>2, StepTable DEF Steps
  <2>3. CASE k = "thumb"
    BY <1>3, <2>3, StepTable DEF Steps
  <2> QED BY <2>1, <2>2, <2>3 DEF Kinds
<1>6. ASSUME NEW k \in Kinds
      PROVE  /\ Maker[k].to = MadeAt[k] /\ Picker[k].to # MadeAt[k]
             /\ Maker[k] # Picker[k]
             /\ Picker[k].to \in Decided[k] \ Unmade[k]
             /\ Maker[k].first = "wipe" /\ MadeAt[k] \in Maker[k].entry
  <2>1. CASE k = "hook"
    BY <1>1, <1>4, <2>1, StepTable DEF Decided, Unmade, Early
  <2>2. CASE k = "title"
    BY <1>2, <1>4, <2>2, StepTable DEF Decided, Unmade, Early
  <2>3. CASE k = "thumb"
    BY <1>3, <1>4, <2>3, StepTable DEF Decided, Unmade, Early
  <2> QED BY <2>1, <2>2, <2>3 DEF Kinds
<1>7. ASSUME NEW k \in {"title", "thumb"}
      PROVE  /\ Maker[k] \in LateSteps /\ Picker[k] \in LateSteps
             /\ Maker[k].moves \subseteq Unmade[k] /\ Maker[k].entry \ Maker[k].moves = {MadeAt[k]}
             /\ Picker[k].moves = {MadeAt[k]} /\ Picker[k].first = "list"
             /\ Picker[k].entry \cap (Unmade[k] \cup {MadeAt[k]}) \subseteq Picker[k].moves
  <2>1. CASE k = "title"
    BY <1>2, <1>4, <2>1, StepTable DEF Unmade, Early, LateSteps
  <2>2. CASE k = "thumb"
    BY <1>3, <1>4, <2>2, StepTable DEF Unmade, Early, LateSteps
  <2> QED BY <2>1, <2>2
<1> QED BY <1>5, <1>6, <1>7

LEMMA FinalizeWrites ==
  ASSUME PlanInv, NEW r \in Requests,
         Work(r) \/ ModelFails(r) \/ StoreFault(r) \/ CreateFault(r),
         NEW o \in Requests, At(o, "write")', req'[o].step = Finalize, ~At(o, "write")
  PROVE  /\ Allowed(status, "finalized") /\ status' = status
         /\ o = r /\ At(o, "check") /\ req[o].step = Finalize
<1>0. req \in [Requests -> Request] /\ WorkflowInv /\ Path
  BY DEF PlanInv, WorkflowInv, TypeOK
<1>1. Served(r)
  BY <1>0, WorkServes
<1>2. o = r /\ Onward(r) /\ At(r, "check") /\ req[r].step = Finalize
  BY <1>1, StepFacts DEF Served, Same, Onward, NextPlaces, At
<1>3. PatchCheck(r)
  <2>1. ~StoreFault(r)
    BY <1>0, <1>2, StepFacts DEF StoreFault, End, At
  <2> QED BY <1>2, <2>1, Zenon DEF At, Work, PatchWrite, ReplaceScenes, WriteScripts, PatchShots, Wipe, Create,
             Drain, DrainScenes, ListVariants, Flip, Point, SyncPlan, UpsertMetadata, LinkMetadata,
             Extracted, CacheCandidates, MakeClip, EvictCandidates, NothingExtracted, DrainMetadata, DeleteClips,
             FlipHook, ResetFields, FinalizeUnderLock, ModelFails, CreateFault, Kinds
<1>4. Allowed(status, "finalized")
  BY <1>0, <1>2, <1>3, StepFacts, StepTable DEF PatchCheck, End, At
<1> QED BY <1>2, <1>3, <1>4 DEF PatchCheck, store

LEMMA ServedWindow ==
  ASSUME PlanInv, Alone, Window, LateWrites, NEW r \in Requests, Served(r),
         spoiled \ {"short"} \subseteq spoiled', status' = status \/ Writes(r)
  PROVE  Window'
<1> SUFFICES ASSUME NEW o \in Requests, NEW k \in {"title", "thumb"}, k \notin spoiled',
                    req'[o].step.touches = {k}
             PROVE  IF req'[o].moving THEN status' \in req'[o].step.moves
                    ELSE /\ status' \notin Unmade[k]
                         /\ req'[o].step.to = MadeAt[k] => status' = MadeAt[k]
                         /\ req'[o].step.to # MadeAt[k] => status' # MadeAt[k]
  BY DEF Window
<1>1. /\ k \notin spoiled /\ req'[o].step = req[o].step /\ req'[o].moving = req[o].moving
      /\ req[o].step # NoStep
  BY ServedSteps, StepFacts
<1>2. /\ k \in Kinds /\ req[o].step \in Steps \cup {NoStep}
  BY DEF Kinds, PlanInv, WorkflowInv, TypeOK, Request
<1>3. req[o].step \in {Maker[k], Picker[k]}
  BY <1>1, <1>2, KindSteps
<1>4. IF req[o].moving THEN status \in req[o].step.moves
      ELSE /\ status \notin Unmade[k]
           /\ req[o].step.to = MadeAt[k] => status = MadeAt[k]
           /\ req[o].step.to # MadeAt[k] => status # MadeAt[k]
  BY <1>1 DEF Window
<1>5. CASE status' = status
  BY <1>1, <1>4, <1>5
<1>6. CASE Writes(r)
  <2>1. req[o].step \notin {NoStep, Finalize}
    BY <1>1, StepFacts
  <2>2. o # r
    <3>1. req[o].step \notin {GenerateScenes, ExtractShortsCandidates, ChangePlanFormatProfile}
      <4>1. CASE k = "title"
        BY <1>3, <4>1, StepTable DEF Maker, Picker
      <4>2. CASE k = "thumb"
        BY <1>3, <4>2, StepTable DEF Maker, Picker
      <4> QED BY <4>1, <4>2
    <3> QED BY <1>1, <1>6, <3>1 DEF Writes
  <2>3. req[r].step # NoStep
    BY <1>6, EarlyAndLate, StepTable DEF Writes
  <2>4. req[r].step = Finalize
    BY <1>1, <2>1, <2>2, <2>3 DEF Alone
  <2>5. At(r, "write") /\ status' = "finalized"
    BY <1>6, <2>4, Writers, StepTable DEF Writes
  <2>6. /\ status \notin {"shot_list_generated", "titles_generated"}
        /\ k = "thumb" => status \notin {"title_selected", "thumbnails_generated"}
    BY <1>1, <2>4, <2>5 DEF LateWrites, Ahead
  <2>7. ~req[o].moving
    BY <1>3, <1>4, <2>6, StepTable DEF Maker, Picker
  <2>8. req[o].step.to # MadeAt[k]
    BY <1>4, <2>6, <2>7 DEF MadeAt
  <2>9. "finalized" \notin Unmade[k] /\ "finalized" # MadeAt[k]
    BY DEF Unmade, MadeAt, Early
  <2> QED BY <1>1, <2>5, <2>7, <2>8, <2>9
<1> QED BY <1>5, <1>6

LEMMA BeginWindow ==
  ASSUME PlanInv, Window, NEW r \in Requests, NEW step \in Steps, NEW locked \in BOOLEAN,
         NEW pick, Begin(r, step, locked, pick), Let(step, locked, pick)
  PROVE  Window'
<1> SUFFICES ASSUME NEW o \in Requests, NEW k \in {"title", "thumb"}, k \notin spoiled',
                    req'[o].step.touches = {k}
             PROVE  IF req'[o].moving THEN status' \in req'[o].step.moves
                    ELSE /\ status' \notin Unmade[k]
                         /\ req'[o].step.to = MadeAt[k] => status' = MadeAt[k]
                         /\ req'[o].step.to # MadeAt[k] => status' # MadeAt[k]
  BY DEF Window
<1>1. /\ req'[r].step = step /\ req'[r].moving = (status \in step.moves)
      /\ status \in step.entry /\ status' = status
      /\ \A q \in Requests \ {r} : req'[q] = req[q]
  BY BeginIs DEF PlanInv, WorkflowInv, TypeOK
<1>2. CASE o = r
  <2>1. step \in {Maker[k], Picker[k]} /\ k \in Kinds
    BY <1>1, <1>2, KindSteps DEF Kinds
  <2>2. req'[o].moving <=> status \in step.moves
    BY <1>1, <1>2
  <2>3. step = Maker[k] /\ status \notin step.moves => status = MadeAt[k] /\ status \notin Unmade[k]
    <3>1. MadeAt[k] \notin Unmade[k]
      BY DEF MadeAt, Unmade, Early
    <3>2. Maker[k].entry \ Maker[k].moves = {MadeAt[k]}
      BY KindSteps
    <3> QED BY <1>1, <3>1, <3>2
  <2>4. step = Picker[k] /\ status \notin step.moves => status # MadeAt[k] /\ status \notin Unmade[k]
    <3>1. /\ Picker[k].entry \cap (Unmade[k] \cup {MadeAt[k]}) \subseteq Picker[k].moves
          /\ Picker[k].moves = {MadeAt[k]}
      BY KindSteps
    <3> QED BY <1>1, <3>1
  <2>5. Maker[k].to = MadeAt[k] /\ Picker[k].to # MadeAt[k]
    BY <2>1, KindSteps
  <2> QED BY <1>1, <1>2, <2>1, <2>2, <2>3, <2>4, <2>5
<1>3. CASE o # r
  <2>1. req'[o] = req[o]
    BY <1>1, <1>3
  <2>2. req[o].step \notin {NoStep, Finalize}
    BY <2>1, StepFacts
  <2>3. k \notin spoiled
    BY <1>3, <2>2, BeginMeets
  <2> QED BY <1>1, <2>1, <2>3 DEF Window
<1> QED BY <1>2, <1>3

\* The three parts of LateWrites, for one request.
Passes(o) ==
  /\ At(o, "write") /\ req[o].step = Finalize /\ "title" \notin spoiled =>
       status \notin {"shot_list_generated", "titles_generated"}
  /\ "thumb" \notin spoiled =>
       /\ At(o, "write") /\ req[o].step = Finalize => status \notin Ahead
       /\ req[o].step \in LastSteps => status \notin Ahead
       /\ req[o].step \in TitleSteps => status \in Ahead \ {"thumbnails_generated"}

LEMMA LastAndTitle ==
  /\ TitleSteps \cup LastSteps \subseteq LateSteps
  /\ \A s \in LastSteps : s.to \notin Ahead /\ s.entry \cap Ahead = {}
  /\ \A s \in TitleSteps : s.entry \subseteq Ahead \ {"thumbnails_generated"}
  /\ \A s \in TitleSteps : s.to \in Ahead \ {"thumbnails_generated"} /\ s.touches = {"title"}
  /\ TitleSteps \cap LastSteps = {}
  /\ {NoStep, Finalize, ChangePlanFormatProfile} \cap (TitleSteps \cup LastSteps) = {}
  /\ LateSteps = TitleSteps \cup LastSteps \cup {GenerateThumbnailConcepts, SelectThumbnail}
BY StepTable DEF TitleSteps, LastSteps, LateSteps, Ahead

LEMMA ServedLateWrites ==
  ASSUME PlanInv, Alone, Phases, Window, LateWrites, NEW r \in Requests,
         Work(r) \/ ModelFails(r) \/ StoreFault(r) \/ CreateFault(r)
  PROVE  LateWrites'
<1>0. /\ Served(r) /\ spoiled \ {"short"} \subseteq spoiled'
      /\ status' = status \/ Writes(r)
  BY WorkServes, Spoiling, StatusMoves DEF PlanInv
<1> SUFFICES ASSUME NEW o \in Requests PROVE Passes(o)'
  BY DEF LateWrites, Passes
<1>1. req'[o].step \in {req[o].step, NoStep}
  BY <1>0, ServedSteps
<1>2. \A q \in Requests : Passes(q)
  BY DEF LateWrites, Passes
<1>3. /\ "title" \notin spoiled' => "title" \notin spoiled
      /\ "thumb" \notin spoiled' => "thumb" \notin spoiled
  BY <1>0
<1>4. CASE status' = status
  <2>1. CASE At(o, "write")' /\ req'[o].step = Finalize /\ ~At(o, "write")
    <3>1. Allowed(status, "finalized")
      BY <2>1, FinalizeWrites
    <3>2. status \notin Ahead
      BY <3>1 DEF Allowed, Transitions, Ahead
    <3> QED BY <1>4, <2>1, <3>2, LastAndTitle DEF Passes, Ahead
  <2>2. CASE ~(At(o, "write")' /\ req'[o].step = Finalize /\ ~At(o, "write"))
    <3>1. At(o, "write")' /\ req'[o].step = Finalize => At(o, "write") /\ req[o].step = Finalize
      BY <1>1, <2>2, StepTable
    <3> QED BY <1>1, <1>2, <1>3, <1>4, <3>1, LastAndTitle DEF Passes
  <2> QED BY <2>1, <2>2
<1>5. CASE Writes(r) /\ o = r
  <2>1. req'[r].pc # "write"
    BY <1>5 DEF Writes
  <2>2. req'[r].step \in LastSteps \cup TitleSteps => req'[r].step = ExtractShortsCandidates
    <3>1. GenerateScenes \notin LastSteps \cup TitleSteps
      BY StepTable DEF LastSteps, TitleSteps
    <3> QED BY <1>1, <1>5, <3>1, LastAndTitle DEF Writes
  <2>3. req'[r].step = ExtractShortsCandidates => status' \notin Ahead
    BY <1>1, <1>5, StepTable DEF Writes, Ahead
  <2>4. ExtractShortsCandidates \notin TitleSteps
    BY StepTable DEF TitleSteps
  <2> QED BY <1>5, <2>1, <2>2, <2>3, <2>4 DEF Passes, At
<1>6. CASE Writes(r) /\ o # r
  <2>0. req'[o].step = req[o].step /\ req'[o].pc = req[o].pc
    BY <1>0, <1>6, ServedSteps
  <2>2. CASE req[r].step \in EarlySteps
    <3>1. lock = r
      BY <1>6, <2>2, Writers
    <3>2. "thumb" \notin spoiled => status \in Drafted
      <4>1. "thumb" \notin spoiled => status \in req[r].step.moves
        BY <1>6, <2>2, Writers DEF Phases, Ruined, Aspects, Kinds
      <4> QED BY <2>2, <4>1, EarlyAndLate
    <3>3. ~(At(o, "write") /\ req[o].step = Finalize)
      BY <1>6, <3>1, EarlyLocks
    <3>4. "thumb" \notin spoiled => req[o].step \notin LateSteps
      BY <3>2 DEF Phases, Drafted, Ruined, Aspects, Kinds
    <3> QED BY <1>3, <2>0, <3>3, <3>4, LastAndTitle DEF Passes, At
  <2>3. CASE req[r].step \in TitleSteps
    <3>1. req[r].step.touches = {"title"} /\ req[r].moving
          /\ status' \in Ahead \ {"thumbnails_generated"}
      BY <1>6, <2>3, LastAndTitle, Writers DEF Writes
    <3>2. "title" \notin spoiled => status \in req[r].step.moves
      BY <3>1 DEF Window
    <3>3. "title" \notin spoiled => status \in {"shot_list_generated", "titles_generated"}
      BY <2>3, <3>2, StepTable DEF TitleSteps
    <3>4. "thumb" \notin spoiled => status \in Ahead
      BY <1>2, <2>3 DEF Passes
    <3>5. ~(At(o, "write") /\ req[o].step = Finalize /\ "title" \notin spoiled)
      BY <1>2, <3>3 DEF Passes
    <3>6. "thumb" \notin spoiled => /\ ~(At(o, "write") /\ req[o].step = Finalize)
                                    /\ req[o].step \notin LastSteps
      BY <1>2, <3>4 DEF Passes
    <3> QED BY <1>3, <2>0, <3>1, <3>5, <3>6 DEF Passes, At
  <2>4. CASE req[r].step \in {GenerateThumbnailConcepts, SelectThumbnail}
    <3>1. /\ req[r].step.touches = {"thumb"} /\ req[r].moving
          /\ req[r].step \notin {NoStep, Finalize} /\ req[r].step \in LateSteps
          /\ status' \notin {"shot_list_generated", "titles_generated"}
          /\ status' \in Ahead => req[r].step = GenerateThumbnailConcepts
      BY <1>6, <2>4, StepTable, Writers DEF Writes, LateSteps, Ahead
    <3>2. "thumb" \notin spoiled => req[o].step \in {NoStep, Finalize}
      BY <1>6, <3>1 DEF Alone
    <3>3. "thumb" \notin spoiled => status \in req[r].step.moves
      BY <3>1 DEF Window
    <3>4. "thumb" \notin spoiled /\ status' \in Ahead => status \in Ahead
      BY <3>1, <3>3, StepTable DEF Ahead
    <3>5. "thumb" \notin spoiled /\ status' \in Ahead => ~(At(o, "write") /\ req[o].step = Finalize)
      BY <1>2, <3>4 DEF Passes
    <3> QED BY <1>3, <2>0, <3>1, <3>2, <3>5, LastAndTitle DEF Passes, At
  <2>5. CASE req[r].step \in LastSteps \cup {Finalize}
    <3>1. status' \notin Ahead /\ (req[r].step = Finalize => At(r, "write"))
      BY <1>6, <2>5, LastAndTitle, StepTable, Writers DEF Writes, Ahead
    <3>2. "thumb" \notin spoiled => status \notin Ahead
      BY <1>2, <2>5, <3>1 DEF Passes
    <3>3. "thumb" \notin spoiled => req[o].step \notin TitleSteps
      BY <1>2, <3>2 DEF Passes
    <3> QED BY <1>3, <2>0, <3>1, <3>3 DEF Passes, At, Ahead
  <2>6. CASE req[r].step = ChangePlanFormatProfile
    <3>1. status' \notin Ahead
      BY <1>6, <2>6, StepTable DEF Writes, Ahead
    <3>2. "thumb" \notin spoiled => req[o].step \in {NoStep, Finalize}
      BY <1>6, <2>6, StepTable DEF Alone
    <3> QED BY <1>3, <2>0, <3>1, <3>2, LastAndTitle DEF Passes, At, Ahead
  <2> QED BY <1>6, <2>2, <2>3, <2>4, <2>5, <2>6, LastAndTitle DEF Writes
<1> QED BY <1>0, <1>4, <1>5, <1>6

LEMMA BeginLateWrites ==
  ASSUME PlanInv, LateWrites, NEW r \in Requests, NEW step \in Steps, NEW locked \in BOOLEAN,
         NEW pick, Begin(r, step, locked, pick), Let(step, locked, pick)
  PROVE  LateWrites'
<1> SUFFICES ASSUME NEW o \in Requests PROVE Passes(o)'
  BY DEF LateWrites, Passes
<1>1. /\ req'[r].step = step /\ req'[r].pc = step.first
      /\ status \in step.entry /\ status' = status
      /\ \A q \in Requests \ {r} : req'[q] = req[q]
  BY BeginIs DEF PlanInv, WorkflowInv, TypeOK
<1>2. CASE o = r
  <2>1. step.first # "write"
    BY StepTable DEF Steps
  <2> QED BY <1>1, <1>2, <2>1, LastAndTitle DEF Passes, At
<1>3. CASE o # r
  <2>1. req'[o] = req[o]
    BY <1>1, <1>3
  <2>2. CASE spoiled \subseteq spoiled'
    BY <1>1, <2>1, <2>2 DEF LateWrites, Passes, At
  <2>3. CASE req[o].step \in {NoStep, Finalize} /\ req[o].pc \in {"idle", "queued"}
    BY <2>1, <2>3, LastAndTitle DEF Passes, At
  <2> QED BY <1>3, <2>2, <2>3, BeginMeets
<1> QED BY <1>2, <1>3

---------------------------------------------------------------------------
(* The variants of one kind, seen by those who do not touch it.            *)

\* All that is stored of kind k stays as it is.
Kept(k) ==
  /\ docs'[k] = docs[k] /\ flag'[k] = flag[k] /\ planSel'[k] = planSel[k]
  /\ k # "hook" => delSel'[k] = delSel[k]

LEMMA DeleteOther ==
  ASSUME PlanInv, NEW j \in Kinds, Delete(j), NEW k \in Kinds, k # j
  PROVE  Kept(k)
<1>1. /\ docs \in [Kinds -> Nat] /\ flag \in [Kinds -> SUBSET Nat]
      /\ planSel \in [Kinds -> Refs] /\ delSel \in [{"title", "thumb"} -> Refs]
  BY DEF PlanInv, WorkflowInv, TypeOK
<1> QED BY <1>1 DEF Delete, Kept, Kinds

LEMMA KeptByOthers ==
  ASSUME PlanInv, NEW r \in Requests,
         Work(r) \/ ModelFails(r) \/ StoreFault(r) \/ CreateFault(r),
         NEW k \in Kinds, k \notin req[r].step.touches
  PROVE  Kept(k)
<1>0. /\ docs \in [Kinds -> Nat] /\ flag \in [Kinds -> SUBSET Nat]
      /\ planSel \in [Kinds -> Refs] /\ delSel \in [{"title", "thumb"} -> Refs]
      /\ InStep /\ Path
  BY DEF PlanInv, WorkflowInv, TypeOK
<1>1. ASSUME NEW j \in Kinds, req[r].step.touches = {j} PROVE KindOf(req[r].step) = j /\ j # k
  BY <1>1, KindOfIs
<1>2. CASE Wipe(r) \/ CreateFault(r)
  <2>1. PICK j \in Kinds : req[r].step.touches = {j}
    BY <1>0, <1>2 DEF InStep, At, Wipe, CreateFault
  <2> QED BY <1>1, <1>2, <2>1, DeleteOther DEF Wipe, CreateFault
<1>3. CASE Drain(r) \/ ResetFields(r)
  <2>1. req[r].step = ChangePlanFormatProfile
    BY <1>0, <1>3 DEF InStep, At, Drain, ResetFields, Kinds
  <2> QED BY <2>1, StepFacts DEF Aspects
<1>4. CASE Create(r)
  <2>1. PICK j \in Kinds : req[r].step.touches = {j}
    BY <1>0, <1>4 DEF InStep, At, Create
  <2>2. docs' = [docs EXCEPT ![j] = @ + 1] /\ UNCHANGED <<flag, planSel, delSel>> /\ j # k
    BY <1>1, <1>4, <2>1 DEF Create, refs
  <2> QED BY <1>0, <2>2 DEF Kept
<1>5. CASE FlipHook(r)
  <2>1. k # "hook"
    BY <1>0, <1>5 DEF InStep, At, FlipHook
  <2>2. /\ flag' = [flag EXCEPT !["hook"] = {req[r].pick}]
        /\ planSel' = [planSel EXCEPT !["hook"] = req[r].pick] /\ UNCHANGED <<docs, delSel>>
    BY <1>5 DEF FlipHook
  <2> QED BY <1>0, <2>1, <2>2 DEF Kept
<1>6. CASE Flip(r) \/ Point(r) \/ SyncPlan(r)
  <2>1. PICK j \in {"title", "thumb"} : req[r].step.touches = {j}
    BY <1>0, <1>6 DEF InStep, At, Flip, Point, SyncPlan
  <2>2. j # k /\ KindOf(req[r].step) = j /\ j \in Kinds
    BY <1>1, <2>1 DEF Kinds
  <2>3. /\ flag' = flag \/ \E S : flag' = [flag EXCEPT ![j] = S]
        /\ delSel' = delSel \/ delSel' = [delSel EXCEPT ![j] = req[r].pick]
        /\ planSel' = planSel \/ planSel' = [planSel EXCEPT ![j] = req[r].pick]
        /\ docs' = docs
    <3>1. CASE Flip(r)
      BY <2>2, <3>1 DEF Flip, refs
    <3>2. CASE Point(r)
      BY <2>2, <3>2 DEF Point
    <3>3. CASE SyncPlan(r)
      BY <2>2, <3>3 DEF SyncPlan
    <3> QED BY <1>6, <3>1, <3>2, <3>3
  <2> QED BY <1>0, <2>2, <2>3 DEF Kept, Kinds
<1>7. CASE PatchWrite(r)
  <2>1. UNCHANGED <<docs, flag, delSel>>
    BY <1>7 DEF PatchWrite
  <2>2. CASE req[r].step \in {SelectTitle, SelectThumbnail}
    <3>1. PICK j \in Kinds : req[r].step.touches = {j}
      BY <2>2, StepTable DEF Kinds
    <3>2. planSel' = [planSel EXCEPT ![j] = req[r].pick] /\ j # k
      BY <1>1, <1>7, <2>2, <3>1 DEF PatchWrite
    <3> QED BY <1>0, <2>1, <3>2 DEF Kept
  <2>3. CASE req[r].step \notin {SelectTitle, SelectThumbnail}
    BY <1>7, <2>1, <2>3 DEF PatchWrite, Kept
  <2> QED BY <2>2, <2>3
<1>8. CASE ~(Wipe(r) \/ CreateFault(r) \/ Drain(r) \/ ResetFields(r) \/ Create(r) \/ FlipHook(r)
             \/ Flip(r) \/ Point(r) \/ SyncPlan(r) \/ PatchWrite(r))
  <2>1. UNCHANGED <<docs, flag, planSel, delSel>>
    BY <1>8, Zenon DEF Work, PatchCheck, ReplaceScenes, WriteScripts, PatchShots,
           DrainScenes, ListVariants, UpsertMetadata, LinkMetadata,
           Extracted, CacheCandidates, MakeClip, EvictCandidates, NothingExtracted, DrainMetadata, DeleteClips,
           FinalizeUnderLock, ModelFails, StoreFault, store, refs
  <2> QED BY <2>1 DEF Kept
<1> QED BY <1>2, <1>3, <1>4, <1>5, <1>6, <1>7, <1>8

\* Nor do requests of that kind, or a format change, notice.
LEMMA UnnoticedByOthers ==
  ASSUME PlanInv, NEW r \in Requests,
         Work(r) \/ ModelFails(r) \/ StoreFault(r) \/ CreateFault(r),
         NEW k \in Kinds, k \notin req[r].step.touches,
         NEW o \in Requests \ {r}, k \in req[o].step.touches
  PROVE  req'[o] = req[o]
<1>0. req \in [Requests -> Request] /\ InStep /\ Path
  BY DEF PlanInv, WorkflowInv, TypeOK
<1>1. CASE Wipe(r) \/ CreateFault(r)
  <2>1. PICK j \in Kinds : req[r].step.touches = {j}
    BY <1>0, <1>1 DEF InStep, At, Wipe, CreateFault
  <2>2. KindOf(req[r].step) = j /\ req[o].step.touches # {j}
    BY <2>1, KindOfIs
  <2> DEFINE out == Outdated(j)
  <2>3. out[o] = req[o] /\ DOMAIN out = Requests
    BY <2>2 DEF Outdated
  <2>4. req' = [out EXCEPT ![r].pc = "create"] \/ req' = [out EXCEPT ![r] = Idle]
    BY <1>1, <2>2 DEF Wipe, CreateFault
  <2> HIDE DEF out
  <2> QED BY <2>3, <2>4
<1>2. CASE Drain(r)
  <2>1. req[r].step = ChangePlanFormatProfile
    BY <1>0, <1>2 DEF InStep, At, Drain, Kinds
  <2> QED BY <2>1, StepFacts DEF Aspects
<1>3. CASE CacheCandidates(r)
  <2>1. req[o].step # ApproveShortCandidate
    BY StepTable DEF Kinds
  <2> QED BY <1>3, <2>1 DEF CacheCandidates
<1>4. CASE Create(r) \/ ListVariants(r) \/ Flip(r)
  <2>1. CASE Create(r)
    <3>1. (\E n : req' = [req EXCEPT ![r].created = n]) \/ Proceed(r)
      BY <2>1 DEF Create
    <3> QED BY <1>0, <3>1 DEF Proceed, Goto, End
  <2>2. CASE ListVariants(r) \/ Flip(r)
    <3>1. End(r) \/ \E S, p : req' = [req EXCEPT ![r].pc = p, ![r].seen = S]
      BY <2>2, Zenon DEF ListVariants, Flip
    <3> QED BY <1>0, <3>1 DEF End
  <2> QED BY <1>4, <2>1, <2>2
<1>5. CASE ~(Wipe(r) \/ CreateFault(r) \/ Drain(r) \/ CacheCandidates(r) \/ Create(r)
             \/ ListVariants(r) \/ Flip(r))
  <2>1. End(r) \/ \E p : Goto(r, p)
    BY <1>5, Zenon DEF Work, PatchCheck, PatchWrite, ReplaceScenes, WriteScripts, PatchShots, FlipHook,
           Point, SyncPlan, UpsertMetadata, LinkMetadata, Extracted, MakeClip, EvictCandidates, NothingExtracted,
           DrainScenes, DrainMetadata, ResetFields, DeleteClips, FinalizeUnderLock, ModelFails,
           StoreFault, Proceed
  <2> QED BY <1>0, <2>1 DEF End, Goto
<1> QED BY <1>1, <1>2, <1>3, <1>4, <1>5

\* What is known of kind k does not change while nothing stored of it does.
LEMMA KnownStays ==
  ASSUME NEW k \in Kinds, Kept(k)
  PROVE  /\ Stored(k)' = Stored(k)
         /\ Unset(k)' <=> Unset(k)
         /\ Picked(k)' <=> Picked(k)
         /\ status' = status => (Held(k)' <=> Held(k))
<1>1. Stored(k)' = Stored(k)
  BY DEF Stored, Kept
<1>2. Agreed(k)' <=> Agreed(k)
  BY DEF Agreed, Kept
<1>3. Unset(k)' <=> Unset(k)
  BY <1>2 DEF Unset, Kept
<1>4. Picked(k)' <=> Picked(k)
  BY <1>1, <1>2 DEF Picked, Kept
<1> QED BY <1>1, <1>3, <1>4 DEF Held, Kept

\* Who moves the plan without touching kind k keeps it before the making of k,
\* or has the selection of k.
LEMMA WritesOver ==
  ASSUME PlanInv, Phases, LateWrites, NEW r \in Requests, Writes(r),
         NEW k \in Kinds, k \notin spoiled, k \notin req[r].step.touches
  PROVE  /\ status' \in Unmade[k] => status \in Unmade[k]
         /\ status' # MadeAt[k]
         /\ status' \in Decided[k] => Uses(r, k)
<1> DEFINE s == req[r].step
<1>1. ~Ruined
  BY DEF Ruined, Aspects, Kinds
<1>2. /\ s \in EarlySteps \cup LateSteps => req[r].moving
      /\ status' = s.to
      /\ s \in EarlySteps \cup LateSteps \cup {Finalize, ChangePlanFormatProfile}
  BY Writers DEF Writes
<1>3. s \in EarlySteps => status \in s.moves
  BY <1>1, <1>2 DEF Phases
<1>4. s \in TitleSteps /\ k = "thumb" =>
        status \in {"shot_list_generated", "titles_generated", "title_selected"}
  BY DEF LateWrites, Ahead
<1>5. s # ChangePlanFormatProfile
  BY StepFacts DEF Aspects
<1>6. req[r].moving \/ s # ExtractShortsCandidates
  BY <1>2 DEF LateSteps
<1>7. k \notin s.touches
  OBVIOUS
<1>8. Uses(r, k) <=> s \in Users[k]
  BY <1>6 DEF Uses
<1> HIDE DEF s
<1>9. CASE k = "hook"
  BY <1>2, <1>3, <1>5, <1>7, <1>8, <1>9, StepTable
     DEF EarlySteps, LateSteps, Unmade, MadeAt, Decided, Users, Early
<1>10. CASE k = "title"
  BY <1>2, <1>3, <1>5, <1>7, <1>8, <1>10, StepTable
     DEF EarlySteps, LateSteps, Unmade, MadeAt, Decided, Users, Early
<1>11. CASE k = "thumb"
  BY <1>2, <1>3, <1>4, <1>5, <1>7, <1>8, <1>11, StepTable
     DEF EarlySteps, LateSteps, TitleSteps, Unmade, MadeAt, Decided, Users, Early
<1> QED BY <1>9, <1>10, <1>11 DEF Kinds

\* A kind that is not spoiled is touched by one request at most.
LEMMA OnlyOne ==
  ASSUME Alone, NEW k \in Kinds, k \notin spoiled, NEW r \in Requests, k \in req[r].step.touches,
         NEW o \in Requests \ {r}
  PROVE  req[o].step \in {NoStep, Finalize}
<1>1. req[r].step \notin {NoStep, Finalize} /\ k # "short"
  BY StepFacts DEF Kinds
<1> QED BY <1>1 DEF Alone

\* A format change and a finalize at work exclude each other.
LEMMA ChangeLocks ==
  ASSUME PlanInv, NEW r \in Requests, Writes(r), NEW o \in Requests \ {r},
         req[o].step = ChangePlanFormatProfile
  PROVE  req[r].step # Finalize
<1>1. SUFFICES ASSUME req[r].step = Finalize PROVE FALSE
  OBVIOUS
<1>2. lock = r
  BY <1>1, Writers
<1>3. req[o].locked
  BY DEF PlanInv, Path
<1> QED BY <1>2, <1>3, AtWork, StepFacts

\* The selection of a hook is one batch: it points at no deliverable.
LEMMA HookPlaces ==
  ASSUME PlanInv, NEW o \in Requests, req[o].step.touches = {"hook"}
  PROVE  /\ ~At(o, "sync")
         /\ req[o].pc \in {"check", "write"} => req[o].step = GenerateHookVariants
<1>0. InStep /\ Path /\ req[o].step \in Steps \cup {NoStep}
  BY DEF PlanInv, WorkflowInv, TypeOK, Request
<1>1. req[o].step \in {Maker["hook"], Picker["hook"]}
  BY <1>0, KindSteps DEF Kinds
<1>2. req[o].step \in {GenerateHookVariants, SelectHook}
  BY <1>1 DEF Maker, Picker
<1>3. ~At(o, "sync")
  BY <1>0 DEF InStep, At
<1>4. req[o].pc \in {"check", "write"} => req[o].step # SelectHook
  BY <1>0 DEF Path
<1> QED BY <1>2, <1>3, <1>4

LEMMA OthersStage ==
  ASSUME PlanInv, Alone, Phases, LateWrites, NEW r \in Requests,
         Work(r) \/ ModelFails(r) \/ StoreFault(r) \/ CreateFault(r),
         NEW k \in Kinds, k \notin spoiled, k \notin spoiled', Stage(k),
         k \notin req[r].step.touches
  PROVE  Stage(k)'
<1>0. /\ Served(r) /\ spoiled \ {"short"} \subseteq spoiled'
      /\ status' = status \/ Writes(r)
  BY WorkServes, Spoiling, StatusMoves DEF PlanInv
<1>1. /\ Stored(k)' = Stored(k) /\ Kept(k)
      /\ Unset(k)' <=> Unset(k)
      /\ Picked(k)' <=> Picked(k)
      /\ status' = status => (Held(k)' <=> Held(k))
  BY KeptByOthers, KnownStays
<1>2. /\ \A o \in Requests : req'[o].step \in {req[o].step, NoStep}
      /\ \A o \in Requests : req'[o].step # NoStep => req'[o].moving = req[o].moving
      /\ \A o \in Requests \ {r} : req'[o].pc = req[o].pc /\ req'[o].step = req[o].step
  BY <1>0, ServedSteps
<1>3. Held(k) => Held(k)'
  <2>1. CASE status' = status
    BY <1>1, <2>1
  <2>2. CASE Writes(r)
    <3>1. /\ status' \in Unmade[k] => status \in Unmade[k]
          /\ status' # MadeAt[k]
          /\ status' \in Decided[k] => Uses(r, k)
      BY <2>2, WritesOver
    <3>2. Uses(r, k) => Picked(k)
      BY DEF Stage
    <3> QED BY <1>1, <3>1, <3>2 DEF Held, Kept
  <2> QED BY <1>0, <2>1, <2>2
<1>4. ASSUME Settled(k)' PROVE Held(k)'
  <2>1. Settled(k)
    BY <1>2, <1>4, StepFacts DEF Settled
  <2> QED BY <1>3, <2>1 DEF Stage
<1>5. ASSUME NEW o \in Requests, req'[o].step \notin {NoStep, Finalize}, k \in req'[o].step.touches
      PROVE  o # r /\ req'[o] = req[o]
  <2>1. req'[o].step = req[o].step
    BY <1>2, <1>5
  <2>2. o # r
    BY <1>5, <2>1
  <2> QED BY <1>5, <2>1, <2>2, UnnoticedByOthers
<1>6. ASSUME NEW o \in Requests, req'[o].step.touches = {k} PROVE Progress(o, k)'
  <2>1. req'[o] = req[o] /\ o # r
    BY <1>5, <1>6, StepFacts
  <2>2. Progress(o, k)
    BY <1>6, <2>1 DEF Stage
  <2>3. k = "hook" => ~At(o, "sync") /\ ~(req[o].pc \in {"check", "write"} /\ req[o].step.to # MadeAt[k])
    <3>1. GenerateHookVariants.to = MadeAt["hook"]
      BY StepTable DEF MadeAt
    <3> QED BY <1>6, <2>1, <3>1, HookPlaces
  <2>4. /\ docs'[k] = docs[k] /\ flag'[k] = flag[k]
        /\ k # "hook" => delSel'[k] = delSel[k]
    BY <1>1 DEF Kept
  <2> QED BY <1>1, <1>3, <2>1, <2>2, <2>3, <2>4 DEF Progress, At
<1>7. ASSUME NEW o \in Requests, req'[o].step = ChangePlanFormatProfile PROVE Cleared(o, k)'
  <2>1. req'[o] = req[o] /\ o # r
    BY <1>5, <1>7, StepFacts DEF Aspects
  <2>2. Cleared(o, k)
    BY <1>7, <2>1 DEF Stage
  <2>3. status' = status
    <3>1. k \in req[o].step.touches
      BY <1>7, <2>1, StepFacts DEF Aspects
    <3>2. req[r].step \in {NoStep, Finalize}
      BY <2>1, <3>1, OnlyOne
    <3>3. ~Writes(r)
      BY <1>7, <2>1, <3>2, ChangeLocks, EarlyAndLate, StepFacts DEF Writes
    <3> QED BY <1>0, <3>3
  <2> QED BY <1>1, <2>1, <2>2, <2>3 DEF Cleared, Kept, At
<1>8. ASSUME NEW o \in Requests, Uses(o, k)' PROVE Picked(k)'
  <2>1. NoStep \notin Users[k]
    BY StepTable DEF Users, Kinds
  <2>2. Uses(o, k)
    BY <1>2, <1>8, <2>1 DEF Uses
  <2> QED BY <1>1, <2>2 DEF Stage
<1> QED BY <1>4, <1>6, <1>7, <1>8 DEF Stage

---------------------------------------------------------------------------
(* The variants of one kind, seen by the request that works on them.       *)

LEMMA ActionPlaces ==
  ASSUME NEW r \in Requests
  PROVE  /\ FinalizeUnderLock(r) => req[r].pc = "queued"
         /\ PatchCheck(r) => req[r].pc = "check"
         /\ PatchWrite(r) => req[r].pc = "write"
         /\ ReplaceScenes(r) => req[r].pc = "replace"
         /\ WriteScripts(r) => req[r].pc = "scripts"
         /\ PatchShots(r) => req[r].pc = "shots"
         /\ Wipe(r) => req[r].pc = "wipe"
         /\ Create(r) => req[r].pc = "create"
         /\ FlipHook(r) => req[r].pc = "flipAll"
         /\ ListVariants(r) => req[r].pc = "list"
         /\ Flip(r) => req[r].pc = "flip"
         /\ Point(r) => req[r].pc = "point"
         /\ SyncPlan(r) => req[r].pc = "sync"
         /\ UpsertMetadata(r) => req[r].pc = "upsert"
         /\ LinkMetadata(r) => req[r].pc = "link"
         /\ Extracted(r) => req[r].pc = "extract"
         /\ CacheCandidates(r) => req[r].pc = "cache"
         /\ MakeClip(r) => req[r].pc = "make"
         /\ EvictCandidates(r) => req[r].pc = "evict"
         /\ NothingExtracted(r) => req[r].pc = "extract"
         /\ DrainScenes(r) => req[r].pc = "scenes"
         /\ Drain(r) => req[r].pc \in Kinds
         /\ DrainMetadata(r) => req[r].pc = "meta"
         /\ ResetFields(r) => req[r].pc = "reset"
         /\ DeleteClips(r) => req[r].pc = "clips"
         /\ ModelFails(r) => req[r].pc \in {"wipe", "shots", "extract", "upsert", "replace"}
BY DEF At, FinalizeUnderLock, PatchCheck, PatchWrite, ReplaceScenes, WriteScripts, PatchShots, Wipe,
       Create, FlipHook, ListVariants, Flip, Point, SyncPlan, UpsertMetadata, LinkMetadata,
       Extracted, CacheCandidates, MakeClip, EvictCandidates, NothingExtracted, DrainScenes, Drain,
       DrainMetadata, ResetFields, DeleteClips, ModelFails

LEMMA KindPlaces ==
  ASSUME PlanInv, NEW r \in Requests, NEW k \in Kinds, req[r].step.touches = {k}
  PROVE  \/ req[r].step = Maker[k] /\ req[r].pc \in {"wipe", "create", "check", "write"}
         \/ req[r].step = Picker[k] /\ k = "hook" /\ req[r].pc = "flipAll"
         \/ /\ req[r].step = Picker[k] /\ k # "hook"
            /\ req[r].pc \in {"list", "flip", "point", "sync", "check", "write"}
<1>0. /\ InStep /\ Path /\ req[r].step \in Steps \cup {NoStep} /\ req[r].pc \in Places
  BY DEF PlanInv, WorkflowInv, TypeOK, Request
<1>1. req[r].step \in {Maker[k], Picker[k]}
  BY <1>0, KindSteps
<1>2. \/ k = "hook" /\ req[r].step \in {GenerateHookVariants, SelectHook}
      \/ k = "title" /\ req[r].step \in {GenerateTitleVariants, SelectTitle}
      \/ k = "thumb" /\ req[r].step \in {GenerateThumbnailConcepts, SelectThumbnail}
  BY <1>1 DEF Maker, Picker, Kinds
<1>3. req[r].pc \in {"wipe", "create", "check", "write", "flipAll", "list", "flip", "point", "sync"}
  BY <1>0, <1>2, StepTable, StepFacts DEF InStep, Path, At, Places
<1>4. /\ req[r].pc \in {"wipe", "create"} => req[r].step = Maker[k]
      /\ req[r].pc \in {"flipAll", "list", "flip", "point", "sync"} => req[r].step = Picker[k]
      /\ k = "hook" => /\ req[r].pc \notin {"list", "flip", "point", "sync"}
                       /\ req[r].step = Picker[k] => req[r].pc \notin {"check", "write"}
      /\ k # "hook" => req[r].pc # "flipAll"
  BY <1>0, <1>2, StepTable DEF Path, At, Maker, Picker
<1>5. Maker[k] # Picker[k]
  BY KindSteps
<1> QED BY <1>1, <1>3, <1>4, <1>5

\* What the status is while a request is alone with a kind.
LEMMA KindStatus ==
  ASSUME PlanInv, Phases, Window, NEW r \in Requests, NEW k \in Kinds, k \notin spoiled,
         req[r].step.touches = {k}
  PROVE  /\ req[r].moving => Allowed(status, req[r].step.to)
         /\ ~req[r].moving => /\ status \notin Unmade[k]
                              /\ req[r].step = Maker[k] => status = MadeAt[k]
                              /\ req[r].step = Picker[k] => status # MadeAt[k]
<1>1. ~Ruined
  BY DEF Ruined, Aspects, Kinds
<1>2. req[r].step \in {Maker[k], Picker[k]}
  BY KindPlaces
<1>3. CASE k = "hook"
  <2>1. req[r].step \in {GenerateHookVariants, SelectHook}
    BY <1>2, <1>3 DEF Maker, Picker
  <2>2. req[r].moving
    BY <2>1 DEF PlanInv, Path
  <2>3. status \in req[r].step.moves
    BY <1>1, <2>1, <2>2 DEF Phases, EarlySteps
  <2>4. Allowed(status, req[r].step.to)
    BY <2>1, <2>3, StepTable DEF Allowed, Transitions
  <2> QED BY <2>2, <2>4
<1>4. CASE k # "hook"
  <2>1. k \in {"title", "thumb"}
    BY <1>4 DEF Kinds
  <2>2. IF req[r].moving THEN status \in req[r].step.moves
        ELSE /\ status \notin Unmade[k]
             /\ req[r].step.to = MadeAt[k] => status = MadeAt[k]
             /\ req[r].step.to # MadeAt[k] => status # MadeAt[k]
    BY <2>1 DEF Window
  <2>3. req[r].step \in {GenerateTitleVariants, SelectTitle, GenerateThumbnailConcepts, SelectThumbnail}
    BY <1>2, <2>1 DEF Maker, Picker
  <2>4. req[r].moving => Allowed(status, req[r].step.to)
    BY <2>2, <2>3, StepTable DEF Allowed, Transitions
  <2> QED BY <2>2, <2>4, KindSteps
<1> QED BY <1>3, <1>4

\* It is all about the request itself.
LEMMA OwnStage ==
  ASSUME PlanInv, Alone, NEW r \in Requests, Served(r), NEW k \in Kinds, k \notin spoiled,
         k \in req[r].step.touches,
         req'[r] = Idle => Held(k)',
         req[r].step.touches = {k} /\ req'[r].step = req[r].step => Progress(r, k)',
         req[r].step = ChangePlanFormatProfile /\ req'[r].step = req[r].step => Cleared(r, k)'
  PROVE  Stage(k)'
<1>1. \A o \in Requests \ {r} : req'[o].step \in {NoStep, Finalize}
  BY OnlyOne, ServedSteps
<1>2. req'[r] = Idle \/ req'[r].step = req[r].step
  BY DEF Served, Onward
<1>3. Settled(k)' => Held(k)'
  BY <1>2 DEF Settled
<1>4. ASSUME NEW o \in Requests, req'[o].step.touches = {k} PROVE Progress(o, k)'
  BY <1>1, <1>2, <1>4, StepFacts
<1>5. ASSUME NEW o \in Requests, req'[o].step = ChangePlanFormatProfile PROVE Cleared(o, k)'
  BY <1>1, <1>2, <1>5, StepFacts
<1>6. ASSUME NEW o \in Requests, Uses(o, k)' PROVE FALSE
  <2>1. req'[o].step \in Users[k]
    BY <1>6 DEF Uses
  <2>2. Users[k] \cap {NoStep, Finalize, ChangePlanFormatProfile} = {}
    BY StepTable DEF Users, Kinds
  <2>3. o = r /\ req[r].step \in Users[k]
    BY <1>1, <1>2, <2>1, <2>2, StepFacts
  <2>4. k \notin req[r].step.touches
    BY <2>3, StepTable DEF Users, Kinds
  <2> QED BY <2>4
<1> QED BY <1>3, <1>4, <1>5, <1>6 DEF Stage

LEMMA HeldBy ==
  ASSUME NEW k \in Kinds
  PROVE  /\ docs[k] > 0 /\ Unset(k) /\ status = MadeAt[k] => Held(k)
         /\ Picked(k) /\ status \notin Unmade[k] /\ status # MadeAt[k] => Held(k)
         /\ docs[k] = 0 /\ Unset(k) /\ status = "projects_matched" => Held(k)
<1>1. MadeAt[k] \notin Unmade[k] \cup Decided[k]
  BY DEF MadeAt, Unmade, Decided, Early, Kinds
<1>2. "projects_matched" # MadeAt[k] /\ "projects_matched" \notin Decided[k]
  BY DEF MadeAt, Decided, Kinds
<1> QED BY <1>1, <1>2 DEF Held

\* The deletion of all variants leaves what was not set unset.
LEMMA DeleteOwn ==
  ASSUME PlanInv, NEW k \in Kinds, Delete(k)
  PROVE  docs'[k] = 0 /\ (Unset(k) => Unset(k)')
<1>1. /\ docs \in [Kinds -> Nat] /\ planSel \in [Kinds -> Refs]
      /\ delSel \in [{"title", "thumb"} -> Refs]
  BY DEF PlanInv, WorkflowInv, TypeOK
<1>2. docs'[k] = 0 /\ planSel'[k] = Dangling(planSel[k])
  BY <1>1 DEF Delete
<1>3. k # "hook" => delSel'[k] = Dangling(delSel[k])
  BY <1>1 DEF Delete, Kinds
<1>4. Dangling(None) = None
  BY AbsentAssumption DEF Dangling
<1> QED BY <1>2, <1>3, <1>4 DEF Unset, Agreed

LEMMA MakerStage ==
  ASSUME PlanInv, Alone, Phases, Window, NEW r \in Requests, Work(r) \/ ModelFails(r),
         NEW k \in Kinds, k \notin spoiled, req[r].step = Maker[k],
         req[r].step.touches = {k}, Progress(r, k)
  PROVE  Stage(k)'
<1>0. /\ req \in [Requests -> Request] /\ req[r] \in Request /\ WorkflowInv /\ Path
      /\ docs \in [Kinds -> Nat]
  BY DEF PlanInv, WorkflowInv, TypeOK
<1>1. Served(r) /\ k \in req[r].step.touches
  BY <1>0, WorkServes
<1>2. /\ req[r].pc \in {"wipe", "create", "check", "write"}
      /\ req[r].step.to = MadeAt[k] /\ KindOf(req[r].step) = k
      /\ req[r].step # ChangePlanFormatProfile
      /\ req[r].step \notin {SelectTitle, SelectThumbnail, GenerateScenes,
                             ExtractShortsCandidates, Finalize}
  <2>1. req[r].pc \in {"wipe", "create", "check", "write"}
    BY KindPlaces, KindSteps
  <2>2. req[r].step.to = MadeAt[k] /\ KindOf(req[r].step) = k
    BY KindSteps, KindOfIs
  <2>3. req[r].step \in {GenerateHookVariants, GenerateTitleVariants, GenerateThumbnailConcepts}
    BY DEF Maker, Kinds
  <2> QED BY <2>1, <2>2, <2>3, StepTable
<1>3. /\ req[r].moving => Allowed(status, req[r].step.to)
      /\ ~req[r].moving => status = MadeAt[k]
  BY KindStatus
<1>4. SUFFICES \/ req'[r] = Idle /\ Held(k)'
               \/ Progress(r, k)' /\ req'[r] # Idle
  <2>1. req'[r] = Idle => req'[r].step # req[r].step
    BY StepFacts
  <2> QED BY <1>1, <1>2, <2>1, OwnStage
<1>5. \/ Wipe(r) \/ Create(r) \/ PatchCheck(r) \/ PatchWrite(r)
      \/ ModelFails(r) /\ At(r, "wipe")
  BY <1>2, ActionPlaces DEF Work, At, Kinds
<1>6. CASE Wipe(r)
  <2>1. Delete(k) /\ Unset(k) /\ req[r].created = 0
    BY <1>2, <1>6 DEF Wipe, Progress
  <2>2. docs'[k] = 0 /\ Unset(k)'
    BY <2>1, DeleteOwn
  <2>3. req'[r].pc = "create" /\ req'[r].created = 0
    <3> DEFINE out == Outdated(k)
    <3>1. out[r] \in Request /\ out[r].created = req[r].created /\ DOMAIN out = Requests
      BY <1>0, OutdatedFits DEF Outdated
    <3>2. req' = [out EXCEPT ![r].pc = "create"]
      BY <1>2, <1>6 DEF Wipe
    <3> HIDE DEF out
    <3> QED BY <2>1, <3>1, <3>2 DEF Request
  <2>4. 0 < Variants[k]
    BY VariantsAssumption
  <2> QED BY <2>2, <2>3, <2>4, StepFacts DEF Progress, At
<1>7. CASE Create(r)
  <2>1. docs[k] = req[r].created /\ req[r].created < Variants[k] /\ Unset(k) /\ At(r, "create")
    BY <1>7 DEF Create, Progress
  <2> DEFINE n == req[r].created + 1
  <2>2. /\ docs' = [docs EXCEPT ![k] = @ + 1] /\ UNCHANGED <<status, flag, planSel, delSel>>
        /\ IF n < Variants[k] THEN req' = [req EXCEPT ![r].created = n] ELSE Proceed(r)
    BY <1>2, <1>7 DEF Create, refs
  <2>3. docs'[k] = n /\ n > 0
    BY <1>0, <2>1, <2>2 DEF Request
  <2>4. Unset(k)'
    BY <2>1, <2>2 DEF Unset, Agreed
  <2>5. CASE n < Variants[k]
    <3>1. req'[r].pc = "create" /\ req'[r].created = n
      BY <1>0, <2>1, <2>2, <2>5 DEF At, Request
    <3> QED BY <2>3, <2>4, <2>5, <3>1, StepFacts DEF Progress, At
  <2>6. CASE ~(n < Variants[k]) /\ req[r].moving
    <3>1. req'[r].pc = "check" /\ req'[r].step = req[r].step
      BY <1>0, <2>2, <2>6 DEF Proceed, Goto, Request
    <3>2. MadeAt' = MadeAt
      BY DEF MadeAt
    <3> QED BY <1>2, <2>3, <2>4, <3>1, <3>2, StepFacts DEF Progress, At
  <2>7. CASE ~(n < Variants[k]) /\ ~req[r].moving
    <3>1. req'[r] = Idle
      BY <1>0, <2>2, <2>7 DEF Proceed, End
    <3>2. status' = MadeAt[k]
      BY <1>3, <2>2, <2>7
    <3>3. Held(k)'
      BY <2>3, <2>4, <3>2, HeldBy DEF Held, MadeAt, Unmade, Decided, Early, Kinds
    <3> QED BY <3>1, <3>3
  <2> QED BY <2>5, <2>6, <2>7
<1>8. CASE PatchCheck(r)
  <2>1. At(r, "check") /\ UNCHANGED store
    BY <1>8 DEF PatchCheck
  <2>2. req[r].moving
    BY <1>0, <1>2, <2>1 DEF Path, At
  <2>3. req'[r].pc = "write" /\ req'[r].step = req[r].step
    BY <1>0, <1>3, <1>8, <2>2 DEF PatchCheck, Goto, Request
  <2>4. docs[k] > 0 /\ Unset(k)
    BY <1>2, <2>1 DEF Progress, At
  <2>5. docs'[k] > 0 /\ Unset(k)'
    BY <2>1, <2>4 DEF Unset, Agreed, store, refs
  <2> QED BY <1>2, <2>3, <2>5, StepFacts DEF Progress, At
<1>9. CASE PatchWrite(r)
  <2>1. /\ At(r, "write") /\ status' = MadeAt[k] /\ UNCHANGED <<docs, planSel, delSel>>
    BY <1>2, <1>9 DEF PatchWrite
  <2>2. End(r)
    BY <1>2, <1>9, Zenon DEF PatchWrite
  <2>3. docs[k] > 0 /\ Unset(k)
    BY <1>2, <2>1 DEF Progress, At
  <2>4. docs'[k] > 0 /\ Unset(k)'
    BY <2>1, <2>3 DEF Unset, Agreed
  <2>5. Held(k)'
    BY <2>1, <2>4 DEF Held, MadeAt, Unmade, Decided, Early, Kinds
  <2> QED BY <1>0, <2>2, <2>5 DEF End
<1>10. CASE ModelFails(r) /\ At(r, "wipe")
  <2>1. Held(k)
    BY <1>10 DEF Progress, At
  <2>2. End(r) /\ UNCHANGED store
    BY <1>10 DEF ModelFails
  <2>3. Kept(k) /\ status' = status
    BY <2>2 DEF Kept, store, refs
  <2> QED BY <1>0, <2>1, <2>2, <2>3, KnownStays DEF End
<1> QED BY <1>5, <1>6, <1>7, <1>8, <1>9, <1>10

LEMMA PickerStage ==
  ASSUME PlanInv, Alone, Phases, Window, NEW r \in Requests, Work(r) \/ ModelFails(r),
         NEW k \in Kinds, k \notin spoiled, req[r].step = Picker[k],
         req[r].step.touches = {k}, Progress(r, k)
  PROVE  Stage(k)'
<1>0. /\ req \in [Requests -> Request] /\ req[r] \in Request /\ WorkflowInv /\ Path
      /\ flag \in [Kinds -> SUBSET Nat] /\ planSel \in [Kinds -> Refs]
      /\ delSel \in [{"title", "thumb"} -> Refs]
  BY DEF PlanInv, WorkflowInv, TypeOK
<1>1. Served(r) /\ k \in req[r].step.touches
  BY <1>0, WorkServes
<1>2. /\ \/ k = "hook" /\ req[r].pc = "flipAll"
         \/ k # "hook" /\ req[r].pc \in {"list", "flip", "point", "sync", "check", "write"}
      /\ req[r].step.to # MadeAt[k] /\ KindOf(req[r].step) = k
      /\ req[r].step.to \in Decided[k] \ Unmade[k]
      /\ req[r].step \notin {GenerateScenes, ExtractShortsCandidates, Finalize,
                             ChangePlanFormatProfile}
      /\ k # "hook" => req[r].step \in {SelectTitle, SelectThumbnail}
  <2>1. \/ k = "hook" /\ req[r].pc = "flipAll"
        \/ k # "hook" /\ req[r].pc \in {"list", "flip", "point", "sync", "check", "write"}
    BY KindPlaces, KindSteps
  <2>2. /\ req[r].step.to # MadeAt[k] /\ KindOf(req[r].step) = k
        /\ req[r].step.to \in Decided[k] \ Unmade[k]
    BY KindSteps, KindOfIs
  <2>3. /\ req[r].step \in {SelectHook, SelectTitle, SelectThumbnail}
        /\ k # "hook" => req[r].step \in {SelectTitle, SelectThumbnail}
    BY DEF Picker, Kinds
  <2> QED BY <2>1, <2>2, <2>3, StepTable
<1>3. /\ req[r].moving => Allowed(status, req[r].step.to)
      /\ ~req[r].moving => status # MadeAt[k] /\ status \notin Unmade[k]
  BY KindStatus
<1>4. SUFFICES \/ req'[r] = Idle /\ Held(k)'
               \/ Progress(r, k)' /\ req'[r] # Idle
  <2>1. req'[r] = Idle => req'[r].step # req[r].step
    BY StepFacts
  <2> QED BY <1>1, <1>2, <2>1, OwnStage
<1>5. \/ FlipHook(r) \/ ListVariants(r) \/ Flip(r) \/ Point(r) \/ SyncPlan(r)
      \/ PatchCheck(r) \/ PatchWrite(r)
  BY <1>2, ActionPlaces DEF Work, Kinds
<1>6. CASE FlipHook(r)
  <2>1. /\ At(r, "flipAll") /\ k = "hook"
        /\ flag' = [flag EXCEPT !["hook"] = {req[r].pick}]
        /\ planSel' = [planSel EXCEPT !["hook"] = req[r].pick]
        /\ status' = "hook_selected" /\ docs' = docs
    BY <1>2, <1>6 DEF FlipHook, At
  <2>2. req[r].pick \in Stored("hook")
    BY <1>0, <2>1 DEF WorkflowInv, Chosen
  <2>3. Picked(k)'
    BY <1>0, <2>1, <2>2 DEF Picked, Agreed, Stored
  <2>4. Held(k)'
    BY <2>1, <2>3 DEF Held, MadeAt, Unmade, Early
  <2> QED BY <1>0, <1>6, <2>4 DEF FlipHook, End
<1>7. CASE ListVariants(r)
  <2>1. Held(k) /\ req[r].pick \in Stored(k) /\ At(r, "list")
    BY <1>7 DEF ListVariants, Progress, At
  <2>2. /\ req' = [req EXCEPT ![r].pc = "flip", ![r].seen = Stored(k)]
        /\ UNCHANGED store
    BY <1>2, <1>7, <2>1 DEF ListVariants
  <2>3. req'[r].pc = "flip" /\ req'[r].seen = Stored(k) /\ req'[r].pick = req[r].pick
    BY <1>0, <2>2 DEF Request
  <2>4. Kept(k) /\ status' = status
    BY <2>2 DEF Kept, store, refs
  <2>5. Held(k)' /\ Stored(k)' = Stored(k)
    BY <2>1, <2>4, KnownStays
  <2> QED BY <2>1, <2>3, <2>5, StepFacts DEF Progress, At
<1>8. CASE Flip(r)
  <2>1. req[r].pick \in Stored(k) /\ req[r].seen = Stored(k)
    BY <1>8 DEF Flip, Progress
  <2>2. /\ flag' = [flag EXCEPT ![k] = (@ \ req[r].seen) \cup {req[r].pick}]
        /\ req' = [req EXCEPT ![r].pc = "point", ![r].seen = {}] /\ docs' = docs
    BY <1>2, <1>8, <2>1 DEF Flip
  <2>3. flag[k] \subseteq Stored(k)
    BY <1>0 DEF WorkflowInv, Flags
  <2>4. flag'[k] = {req[r].pick}
    BY <1>0, <2>1, <2>2, <2>3
  <2>5. req'[r].pc = "point" /\ req'[r].pick = req[r].pick
    BY <1>0, <2>2 DEF Request
  <2> QED BY <2>1, <2>2, <2>4, <2>5, StepFacts DEF Progress, At, Stored
<1>9. CASE Point(r)
  <2>1. /\ req[r].pick \in Stored(k) /\ flag[k] = {req[r].pick} /\ At(r, "point")
    BY <1>9 DEF Point, Progress, At
  <2>2. /\ delSel' = [delSel EXCEPT ![k] = req[r].pick] /\ UNCHANGED <<docs, flag>>
        /\ IF req[r].moving THEN Goto(r, "check") ELSE Goto(r, "sync")
    BY <1>2, <1>9 DEF Point
  <2>3. delSel'[k] = req[r].pick
    BY <1>0, <1>2, <2>1, <2>2 DEF At, Kinds
  <2>4. /\ req'[r].pc = IF req[r].moving THEN "check" ELSE "sync"
        /\ req'[r].pick = req[r].pick /\ req'[r].step = req[r].step
        /\ req'[r].moving = req[r].moving
    BY <1>0, <2>2 DEF Goto, Request
  <2>5. CASE req[r].moving
    BY <1>2, <2>1, <2>2, <2>3, <2>4, <2>5, StepFacts DEF Progress, At, Stored, MadeAt
  <2>6. CASE ~req[r].moving
    BY <1>2, <2>1, <2>2, <2>3, <2>4, <2>6, StepFacts DEF Progress, At, Stored, MadeAt
  <2> QED BY <2>5, <2>6
<1>10. CASE SyncPlan(r)
  <2>1. /\ req[r].pick \in Stored(k) /\ flag[k] = {req[r].pick} /\ delSel[k] = req[r].pick
        /\ ~req[r].moving
    BY <1>10 DEF SyncPlan, Progress, At
  <2>2. planSel' = [planSel EXCEPT ![k] = req[r].pick] /\ UNCHANGED <<status, docs, flag, delSel>>
    BY <1>2, <1>10 DEF SyncPlan
  <2>3. Picked(k)'
    BY <1>0, <2>1, <2>2 DEF Picked, Agreed, Stored
  <2>4. Held(k)'
    BY <1>3, <2>1, <2>2, <2>3 DEF Held, MadeAt, Unmade
  <2> QED BY <1>0, <1>10, <2>4 DEF SyncPlan, End
<1>11. CASE PatchCheck(r)
  <2>1. At(r, "check") /\ UNCHANGED store
    BY <1>11 DEF PatchCheck
  <2>2. req[r].moving
    BY <1>0, <1>2, <2>1 DEF Path, At
  <2>3. req'[r].pc = "write" /\ req'[r].step = req[r].step /\ req'[r].pick = req[r].pick
    BY <1>0, <1>3, <1>11, <2>2 DEF PatchCheck, Goto, Request
  <2>4. req[r].pick \in Stored(k) /\ flag[k] = {req[r].pick} /\ delSel[k] = req[r].pick
    BY <1>2, <2>1 DEF Progress, At
  <2> QED BY <1>2, <2>1, <2>3, <2>4, StepFacts DEF Progress, At, Stored, store, refs, MadeAt
<1>12. CASE PatchWrite(r)
  <2>1. /\ At(r, "write") /\ status' = req[r].step.to /\ UNCHANGED <<docs, flag, delSel>>
    BY <1>12 DEF PatchWrite
  <2>2. planSel' = [planSel EXCEPT ![k] = req[r].pick]
    BY <1>2, <1>12, <2>1 DEF PatchWrite, At
  <2>3. End(r)
    BY <1>2, <1>12, Zenon DEF PatchWrite
  <2>4. req[r].pick \in Stored(k) /\ flag[k] = {req[r].pick} /\ delSel[k] = req[r].pick
    BY <1>2, <2>1 DEF Progress, At
  <2>5. Picked(k)'
    BY <1>0, <2>1, <2>2, <2>4 DEF Picked, Agreed, Stored
  <2>6. Held(k)'
    BY <1>2, <2>1, <2>5 DEF Held, MadeAt, Unmade
  <2> QED BY <1>0, <2>3, <2>6 DEF End
<1> QED BY <1>5, <1>6, <1>7, <1>8, <1>9, <1>10, <1>11, <1>12

LEMMA ChangeStage ==
  ASSUME PlanInv, Alone, NEW r \in Requests, Work(r) \/ ModelFails(r),
         NEW k \in Kinds, k \notin spoiled, req[r].step = ChangePlanFormatProfile, Cleared(r, k)
  PROVE  Stage(k)'
<1>0. /\ req \in [Requests -> Request] /\ req[r] \in Request /\ WorkflowInv /\ Path /\ InStep
      /\ docs \in [Kinds -> Nat] /\ delSel \in [{"title", "thumb"} -> Refs] /\ req[r].pc \in Places
  BY DEF PlanInv, WorkflowInv, TypeOK, Request
<1>1. Served(r) /\ k \in req[r].step.touches /\ req[r].step.touches # {k}
  <2>1. Served(r)
    BY <1>0, WorkServes
  <2> QED BY <2>1, StepFacts DEF Aspects
<1>2. SUFFICES \/ req'[r] = Idle /\ Held(k)'
               \/ Cleared(r, k)' /\ req'[r] # Idle
  <2>1. req'[r] = Idle => req'[r].step # req[r].step
    BY StepFacts
  <2> QED BY <1>1, <2>1, OwnStage
<1>3. req[r].pc \in Drains \cup {"meta", "reset", "clips"}
  BY <1>0, StepTable, StepFacts DEF InStep, Path, At, Places, Drains
<1>4. DrainScenes(r) \/ Drain(r) \/ DrainMetadata(r) \/ ResetFields(r) \/ DeleteClips(r)
  BY <1>3, ActionPlaces DEF Work, Drains
<1> DEFINE after == ([hook |-> {"title", "thumb"}, title |-> {"thumb"}, thumb |-> {}])[k]
                    \cup {"meta", "reset", "clips"}
<1>5. CASE DrainScenes(r)
  <2>1. req'[r].pc = "hook"
    BY <1>0, <1>5 DEF DrainScenes, Goto, Request
  <2>2. "hook" \notin after
    BY DEF Kinds
  <2> QED BY <2>1, <2>2, StepFacts DEF Cleared, At
<1>6. CASE Drain(r)
  <2>1. PICK j \in Kinds : At(r, j) /\ Delete(j) /\ req' = [Outdated(j) EXCEPT ![r].pc = AfterDrain[j]]
    BY <1>6 DEF Drain
  <2>2. req'[r].pc = AfterDrain[j]
    <3> DEFINE out == Outdated(j)
    <3>1. out[r] \in Request /\ DOMAIN out = Requests
      BY <1>0, OutdatedFits DEF Outdated
    <3>2. req' = [out EXCEPT ![r].pc = AfterDrain[j]]
      BY <2>1
    <3> HIDE DEF out
    <3> QED BY <3>1, <3>2 DEF Request
  <2>3. AfterDrain[j] \notin {"idle", "clips"}
    BY DEF AfterDrain, Kinds
  <2>4. AfterDrain[j] \in after => docs'[k] = 0
    <3>1. CASE j = k
      BY <2>1, <3>1, DeleteOwn
    <3>2. CASE j # k
      <4>1. docs'[k] = docs[k]
        BY <2>1, <3>2, DeleteOther DEF Kept
      <4>2. AfterDrain[j] \in after => j \in after
        BY <3>2 DEF AfterDrain, Kinds
      <4> QED BY <2>1, <4>1, <4>2 DEF Cleared, At
    <3> QED BY <3>1, <3>2
  <2> QED BY <2>2, <2>3, <2>4, StepFacts DEF Cleared, At
<1>7. CASE DrainMetadata(r)
  <2>1. At(r, "meta") /\ req'[r].pc = "reset" /\ docs' = docs
    BY <1>0, <1>7 DEF DrainMetadata, Goto, Request
  <2> QED BY <2>1, StepFacts DEF Cleared, At
<1>8. CASE ResetFields(r)
  <2>1. /\ At(r, "reset") /\ req'[r].pc = "clips" /\ docs' = docs
        /\ status' = "projects_matched" /\ planSel' = [j \in Kinds |-> None]
        /\ delSel' = [j \in DOMAIN delSel |-> None]
    BY <1>0, <1>8 DEF ResetFields, Goto, Request
  <2>2. Unset(k)'
    BY <1>0, <2>1 DEF Unset, Agreed, Kinds
  <2> QED BY <2>1, <2>2, StepFacts DEF Cleared, At
<1>9. CASE DeleteClips(r)
  <2>1. At(r, "clips") /\ req'[r] = Idle /\ UNCHANGED <<status, docs, flag, planSel, delSel>>
    BY <1>0, <1>9 DEF DeleteClips, End, refs
  <2>2. Held(k)
    BY <2>1, HeldBy DEF Cleared, At
  <2>3. Held(k)'
    BY <2>1, <2>2, KnownStays DEF Kept
  <2> QED BY <2>1, <2>3
<1> QED BY <1>4, <1>5, <1>6, <1>7, <1>8, <1>9

LEMMA ServedStages ==
  ASSUME StageInv, NEW r \in Requests,
         Work(r) \/ ModelFails(r) \/ StoreFault(r) \/ CreateFault(r)
  PROVE  Stages'
<1> SUFFICES ASSUME NEW k \in Kinds, k \notin spoiled' PROVE Stage(k)'
  BY DEF Stages
<1>1. k \notin spoiled /\ Stage(k)
  BY Spoiling DEF StageInv, Stages, Kinds
<1>2. CASE k \notin req[r].step.touches
  BY <1>1, <1>2, OthersStage DEF StageInv
<1>3. CASE k \in req[r].step.touches
  <2>1. Work(r) \/ ModelFails(r)
    BY <1>3 DEF StoreFault, CreateFault
  <2>2. req[r].step \in Steps \cup {NoStep}
    BY DEF StageInv, PlanInv, WorkflowInv, TypeOK, Request
  <2>3. req[r].step.touches = {k} \/ req[r].step = ChangePlanFormatProfile
    BY <1>3, <2>2, StepTable DEF Steps, Kinds
  <2>4. CASE req[r].step.touches = {k}
    <3>1. Progress(r, k) /\ req[r].step \in {Maker[k], Picker[k]}
      BY <1>1, <2>2, <2>4, KindSteps DEF Stage
    <3> QED BY <1>1, <2>1, <2>4, <3>1, MakerStage, PickerStage DEF StageInv
  <2>5. CASE req[r].step = ChangePlanFormatProfile
    BY <1>1, <2>1, <2>5, ChangeStage DEF StageInv, Stage
  <2> QED BY <2>3, <2>4, <2>5
<1> QED BY <1>2, <1>3

---------------------------------------------------------------------------
(* What the routes find.                                                   *)

\* Kind k as a step finds it that is not spoiled by its begin.
LEMMA FoundSettled ==
  ASSUME PlanInv, NEW r \in Requests, NEW step \in Steps, NEW locked \in BOOLEAN,
         NEW pick, Begin(r, step, locked, pick), Let(step, locked, pick),
         step # ChangePlanFormatProfile, NEW a \in Aspects, a \notin spoiled',
         NEW o \in Requests, a \in req[o].step.touches
  PROVE  FALSE
<1>1. req[r].step = NoStep
  BY BeginIs, StepFacts DEF PlanInv, WorkflowInv, TypeOK, InStep, At
<1>2. o # r /\ req[o].step \notin {NoStep, Finalize}
  BY <1>1, StepFacts
<1> QED BY <1>2, BeginMeets

\* The steps that need a selection of kind k begin at a status that has it, or
\* look at the deliverable.
LEMMA UsersFind ==
  ASSUME NEW k \in Kinds, Held(k), NEW step \in Users[k], NEW locked, NEW pick,
         Let(step, locked, pick), status \in step.entry,
         step = ExtractShortsCandidates => status \in step.moves
  PROVE  Picked(k)
<1>1. CASE status \in Decided[k]
  BY <1>1 DEF Held
<1>2. CASE status \notin Decided[k]
  <2>1. step = GeneratePublishMetadata /\ k \in {"title", "thumb"}
    <3>1. CASE k = "hook"
      BY <1>2, <3>1, StepTable DEF Users, Decided
    <3>2. CASE k = "title"
      BY <1>2, <3>2, StepTable DEF Users, Decided
    <3>3. CASE k = "thumb"
      BY <1>2, <3>3, StepTable DEF Users, Decided
    <3> QED BY <3>1, <3>2, <3>3 DEF Kinds
  <2>2. delSel[k] # None
    BY <2>1 DEF Let
  <2> QED BY <2>1, <2>2 DEF Held, Unset, Agreed
<1> QED BY <1>1, <1>2

LEMMA BeginStages ==
  ASSUME StageInv, NEW r \in Requests, NEW step \in Steps, NEW locked \in BOOLEAN,
         NEW pick, Begin(r, step, locked, pick), Let(step, locked, pick)
  PROVE  Stages'
<1> SUFFICES ASSUME NEW k \in Kinds, k \notin spoiled' PROVE Stage(k)'
  BY DEF Stages
<1>0. /\ PlanInv /\ k \in Aspects /\ req \in [Requests -> Request] /\ InStep
      /\ status \in Statuses
  BY DEF StageInv, PlanInv, WorkflowInv, TypeOK, Aspects
<1>1. /\ req'[r].pc = step.first /\ req'[r].step = step /\ req'[r].pick = pick
      /\ req'[r].moving = (status \in step.moves) /\ req'[r].created = 0
      /\ \A o \in Requests \ {r} : req'[o] = req[o]
      /\ status \in step.entry /\ req[r].pc = "idle"
      /\ UNCHANGED <<status, docs, flag, planSel, delSel>>
  <2>1. req'[r].created = 0
    BY <1>0 DEF Begin
  <2> QED BY <1>0, <2>1, BeginIs
<1>2. /\ Stored(k)' = Stored(k)
      /\ Unset(k)' <=> Unset(k)
      /\ Picked(k)' <=> Picked(k)
      /\ Held(k)' <=> Held(k)
  BY <1>1, KnownStays DEF Kept
<1>3. req[r].step = NoStep
  BY <1>0, <1>1, StepFacts DEF InStep, At
<1>4. CASE step = ChangePlanFormatProfile
  <2>1. ASSUME NEW o \in Requests \ {r} PROVE req[o].step \in {NoStep, Finalize}
    BY <1>0, <1>4, <2>1, BeginMeets, StepFacts
  <2>2. Cleared(r, k)'
    BY <1>1, <1>4, StepTable DEF Cleared, At, Kinds
  <2>3. \A o \in Requests : req'[o].step.touches # {k}
    BY <1>1, <1>4, <2>1, StepFacts DEF Aspects
  <2>4. \A o \in Requests : ~Uses(o, k)'
    BY <1>1, <1>4, <2>1, StepTable DEF Uses, Users, Kinds
  <2>5. ~Settled(k)'
    BY <1>0, <1>1, <1>4, StepFacts DEF Settled
  <2>6. \A o \in Requests : req'[o].step = ChangePlanFormatProfile => Cleared(o, k)'
    BY <1>1, <2>1, <2>2, StepFacts
  <2> QED BY <2>3, <2>4, <2>5, <2>6 DEF Stage
<1>5. CASE step # ChangePlanFormatProfile
  <2>1. k \notin spoiled /\ Stage(k)
    BY <1>0, <1>5, BeginMeets DEF StageInv, Stages
  <2>2. ASSUME (k \in step.touches) \/ (step \in Users[k]) PROVE Settled(k) /\ Held(k)
    <3>1. ASSUME NEW o \in Requests, k \in req[o].step.touches PROVE FALSE
      <4>1. o # r /\ req[o].step \notin {NoStep, Finalize}
        BY <1>3, <3>1, StepFacts
      <4> QED BY <1>0, <3>1, <4>1, BeginMeets
    <3> QED BY <2>1, <3>1 DEF Settled, Stage
  <2>3. ASSUME step.touches = {k} PROVE Progress(r, k)'
    <3>1. Held(k)
      BY <2>2, <2>3
    <3>2. step \in {Maker[k], Picker[k]}
      BY <2>3, KindSteps
    <3>3. CASE step = Maker[k]
      <4>1. step.first = "wipe"
        BY <3>3, KindSteps
      <4>2. Unset(k)
        <5>1. status \in Unmade[k] \cup {MadeAt[k]}
          BY <1>1, <3>3, StepTable DEF Maker, Unmade, MadeAt, Early, Kinds
        <5> QED BY <3>1, <5>1 DEF Held
      <4> QED BY <1>1, <1>2, <3>1, <4>1, <4>2 DEF Progress, At
    <3>4. CASE step = Picker[k]
      <4>1. step.first \in {"list", "flipAll"} /\ pick \in Stored(k)
        BY <3>4, StepTable DEF Picker, Kinds, Let
      <4> QED BY <1>1, <1>2, <3>1, <4>1 DEF Progress, At
    <3> QED BY <3>2, <3>3, <3>4
  <2>4. ASSUME Uses(r, k)' PROVE Picked(k)
    <3>1. step \in Users[k] /\ (step = ExtractShortsCandidates => status \in step.moves)
      BY <1>1, <2>4 DEF Uses
    <3>2. Held(k)
      BY <2>2, <3>1
    <3> QED BY <1>1, <3>1, <3>2, UsersFind
  <2>5. ASSUME NEW o \in Requests \ {r}
        PROVE  /\ req'[o].step.touches = {k} => Progress(o, k)'
               /\ req'[o].step = ChangePlanFormatProfile => Cleared(o, k)'
               /\ Uses(o, k)' => Picked(k)
    <3>1. req'[o] = req[o]
      BY <1>1
    <3>2. /\ req[o].step.touches = {k} => Progress(o, k)
          /\ req[o].step = ChangePlanFormatProfile => Cleared(o, k)
          /\ Uses(o, k) => Picked(k)
      BY <2>1 DEF Stage
    <3>3. req[o].step.touches = {k} /\ Progress(o, k) => Progress(o, k)'
      BY <1>1, <1>2, <3>1 DEF Progress, At, MadeAt
    <3>4. Cleared(o, k) => Cleared(o, k)'
      BY <1>1, <1>2, <3>1 DEF Cleared, At
    <3>5. Uses(o, k)' => Uses(o, k)
      BY <3>1 DEF Uses, Users
    <3> QED BY <3>1, <3>2, <3>3, <3>4, <3>5
  <2>6. Settled(k)' => Held(k)'
    <3>1. Settled(k)' => Settled(k)
      BY <1>1, <1>3, <2>1, StepFacts DEF Settled
    <3> QED BY <1>2, <2>1, <3>1 DEF Stage
  <2> QED BY <1>1, <1>2, <1>5, <2>3, <2>4, <2>5, <2>6 DEF Stage
<1> QED BY <1>4, <1>5

---------------------------------------------------------------------------
(* Publish metadata.                                                       *)

\* The metadata and its reference agree, and what the status claims is there.
Linked == metaRef = meta /\ (status = "metadata_generated" => meta)

\* What is known of request o.
Publishes(o) ==
  /\ At(o, "upsert") => Linked
  /\ At(o, "link") => meta
  /\ req[o].pc \in {"check", "write"} /\ req[o].step = GeneratePublishMetadata => meta /\ metaRef
  /\ req[o].pc \in {"reset", "clips"} => ~meta
  /\ At(o, "clips") => ~metaRef /\ status = "projects_matched"

LEMMA PublishedIs ==
  Published <=> ("meta" \notin spoiled => /\ Settled("meta") => Linked
                                          /\ \A o \in Requests : Publishes(o))
BY DEF Published, Linked, Publishes

\* Where the metadata is at stake.
LEMMA MetaPlaces ==
  ASSUME PlanInv, NEW o \in Requests
  PROVE  /\ req[o].pc \in {"upsert", "link"} => req[o].step = GeneratePublishMetadata
         /\ req[o].pc \in {"meta", "reset", "clips"} => req[o].step = ChangePlanFormatProfile
         /\ req[o].step = GeneratePublishMetadata =>
              req[o].pc \in {"upsert", "link", "check", "write"}
         /\ "meta" \in req[o].step.touches =>
              req[o].step \in {GeneratePublishMetadata, ChangePlanFormatProfile}
         /\ req[o].step = ChangePlanFormatProfile => req[o].pc \in Drains \cup {"meta", "reset", "clips"}
<1>0. /\ InStep /\ Path /\ req[o].step \in Steps \cup {NoStep} /\ req[o].pc \in Places
  BY DEF PlanInv, WorkflowInv, TypeOK, Request
<1>1. req[o].step = GeneratePublishMetadata => req[o].pc \in {"upsert", "link", "check", "write"}
  BY <1>0, StepTable, StepFacts DEF InStep, Path, At, Places
<1>2. "meta" \in req[o].step.touches =>
        req[o].step \in {GeneratePublishMetadata, ChangePlanFormatProfile}
  BY <1>0, StepTable DEF Steps
<1>3. req[o].step = ChangePlanFormatProfile => req[o].pc \in Drains \cup {"meta", "reset", "clips"}
  BY <1>0, StepTable, StepFacts DEF InStep, Path, At, Places, Drains
<1> QED BY <1>0, <1>1, <1>2, <1>3 DEF InStep, Path

\* A request that does not touch the metadata leaves it.
LEMMA OthersPublish ==
  ASSUME PlanInv, Alone, NEW r \in Requests,
         Work(r) \/ ModelFails(r) \/ StoreFault(r) \/ CreateFault(r),
         "meta" \notin spoiled, Settled("meta") => Linked,
         \A o \in Requests : Publishes(o),
         "meta" \notin req[r].step.touches
  PROVE  /\ Settled("meta")' => Linked'
         /\ \A o \in Requests : Publishes(o)'
<1>0. /\ Served(r)
      /\ status' = status \/ Writes(r)
      /\ spoiled \ {"short"} \subseteq spoiled'
      /\ req[r].step \notin {GeneratePublishMetadata, ChangePlanFormatProfile}
  BY WorkServes, StatusMoves, Spoiling, StepTable DEF PlanInv
<1>1. UNCHANGED <<meta, metaRef>>
  <2>1. /\ ~UpsertMetadata(r) /\ ~LinkMetadata(r) /\ ~DrainMetadata(r) /\ ~ResetFields(r)
    BY <1>0, MetaPlaces, ActionPlaces
  <2> QED BY <2>1, Zenon DEF Work, PatchCheck, PatchWrite, ReplaceScenes, WriteScripts, PatchShots,
             Wipe, Create, FlipHook, ListVariants, Flip, Point, SyncPlan, Extracted,
             CacheCandidates, MakeClip, EvictCandidates, NothingExtracted, DrainScenes, Drain, DeleteClips,
             FinalizeUnderLock, ModelFails, StoreFault, CreateFault, store
<1>2. status' = "metadata_generated" => status = "metadata_generated"
  <2>1. CASE Writes(r)
    <3>1. req[r].step.to # "metadata_generated"
      BY <1>0, <2>1, StepTable DEF Writes, EarlySteps, LateSteps
    <3> QED BY <2>1, <3>1 DEF Writes
  <2> QED BY <1>0, <2>1
<1>3. Linked => Linked'
  BY <1>1, <1>2 DEF Linked
<1>4. /\ \A o \in Requests : req'[o].step \in {req[o].step, NoStep}
      /\ \A o \in Requests \ {r} : req'[o].pc = req[o].pc /\ req'[o].step = req[o].step
  BY <1>0, ServedSteps
<1>5. Settled("meta")' => Settled("meta")
  <2>1. \A o \in Requests : "meta" \in req[o].step.touches => req'[o].step = req[o].step
    BY <1>4
  <2> QED BY <1>0, <2>1 DEF Settled
<1>6. ASSUME NEW o \in Requests PROVE Publishes(o)'
  <2>1. CASE o = r
    <3>1. req'[r].pc \notin {"upsert", "link", "reset", "clips"}
      <4>1. req[r].pc \notin {"upsert", "meta", "reset"}
        BY <1>0, MetaPlaces
      <4> QED BY <1>0, <4>1, StepFacts DEF Served, Onward, NextPlaces
    <3>2. req'[r].step # GeneratePublishMetadata
      BY <1>0, <1>4, StepTable
    <3> QED BY <2>1, <3>1, <3>2 DEF Publishes, At
  <2>2. CASE o # r
    <3>1. At(o, "clips") => status' = status
      <4>1. SUFFICES ASSUME At(o, "clips"), Writes(r) PROVE FALSE
        BY <1>0
      <4>2. req[o].step = ChangePlanFormatProfile
        BY <4>1, MetaPlaces DEF At
      <4>3. req[r].step \notin {NoStep, Finalize}
        BY <2>2, <4>1, <4>2, ChangeLocks, EarlyAndLate, StepTable DEF Writes
      <4> QED BY <2>2, <4>2, <4>3, StepTable DEF Alone
    <3> QED BY <1>1, <1>3, <1>4, <2>2, <3>1 DEF Publishes, At
  <2> QED BY <2>1, <2>2
<1> QED BY <1>3, <1>5, <1>6

LEMMA OwnPublish ==
  ASSUME PlanInv, Alone, NEW r \in Requests, Work(r) \/ ModelFails(r),
         "meta" \notin spoiled, \A o \in Requests : Publishes(o),
         "meta" \in req[r].step.touches
  PROVE  /\ Settled("meta")' => Linked'
         /\ \A o \in Requests : Publishes(o)'
<1>0. /\ req \in [Requests -> Request] /\ req[r] \in Request /\ WorkflowInv /\ Path /\ InStep
      /\ Publishes(r) /\ meta \in BOOLEAN
  BY DEF PlanInv, WorkflowInv, TypeOK
<1>1. Served(r)
  BY <1>0, WorkServes
<1>2. req[r].step \in {GeneratePublishMetadata, ChangePlanFormatProfile}
  BY MetaPlaces
<1>3. ASSUME NEW o \in Requests \ {r} PROVE Publishes(o)'
  <2>1. req[o].step \in {NoStep, Finalize}
    BY <1>2, StepTable DEF Alone
  <2>2. req[o].pc \notin {"upsert", "link", "reset", "clips"}
    BY <2>1, MetaPlaces, StepTable
  <2>3. req'[o].pc = req[o].pc /\ req'[o].step = req[o].step
    BY <1>1, ServedSteps
  <2> QED BY <2>1, <2>2, <2>3, StepTable DEF Publishes, At
<1>4. SUFFICES Publishes(r)' /\ (req'[r] = Idle => Linked')
  <2>1. req'[r] # Idle => ~Settled("meta")'
    BY <1>1 DEF Served, Onward, Settled
  <2> QED BY <1>3, <2>1
<1>5. req'[r] = Idle => Publishes(r)'
  BY StepFacts, StepTable DEF Publishes, At
<1>6. CASE req[r].step = GeneratePublishMetadata
  <2>1. req[r].pc \in {"upsert", "link", "check", "write"}
    BY <1>6, MetaPlaces
  <2>2. \/ UpsertMetadata(r) \/ LinkMetadata(r) \/ PatchCheck(r) \/ PatchWrite(r)
        \/ ModelFails(r) /\ At(r, "upsert")
    BY <2>1, ActionPlaces DEF Work, At, Kinds
  <2>3. CASE UpsertMetadata(r)
    <3>1. req'[r].pc = "link" /\ meta' = TRUE
      BY <1>0, <2>3 DEF UpsertMetadata, Goto, Request
    <3> QED BY <3>1, StepFacts DEF Publishes, At
  <2>4. CASE LinkMetadata(r)
    <3>1. meta /\ metaRef' = TRUE /\ meta' = meta
      BY <1>0, <2>4 DEF LinkMetadata, Publishes
    <3>2. req'[r].pc = "check" \/ req'[r] = Idle
      BY <1>0, <2>4 DEF LinkMetadata, Proceed, Goto, End, Request
    <3>3. meta' = TRUE
      BY <1>0, <3>1
    <3>4. Linked'
      BY <3>1, <3>3 DEF Linked
    <3> QED BY <1>5, <3>1, <3>2, <3>4 DEF Publishes, At
  <2>5. CASE PatchCheck(r)
    <3>1. /\ meta /\ metaRef /\ UNCHANGED <<meta, metaRef>>
      BY <1>0, <1>6, <2>5 DEF PatchCheck, Publishes, At, store
    <3>2. req'[r].pc = "write" \/ req'[r] = Idle
      BY <1>0, <2>5 DEF PatchCheck, Goto, End, Request
    <3>3. meta = TRUE /\ metaRef = TRUE
      BY <1>0, <3>1 DEF WorkflowInv, TypeOK
    <3>4. Linked'
      BY <3>1, <3>3 DEF Linked
    <3> QED BY <1>5, <3>1, <3>2, <3>4 DEF Publishes, At
  <2>6. CASE PatchWrite(r)
    <3>1. /\ meta /\ metaRef /\ UNCHANGED <<meta, metaRef>>
      BY <1>0, <1>6, <2>6 DEF PatchWrite, Publishes, At
    <3>2. GeneratePublishMetadata \notin {GenerateScenes, ExtractShortsCandidates}
      BY StepTable
    <3>3. End(r)
      BY <1>6, <2>6, <3>2, Zenon DEF PatchWrite
    <3>4. meta = TRUE /\ metaRef = TRUE
      BY <1>0, <3>1 DEF WorkflowInv, TypeOK
    <3>5. Linked'
      BY <3>1, <3>4 DEF Linked
    <3> QED BY <1>0, <1>5, <3>3, <3>5 DEF End
  <2>7. CASE ModelFails(r) /\ At(r, "upsert")
    <3>1. Linked /\ UNCHANGED <<status, meta, metaRef>> /\ req'[r] = Idle
      BY <1>0, <2>7 DEF ModelFails, Publishes, End, store
    <3> QED BY <1>5, <3>1 DEF Linked
  <2> QED BY <2>2, <2>3, <2>4, <2>5, <2>6, <2>7
<1>7. CASE req[r].step = ChangePlanFormatProfile
  <2>1. req[r].pc \in Drains \cup {"meta", "reset", "clips"}
    BY <1>7, MetaPlaces
  <2>2. DrainScenes(r) \/ Drain(r) \/ DrainMetadata(r) \/ ResetFields(r) \/ DeleteClips(r)
    BY <2>1, ActionPlaces DEF Work, Drains
  <2>3. CASE DrainScenes(r) \/ Drain(r)
    <3>1. req'[r].pc \in {"hook", "title", "thumb", "meta"}
      <4>1. req[r].pc \in Drains
        BY <2>3, ActionPlaces DEF Drains, Kinds
      <4>2. req'[r].pc \in NextPlaces(req[r].pc)
        <5>1. req'[r] # Idle
          <6>1. CASE DrainScenes(r)
            BY <1>0, <6>1, StepFacts DEF DrainScenes, Goto, Request
          <6>2. CASE Drain(r)
            <7>1. PICK j \in Kinds : req' = [Outdated(j) EXCEPT ![r].pc = AfterDrain[j]]
              BY <6>2 DEF Drain
            <7> DEFINE out == Outdated(j)
            <7>2. out[r] \in Request /\ DOMAIN out = Requests
              BY <1>0, OutdatedFits DEF Outdated
            <7>3. req' = [out EXCEPT ![r].pc = AfterDrain[j]]
              BY <7>1
            <7> HIDE DEF out
            <7>4. req'[r].pc = AfterDrain[j]
              BY <7>2, <7>3 DEF Request
            <7> QED BY <7>4, StepFacts DEF AfterDrain, Kinds
          <6> QED BY <2>3, <6>1, <6>2
        <5> QED BY <1>1, <5>1 DEF Served, Onward
      <4> QED BY <4>1, <4>2 DEF Drains, NextPlaces
    <3>2. req'[r].step # GeneratePublishMetadata
      BY <1>1, <1>7, StepFacts, StepTable DEF Served, Onward
    <3> QED BY <3>1, <3>2, StepFacts DEF Publishes, At
  <2>4. CASE DrainMetadata(r)
    <3>1. req'[r].pc = "reset" /\ meta' = FALSE
      BY <1>0, <2>4 DEF DrainMetadata, Goto, Request
    <3> QED BY <3>1, StepFacts DEF Publishes, At
  <2>5. CASE ResetFields(r)
    <3>1. /\ req'[r].pc = "clips" /\ metaRef' = FALSE /\ status' = "projects_matched"
          /\ ~meta /\ meta' = meta
      BY <1>0, <2>5 DEF ResetFields, Goto, Request, Publishes, At
    <3> QED BY <3>1, StepFacts DEF Publishes, At
  <2>6. CASE DeleteClips(r)
    <3>1. ~meta /\ ~metaRef /\ status = "projects_matched" /\ UNCHANGED <<status, meta, metaRef>>
      BY <1>0, <2>6 DEF DeleteClips, Publishes, At
    <3>2. metaRef \in BOOLEAN
      BY <1>0 DEF WorkflowInv, TypeOK
    <3>3. Linked'
      BY <1>0, <3>1, <3>2 DEF Linked
    <3> QED BY <1>0, <1>5, <2>6, <3>3 DEF DeleteClips, End
  <2> QED BY <2>2, <2>3, <2>4, <2>5, <2>6
<1> QED BY <1>2, <1>6, <1>7

LEMMA ServedPublished ==
  ASSUME StageInv, NEW r \in Requests,
         Work(r) \/ ModelFails(r) \/ StoreFault(r) \/ CreateFault(r)
  PROVE  Published'
<1> SUFFICES ASSUME "meta" \notin spoiled'
             PROVE  /\ Settled("meta")' => Linked'
                    /\ \A o \in Requests : Publishes(o)'
  BY DEF Published, Linked, Publishes
<1>1. /\ "meta" \notin spoiled /\ PlanInv /\ Alone
      /\ Settled("meta") => Linked
      /\ \A o \in Requests : Publishes(o)
  BY Spoiling, PublishedIs DEF StageInv
<1>2. CASE "meta" \notin req[r].step.touches
  BY <1>1, <1>2, OthersPublish
<1>3. CASE "meta" \in req[r].step.touches
  <2>1. Work(r) \/ ModelFails(r)
    BY <1>3 DEF StoreFault, CreateFault
  <2> QED BY <1>1, <1>3, <2>1, OwnPublish
<1> QED BY <1>2, <1>3

LEMMA BeginPublished ==
  ASSUME StageInv, NEW r \in Requests, NEW step \in Steps, NEW locked \in BOOLEAN,
         NEW pick, Begin(r, step, locked, pick), Let(step, locked, pick)
  PROVE  Published'
<1> SUFFICES ASSUME "meta" \notin spoiled'
             PROVE  /\ Settled("meta")' => Linked'
                    /\ \A o \in Requests : Publishes(o)'
  BY DEF Published, Linked, Publishes
<1>0. /\ PlanInv /\ req \in [Requests -> Request] /\ InStep
  BY DEF StageInv, PlanInv, WorkflowInv, TypeOK
<1>1. /\ req'[r].pc = step.first /\ req'[r].step = step /\ req[r].pc = "idle"
      /\ \A o \in Requests \ {r} : req'[o] = req[o]
      /\ UNCHANGED <<status, meta, metaRef>>
  BY <1>0, BeginIs
<1>2. req[r].step = NoStep
  BY <1>0, <1>1, StepFacts DEF InStep, At
<1>3. Linked' <=> Linked
  BY <1>1 DEF Linked
<1>4. CASE step = ChangePlanFormatProfile
  <2>1. ASSUME NEW o \in Requests \ {r} PROVE req[o].step \in {NoStep, Finalize}
    BY <1>0, <1>4, <2>1, BeginMeets, StepTable
  <2>2. ~Settled("meta")'
    BY <1>1, <1>4, StepTable DEF Settled
  <2>3. ASSUME NEW o \in Requests \ {r} PROVE Publishes(o)'
    <3>1. req[o].pc \notin {"upsert", "link", "reset", "clips"}
      BY <1>0, <2>1, MetaPlaces, StepTable
    <3> QED BY <1>1, <2>1, <3>1, StepTable DEF Publishes, At
  <2>4. Publishes(r)'
    BY <1>1, <1>4, StepTable DEF Publishes, At
  <2> QED BY <2>2, <2>3, <2>4
<1>5. CASE step # ChangePlanFormatProfile
  <2>1. /\ "meta" \notin spoiled
        /\ Settled("meta") => Linked
        /\ \A o \in Requests : Publishes(o)
    <3>1. "meta" \notin spoiled
      BY <1>0, <1>5, BeginMeets
    <3> QED BY <3>1, PublishedIs DEF StageInv
  <2>2. Settled("meta")' => Settled("meta")
    BY <1>1, <1>2, <2>1, StepTable DEF Settled
  <2>3. ASSUME NEW o \in Requests \ {r} PROVE Publishes(o)'
    <3>1. req'[o] = req[o] /\ Publishes(o)
      BY <1>1, <2>1
    <3> QED BY <1>1, <1>3, <3>1 DEF Publishes, At
  <2>4. Publishes(r)'
    <3>1. step.first \notin {"link", "write", "reset", "clips"}
      BY StepTable DEF Steps
    <3>2. step = GeneratePublishMetadata => step.first = "upsert"
      BY StepTable
    <3>3. step.first = "upsert" => Linked
      <4>1. step.first = "upsert" => step = GeneratePublishMetadata
        BY StepTable DEF Steps
      <4>2. step = GeneratePublishMetadata => Settled("meta")
        <5>1. ASSUME step = GeneratePublishMetadata, NEW o \in Requests, "meta" \in req[o].step.touches
              PROVE  FALSE
          BY <1>0, <1>5, <5>1, FoundSettled DEF Aspects
        <5> QED BY <2>1, <5>1 DEF Settled
      <4> QED BY <2>1, <4>1, <4>2
    <3> QED BY <1>1, <1>3, <3>1, <3>2, <3>3 DEF Publishes, At
  <2> QED BY <1>3, <2>1, <2>2, <2>3, <2>4
<1> QED BY <1>4, <1>5

---------------------------------------------------------------------------
(* Finalize's route, a crash, and what changes no request.                 *)

\* Nothing stored changes and every request is as before, or says nothing of
\* the plan's stages.
LEMMA StageStays ==
  ASSUME StageInv, PlanInv', spoiled \subseteq spoiled',
         UNCHANGED <<status, docs, flag, planSel, delSel, meta, metaRef>>,
         \A o \in Requests :
           \/ req'[o] = req[o]
           \/ /\ req'[o].step \in {NoStep, Finalize} /\ req'[o].pc \in {"idle", "queued"}
              /\ req[o].step.touches \subseteq spoiled'
  PROVE  StageInv'
<1>0. PlanInv /\ Alone /\ Phases /\ Window /\ LateWrites /\ Stages /\ Published
  BY DEF StageInv
<1>1. \A o \in Requests : req'[o] = req[o] \/ req'[o].step \in {NoStep, Finalize}
  OBVIOUS
<1>2. \A s \in {NoStep, Finalize} : s.touches = {} /\ s \notin EarlySteps \cup LateSteps
  BY EarlyAndLate, StepTable
<1>3. Alone'
  BY <1>0, <1>1 DEF Alone
<1>4. Phases'
  BY <1>0, <1>1, <1>2 DEF Phases, Ruined
<1>5. Window'
  BY <1>0, <1>1, <1>2 DEF Window, Unmade, MadeAt
<1>6. LateWrites'
  <2>1. ASSUME NEW o \in Requests PROVE Passes(o)'
    <3>1. CASE req'[o] = req[o]
      BY <1>0, <3>1 DEF LateWrites, Passes, At
    <3>2. CASE req'[o].step \in {NoStep, Finalize} /\ req'[o].pc \in {"idle", "queued"}
      BY <3>2, LastAndTitle DEF Passes, At
    <3> QED BY <3>1, <3>2
  <2> QED BY <2>1 DEF LateWrites, Passes
<1>7. ASSUME NEW k \in Kinds, k \notin spoiled' PROVE Stage(k)'
  <2>1. /\ Stored(k)' = Stored(k)
        /\ Unset(k)' <=> Unset(k)
        /\ Picked(k)' <=> Picked(k)
        /\ Held(k)' <=> Held(k)
    BY KnownStays DEF Kept
  <2>2. Stage(k) /\ k \notin spoiled
    BY <1>0, <1>7 DEF Stages
  <2>3. ASSUME Settled(k)' PROVE Held(k)'
    <3>1. ASSUME NEW o \in Requests PROVE k \notin req[o].step.touches
      BY <1>7, <2>3 DEF Settled
    <3>2. Settled(k)
      BY <2>2, <3>1 DEF Settled
    <3> QED BY <2>1, <2>2, <3>2 DEF Stage
  <2>4. ASSUME NEW o \in Requests, req'[o] = req[o]
        PROVE  /\ req'[o].step.touches = {k} => Progress(o, k)'
               /\ req'[o].step = ChangePlanFormatProfile => Cleared(o, k)'
               /\ Uses(o, k)' => Picked(k)'
    <3>1. Progress(o, k) => Progress(o, k)'
      BY <2>1, <2>4 DEF Progress, At, MadeAt
    <3>2. Cleared(o, k) => Cleared(o, k)'
      BY <2>1, <2>4 DEF Cleared, At
    <3>3. Uses(o, k)' => Uses(o, k)
      BY <2>4 DEF Uses, Users
    <3> QED BY <2>1, <2>2, <2>4, <3>1, <3>2, <3>3 DEF Stage
  <2>5. ASSUME NEW o \in Requests, req'[o].step \in {NoStep, Finalize}
        PROVE  /\ req'[o].step.touches # {k}
               /\ req'[o].step # ChangePlanFormatProfile
               /\ ~Uses(o, k)'
    <3>1. {NoStep, Finalize} \cap Users[k] = {}
      BY StepTable DEF Users, Kinds
    <3> QED BY <1>2, <2>5, <3>1, StepFacts DEF Uses, Users
  <2>6. ASSUME NEW o \in Requests
        PROVE  /\ req'[o].step.touches = {k} => Progress(o, k)'
               /\ req'[o].step = ChangePlanFormatProfile => Cleared(o, k)'
               /\ Uses(o, k)' => Picked(k)'
    BY <1>1, <2>4, <2>5
  <2> QED BY <2>3, <2>6 DEF Stage
<1>8. Stages'
  BY <1>7 DEF Stages
<1>9. Published'
  <2> SUFFICES ASSUME "meta" \notin spoiled'
               PROVE  /\ Settled("meta")' => Linked'
                      /\ \A o \in Requests : Publishes(o)'
    BY DEF Published, Linked, Publishes
  <2>1. /\ "meta" \notin spoiled
        /\ Settled("meta") => Linked
        /\ \A o \in Requests : Publishes(o)
    BY <1>0, PublishedIs
  <2>2. Linked' <=> Linked
    BY DEF Linked
  <2>3. Settled("meta")' => Settled("meta")
    BY <2>1 DEF Settled
  <2>4. ASSUME NEW o \in Requests PROVE Publishes(o)'
    <3>1. CASE req'[o] = req[o]
      BY <2>1, <2>2, <3>1 DEF Publishes, At
    <3>2. CASE req'[o].pc \in {"idle", "queued"}
      BY <3>2 DEF Publishes, At
    <3> QED BY <3>1, <3>2
  <2> QED BY <2>1, <2>2, <2>3, <2>4
<1> QED BY <1>3, <1>4, <1>5, <1>6, <1>8, <1>9 DEF StageInv

LEMMA OtherStage ==
  ASSUME StageInv, PlanInv',
         \/ \E r \in Requests : PostFinalize(r)
         \/ Crash \/ PostDismissShort \/ EditScenes \/ UNCHANGED vars
  PROVE  StageInv'
<1>0. /\ PlanInv /\ req \in [Requests -> Request] /\ InStep /\ Path
  BY DEF StageInv, PlanInv, WorkflowInv, TypeOK
<1>1. ASSUME NEW r \in Requests, PostFinalize(r) PROVE StageInv'
  <2>1. /\ req'[r].pc = "queued" /\ req'[r].step = Finalize
        /\ \A o \in Requests \ {r} : req'[o] = req[o]
    BY <1>0, <1>1, FinalizePath
  <2>2. /\ UNCHANGED <<status, docs, flag, planSel, delSel, meta, metaRef>>
        /\ spoiled' = spoiled /\ req[r].pc = "idle"
    BY <1>1 DEF PostFinalize, store, refs, Active
  <2>3. req[r].step.touches = {}
    BY <1>0, <2>2, StepFacts DEF InStep, At
  <2> QED BY <2>1, <2>2, <2>3, StageStays
<1>2. CASE Crash
  <2>1. \A r \in Requests : req'[r] = Idle
    BY <1>2, CrashPath
  <2>2. /\ UNCHANGED <<status, docs, flag, planSel, delSel, meta, metaRef>>
        /\ spoiled \subseteq spoiled'
        /\ \A r \in Requests : req[r].step.touches \subseteq spoiled'
    BY <1>2 DEF Crash, store, refs
  <2>3. \A r \in Requests : req'[r].step = NoStep /\ req'[r].pc = "idle"
    BY <2>1, StepFacts
  <2> QED BY <2>2, <2>3, StageStays
<1>3. CASE PostDismissShort \/ EditScenes \/ UNCHANGED vars
  <2>1. UNCHANGED <<status, docs, flag, planSel, delSel, meta, metaRef, req, spoiled>>
    BY <1>3 DEF PostDismissShort, EditScenes, vars, store, refs
  <2> QED BY <2>1, StageStays
<1> QED BY <1>1, <1>2, <1>3

---------------------------------------------------------------------------
(* The scenes a status after projects_matched promises.                    *)

\* The places of a format change and of the generation of scenes.
LEMMA ScenePlaces ==
  ASSUME PlanInv, NEW r \in Requests
  PROVE  /\ req[r].step = ChangePlanFormatProfile =>
              req[r].pc \in Kinds \cup {"scenes", "meta", "reset", "clips"}
         /\ req[r].step = GenerateScenes =>
              req[r].pc \in {"replace", "check", "write", "scripts"} /\ lock = r
<1>0. req[r].pc \in Places /\ Path /\ InStep
  BY DEF PlanInv, WorkflowInv, TypeOK, Request
<1>1. ASSUME req[r].step = ChangePlanFormatProfile
      PROVE  req[r].pc \in Kinds \cup {"scenes", "meta", "reset", "clips"}
  BY <1>0, <1>1, AtWork, StepTable DEF Path, At, Places, Kinds
<1>2. ASSUME req[r].step = GenerateScenes
      PROVE  req[r].pc \in {"replace", "check", "write", "scripts"}
  BY <1>0, <1>2, AtWork, StepTable DEF Path, InStep, At, Places, Kinds
<1> QED BY <1>1, <1>2, ScenesLocked DEF PlanInv

\* A finalize about to write meets a plan that has left projects_matched.
LEMMA FinalizeLeft ==
  ASSUME StageInv, ScenesThere, NEW r \in Requests,
         Work(r) \/ ModelFails(r) \/ StoreFault(r) \/ CreateFault(r),
         NEW o \in Requests, At(o, "write")', req'[o].step = Finalize
  PROVE  status' # "projects_matched"
<1>0. PlanInv /\ WorkflowInv /\ Path
  BY DEF StageInv, PlanInv
<1>1. Served(r) /\ (status' = status \/ Writes(r))
  BY <1>0, WorkServes, StatusMoves
<1>2. CASE ~At(o, "write")
  <2>1. Allowed(status, "finalized") /\ status' = status
    BY <1>0, <1>2, FinalizeWrites
  <2> QED BY <2>1 DEF Allowed, Transitions
<1>3. CASE At(o, "write")
  <2>1. req[o].step = Finalize
    BY <1>1, ServedSteps, StepTable
  <2>2. status # "projects_matched" /\ req[o].locked
    BY <1>0, <1>3, <2>1 DEF ScenesThere, Path
  <2>3. lock = o
    BY <1>0, <1>3, <2>2, AtWork DEF At
  <2>4. CASE Writes(r)
    <3>1. r # o
      BY <1>3, <2>4, <1>1, ServedSteps DEF Writes, At
    <3>2. CASE req[r].step = ChangePlanFormatProfile
      <4>1. req[r].locked
        BY <1>0, <3>2 DEF Path
      <4> QED BY <1>0, <2>3, <3>1, <3>2, <4>1, AtWork, StepTable
    <3>3. CASE req[r].step \in EarlySteps
      BY <1>0, <2>3, <2>4, <3>1, <3>3, Writers
    <3>4. CASE req[r].step \in LateSteps \cup {Finalize}
      BY <2>4, <3>4, EarlyAndLate, StepTable DEF Writes, Drafted, Early
    <3> QED BY <2>4, <3>2, <3>3, <3>4 DEF Writes
  <2> QED BY <1>1, <2>2, <2>4
<1> QED BY <1>2, <1>3

\* Who changes the scenes.
LEMMA SceneMoves ==
  ASSUME PlanInv, NEW r \in Requests,
         Work(r) \/ ModelFails(r) \/ StoreFault(r) \/ CreateFault(r)
  PROVE  /\ scenes' # scenes => ReplaceScenes(r) \/ WriteScripts(r) \/ DrainScenes(r)
         /\ scenes' = "none" => scenes = "none" \/ req[r].step = ChangePlanFormatProfile
<1>1. ASSUME ~(ReplaceScenes(r) \/ WriteScripts(r) \/ DrainScenes(r)) PROVE scenes' = scenes
  BY <1>1, Zenon DEF Work, PatchCheck, PatchWrite, PatchShots, Wipe, Create, Drain, FlipHook,
       ListVariants, Flip, Point, SyncPlan, UpsertMetadata, LinkMetadata, Extracted,
       CacheCandidates, MakeClip, EvictCandidates, NothingExtracted, DrainMetadata, ResetFields,
       DeleteClips, FinalizeUnderLock, ModelFails, StoreFault, CreateFault, store
<1>2. CASE ReplaceScenes(r) \/ WriteScripts(r)
  BY <1>2 DEF ReplaceScenes, WriteScripts
<1>3. CASE DrainScenes(r)
  BY <1>3 DEF DrainScenes, PlanInv, WorkflowInv, InStep, At
<1> QED BY <1>1, <1>2, <1>3

\* A format change ends where it has reset the plan, or breaks off.
LEMMA ChangeEnds ==
  ASSUME StageInv, NEW r \in Requests, req[r].step = ChangePlanFormatProfile,
         Work(r) \/ ModelFails(r) \/ StoreFault(r) \/ CreateFault(r),
         req'[r] = Idle, "hook" \notin spoiled'
  PROVE  status' = "projects_matched"
<1>0. /\ PlanInv /\ Path /\ Stages /\ req \in [Requests -> Request]
      /\ req[r].pc \in Kinds \cup {"scenes", "meta", "reset", "clips"}
  BY ScenePlaces DEF StageInv, PlanInv, WorkflowInv, TypeOK
<1>1. ~StoreFault(r) /\ ~CreateFault(r)
  BY <1>0, StepTable DEF StoreFault, CreateFault, At, Kinds
<1>2. DrainScenes(r) \/ Drain(r) \/ DrainMetadata(r) \/ ResetFields(r) \/ DeleteClips(r)
  BY <1>0, <1>1, ActionPlaces DEF Work, Kinds
<1>3. CASE DeleteClips(r)
  <2>1. At(r, "clips") /\ status' = status /\ spoiled' = spoiled
    BY <1>3 DEF DeleteClips
  <2>2. Cleared(r, "hook")
    BY <1>0, <2>1 DEF Stages, Stage, Kinds
  <2> QED BY <2>1, <2>2 DEF Cleared
<1>4. CASE ResetFields(r)
  BY <1>4 DEF ResetFields
<1>5. CASE DrainScenes(r) \/ DrainMetadata(r)
  <2>1. \E p \in {"hook", "reset"} : Goto(r, p)
    BY <1>5 DEF DrainScenes, DrainMetadata
  <2>2. req'[r].pc # "idle"
    BY <1>0, <2>1 DEF Goto, Request
  <2> QED BY <2>2, StepFacts
<1>6. CASE Drain(r)
  <2>1. PICK k \in Kinds : req' = [Outdated(k) EXCEPT ![r].pc = AfterDrain[k]]
    BY <1>6 DEF Drain
  <2>2. DOMAIN Outdated(k) = Requests /\ Outdated(k)[r] \in Request
    BY <1>0, OutdatedFits DEF Outdated
  <2>3. req'[r].pc = AfterDrain[k] /\ AfterDrain[k] # "idle"
    BY <2>1, <2>2 DEF AfterDrain, Kinds, Request
  <2> QED BY <2>3, StepFacts
<1> QED BY <1>2, <1>3, <1>4, <1>5, <1>6

LEMMA ServedScenes ==
  ASSUME StageInv, ScenesThere, NEW r \in Requests,
         Work(r) \/ ModelFails(r) \/ StoreFault(r) \/ CreateFault(r)
  PROVE  ScenesThere'
<1>0. /\ PlanInv /\ WorkflowInv /\ Path /\ InStep /\ Phases /\ req \in [Requests -> Request]
  BY DEF StageInv, PlanInv, WorkflowInv, TypeOK
<1>1. Served(r) /\ spoiled \ {"short"} \subseteq spoiled' /\ (status' = status \/ Writes(r))
  BY <1>0, WorkServes, Spoiling, StatusMoves
<1>2. /\ \A o \in Requests : req'[o].step \in {req[o].step, NoStep}
      /\ \A o \in Requests \ {r} : req'[o].pc = req[o].pc /\ req'[o].step = req[o].step
      /\ req'[r] = Idle \/ Onward(r)
  BY <1>1, ServedSteps DEF Served
<1>3. ASSUME "hook" \notin spoiled',
             status' # "projects_matched", scenes' = "none"
      PROVE  \E o \in Requests : req'[o].step = ChangePlanFormatProfile
  <2>0. "hook" \notin spoiled /\ ~Ruined
    BY <1>1, <1>3 DEF Ruined, Aspects, Kinds
  <2>1. CASE req[r].step = ChangePlanFormatProfile
    <3>1. Onward(r)
      BY <1>2, <1>3, <2>1, ChangeEnds
    <3> QED BY <2>1, <3>1 DEF Onward
  <2>2. ASSUME NEW o \in Requests \ {r}, req[o].step = ChangePlanFormatProfile
        PROVE  req'[o].step = ChangePlanFormatProfile
    BY <1>2, <2>2
  <2>3. CASE \A o \in Requests : req[o].step # ChangePlanFormatProfile
    <3>1. scenes = "none"
      BY <1>0, <1>3, <2>3, SceneMoves
    <3>2. status = "projects_matched"
      BY <2>0, <2>3, <3>1 DEF ScenesThere
    <3>3. Writes(r)
      BY <1>1, <1>3, <3>2
    <3>4. CASE req[r].step \in EarlySteps
      <4>1. status \in req[r].step.moves
        BY <1>0, <2>0, <3>3, <3>4, Writers DEF Phases
      <4>2. req[r].step = GenerateScenes
        BY <3>2, <3>4, <4>1, StepTable DEF EarlySteps
      <4>3. req[r].pc = "write"
        BY <1>0, <3>3, <4>2, ScenePlaces DEF Writes
      <4> QED BY <2>0, <3>1, <4>2, <4>3 DEF ScenesThere
    <3>5. CASE req[r].step \in LateSteps
      BY <1>0, <2>0, <3>2, <3>5 DEF Phases, Early
    <3>6. CASE req[r].step = Finalize
      BY <1>0, <3>2, <3>3, <3>6, Writers DEF ScenesThere
    <3> QED BY <2>3, <3>3, <3>4, <3>5, <3>6 DEF Writes
  <2> QED BY <2>1, <2>2, <2>3
<1>4. ASSUME "hook" \notin spoiled', NEW o \in Requests, req'[o].step = GenerateScenes,
             req'[o].pc \in {"check", "write", "scripts"}
      PROVE  scenes' # "none"
  <2>0. "hook" \notin spoiled /\ req[o].step = GenerateScenes
    BY <1>1, <1>2, <1>4, StepTable
  <2>1. lock = o /\ req[o].pc \in {"replace", "check", "write", "scripts"}
    BY <1>0, <2>0, ScenePlaces
  <2>2. req[r].step # ChangePlanFormatProfile
    <3>1. ASSUME req[r].step = ChangePlanFormatProfile PROVE FALSE
      <4>1. req[r].locked
        BY <1>0, <3>1 DEF Path
      <4>2. lock = r
        BY <1>0, <3>1, <4>1, AtWork, StepTable
      <4> QED BY <2>0, <2>1, <3>1, <4>2, StepTable
    <3> QED BY <3>1
  <2>3. CASE req[o].pc # "replace"
    BY <1>0, <2>0, <2>1, <2>2, <2>3, SceneMoves DEF ScenesThere
  <2>4. CASE req[o].pc = "replace"
    <3>1. o = r
      BY <1>2, <1>4, <2>4
    <3>2. req'[r] # Idle
      BY <1>4, <3>1, StepFacts
    <3>3. ~ModelFails(r) /\ ~StoreFault(r) /\ ~CreateFault(r)
      BY <1>0, <2>4, <3>1, <3>2 DEF ModelFails, StoreFault, CreateFault, End, At
    <3>4. ReplaceScenes(r)
      BY <2>4, <3>1, <3>3, ActionPlaces DEF Work, Kinds
    <3> QED BY <3>4 DEF ReplaceScenes
  <2> QED BY <2>3, <2>4
<1> QED BY <1>3, <1>4, FinalizeLeft DEF ScenesThere

LEMMA BeginScenes ==
  ASSUME StageInv, ScenesThere, NEW r \in Requests, NEW step \in Steps, NEW locked \in BOOLEAN,
         NEW pick, Begin(r, step, locked, pick), Let(step, locked, pick)
  PROVE  ScenesThere'
<1>0. PlanInv /\ Path /\ req \in [Requests -> Request]
  BY DEF StageInv, PlanInv, WorkflowInv, TypeOK
<1>1. /\ req'[r].pc = step.first /\ req'[r].step = step
      /\ \A o \in Requests \ {r} : req'[o] = req[o]
      /\ (locked => lock = None) /\ req[r].pc = "idle"
      /\ UNCHANGED <<status, scenes>>
  BY <1>0, BeginIs
<1>2. step.first # "write" /\ (step = GenerateScenes => step.first = "replace")
  BY StepTable DEF Steps
<1>3. req[r].step = NoStep
  BY <1>0, <1>1, StepFacts DEF PlanInv, WorkflowInv, InStep, At
<1>4. ASSUME NEW o \in Requests, At(o, "write")', req'[o].step = Finalize
      PROVE  status' # "projects_matched"
  BY <1>1, <1>2, <1>4 DEF ScenesThere, At
<1>5. CASE spoiled \subseteq spoiled'
  <2>1. ASSUME "hook" \notin spoiled', status' # "projects_matched", scenes' = "none"
        PROVE  \E o \in Requests : req'[o].step = ChangePlanFormatProfile
    <3>1. PICK o \in Requests : req[o].step = ChangePlanFormatProfile
      BY <1>1, <1>5, <2>1 DEF ScenesThere
    <3> QED BY <1>1, <1>3, <3>1, StepTable
  <2>2. ASSUME "hook" \notin spoiled', NEW o \in Requests, req'[o].step = GenerateScenes,
               req'[o].pc \in {"check", "write", "scripts"}
        PROVE  scenes' # "none"
    BY <1>1, <1>2, <1>5, <2>2 DEF ScenesThere
  <2> QED BY <1>4, <2>1, <2>2 DEF ScenesThere
<1>6. CASE /\ step = ChangePlanFormatProfile
           /\ \A o \in Requests \ {r} : req[o].pc \in {"idle", "queued"}
  <2>1. \A o \in Requests : req'[o].pc \notin {"check", "write", "scripts"}
    BY <1>1, <1>6, StepTable
  <2> QED BY <1>1, <1>4, <1>6, <2>1 DEF ScenesThere
<1> QED BY <1>0, <1>5, <1>6, BeginMeets

LEMMA OtherScenes ==
  ASSUME StageInv, ScenesThere,
         \/ \E r \in Requests : PostFinalize(r)
         \/ Crash \/ PostDismissShort \/ EditScenes \/ UNCHANGED vars
  PROVE  ScenesThere'
<1>0. PlanInv /\ Path /\ InStep /\ req \in [Requests -> Request]
  BY DEF StageInv, PlanInv, WorkflowInv, TypeOK
<1>1. ASSUME NEW r \in Requests, PostFinalize(r) PROVE ScenesThere'
  <2>1. /\ req'[r].pc = "queued" /\ req'[r].step = Finalize
        /\ \A o \in Requests \ {r} : req'[o] = req[o]
    BY <1>0, <1>1, FinalizePath
  <2>2. UNCHANGED <<status, scenes, spoiled>> /\ req[r].pc = "idle"
    BY <1>1 DEF PostFinalize, store, Active
  <2>3. req[r].step = NoStep
    BY <1>0, <2>2, StepFacts DEF InStep, At
  <2> QED BY <2>1, <2>2, <2>3, StepTable DEF ScenesThere, At
<1>2. CASE Crash
  <2>1. \A r \in Requests : req'[r].step = NoStep /\ req'[r].pc = "idle"
    BY <1>2, CrashPath, StepFacts
  <2>2. /\ UNCHANGED <<status, scenes>> /\ spoiled \subseteq spoiled'
        /\ \A r \in Requests : req[r].step.touches \subseteq spoiled'
    BY <1>2 DEF Crash, store
  <2> QED BY <2>1, <2>2, StepTable DEF ScenesThere, At
<1>3. CASE PostDismissShort \/ EditScenes \/ UNCHANGED vars
  <2>1. UNCHANGED <<status, req, spoiled>> /\ scenes' \in {scenes, "empty", "blank"}
    BY <1>3 DEF PostDismissShort, EditScenes, vars, store
  <2> QED BY <2>1 DEF ScenesThere, At
<1> QED BY <1>1, <1>2, <1>3

---------------------------------------------------------------------------
(* The theorems.                                                           *)

LEMMA InitInv == Init => WorkflowInv
<1> SUFFICES ASSUME Init PROVE WorkflowInv
  OBVIOUS
<1>1. TypeOK
  BY IdleFits DEF Init, TypeOK, Refs, Statuses, V1Statuses
<1>2. InStep /\ Locked /\ Apart
  BY StepFacts DEF Init, InStep, Locked, Apart, At
<1>3. Chosen /\ Flags
  BY StepFacts DEF Init, Chosen, Flags, One, At, Stored
<1> QED BY <1>1, <1>2, <1>3 DEF WorkflowInv

LEMMA StepInv == WorkflowInv /\ [Next]_vars => WorkflowInv'
<1> SUFFICES ASSUME WorkflowInv, [Next]_vars PROVE WorkflowInv'
  OBVIOUS
<1>1. ASSUME NEW r \in Requests, Routes(r) PROVE WorkflowInv'
  BY <1>1, RoutesKeep
<1>2. ASSUME NEW r \in Requests, Work(r) \/ ModelFails(r) PROVE WorkflowInv'
  <2>1. CASE Quiet(r)
    BY <2>1, QuietKeeps
  <2>2. CASE FinalizeUnderLock(r) \/ CacheCandidates(r) \/ DrainScenes(r) \/ DeleteClips(r)
    BY <2>2, FinalizeUnderLockKeeps, CacheKeeps, DrainScenesKeeps, DeleteClipsKeeps
  <2>3. CASE Wipe(r) \/ Create(r) \/ Drain(r)
    BY <2>3, WipeKeeps, CreateKeeps, DrainKeeps
  <2>4. CASE FlipHook(r) \/ ListVariants(r) \/ Flip(r)
    BY <2>4, FlipHookKeeps, ListKeeps, FlipKeeps
  <2> QED BY <1>2, <2>1, <2>2, <2>3, <2>4 DEF Work, Quiet
<1>3. ASSUME NEW r \in Requests, StoreFault(r) \/ CreateFault(r) PROVE WorkflowInv'
  BY <1>3, StoreFaultKeeps, CreateFaultKeeps
<1>4. CASE Crash
  BY <1>4, CrashKeeps
<1>5. CASE PostDismissShort \/ EditScenes \/ UNCHANGED vars
  BY <1>5, DismissKeeps
<1> QED BY <1>1, <1>2, <1>3, <1>4, <1>5 DEF Next

LEMMA InitPlan == Init => PlanInv
<1> SUFFICES ASSUME Init PROVE Path /\ OneApproval /\ Hookless
  BY InitInv DEF PlanInv
<1>1. \A r \in Requests : req[r] = Idle
  BY DEF Init
<1>2. Path
  BY <1>1, StepFacts, StepTable DEF Path, At
<1>3. OneApproval
  BY <1>1, StepFacts, StepTable DEF Init, OneApproval, At
<1>4. Hookless
  BY DEF Init, Hookless, Kinds
<1> QED BY <1>2, <1>3, <1>4

LEMMA StepPlan == PlanInv /\ [Next]_vars => PlanInv'
<1> SUFFICES ASSUME PlanInv, [Next]_vars PROVE Path' /\ OneApproval' /\ Hookless'
  BY StepInv DEF PlanInv
<1>0. WorkflowInv /\ InStep /\ Path /\ req \in [Requests -> Request]
  BY DEF PlanInv, WorkflowInv, TypeOK
<1>1. ASSUME NEW r \in Requests, Routes(r) PROVE Path' /\ OneApproval' /\ Hookless'
  <2>1. CASE PostFinalize(r)
    BY <1>0, <1>1, <2>1, FinalizePath, FinalizeApproval, BeginHookless
  <2>2. CASE ~PostFinalize(r)
    <3>1. PICK step \in Steps, locked \in BOOLEAN :
            \E pick : Begin(r, step, locked, pick) /\ Let(step, locked, pick)
      BY <1>1, <2>2, RoutesBegin
    <3> QED BY <1>0, <1>1, <3>1, BeginPath, BeginApproval, BeginHookless
  <2> QED BY <2>1, <2>2
<1>2. ASSUME NEW r \in Requests, Work(r) \/ ModelFails(r) \/ StoreFault(r) \/ CreateFault(r)
      PROVE  Path' /\ OneApproval' /\ Hookless'
  BY <1>0, <1>2, WorkServes, ServedPath, ServedApproval, ServedHookless
<1>3. CASE Crash \/ PostDismissShort \/ EditScenes \/ UNCHANGED vars
  <2>1. Path'
    BY <1>0, <1>3, CrashPath DEF PostDismissShort, EditScenes, vars, Path, At
  <2> QED BY <1>3, <2>1, OtherApproval, OtherHookless
<1> QED BY <1>1, <1>2, <1>3 DEF Next

LEMMA InitStage == Init => StageInv
<1> SUFFICES ASSUME Init PROVE Alone /\ Phases /\ Window /\ LateWrites /\ Stages /\ Published
  BY InitPlan DEF StageInv
<1>1. \A r \in Requests : req[r].step = NoStep /\ req[r].pc = "idle"
  BY StepFacts DEF Init
<1>2. Alone
  BY <1>1 DEF Alone
<1>3. Phases
  BY <1>1, EarlyAndLate DEF Phases
<1>4. Window
  BY <1>1, StepTable DEF Window
<1>5. LateWrites
  BY <1>1, LastAndTitle DEF LateWrites, At
<1>6. Stages
  <2> SUFFICES ASSUME NEW k \in Kinds PROVE Stage(k)
    BY DEF Stages
  <2>1. docs[k] = 0 /\ Unset(k) /\ status = "projects_matched"
    BY DEF Init, Unset, Agreed, Kinds
  <2>2. Held(k)
    BY <2>1, HeldBy
  <2>3. NoStep \notin Users[k]
    BY StepTable DEF Users, Kinds
  <2> QED BY <1>1, <2>2, <2>3, StepFacts DEF Stage, Uses
<1>7. Published
  BY <1>1, StepTable DEF Init, Published, At
<1> QED BY <1>2, <1>3, <1>4, <1>5, <1>6, <1>7

LEMMA StepStage == StageInv /\ [Next]_vars => StageInv'
<1> SUFFICES ASSUME StageInv, [Next]_vars PROVE StageInv'
  OBVIOUS
<1>0. PlanInv /\ PlanInv'
  BY StepPlan DEF StageInv
<1>1. ASSUME NEW r \in Requests, Routes(r), ~PostFinalize(r) PROVE StageInv'
  <2>1. PICK step \in Steps, locked \in BOOLEAN :
          \E pick : Begin(r, step, locked, pick) /\ Let(step, locked, pick)
    BY <1>1, RoutesBegin
  <2> QED BY <1>0, <2>1, BeginAlone, BeginPhases, BeginWindow, BeginLateWrites, BeginStages,
             BeginPublished DEF StageInv
<1>2. ASSUME NEW r \in Requests, Work(r) \/ ModelFails(r) \/ StoreFault(r) \/ CreateFault(r)
      PROVE  StageInv'
  <2>1. /\ Served(r) /\ spoiled \ {"short"} \subseteq spoiled'
        /\ status' = status \/ Writes(r)
    BY <1>0, <1>2, WorkServes, Spoiling, StatusMoves DEF PlanInv
  <2>2. Alone' /\ Phases' /\ Window' /\ LateWrites'
    BY <1>0, <1>2, <2>1, ServedAlone, ServedPhases, ServedWindow, ServedLateWrites DEF StageInv
  <2> QED BY <1>0, <1>2, <2>2, ServedStages, ServedPublished DEF StageInv
<1>3. CASE \/ \E r \in Requests : PostFinalize(r)
           \/ Crash \/ PostDismissShort \/ EditScenes \/ UNCHANGED vars
  BY <1>0, <1>3, OtherStage
<1> QED BY <1>1, <1>2, <1>3 DEF Next

LEMMA InitScenes == Init => SceneInv
<1>1. Init => ScenesThere
  BY StepFacts, StepTable DEF Init, ScenesThere, At
<1> QED BY <1>1, InitStage DEF SceneInv

LEMMA StepScenes == SceneInv /\ [Next]_vars => SceneInv'
<1> SUFFICES ASSUME StageInv, ScenesThere, [Next]_vars PROVE ScenesThere'
  BY StepStage DEF SceneInv
<1>1. ASSUME NEW r \in Requests, Routes(r), ~PostFinalize(r) PROVE ScenesThere'
  <2>1. PICK step \in Steps, locked \in BOOLEAN :
          \E pick : Begin(r, step, locked, pick) /\ Let(step, locked, pick)
    BY <1>1, RoutesBegin
  <2> QED BY <2>1, BeginScenes
<1>2. ASSUME NEW r \in Requests, Work(r) \/ ModelFails(r) \/ StoreFault(r) \/ CreateFault(r)
      PROVE  ScenesThere'
  BY <1>2, ServedScenes
<1>3. CASE \/ \E r \in Requests : PostFinalize(r)
           \/ Crash \/ PostDismissShort \/ EditScenes \/ UNCHANGED vars
  BY <1>3, OtherScenes
<1> QED BY <1>1, <1>2, <1>3 DEF Next

\* Every variable of the workflow keeps its type, however many requests are
\* at work on the plan and whatever fails on the way; in particular a format
\* change never deletes more clips than there are.
THEOREM WorkflowTypes == Spec => []TypeOK
<1>1. WorkflowInv => TypeOK
  BY DEF WorkflowInv
<1> QED BY <1>1, InitInv, StepInv, PTL DEF Spec

\* A flagged variant exists, no plan has two flagged hooks, and none has two
\* flagged titles or thumbnails unless work on that kind overlapped or broke
\* off (selectHook in one batch under the plan lock, setSelectedTitleConcept
\* and setSelectedThumbnailConcept in one batch over those listed).
THEOREM FlaggedOnce == Spec => []OneFlagged
<1>1. WorkflowInv => OneFlagged
  <2> SUFFICES ASSUME WorkflowInv, NEW k \in Kinds
               PROVE  /\ flag[k] \subseteq Stored(k)
                      /\ k = "hook" \/ Settled(k) => Cardinality(flag[k]) <= 1
    BY DEF OneFlagged
  <2>1. Flags
    BY DEF WorkflowInv
  <2>2. ASSUME One(flag[k]) PROVE Cardinality(flag[k]) <= 1
    <3>1. CASE flag[k] = {}
      BY <3>1, FS_EmptySet
    <3>2. CASE flag[k] # {}
      <4>1. PICK x : flag[k] = {x}
        BY <2>2, <3>2 DEF One
      <4>2. Cardinality({x}) = 1
        BY FS_Singleton
      <4> QED BY <4>1, <4>2
    <3> QED BY <3>1, <3>2
  <2>3. ASSUME Settled(k) PROVE One(flag[k])
    <3>1. ~Clearing(k)
      BY <2>3, StepFacts DEF Settled, Clearing, Aspects
    <3> QED BY <2>1, <2>3, <3>1 DEF Flags, Settled
  <2> QED BY <2>1, <2>2, <2>3 DEF Flags
<1> QED BY <1>1, InitInv, StepInv, PTL DEF Spec

\* A candidate becomes at most one deliverable, unless requests of the plan's
\* shorts overlapped or broke off since the latest extraction
\* (the approve-short route looks it up in the cache, and drops the cache once
\* approveShortCandidate has created the deliverable).
THEOREM OneClipPerCandidate == Spec => []ApprovedOnce
<1>1. PlanInv => ApprovedOnce
  BY DEF PlanInv, OneApproval, ApprovedOnce
<1> QED BY <1>1, InitPlan, StepPlan, PTL DEF Spec

\* No hook is ever selected when the scripts of a youtube_advanced plan are to
\* be written, and so no plan gets a script, whatever overlaps or fails:
\* writeScripts is called right after the scenes are stored, and nothing
\* leads back from a selected hook to there but a change of format.
THEOREM NeverScripted ==
  Spec => [](/\ \A r \in Requests : At(r, "scripts") => planSel["hook"] = None
             /\ scenes # "scripted")
<1> DEFINE NoScripts ==
      /\ \A r \in Requests : At(r, "scripts") => planSel["hook"] = None
      /\ scenes # "scripted"
<1>1. PlanInv => NoScripts
  BY DEF PlanInv, Path, Hookless, At
<1> QED BY <1>1, InitPlan, StepPlan, PTL DEF Spec

\* From its selection on, the plan names a hook, title or thumbnail that exists
\* and is the flagged one, and its deliverable names the same, whatever steps
\* of other kinds overlap or fail (selectHook, selectTitle, selectThumbnail,
\* and the generations that read a selection before they wait for the model).
THEOREM SelectionAlwaysNamed == Spec => []SelectionNamed
<1>1. StageInv => SelectionNamed
  BY DEF StageInv, Stages, Stage, Held, Settled, SelectionNamed
<1> QED BY <1>1, InitStage, StepStage, PTL DEF Spec

\* What the plan's status says of its scenes, variants and metadata is what the
\* store holds: nothing of a stage before it is generated, after a format
\* change neither, and something once it is (generateScenes,
\* generateHookVariants and their like, generatePublishMetadata,
\* changePlanFormatProfile).
THEOREM StatusTellsTheStore == Spec => []StageMatchesDocs
<1>1. SceneInv => StageMatchesDocs
  <2> SUFFICES ASSUME SceneInv PROVE StageMatchesDocs
    OBVIOUS
  <2>0. StageInv /\ ScenesThere
    BY DEF SceneInv
  <2>1. ASSUME NEW k \in Kinds, Settled(k) PROVE Held(k)
    BY <2>0, <2>1 DEF StageInv, Stages, Stage, Settled
  <2>2. Settled("meta") => metaRef = meta /\ (status = "metadata_generated" => meta)
    BY <2>0 DEF StageInv, Published, Settled
  <2>3. Settled("hook") /\ status # "projects_matched" => scenes # "none"
    BY <2>0, StepTable DEF ScenesThere, Settled
  <2> QED BY <2>1, <2>2, <2>3 DEF StageMatchesDocs, Held
<1> QED BY <1>1, InitScenes, StepScenes, PTL DEF Spec
=============================================================================
