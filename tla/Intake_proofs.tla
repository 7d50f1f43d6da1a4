---------------------------- MODULE Intake_proofs ----------------------------
(***************************************************************************)
(* Theorems about Intake: for any number of briefs, requests and scoring   *)
(* workers and every bound, its variables keep their types, a user's       *)
(* verdict on a finding stands, a promoted plan is the one its brief       *)
(* names, the findings of a brief are about its plan, what is published is *)
(* catalogued, and stages follow their table.                              *)
(***************************************************************************)
EXTENDS Intake, SequenceTheorems, FunctionTheorems, FiniteSetTheorems, TLAPS

BriefDoc == [is : {"new", "stored", "deleted"}, stage : Stages,
             score : Scores, plan : Nat, promoted : Nat]

\* What a process may stand for, whichever process it is.
Sound(x) ==
  /\ x \in Process
  /\ x.pc \notin {"idle", "bulk", "lookup", "skip"} => x.brief \in Briefs
  /\ x.pc \in {"idle", "bulk", "stage"} => x.todo \subseteq Briefs
  /\ x.pc = "stage" => x.stage \in Stages

\* The briefs keep what promotions rely on.
BriefsKept ==
  \A b \in Briefs :
    /\ brief'[b].promoted = brief[b].promoted
    /\ brief'[b].is = "new" => brief[b].is = "new"
    /\ brief'[b].is = "stored" => brief[b].is \in {"new", "stored"}

---------------------------------------------------------------------------
(* The processes.                                                          *)

LEMMA IdleSound == Sound(Idle)
BY DEF Sound, Process, Idle, Stages

LEMMA ProcSound ==
  ASSUME IntakeInv, NEW p \in Procs
  PROVE  proc[p] \in Process /\ Sound(proc[p])
BY DEF IntakeInv, TypeOK, Placed, Sound, At

\* A step of one process, to a sound state.
LEMMA ProcMoves ==
  ASSUME IntakeInv, NEW p \in Procs, NEW x, Sound(x), proc' = [proc EXCEPT ![p] = x]
  PROVE  /\ proc' \in [Procs -> Process] /\ Placed'
         /\ proc'[p] = x /\ \A q \in Procs \ {p} : proc'[q] = proc[q]
<1>1. proc \in [Procs -> Process] /\ x \in Process
  BY DEF IntakeInv, TypeOK, Sound
<1>2. /\ proc' \in [Procs -> Process]
      /\ proc'[p] = x /\ \A q \in Procs \ {p} : proc'[q] = proc[q]
  BY <1>1
<1>3. Placed'
  BY <1>2 DEF IntakeInv, Placed, Sound, At
<1> QED BY <1>2, <1>3

\* No new number is given out.
LEMMA NumberedStays ==
  ASSUME Numbered, findings' = findings, transforms' = transforms,
         \A q \in Procs : proc'[q].pc \in Fresh =>
           proc[q].pc \in Fresh /\ proc'[q].n = proc[q].n
  PROVE  Numbered'
BY DEF Numbered

\* No plan is made, and no promotion begins.
LEMMA PromotionsStay ==
  ASSUME IntakeInv, plans' = plans, spoiled \subseteq spoiled', BriefsKept,
         \A q \in Procs : proc'[q].pc = "promote" => proc'[q] = proc[q]
  PROVE  Promotions' /\ PromotedPlanFindsBrief'
<1>0. /\ plans \in Seq(Briefs \cup {None}) /\ Promotions /\ PromotedPlanFindsBrief
      /\ Placed /\ None \notin Briefs
  BY ProcsAssumption DEF IntakeInv, TypeOK
<1>1. \A k \in DOMAIN plans : plans[k] \in Briefs \cup {None}
  BY <1>0, ElementOfSeq, LenProperties
<1>2. \A k \in DOMAIN plans : plans[k] # None => plans[k] \in Briefs /\ brief[plans[k]].is # "new"
  BY <1>0, <1>1 DEF Promotions
<1>3. PromotedPlanFindsBrief'
  BY <1>0, <1>2 DEF PromotedPlanFindsBrief, BriefsKept, Stored
<1>4. \A k \in DOMAIN plans' : plans'[k] # None => brief'[plans'[k]].is # "new"
  BY <1>2 DEF BriefsKept
<1>5. ASSUME NEW p \in Procs, At(p, "promote")'
      PROVE  LET b == proc'[p].brief
             IN  /\ proc'[p].aspect = "promotion" /\ brief'[b].is # "new"
                 /\ <<b, "promotion">> \notin spoiled' =>
                      /\ \A k \in DOMAIN plans' : plans'[k] # b
                      /\ \A q \in Procs : At(q, "promote")' /\ proc'[q].brief = b => p = q
  <2>1. proc'[p] = proc[p] /\ At(p, "promote") /\ proc[p].brief \in Briefs
    BY <1>0, <1>5 DEF At, Placed
  <2> QED BY <1>0, <1>5, <2>1 DEF Promotions, BriefsKept, At
<1>6. Promotions'
  BY <1>4, <1>5 DEF Promotions
<1> QED BY <1>3, <1>6

\* Nothing happens to the briefs.
LEMMA SameBriefs == brief' = brief /\ TypeOK => BriefsKept
BY DEF BriefsKept, TypeOK

\* One process moves, neither to a new transform nor to a promotion.
LEMMA MoveKeeps ==
  ASSUME IntakeInv, NEW p \in Procs, NEW x, Sound(x), proc' = [proc EXCEPT ![p] = x],
         x.pc \in Fresh => proc[p].pc \in Fresh /\ x.n = proc[p].n,
         x.pc # "promote",
         plans' = plans, spoiled \subseteq spoiled', BriefsKept
  PROVE  /\ proc' \in [Procs -> Process]
         /\ Placed' /\ Promotions' /\ PromotedPlanFindsBrief'
         /\ findings' = findings /\ transforms' = transforms => Numbered'
<1>1. /\ proc' \in [Procs -> Process] /\ Placed'
      /\ proc'[p] = x /\ \A q \in Procs \ {p} : proc'[q] = proc[q]
  BY ProcMoves
<1>2. Promotions' /\ PromotedPlanFindsBrief'
  BY <1>1, PromotionsStay
<1>3. \A q \in Procs : proc'[q].pc \in Fresh => proc[q].pc \in Fresh /\ proc'[q].n = proc[q].n
  BY <1>1
<1>4. findings' = findings /\ transforms' = transforms => Numbered'
  BY <1>3, NumberedStays DEF IntakeInv
<1> QED BY <1>1, <1>2, <1>4

---------------------------------------------------------------------------
(* Steps that only move a process.                                         *)

\* A process goes on with its brief.
LEMMA GotoSound ==
  ASSUME IntakeInv, NEW p \in Procs, proc[p].pc \notin {"idle", "bulk", "lookup", "skip"},
         NEW pc \in {"score", "query", "unlink", "unlinkUndo", "critique", "revise",
                     "mark", "save", "undo"}
  PROVE  Sound([proc[p] EXCEPT !.pc = pc])
BY ProcSound DEF Sound, Process

LEMMA GotoKeeps ==
  ASSUME IntakeInv, NEW p \in Procs, proc[p].pc \notin {"idle", "bulk", "lookup", "skip"},
         NEW pc \in {"score", "query", "unlink", "unlinkUndo", "critique", "revise",
                     "mark", "save", "undo"},
         pc \in Fresh => proc[p].pc \in Fresh,
         Goto(p, pc), plans' = plans, spoiled \subseteq spoiled', BriefsKept
  PROVE  /\ proc' \in [Procs -> Process]
         /\ Placed' /\ Promotions' /\ PromotedPlanFindsBrief'
         /\ findings' = findings /\ transforms' = transforms => Numbered'
<1> DEFINE x == [proc[p] EXCEPT !.pc = pc]
<1>1. Sound(x) /\ proc[p] \in Process
  BY GotoSound, ProcSound
<1>2. x.pc = pc /\ x.n = proc[p].n
  BY <1>1 DEF Process
<1>3. proc' = [proc EXCEPT ![p] = x]
  BY DEF Goto
<1> HIDE DEF x
<1> QED BY <1>1, <1>2, <1>3, MoveKeeps

LEMMA EndKeeps ==
  ASSUME IntakeInv, NEW p \in Procs, End(p), plans' = plans, spoiled \subseteq spoiled',
         BriefsKept
  PROVE  /\ proc' \in [Procs -> Process]
         /\ Placed' /\ Promotions' /\ PromotedPlanFindsBrief'
         /\ findings' = findings /\ transforms' = transforms => Numbered'
<1>1. Sound(Idle) /\ Idle.pc \notin Fresh /\ Idle.pc # "promote"
  BY IdleSound DEF Idle, Fresh
<1>2. proc' = [proc EXCEPT ![p] = Idle]
  BY DEF End
<1> QED BY <1>1, <1>2, MoveKeeps

\* What does not change but for the processes, the history and the mishaps.
LEMMA StoreStays ==
  ASSUME IntakeInv, UNCHANGED <<docs, memory, transforms>>,
         proc' \in [Procs -> Process], Placed', Promotions', PromotedPlanFindsBrief', Numbered',
         spoiled' \subseteq Briefs \X {"score", "stage", "plan", "edit", "promotion"},
         bare' \subseteq Nat, requests' \in Nat, mishaps' \in Nat
  PROVE  IntakeInv'
BY DEF IntakeInv, TypeOK, docs, memory

LEMMA ScoreReadKeeps ==
  ASSUME IntakeInv, NEW p \in Procs, ScoreRead(p) \/ ScoreFails(p) \/ NoFindings(p) \/ GivesUp(p)
  PROVE  IntakeInv'
<1>1. /\ UNCHANGED <<docs, memory, transforms, hist, requests, mishaps>>
      /\ \/ End(p)
         \/ At(p, "read") /\ Goto(p, "score")
         \/ At(p, "critique") /\ Goto(p, "save")
  BY DEF ScoreRead, ScoreFails, NoFindings, GivesUp
<1>2. /\ plans' = plans /\ spoiled' = spoiled /\ findings' = findings /\ BriefsKept
      /\ bare' = bare /\ requests' = requests /\ mishaps' = mishaps /\ transforms' = transforms
      /\ UNCHANGED <<docs, memory, transforms>>
  BY <1>1, SameBriefs DEF docs, hist, memory, IntakeInv
<1>3. /\ proc' \in [Procs -> Process] /\ Placed' /\ Promotions' /\ PromotedPlanFindsBrief'
      /\ Numbered'
  BY <1>1, <1>2, EndKeeps, GotoKeeps DEF At, Fresh
<1> QED BY <1>2, <1>3, StoreStays DEF IntakeInv, TypeOK

LEMMA SavePlanFaultKeeps ==
  ASSUME IntakeInv, NEW p \in Procs, SavePlanFault(p) \/ StoreFault(p)
  PROVE  IntakeInv'
<1>1. /\ UNCHANGED <<docs, memory, transforms, requests>> /\ mishaps' = mishaps + 1
      /\ spoiled' \in {spoiled, spoiled \cup CutOff(p)}
      /\ bare' \in {bare, bare \cup {k \in {proc[p].n} : At(p, "lookup")}}
      /\ End(p) \/ (At(p, "save") /\ Goto(p, "undo"))
  BY DEF SavePlanFault, StoreFault, hist
<1>2. /\ plans' = plans /\ spoiled \subseteq spoiled' /\ findings' = findings /\ BriefsKept
      /\ requests' = requests /\ transforms' = transforms
      /\ UNCHANGED <<docs, memory, transforms>>
  BY <1>1, SameBriefs DEF docs, memory, IntakeInv
<1>3. /\ proc' \in [Procs -> Process] /\ Placed' /\ Promotions' /\ PromotedPlanFindsBrief'
      /\ Numbered'
  BY <1>1, <1>2, EndKeeps, GotoKeeps DEF At, Fresh
<1>4. /\ spoiled' \subseteq Briefs \X {"score", "stage", "plan", "edit", "promotion"}
      /\ bare' \subseteq Nat /\ mishaps' \in Nat
  <2>1. CutOff(p) \subseteq Briefs \X {"score", "stage", "plan", "edit", "promotion"}
    BY DEF CutOff
  <2>2. proc[p].n \in Nat
    BY ProcSound DEF Process
  <2>3. /\ spoiled \subseteq Briefs \X {"score", "stage", "plan", "edit", "promotion"}
        /\ bare \subseteq Nat /\ mishaps \in Nat
    BY DEF IntakeInv, TypeOK
  <2>4. spoiled' \subseteq Briefs \X {"score", "stage", "plan", "edit", "promotion"}
    BY <1>1, <2>1, <2>3
  <2>5. bare' \subseteq Nat /\ mishaps' \in Nat
    BY <1>1, <2>2, <2>3
  <2> QED BY <2>4, <2>5
<1> QED BY <1>2, <1>3, <1>4, StoreStays DEF IntakeInv, TypeOK

LEMMA DraftedKeeps ==
  ASSUME IntakeInv, NEW p \in Procs, Drafted(p)
  PROVE  IntakeInv'
<1>1. /\ UNCHANGED <<docs, memory, transforms, bare, requests, mishaps>>
      /\ At(p, "draft")
      /\ \/ Goto(p, "query") /\ spoiled' = spoiled
         \/ /\ Goto(p, "save")
            /\ spoiled' = spoiled \cup
                 {<<b, "plan">> : b \in {proc[p].brief} \cap {f.brief : f \in findings}}
  BY DEF Drafted
<1>2. /\ plans' = plans /\ spoiled \subseteq spoiled' /\ findings' = findings /\ BriefsKept
      /\ bare' = bare /\ requests' = requests /\ mishaps' = mishaps /\ transforms' = transforms
      /\ UNCHANGED <<docs, memory, transforms>>
  BY <1>1, SameBriefs DEF docs, memory, IntakeInv
<1>3. /\ proc' \in [Procs -> Process] /\ Placed' /\ Promotions' /\ PromotedPlanFindsBrief'
      /\ Numbered'
  BY <1>1, <1>2, GotoKeeps DEF At, Fresh
<1>4. proc[p].brief \in Briefs
  BY <1>1, ProcSound DEF Sound, At
<1>5. spoiled' \subseteq Briefs \X {"score", "stage", "plan", "edit", "promotion"}
  BY <1>1, <1>4 DEF IntakeInv, TypeOK
<1> QED BY <1>2, <1>3, <1>5, StoreStays DEF IntakeInv, TypeOK

LEMMA QueryFindingsKeeps ==
  ASSUME IntakeInv, NEW p \in Procs, QueryFindings(p)
  PROVE  IntakeInv'
<1> DEFINE next == IF At(p, "query") THEN "unlink" ELSE "unlinkUndo"
           x    == [proc[p] EXCEPT !.pc = next, !.found = FindingsOf(proc[p].brief)]
<1>1. /\ UNCHANGED <<docs, memory, transforms, hist, requests, mishaps>>
      /\ proc[p].pc \in {"query", "undo"} /\ proc' = [proc EXCEPT ![p] = x]
  BY DEF QueryFindings
<1>2. /\ plans' = plans /\ spoiled' = spoiled /\ findings' = findings /\ BriefsKept
      /\ bare' = bare /\ requests' = requests /\ mishaps' = mishaps /\ transforms' = transforms
      /\ UNCHANGED <<docs, memory, transforms>>
  BY <1>1, SameBriefs DEF docs, hist, memory, IntakeInv
<1>3. FindingsOf(proc[p].brief) \subseteq Finding
  BY DEF FindingsOf, IntakeInv, TypeOK
<1>4. proc[p] \in Process /\ Sound(proc[p])
  BY ProcSound
<1>5. /\ Sound(x) /\ x.pc # "promote"
      /\ x.pc \in Fresh => proc[p].pc \in Fresh /\ x.n = proc[p].n
  BY <1>1, <1>3, <1>4 DEF Sound, Process, Fresh, At
<1> HIDE DEF x
<1>6. /\ proc' \in [Procs -> Process] /\ Placed' /\ Promotions' /\ PromotedPlanFindsBrief'
      /\ Numbered'
  BY <1>1, <1>2, <1>5, MoveKeeps
<1> QED BY <1>2, <1>6, StoreStays DEF IntakeInv, TypeOK

LEMMA ReviseKeeps ==
  ASSUME IntakeInv, NEW p \in Procs, Revise(p)
  PROVE  IntakeInv'
<1>1. PICK applied \in SUBSET (1 .. MaxFindings) :
        proc' = [proc EXCEPT ![p].pc = IF applied = {} THEN "save" ELSE "mark",
                             ![p].todo = applied]
  BY DEF Revise
<1> DEFINE x == [proc[p] EXCEPT !.pc = IF applied = {} THEN "save" ELSE "mark",
                                !.todo = applied]
<1>2. /\ UNCHANGED <<docs, memory, transforms, hist, requests, mishaps>>
      /\ At(p, "revise") /\ proc' = [proc EXCEPT ![p] = x]
  BY <1>1 DEF Revise, IntakeInv, TypeOK
<1>3. /\ plans' = plans /\ spoiled' = spoiled /\ findings' = findings /\ BriefsKept
      /\ bare' = bare /\ requests' = requests /\ mishaps' = mishaps /\ transforms' = transforms
      /\ UNCHANGED <<docs, memory, transforms>>
  BY <1>2, SameBriefs DEF docs, hist, memory, IntakeInv
<1>4. proc[p] \in Process /\ Sound(proc[p]) /\ applied \subseteq Nat
  BY ProcSound, BoundsAssumption
<1>5. Sound(x) /\ x.pc # "promote" /\ x.pc \notin Fresh
  BY <1>2, <1>4 DEF Sound, Process, Fresh, At
<1> HIDE DEF x
<1>6. /\ proc' \in [Procs -> Process] /\ Placed' /\ Promotions' /\ PromotedPlanFindsBrief'
      /\ Numbered'
  BY <1>2, <1>3, <1>5, MoveKeeps
<1> QED BY <1>3, <1>6, StoreStays DEF IntakeInv, TypeOK

---------------------------------------------------------------------------
(* Steps that change a brief.                                              *)

\* One brief changes, and stays what it is and which plan it names; its process
\* ends or goes on with other briefs.
LEMMA BriefKeeps ==
  ASSUME IntakeInv, NEW p \in Procs, NEW x, Sound(x), proc' = [proc EXCEPT ![p] = x],
         x.pc \notin Fresh, x.pc # "promote",
         NEW b \in Briefs, NEW d \in BriefDoc, brief' \in {brief, [brief EXCEPT ![b] = d]},
         d.is = brief[b].is, d.promoted = brief[b].promoted,
         UNCHANGED <<findings, plans, published, catalog, memory, transforms, bare,
                     requests, mishaps>>,
         spoiled \subseteq spoiled', spoiled' \subseteq spoiled \cup {<<b, "plan">>}
  PROVE  IntakeInv'
<1>1. brief \in [Briefs -> BriefDoc]
  BY DEF IntakeInv, TypeOK, BriefDoc
<1>2. BriefsKept /\ brief' \in [Briefs -> BriefDoc]
  BY <1>1 DEF BriefsKept, BriefDoc
<1>3. /\ proc' \in [Procs -> Process] /\ Placed' /\ Promotions' /\ PromotedPlanFindsBrief'
      /\ Numbered'
  BY <1>2, MoveKeeps
<1>4. /\ UNCHANGED <<findings, plans, published, catalog, queues, page, transforms, bare,
                     requests, mishaps>>
      /\ TypeOK
  BY DEF IntakeInv, memory
<1>5. spoiled' \subseteq Briefs \X {"score", "stage", "plan", "edit", "promotion"}
  BY <1>4 DEF TypeOK
<1>6. TypeOK'
  BY <1>2, <1>3, <1>4, <1>5 DEF TypeOK, BriefDoc
<1> QED BY <1>3, <1>6 DEF IntakeInv

\* A field of a brief is written.
LEMMA BriefDocs ==
  ASSUME IntakeInv, NEW b \in Briefs
  PROVE  LET Same(d) == d \in BriefDoc /\ d.is = brief[b].is /\ d.promoted = brief[b].promoted
         IN  /\ \A s \in Scores : Same([brief[b] EXCEPT !.score = s])
             /\ \A s \in Stages : Same([brief[b] EXCEPT !.stage = s])
             /\ \A n \in Nat : Same([brief[b] EXCEPT !.plan = n])
BY DEF IntakeInv, TypeOK, BriefDoc

LEMMA ScoreSaveKeeps ==
  ASSUME IntakeInv, NEW p \in Procs, ScoreSave(p) \/ OverrideScore(p)
  PROVE  IntakeInv'
<1> DEFINE b == proc[p].brief
<1>1. PICK by \in {"model", "hand"}, fit \in BOOLEAN :
        brief' = IF Stored(b) THEN [brief EXCEPT ![b].score = [by |-> by, fit |-> fit]]
                              ELSE brief
  BY DEF ScoreSave, OverrideScore
<1> DEFINE s == [by |-> by, fit |-> fit]
           d == [brief[b] EXCEPT !.score = s]
<1>2. /\ proc' = [proc EXCEPT ![p] = Idle] /\ proc[p].pc \in {"score", "override"}
      /\ UNCHANGED <<findings, plans, published, catalog, memory, transforms, bare,
                     requests, mishaps>>
      /\ spoiled' = spoiled
  BY DEF ScoreSave, OverrideScore, At, End, hist
<1>3. b \in Briefs /\ s \in Scores
  BY <1>2, ProcSound DEF Sound, Scores
<1>4. d \in BriefDoc /\ d.is = brief[b].is /\ d.promoted = brief[b].promoted
  BY <1>3, BriefDocs
<1>5. brief' \in {brief, [brief EXCEPT ![b] = d]}
  BY <1>1
<1>6. Sound(Idle) /\ Idle.pc \notin Fresh /\ Idle.pc # "promote"
  BY IdleSound DEF Idle, Fresh
<1> HIDE DEF b, d
<1> QED BY <1>2, <1>3, <1>4, <1>5, <1>6, BriefKeeps

LEMMA StageSaveKeeps ==
  ASSUME IntakeInv, NEW p \in Procs, StageSave(p)
  PROVE  IntakeInv'
<1> DEFINE b == proc[p].brief
           d == [brief[b] EXCEPT !.stage = proc[p].stage]
           x == IF proc[p].todo = {} THEN Idle
                                     ELSE [Idle EXCEPT !.pc = "bulk", !.todo = proc[p].todo]
<1>1. /\ At(p, "stage") /\ proc' = [proc EXCEPT ![p] = x]
      /\ brief' \in {brief, [brief EXCEPT ![b] = d]}
      /\ UNCHANGED <<findings, plans, published, catalog, memory, transforms, bare, requests,
                     mishaps>>
      /\ spoiled' = spoiled
  BY DEF StageSave, End, hist
<1>2. b \in Briefs /\ proc[p].stage \in Stages /\ proc[p].todo \subseteq Briefs
  BY <1>1, ProcSound DEF Sound, At
<1>3. d \in BriefDoc /\ d.is = brief[b].is /\ d.promoted = brief[b].promoted
  BY <1>2, BriefDocs
<1>4. Sound(x) /\ x.pc \notin Fresh /\ x.pc # "promote"
  BY <1>2, IdleSound DEF Sound, Process, Idle, Fresh
<1> HIDE DEF b, d, x
<1> QED BY <1>1, <1>2, <1>3, <1>4, BriefKeeps

LEMMA SavePlanKeeps ==
  ASSUME IntakeInv, NEW p \in Procs, SavePlan(p) \/ EditBuildPlan(p)
  PROVE  IntakeInv'
<1> DEFINE b == proc[p].brief
           d == [brief[b] EXCEPT !.plan = proc[p].n]
<1>1. /\ brief' \in {brief, [brief EXCEPT ![b] = d]}
      /\ spoiled \subseteq spoiled' /\ spoiled' \subseteq spoiled \cup {<<b, "plan">>}
      /\ proc' = [proc EXCEPT ![p] = Idle] /\ proc[p].pc \in {"save", "edit"}
      /\ UNCHANGED <<findings, plans, published, catalog, memory, transforms, bare, requests,
                     mishaps>>
  BY DEF SavePlan, EditBuildPlan, End, hist, At
<1>2. b \in Briefs /\ proc[p].n \in Nat
  BY <1>1, ProcSound DEF Sound, Process
<1>3. d \in BriefDoc /\ d.is = brief[b].is /\ d.promoted = brief[b].promoted
  BY <1>2, BriefDocs
<1>4. Sound(Idle) /\ Idle.pc \notin Fresh /\ Idle.pc # "promote"
  BY IdleSound DEF Idle, Fresh
<1> HIDE DEF b, d
<1> QED BY <1>1, <1>2, <1>3, <1>4, BriefKeeps

---------------------------------------------------------------------------
(* Steps that change the findings.                                         *)

\* At most findings of a transform that was about to store its own are new.
LEMMA FindingsKeep ==
  ASSUME IntakeInv, NEW p \in Procs, NEW x, Sound(x), proc' = [proc EXCEPT ![p] = x],
         x.pc \in Fresh => proc[p].pc \in Fresh /\ x.n = proc[p].n,
         x.pc # "promote",
         UNCHANGED <<brief, plans, published, catalog, memory, transforms, hist, requests,
                     mishaps>>,
         findings' \subseteq Finding,
         \A f, g \in findings' : f.brief = g.brief /\ f.of = g.of /\ f.n = g.n => f = g,
         \A f \in findings' :
           \/ \E g \in findings : g.of = f.of
           \/ f.of = proc[p].n /\ proc[p].pc = "critique" /\ x.pc \notin Fresh
  PROVE  IntakeInv'
<1>1. /\ UNCHANGED <<brief, plans, published, catalog, queues, page, transforms, spoiled, bare,
                     requests, mishaps>>
      /\ TypeOK /\ Numbered
  BY DEF IntakeInv, memory, hist
<1>2. BriefsKept
  BY <1>1, SameBriefs
<1>3. /\ proc' \in [Procs -> Process] /\ Placed' /\ Promotions' /\ PromotedPlanFindsBrief'
  BY <1>1, <1>2, MoveKeeps
<1>4. /\ proc'[p] = x /\ \A q \in Procs \ {p} : proc'[q] = proc[q]
  BY ProcMoves
<1>5. TypeOK'
  BY <1>1, <1>3 DEF TypeOK
<1>6. \A f \in findings' : f.of <= transforms'
  BY <1>1 DEF Numbered, Fresh
<1>7. ASSUME NEW q \in Procs, proc'[q].pc \in Fresh
      PROVE  /\ proc'[q].n <= transforms'
             /\ \A f \in findings' : f.of # proc'[q].n
             /\ \A r \in Procs : proc'[r].pc \in Fresh /\ proc'[r].n = proc'[q].n => q = r
  <2>1. \A r \in Procs : proc'[r].pc \in Fresh => proc[r].pc \in Fresh /\ proc'[r].n = proc[r].n
    BY <1>4
  <2>2. \A f \in findings' : f.of # proc'[q].n
    <3> SUFFICES ASSUME NEW f \in findings', f.of = proc'[q].n PROVE FALSE
      OBVIOUS
    <3>1. proc[q].pc \in Fresh /\ f.of = proc[q].n
      BY <1>7, <2>1
    <3>2. ~ \E g \in findings : g.of = f.of
      BY <1>1, <3>1 DEF Numbered
    <3>3. f.of = proc[p].n /\ proc[p].pc \in Fresh /\ x.pc \notin Fresh
      BY <3>2 DEF Fresh
    <3>4. p = q
      BY <1>1, <3>1, <3>3 DEF Numbered
    <3> QED BY <1>4, <1>7, <3>3, <3>4
  <2> QED BY <1>1, <1>7, <2>1, <2>2 DEF Numbered
<1>8. Numbered'
  BY <1>6, <1>7 DEF Numbered
<1> QED BY <1>3, <1>5, <1>8 DEF IntakeInv

LEMMA UnlinkFindingsKeeps ==
  ASSUME IntakeInv, NEW p \in Procs, UnlinkFindings(p)
  PROVE  IntakeInv'
<1> DEFINE x == IF At(p, "unlink") THEN [proc[p] EXCEPT !.pc = "critique", !.found = {}]
                                   ELSE Idle
<1>1. /\ proc[p].pc \in {"unlink", "unlinkUndo"} /\ findings' \subseteq findings
      /\ proc' = [proc EXCEPT ![p] = x]
      /\ UNCHANGED <<brief, plans, published, catalog, memory, transforms, hist, requests,
                     mishaps>>
  BY DEF UnlinkFindings, End
<1>2. /\ Sound(x) /\ x.pc # "promote"
      /\ x.pc \in Fresh => proc[p].pc \in Fresh /\ x.n = proc[p].n
  <2>1. CASE At(p, "unlink")
    <3>1. proc[p] \in Process /\ Sound(proc[p])
      BY ProcSound
    <3> QED BY <2>1, <3>1 DEF Sound, Process, Fresh, At
  <2>2. CASE ~At(p, "unlink")
    BY <2>2, IdleSound DEF Idle, Fresh
  <2> QED BY <2>1, <2>2
<1>3. /\ findings' \subseteq Finding
      /\ \A f, g \in findings' : f.brief = g.brief /\ f.of = g.of /\ f.n = g.n => f = g
      /\ \A f \in findings' : \E g \in findings : g.of = f.of
  BY <1>1 DEF IntakeInv, TypeOK, Numbered
<1> HIDE DEF x
<1> QED BY <1>1, <1>2, <1>3, FindingsKeep

LEMMA PersistFindingsKeeps ==
  ASSUME IntakeInv, NEW p \in Procs, PersistFindings(p)
  PROVE  IntakeInv'
<1>1. PICK k \in 1 .. MaxFindings :
        findings' = findings \cup
          {[brief |-> proc[p].brief, of |-> proc[p].n, n |-> i, status |-> "unresolved"] :
             i \in 1 .. k}
  BY DEF PersistFindings
<1> DEFINE new == {[brief |-> proc[p].brief, of |-> proc[p].n, n |-> i,
                    status |-> "unresolved"] : i \in 1 .. k}
           x   == [proc[p] EXCEPT !.pc = "revise"]
<1>2. /\ At(p, "critique") /\ proc' = [proc EXCEPT ![p] = x]
      /\ UNCHANGED <<brief, plans, published, catalog, memory, transforms, hist, requests,
                     mishaps>>
  BY DEF PersistFindings, Goto
<1>3. proc[p] \in Process /\ proc[p].brief \in Briefs /\ k \in Nat
  BY <1>2, ProcSound, BoundsAssumption DEF Sound, At
<1>4. /\ Sound(x) /\ x.pc \notin Fresh /\ x.pc # "promote"
  BY <1>2, <1>3, GotoSound DEF At, Fresh, Process
<1>5. /\ new \subseteq Finding /\ \A f \in new : f.of = proc[p].n
      /\ \A f, g \in new : f.n = g.n => f = g
  BY <1>3 DEF Finding, Process
<1>6. \A f \in findings : f.of # proc[p].n
  BY <1>2 DEF IntakeInv, Numbered, Fresh, At
<1> HIDE DEF x, new
<1>7. findings' = findings \cup new
  BY <1>1 DEF new
<1>8. /\ findings' \subseteq Finding
      /\ \A f, g \in findings' : f.brief = g.brief /\ f.of = g.of /\ f.n = g.n => f = g
  BY <1>5, <1>6, <1>7 DEF IntakeInv, TypeOK, Numbered
<1>9. \A f \in findings' :
        \/ \E g \in findings : g.of = f.of
        \/ f.of = proc[p].n /\ proc[p].pc = "critique" /\ x.pc \notin Fresh
  BY <1>2, <1>4, <1>5, <1>7 DEF At
<1> QED BY <1>2, <1>4, <1>8, <1>9, FindingsKeep

\* A status is written; the key of a finding never changes.
LEMMA StatusWritten ==
  ASSUME NEW f \in Finding, NEW s \in {"unresolved", "applied", "overridden", "resolved"}
  PROVE  /\ [f EXCEPT !.status = s] \in Finding
         /\ [f EXCEPT !.status = s].brief = f.brief /\ [f EXCEPT !.status = s].of = f.of
         /\ [f EXCEPT !.status = s].n = f.n
BY DEF Finding

LEMMA MarkAppliedKeeps ==
  ASSUME IntakeInv, NEW p \in Procs, MarkAppliedByRevisor(p)
  PROVE  IntakeInv'
<1>1. /\ At(p, "mark")
      /\ UNCHANGED <<brief, plans, published, catalog, memory, transforms, hist, requests,
                     mishaps>>
  BY DEF MarkAppliedByRevisor
<1>2. proc[p] \in Process /\ Sound(proc[p])
  BY ProcSound
<1>3. CASE End(p) /\ findings' = findings
  <2>1. Sound(Idle) /\ Idle.pc \notin Fresh /\ Idle.pc # "promote"
    BY IdleSound DEF Idle, Fresh
  <2>2. /\ findings' \subseteq Finding
        /\ \A f, g \in findings' : f.brief = g.brief /\ f.of = g.of /\ f.n = g.n => f = g
        /\ \A f \in findings' : \E g \in findings : g.of = f.of
    BY <1>3 DEF IntakeInv, TypeOK, Numbered
  <2>3. proc' = [proc EXCEPT ![p] = Idle]
    BY <1>3 DEF End
  <2> QED BY <1>1, <2>1, <2>2, <2>3, FindingsKeep
<1>4. CASE /\ findings' = {IF f \in Marked(p) THEN [f EXCEPT !.status = "applied"] ELSE f :
                             f \in findings}
           /\ proc' = [proc EXCEPT ![p].pc = "save", ![p].todo = {}]
  <2> DEFINE x == [proc[p] EXCEPT !.pc = "save", !.todo = {}]
  <2>1. proc' = [proc EXCEPT ![p] = x]
    BY <1>4 DEF IntakeInv, TypeOK
  <2>2. Sound(x) /\ x.pc \notin Fresh /\ x.pc # "promote"
    BY <1>1, <1>2 DEF Sound, Process, Fresh, At
  <2>3. \A h \in findings' : \E f \in findings :
          h \in Finding /\ h.brief = f.brief /\ h.of = f.of /\ h.n = f.n
                        /\ h = IF f \in Marked(p) THEN [f EXCEPT !.status = "applied"] ELSE f
    <3> SUFFICES ASSUME NEW h \in findings'
                 PROVE  \E f \in findings :
                          h \in Finding /\ h.brief = f.brief /\ h.of = f.of /\ h.n = f.n
                            /\ h = IF f \in Marked(p) THEN [f EXCEPT !.status = "applied"] ELSE f
      OBVIOUS
    <3>1. PICK f \in findings :
            h = IF f \in Marked(p) THEN [f EXCEPT !.status = "applied"] ELSE f
      BY <1>4
    <3>2. f \in Finding
      BY DEF IntakeInv, TypeOK
    <3>3. h \in Finding /\ h.brief = f.brief /\ h.of = f.of /\ h.n = f.n
      BY <3>1, <3>2, StatusWritten
    <3> QED BY <3>1, <3>3
  <2>4. /\ findings' \subseteq Finding
        /\ \A f, g \in findings' : f.brief = g.brief /\ f.of = g.of /\ f.n = g.n => f = g
        /\ \A f \in findings' : \E g \in findings : g.of = f.of
    BY <2>3 DEF IntakeInv, Numbered
  <2> HIDE DEF x
  <2> QED BY <1>1, <2>1, <2>2, <2>4, FindingsKeep
<1> QED BY <1>3, <1>4 DEF MarkAppliedByRevisor

LEMMA PatchFindingKeeps ==
  ASSUME IntakeInv, NEW f \in findings, NEW s \in {"overridden", "resolved"}, PatchFinding(f, s)
  PROVE  IntakeInv'
<1> DEFINE new == [f EXCEPT !.status = s]
<1>1. /\ findings' = (findings \ {f}) \cup {new}
      /\ UNCHANGED <<brief, plans, published, catalog, queues, page, proc, transforms, spoiled,
                     bare, requests, mishaps>>
      /\ TypeOK /\ Numbered /\ Placed
  BY DEF PatchFinding, memory, hist, IntakeInv
<1>2. f \in Finding
  BY <1>1 DEF TypeOK
<1>3. new \in Finding /\ new.brief = f.brief /\ new.of = f.of /\ new.n = f.n
  BY <1>2, StatusWritten
<1> HIDE DEF new
<1>4. TypeOK'
  BY <1>1, <1>3 DEF TypeOK
<1>5. Numbered'
  BY <1>1, <1>3 DEF Numbered
<1>6. Placed' /\ Promotions' /\ PromotedPlanFindsBrief'
  BY <1>1, SameBriefs, PromotionsStay DEF Placed, At
<1> QED BY <1>4, <1>5, <1>6 DEF IntakeInv

---------------------------------------------------------------------------
(* Requests that begin.                                                    *)

\* What it takes for a step that begins something and stores nothing.
LEMMA BeginKeeps ==
  ASSUME IntakeInv, NEW r \in Procs, NEW x, Sound(x), x.pc \notin Fresh, x.pc # "promote",
         proc' = [proc EXCEPT ![r] = x],
         UNCHANGED <<docs, page, transforms, bare>>, queues' \subseteq Seq(Briefs) \ {<<>>},
         requests' \in Nat, mishaps' \in Nat,
         NEW b \in Briefs, NEW a \in {"score", "stage", "plan", "edit", "promotion"},
         spoiled' \in {spoiled, spoiled \cup Overlapped(r, a, b)}
  PROVE  IntakeInv'
<1>1. /\ UNCHANGED <<brief, findings, plans, published, catalog, page, transforms, bare>>
      /\ TypeOK
  BY DEF docs, IntakeInv
<1>2. /\ proc' \in [Procs -> Process] /\ Placed' /\ Promotions' /\ PromotedPlanFindsBrief'
      /\ Numbered'
  BY <1>1, SameBriefs, MoveKeeps
<1>3. Overlapped(r, a, b) \subseteq Briefs \X {"score", "stage", "plan", "edit", "promotion"}
  BY DEF Overlapped, Writes
<1>4. spoiled' \subseteq Briefs \X {"score", "stage", "plan", "edit", "promotion"}
  BY <1>1, <1>3 DEF TypeOK
<1>5. TypeOK'
  BY <1>1, <1>2, <1>4 DEF TypeOK
<1> QED BY <1>2, <1>5 DEF IntakeInv

LEMMA PostScoreKeeps ==
  ASSUME IntakeInv, NEW r \in Requests, NEW b \in Briefs,
         PostScore(r, b) \/ PatchScore(r, b) \/ PostBuildPlan(r, b)
  PROVE  IntakeInv'
<1>1. PICK a \in {"score", "edit"}, pc \in {"read", "override", "edit"}, n \in Nat :
        Begin(r, a, b, pc, n) /\ transforms' = transforms
  <2>1. page[b] \in Nat
    BY DEF IntakeInv, TypeOK
  <2> QED BY <2>1 DEF PostScore, PatchScore, PostBuildPlan
<1> DEFINE x == [Idle EXCEPT !.pc = pc, !.aspect = a, !.brief = b, !.n = n]
<1>2. /\ proc' = [proc EXCEPT ![r] = x] /\ requests' = requests + 1
      /\ mishaps' \in {mishaps, mishaps + 1} /\ UNCHANGED <<docs, memory, bare>>
      /\ spoiled' = spoiled \cup Overlapped(r, a, b)
  BY <1>1 DEF Begin, Answered
<1>3. Sound(x) /\ x.pc \notin Fresh /\ x.pc # "promote"
  BY DEF Sound, Process, Idle, Fresh
<1>4. /\ queues' \subseteq Seq(Briefs) \ {<<>>} /\ requests' \in Nat /\ mishaps' \in Nat
      /\ UNCHANGED <<docs, page, transforms, bare>>
  BY <1>1, <1>2 DEF IntakeInv, TypeOK, memory
<1> HIDE DEF x
<1> QED BY <1>2, <1>3, <1>4, BeginKeeps DEF Procs


\* A stage move, of one brief or of the next of several.
LEMMA StageCheckSound ==
  ASSUME IntakeInv, NEW p \in Procs, NEW b \in Briefs, NEW to \in Stages,
         proc[p].pc \in {"idle", "bulk"}, StageCheck(p, b, to)
  PROVE  \E x : /\ Sound(x) /\ x.pc \notin Fresh /\ x.pc # "promote"
                /\ proc' = [proc EXCEPT ![p] = x]
<1> DEFINE x == [Idle EXCEPT !.pc = "stage", !.aspect = "stage", !.brief = b, !.stage = to,
                             !.todo = proc[p].todo \ {b}]
<1>1. proc[p].todo \subseteq Briefs
  BY ProcSound DEF Sound
<1>2. Sound(x) /\ x.pc \notin Fresh /\ x.pc # "promote"
  BY <1>1 DEF Sound, Process, Idle, Fresh
<1>3. proc' = [proc EXCEPT ![p] = x]
  BY DEF StageCheck
<1> HIDE DEF x
<1> QED BY <1>2, <1>3

LEMMA PostStageKeeps ==
  ASSUME IntakeInv, NEW r \in Requests, NEW b \in Briefs, NEW to \in Stages, PostStage(r, b, to)
  PROVE  IntakeInv'
<1>1. /\ proc[r].pc \in {"idle", "bulk"} /\ StageCheck(r, b, to) /\ r \in Procs
      /\ requests' = requests + 1 /\ mishaps' \in {mishaps, mishaps + 1}
      /\ UNCHANGED <<docs, memory, transforms, bare>>
      /\ spoiled' = spoiled \cup Overlapped(r, "stage", b)
  BY DEF PostStage, Active, Answered, Procs
<1>2. PICK x : /\ Sound(x) /\ x.pc \notin Fresh /\ x.pc # "promote"
               /\ proc' = [proc EXCEPT ![r] = x]
  BY <1>1, StageCheckSound
<1>3. /\ queues' \subseteq Seq(Briefs) \ {<<>>} /\ requests' \in Nat /\ mishaps' \in Nat
      /\ UNCHANGED <<docs, page, transforms, bare>>
  BY <1>1 DEF IntakeInv, TypeOK, memory
<1> QED BY <1>1, <1>2, <1>3, BeginKeeps

LEMMA PostBulkRetireKeeps ==
  ASSUME IntakeInv, NEW r \in Requests, NEW bs \in SUBSET Briefs, PostBulkRetire(r, bs)
  PROVE  IntakeInv'
<1> DEFINE x == [Idle EXCEPT !.pc = "bulk", !.todo = bs]
<1>1. /\ proc' = [proc EXCEPT ![r] = x] /\ r \in Procs /\ requests' = requests + 1
      /\ UNCHANGED <<docs, memory, transforms, hist, mishaps>> /\ bs # {}
  BY DEF PostBulkRetire, Answered, Procs
<1>2. Sound(x) /\ x.pc \notin Fresh /\ x.pc # "promote"
  BY DEF Sound, Process, Idle, Fresh, Stages
<1>3. /\ queues' \subseteq Seq(Briefs) \ {<<>>} /\ requests' \in Nat /\ mishaps' \in Nat
      /\ UNCHANGED <<docs, page, transforms, bare>> /\ spoiled' = spoiled
  BY <1>1 DEF IntakeInv, TypeOK, memory, hist
<1>4. PICK b \in Briefs : TRUE
  BY <1>1
<1> HIDE DEF x
<1> QED BY <1>1, <1>2, <1>3, <1>4, BeginKeeps

LEMMA RetireNextKeeps ==
  ASSUME IntakeInv, NEW p \in Procs, RetireNext(p)
  PROVE  IntakeInv'
<1>1. /\ At(p, "bulk") /\ UNCHANGED <<docs, memory, transforms, bare, requests, mishaps>>
  BY DEF RetireNext
<1>2. PICK b \in proc[p].todo :
        \/ StageCheck(p, b, "retired") /\ spoiled' = spoiled \cup Overlapped(p, "stage", b)
        \/ /\ proc' = [proc EXCEPT ![p] =
                IF proc[p].todo = {b} THEN Idle
                  ELSE [proc[p] EXCEPT !.todo = proc[p].todo \ {b}]]
           /\ spoiled' = spoiled
  BY DEF RetireNext
<1>3. /\ queues' \subseteq Seq(Briefs) \ {<<>>} /\ requests' \in Nat /\ mishaps' \in Nat
      /\ UNCHANGED <<docs, page, transforms, bare>>
  BY <1>1 DEF IntakeInv, TypeOK, memory
<1>4. proc[p] \in Process /\ Sound(proc[p]) /\ b \in Briefs
  BY <1>1, ProcSound DEF Sound, At
<1>5. PICK x : /\ Sound(x) /\ x.pc \notin Fresh /\ x.pc # "promote"
               /\ proc' = [proc EXCEPT ![p] = x]
  <2>1. CASE StageCheck(p, b, "retired")
    BY <1>1, <1>4, <2>1, StageCheckSound DEF At, Stages
  <2>2. CASE proc' = [proc EXCEPT ![p] =
               IF proc[p].todo = {b} THEN Idle
                 ELSE [proc[p] EXCEPT !.todo = proc[p].todo \ {b}]]
    <3> DEFINE x == IF proc[p].todo = {b} THEN Idle
                                          ELSE [proc[p] EXCEPT !.todo = proc[p].todo \ {b}]
    <3>1. proc' = [proc EXCEPT ![p] = x]
      BY <2>2 DEF IntakeInv, TypeOK
    <3>2. Sound(x) /\ x.pc \notin Fresh /\ x.pc # "promote"
      BY <1>1, <1>4, IdleSound DEF Sound, Process, Idle, Fresh, At
    <3> HIDE DEF x
    <3> QED BY <3>1, <3>2
  <2> QED BY <1>2, <2>1, <2>2
<1> QED BY <1>2, <1>3, <1>4, <1>5, BeginKeeps

LEMMA TakeNextKeeps ==
  ASSUME IntakeInv, NEW w \in Workers, TakeNext(w)
  PROVE  IntakeInv'
<1>0. PICK batch \in queues :
        /\ queues' = (queues \ {batch}) \cup ({Tail(batch)} \ {<<>>})
        /\ proc' = [proc EXCEPT ![w] = [Idle EXCEPT !.pc = "read", !.aspect = "score",
                                                    !.brief = Head(batch)]]
        /\ spoiled' = spoiled \cup Overlapped(w, "score", Head(batch))
  BY DEF TakeNext
<1> DEFINE b == Head(batch)
           x == [Idle EXCEPT !.pc = "read", !.aspect = "score", !.brief = b]
<1>1. /\ proc' = [proc EXCEPT ![w] = x] /\ w \in Procs
      /\ spoiled' = spoiled \cup Overlapped(w, "score", b)
      /\ UNCHANGED <<docs, page, transforms, bare, requests, mishaps>>
  BY <1>0 DEF TakeNext, Procs
<1>2. b \in Briefs /\ queues' \subseteq Seq(Briefs) \ {<<>>} /\ requests' \in Nat /\ mishaps' \in Nat
  <2>1. /\ queues \subseteq Seq(Briefs) \ {<<>>} /\ batch \in Seq(Briefs) /\ batch # <<>>
        /\ requests \in Nat /\ mishaps \in Nat
    BY DEF IntakeInv, TypeOK
  <2>2. Head(batch) \in Briefs /\ Tail(batch) \in Seq(Briefs)
    BY <2>1, HeadTailProperties
  <2> QED BY <1>0, <1>1, <2>1, <2>2
<1>3. Sound(x) /\ x.pc \notin Fresh /\ x.pc # "promote"
  BY <1>2 DEF Sound, Process, Idle, Fresh
<1> HIDE DEF b, x
<1> QED BY <1>1, <1>2, <1>3, BeginKeeps

\* A new transform has a number nobody has.
LEMMA PostTransformKeeps ==
  ASSUME IntakeInv, NEW r \in Requests, NEW b \in Briefs, PostTransform(r, b)
  PROVE  IntakeInv'
<1> DEFINE x == [Idle EXCEPT !.pc = "draft", !.aspect = "plan", !.brief = b,
                             !.n = transforms + 1]
<1>1. /\ r \in Procs /\ transforms' = transforms + 1 /\ proc' = [proc EXCEPT ![r] = x]
      /\ requests' = requests + 1 /\ mishaps' \in {mishaps, mishaps + 1}
      /\ UNCHANGED <<brief, findings, plans, published, catalog, queues, page, bare>>
      /\ spoiled' = spoiled \cup Overlapped(r, "plan", b)
      /\ TypeOK /\ Numbered
  BY DEF PostTransform, Begin, Answered, Procs, docs, memory, IntakeInv
<1>2. Sound(x) /\ x.n = transforms + 1 /\ x.pc = "draft" /\ transforms \in Nat
  <2>1. transforms \in Nat /\ transforms + 1 \in Nat
    BY <1>1 DEF TypeOK
  <2> QED BY <2>1 DEF Sound, Process, Idle, Stages
<1> HIDE DEF x
<1>3. /\ proc' \in [Procs -> Process] /\ Placed'
      /\ proc'[r] = x /\ \A q \in Procs \ {r} : proc'[q] = proc[q]
  BY <1>1, <1>2, ProcMoves
<1>4. Promotions' /\ PromotedPlanFindsBrief'
  BY <1>1, <1>2, <1>3, SameBriefs, PromotionsStay
<1>5. Overlapped(r, "plan", b) \subseteq Briefs \X {"score", "stage", "plan", "edit", "promotion"}
  BY DEF Overlapped, Writes
<1>6. TypeOK'
  <2>1. spoiled' \subseteq Briefs \X {"score", "stage", "plan", "edit", "promotion"}
    BY <1>1, <1>5 DEF TypeOK
  <2> QED BY <1>1, <1>2, <1>3, <2>1 DEF TypeOK
<1>7. Numbered'
  <2>1. /\ \A f \in findings : f.of \in Nat
        /\ \A q \in Procs : proc[q].n \in Nat
    BY <1>1 DEF TypeOK, Finding, Process
  <2>2. \A f \in findings' : f.of <= transforms' /\ f.of # transforms'
    BY <1>1, <1>2, <2>1 DEF Numbered
  <2>3. ASSUME NEW p \in Procs, proc'[p].pc \in Fresh
        PROVE  /\ proc'[p].n <= transforms'
               /\ \A f \in findings' : f.of # proc'[p].n
               /\ \A q \in Procs : proc'[q].pc \in Fresh /\ proc'[q].n = proc'[p].n => p = q
    <3>1. \A q \in Procs \ {r} : proc'[q].pc \in Fresh => proc'[q].n <= transforms
      BY <1>1, <1>3 DEF Numbered
    <3>2. CASE p = r
      BY <1>1, <1>2, <1>3, <2>1, <2>2, <3>1, <3>2
    <3>3. CASE p # r
      <4>1. proc'[p] = proc[p] /\ proc[p].pc \in Fresh /\ proc'[p].n <= transforms
        BY <1>3, <2>3, <3>1, <3>3
      <4>2. proc'[p].n \in Nat /\ proc'[p].n # proc'[r].n /\ proc'[p].n <= transforms'
        BY <1>1, <1>2, <1>3, <2>1, <4>1
      <4> QED BY <1>1, <1>3, <4>1, <4>2 DEF Numbered
    <3> QED BY <3>2, <3>3
  <2>4. \A f, g \in findings' : f.brief = g.brief /\ f.of = g.of /\ f.n = g.n => f = g
    BY <1>1 DEF Numbered
  <2> QED BY <2>2, <2>3, <2>4 DEF Numbered
<1> QED BY <1>3, <1>4, <1>6, <1>7 DEF IntakeInv

\* A plan is promoted from a brief of the store.
LEMMA PlansSound ==
  ASSUME IntakeInv, NEW k \in DOMAIN plans
  PROVE  k \in Nat \ {0} /\ plans[k] \in Briefs \cup {None}
<1>1. plans \in Seq(Briefs \cup {None})
  BY DEF IntakeInv, TypeOK
<1> QED BY <1>1, LenProperties, ElementOfSeq

\* A brief nobody else promotes is promoted only while it names no plan.
LEMMA PostPromoteKeeps ==
  ASSUME IntakeInv, NEW r \in Requests, NEW b \in Briefs, PostPromote(r, b)
  PROVE  IntakeInv'
<1> DEFINE x == [Idle EXCEPT !.pc = "promote", !.aspect = "promotion", !.brief = b, !.n = 0]
<1>1. /\ r \in Procs /\ proc' = [proc EXCEPT ![r] = x]
      /\ requests' = requests + 1 /\ mishaps' \in {mishaps, mishaps + 1}
      /\ UNCHANGED <<brief, findings, plans, published, catalog, queues, page, bare, transforms>>
      /\ spoiled' = spoiled \cup Overlapped(r, "promotion", b)
      /\ TypeOK /\ Numbered /\ Promotions /\ PromotedPlanFindsBrief /\ Placed
      /\ Stored(b) /\ brief[b].promoted = 0
  BY DEF PostPromote, Begin, Answered, Procs, docs, memory, IntakeInv
<1>2. Sound(x) /\ x.pc = "promote" /\ x.aspect = "promotion" /\ x.brief = b
  BY DEF Sound, Process, Idle, Stages
<1> HIDE DEF x
<1>3. /\ proc' \in [Procs -> Process] /\ Placed'
      /\ proc'[r] = x /\ \A q \in Procs \ {r} : proc'[q] = proc[q]
  BY <1>1, <1>2, ProcMoves
<1>4. spoiled' \subseteq Briefs \X {"score", "stage", "plan", "edit", "promotion"}
  BY <1>1 DEF TypeOK, Overlapped, Writes
<1>5. TypeOK'
  BY <1>1, <1>3, <1>4 DEF TypeOK
<1>6. Numbered'
  BY <1>1, <1>2, <1>3, NumberedStays DEF Fresh
<1>7. PromotedPlanFindsBrief'
  BY <1>1 DEF PromotedPlanFindsBrief, Stored
<1>8. ASSUME <<b, "promotion">> \notin spoiled'
      PROVE  /\ \A k \in DOMAIN plans : plans[k] # b
             /\ \A q \in Procs \ {r} : ~(At(q, "promote") /\ proc[q].brief = b)
  <2>1. \A k \in DOMAIN plans : plans[k] # b
    BY <1>1, <1>8, PlansSound, ProcsAssumption DEF PromotedPlanFindsBrief
  <2>2. ASSUME NEW q \in Procs \ {r}, At(q, "promote"), proc[q].brief = b PROVE FALSE
    <3>1. "promotion" \in Writes("promotion") /\ proc[q].aspect = "promotion"
      BY <1>1, <2>2 DEF Writes, Promotions
    <3>2. <<b, "promotion">> \in Overlapped(r, "promotion", b)
      BY <2>2, <3>1 DEF Overlapped
    <3> QED BY <1>1, <1>8, <3>2
  <2> QED BY <2>1, <2>2
<1>9. ASSUME NEW p \in Procs, At(p, "promote")'
      PROVE  LET c == proc'[p].brief
             IN  /\ proc'[p].aspect = "promotion" /\ brief'[c].is # "new"
                 /\ <<c, "promotion">> \notin spoiled' =>
                      /\ \A k \in DOMAIN plans' : plans'[k] # c
                      /\ \A q \in Procs : At(q, "promote")' /\ proc'[q].brief = c => p = q
  <2>1. CASE p = r
    BY <1>1, <1>2, <1>3, <1>8, <2>1 DEF At, Stored
  <2>2. CASE p # r
    <3>1. proc'[p] = proc[p] /\ At(p, "promote")
      BY <1>3, <1>9, <2>2 DEF At
    <3> QED BY <1>1, <1>2, <1>3, <1>8, <2>2, <3>1 DEF At, Promotions
  <2> QED BY <2>1, <2>2
<1>10. Promotions'
  BY <1>1, <1>9 DEF Promotions
<1> QED BY <1>3, <1>5, <1>6, <1>7, <1>10 DEF IntakeInv

---------------------------------------------------------------------------
(* Steps that move no process.                                             *)

LEMMA BriefsChange ==
  ASSUME IntakeInv, brief' \in [Briefs -> BriefDoc], BriefsKept,
         queues' \subseteq Seq(Briefs) \ {<<>>}, page' \in [Briefs -> Nat],
         spoiled \subseteq spoiled',
         spoiled' \subseteq Briefs \X {"score", "stage", "plan", "edit", "promotion"},
         UNCHANGED <<findings, plans, published, catalog, proc, transforms, bare, requests,
                     mishaps>>
  PROVE  IntakeInv'
<1>1. TypeOK /\ Placed /\ Numbered
  BY DEF IntakeInv
<1>2. Promotions' /\ PromotedPlanFindsBrief'
  BY PromotionsStay
<1>3. Placed' /\ Numbered'
  BY <1>1, NumberedStays DEF Placed, At
<1>4. TypeOK'
  BY <1>1 DEF TypeOK, BriefDoc
<1> QED BY <1>2, <1>3, <1>4 DEF IntakeInv

LEMMA CreateKeeps ==
  ASSUME IntakeInv, NEW b \in Briefs, CreatePipelineBrief(b) \/ GetBriefPage(b)
  PROVE  IntakeInv'
<1>1. /\ brief \in [Briefs -> BriefDoc] /\ page \in [Briefs -> Nat] /\ queues \subseteq Seq(Briefs) \ {<<>>}
      /\ spoiled \subseteq Briefs \X {"score", "stage", "plan", "edit", "promotion"}
      /\ TypeOK
  BY DEF IntakeInv, TypeOK, BriefDoc
<1>2. CASE CreatePipelineBrief(b)
  <2>1. brief' \in [Briefs -> BriefDoc] /\ BriefsKept
    BY <1>1, <1>2 DEF CreatePipelineBrief, BriefDoc, BriefsKept
  <2> QED BY <1>1, <1>2, <2>1, BriefsChange DEF CreatePipelineBrief, hist, memory
<1>3. CASE GetBriefPage(b)
  <2>1. brief' = brief /\ page' \in [Briefs -> Nat]
    BY <1>1, <1>3 DEF GetBriefPage, docs, BriefDoc
  <2> QED BY <1>1, <1>3, <2>1, SameBriefs, BriefsChange DEF GetBriefPage, hist, docs
<1> QED BY <1>2, <1>3

LEMMA CreateBatchKeeps ==
  ASSUME IntakeInv, NEW bs \in Batches, CreateBriefBatchWithScoring(bs)
  PROVE  IntakeInv'
<1>1. /\ brief \in [Briefs -> BriefDoc] /\ page \in [Briefs -> Nat]
      /\ spoiled \subseteq Briefs \X {"score", "stage", "plan", "edit", "promotion"}
      /\ queues \subseteq Seq(Briefs) \ {<<>>}
  BY DEF IntakeInv, TypeOK, BriefDoc
<1>2. bs \in Seq(Briefs) \ {<<>>} /\ queues' = queues \cup {bs}
  <2>1. PICK n \in 1 .. Cardinality(Briefs) : bs \in [1 .. n -> Briefs]
    BY DEF Batches
  <2>2. 1 \in DOMAIN bs /\ bs \in Seq(Briefs)
    BY <2>1
  <2>3. bs # <<>>
    BY <2>2
  <2> QED BY <2>2, <2>3 DEF CreateBriefBatchWithScoring
<1>3. brief' \in [Briefs -> BriefDoc] /\ BriefsKept
  BY <1>1 DEF CreateBriefBatchWithScoring, BriefDoc, BriefsKept
<1> QED BY <1>1, <1>2, <1>3, BriefsChange DEF CreateBriefBatchWithScoring, hist

LEMMA DeleteKeeps ==
  ASSUME IntakeInv, NEW bs \in SUBSET Briefs, ApplyBulkDelete(bs)
  PROVE  IntakeInv'
<1>1. /\ brief \in [Briefs -> BriefDoc] /\ page \in [Briefs -> Nat] /\ queues \subseteq Seq(Briefs) \ {<<>>}
      /\ spoiled \subseteq Briefs \X {"score", "stage", "plan", "edit", "promotion"}
  BY DEF IntakeInv, TypeOK, BriefDoc
<1>2. brief' \in [Briefs -> BriefDoc] /\ BriefsKept
  BY <1>1 DEF ApplyBulkDelete, DeletePipelineBriefs, BriefDoc, BriefsKept
<1>3. /\ spoiled \subseteq spoiled'
      /\ spoiled' \subseteq Briefs \X {"score", "stage", "plan", "edit", "promotion"}
  BY <1>1 DEF ApplyBulkDelete, DeletePipelineBriefs
<1> QED BY <1>1, <1>2, <1>3, BriefsChange DEF ApplyBulkDelete, DeletePipelineBriefs, memory

---------------------------------------------------------------------------
(* Plans: promotion and publication.                                       *)

LEMMA DirectPlanKeeps ==
  ASSUME IntakeInv, CreateYoutubeAdvancedPlanDirect
  PROVE  IntakeInv'
<1>1. /\ TypeOK /\ Placed /\ Numbered /\ Promotions /\ PromotedPlanFindsBrief
      /\ plans' = Append(plans, None) /\ requests' = requests + 1
      /\ UNCHANGED <<brief, findings, published, catalog, queues, page, proc, transforms,
                     spoiled, bare, mishaps>>
  BY DEF IntakeInv, CreateYoutubeAdvancedPlanDirect, Answered, memory, hist
<1>2. plans \in Seq(Briefs \cup {None})
  BY <1>1 DEF TypeOK
<1>3. /\ plans' \in Seq(Briefs \cup {None})
      /\ \A k \in DOMAIN plans' : plans'[k] = None \/ (k \in DOMAIN plans /\ plans'[k] = plans[k])
  BY <1>1, <1>2, AppendProperties
<1>4. TypeOK'
  BY <1>1, <1>3 DEF TypeOK
<1>5. PromotedPlanFindsBrief'
  BY <1>1, <1>3 DEF PromotedPlanFindsBrief, Stored
<1>6. Promotions'
  BY <1>1, <1>3, ProcsAssumption DEF Promotions, Placed, At
<1>7. Placed' /\ Numbered'
  BY <1>1, NumberedStays DEF Placed, At
<1> QED BY <1>4, <1>5, <1>6, <1>7 DEF IntakeInv

\* A promotion makes the plan and names it in one batch.
LEMMA PromoteCommitKeeps ==
  ASSUME IntakeInv, NEW p \in Procs, PromoteCommit(p)
  PROVE  IntakeInv'
<1> DEFINE b == proc[p].brief
           k0 == Len(plans) + 1
           d == [brief[b] EXCEPT !.stage = "selected", !.promoted = k0]
<1>1. /\ TypeOK /\ Placed /\ Numbered /\ Promotions /\ PromotedPlanFindsBrief
      /\ At(p, "promote") /\ proc' = [proc EXCEPT ![p] = Idle]
      /\ UNCHANGED <<findings, published, catalog, queues, page, transforms, spoiled, bare,
                     requests, mishaps>>
  BY DEF IntakeInv, PromoteCommit, End, memory, hist
<1>2. b \in Briefs /\ plans \in Seq(Briefs \cup {None}) /\ b # None /\ brief[b] \in BriefDoc
  BY <1>1, ProcSound, ProcsAssumption DEF TypeOK, Sound, At, BriefDoc
<1>3. /\ proc' \in [Procs -> Process] /\ Placed'
      /\ proc'[p] = Idle /\ \A q \in Procs \ {p} : proc'[q] = proc[q]
  BY <1>1, IdleSound, ProcMoves
<1>4. Numbered'
  BY <1>1, <1>3, NumberedStays DEF Idle, Fresh
<1>5. CASE ~Stored(b)
  <2>1. UNCHANGED <<plans, brief>>
    BY <1>5 DEF PromoteCommit
  <2>2. BriefsKept
    BY <1>1, <2>1, SameBriefs
  <2>3. Promotions' /\ PromotedPlanFindsBrief'
    BY <1>1, <1>3, <2>1, <2>2, PromotionsStay DEF Idle
  <2>4. TypeOK'
    BY <1>1, <1>3, <2>1 DEF TypeOK
  <2> QED BY <1>3, <1>4, <2>3, <2>4 DEF IntakeInv
<1>6. CASE Stored(b)
  <2>1. plans' = Append(plans, b)
    BY <1>6 DEF PromoteCommit
  <2>2. /\ plans' \in Seq(Briefs \cup {None}) /\ Len(plans') = k0 /\ k0 \in Nat
        /\ DOMAIN plans' = DOMAIN plans \cup {k0} /\ plans'[k0] = b
        /\ \A k \in DOMAIN plans : plans'[k] = plans[k]
    <3>1. /\ Len(plans) \in Nat /\ DOMAIN plans = 1 .. Len(plans)
          /\ DOMAIN plans' = 1 .. Len(plans')
      BY <1>2, <2>1, AppendProperties, LenProperties
    <3> QED BY <1>2, <2>1, <3>1, AppendProperties
  <2>3. brief' = [brief EXCEPT ![b] = d]
    BY <1>2, <1>6, <2>2 DEF PromoteCommit, IntakeInv, TypeOK
  <2>4. /\ d \in BriefDoc /\ d.is = brief[b].is /\ d.promoted = k0
    BY <1>2, <2>2 DEF BriefDoc, Stages
  <2>5. /\ brief'[b] = d /\ \A c \in Briefs \ {b} : brief'[c] = brief[c]
        /\ brief' \in [Briefs -> BriefDoc]
    BY <1>1, <1>2, <2>3, <2>4 DEF TypeOK, BriefDoc
  <2> HIDE DEF b, d, k0
  <2>6. \A k \in DOMAIN plans : k \in Nat /\ plans[k] \in Briefs \cup {None}
    BY PlansSound
  <2>7. <<b, "promotion">> \notin spoiled => \A k \in DOMAIN plans : plans[k] # b
    BY <1>1 DEF Promotions, b
  <2>8. PromotedPlanFindsBrief'
    <3> SUFFICES ASSUME NEW k \in DOMAIN plans', NEW c, c = plans'[k], c # None, Stored(c)',
                        <<c, "promotion">> \notin spoiled
                 PROVE  brief'[c].promoted = k
      BY <1>1 DEF PromotedPlanFindsBrief
    <3>1. CASE k = k0
      BY <2>2, <2>4, <2>5, <3>1
    <3>2. CASE k \in DOMAIN plans
      <4>1. c = plans[k] /\ c \in Briefs /\ c # b
        BY <2>2, <2>6, <2>7, <3>2
      <4> QED BY <1>1, <2>5, <3>2, <4>1 DEF PromotedPlanFindsBrief, Stored
    <3> QED BY <2>2, <3>1, <3>2
  <2>9. Promotions'
    <3>1. \A k \in DOMAIN plans' : plans'[k] # None => brief'[plans'[k]].is # "new"
      BY <1>1, <1>6, <2>2, <2>4, <2>5, <2>6 DEF Promotions, Stored
    <3>2. ASSUME NEW q \in Procs, At(q, "promote")'
          PROVE  LET c == proc'[q].brief
                 IN  /\ proc'[q].aspect = "promotion" /\ brief'[c].is # "new"
                     /\ <<c, "promotion">> \notin spoiled' =>
                          /\ \A k \in DOMAIN plans' : plans'[k] # c
                          /\ \A r \in Procs : At(r, "promote")' /\ proc'[r].brief = c => q = r
      <4>1. q # p /\ proc'[q] = proc[q] /\ At(q, "promote") /\ proc[q].brief \in Briefs
        BY <1>1, <1>3, <3>2 DEF At, Idle, Placed
      <4>2. <<proc[q].brief, "promotion">> \notin spoiled => proc[q].brief # b
        BY <1>1, <4>1 DEF Promotions, b
      <4>3. \A r \in Procs : At(r, "promote")' => At(r, "promote") /\ proc'[r] = proc[r]
        BY <1>3 DEF At, Idle
      <4> QED BY <1>1, <2>2, <2>4, <2>5, <4>1, <4>2, <4>3 DEF Promotions
    <3> QED BY <3>1, <3>2 DEF Promotions
  <2>10. TypeOK'
    BY <1>1, <1>3, <2>2, <2>5 DEF TypeOK, BriefDoc
  <2> QED BY <1>3, <1>4, <2>8, <2>9, <2>10 DEF IntakeInv
<1> QED BY <1>5, <1>6

LEMMA PublicationKeeps ==
  ASSUME IntakeInv, NEW p \in Procs, NEW x, Sound(x), x.pc \notin Fresh, x.pc # "promote",
         proc' = [proc EXCEPT ![p] = x],
         published' \subseteq Nat, catalog' \subseteq Nat, bare' \subseteq Nat,
         requests' \in Nat, mishaps' \in Nat,
         UNCHANGED <<brief, findings, plans, queues, page, transforms, spoiled>>
  PROVE  IntakeInv'
<1>1. TypeOK
  BY DEF IntakeInv
<1>2. /\ proc' \in [Procs -> Process] /\ Placed' /\ Promotions' /\ PromotedPlanFindsBrief'
      /\ Numbered'
  BY <1>1, SameBriefs, MoveKeeps
<1>3. TypeOK'
  BY <1>1, <1>2 DEF TypeOK
<1> QED BY <1>2, <1>3 DEF IntakeInv

LEMMA PostPublishKeeps ==
  ASSUME IntakeInv, NEW r \in Requests, NEW k \in DOMAIN plans,
         NEW hasId \in BOOLEAN, PostPublish(r, k, hasId)
  PROVE  IntakeInv'
<1> DEFINE x == [Idle EXCEPT !.pc = IF hasId THEN "lookup" ELSE "skip", !.n = k]
<1>1. /\ r \in Procs /\ published' = published \cup {k} /\ bare' \in {bare \ {k}, bare \cup {k}}
      /\ proc' = [proc EXCEPT ![r] = x]
      /\ requests' = requests + 1 /\ mishaps' \in {mishaps, mishaps + 1}
      /\ UNCHANGED <<brief, findings, plans, catalog, queues, page, transforms, spoiled>>
  BY DEF PostPublish, Answered, Procs, memory
<1>2. k \in Nat
  BY PlansSound
<1>3. Sound(x) /\ x.pc \notin Fresh /\ x.pc # "promote"
  <2>1. /\ x.pc \in {"lookup", "skip"} /\ x.aspect = "none" /\ x.brief = None /\ x.n = k
        /\ x.stage = "none" /\ x.todo = {} /\ x.found = {} /\ x \in Process
    BY <1>2 DEF Process, Idle, Stages
  <2> HIDE DEF x
  <2> QED BY <2>1 DEF Sound, Fresh
<1>4. /\ published' \subseteq Nat /\ catalog' \subseteq Nat /\ bare' \subseteq Nat
      /\ requests' \in Nat /\ mishaps' \in Nat
  BY <1>1, <1>2 DEF IntakeInv, TypeOK
<1> HIDE DEF x
<1> QED BY <1>1, <1>3, <1>4, PublicationKeeps

LEMMA LookUpKeeps ==
  ASSUME IntakeInv, NEW p \in Procs, LookUpBrief(p)
  PROVE  IntakeInv'
<1>1. /\ catalog' \in {catalog, catalog \cup {proc[p].n}} /\ proc' = [proc EXCEPT ![p] = Idle]
      /\ UNCHANGED <<brief, findings, plans, published, queues, page, transforms, spoiled, bare,
                     requests, mishaps>>
  BY DEF LookUpBrief, End, memory, hist
<1>2. proc[p].n \in Nat
  BY ProcSound DEF Process
<1>3. Sound(Idle) /\ Idle.pc \notin Fresh /\ Idle.pc # "promote"
  BY IdleSound DEF Idle, Fresh
<1>4. /\ published' \subseteq Nat /\ catalog' \subseteq Nat /\ bare' \subseteq Nat
      /\ requests' \in Nat /\ mishaps' \in Nat
  BY <1>1, <1>2 DEF IntakeInv, TypeOK
<1> QED BY <1>1, <1>3, <1>4, PublicationKeeps

LEMMA CrashKeeps ==
  ASSUME IntakeInv, Crash
  PROVE  IntakeInv'
<1>1. /\ TypeOK /\ Numbered
      /\ UNCHANGED <<brief, findings, plans, published, catalog, page, transforms, requests>>
      /\ proc' = [p \in Procs |-> Idle] /\ queues' = {} /\ mishaps' = mishaps + 1
      /\ spoiled' = spoiled \cup UNION {CutOff(p) : p \in Procs}
      /\ bare' = bare \cup {k \in published : \E p \in Procs : At(p, "lookup") /\ proc[p].n = k}
  BY DEF IntakeInv, Crash, docs
<1>2. \A p \in Procs : proc'[p] = Idle /\ Idle \in Process /\ Idle.todo = {} /\ Idle.pc = "idle"
  BY <1>1, IdleSound DEF Sound, Idle
<1>3. proc' \in [Procs -> Process] /\ Placed'
  BY <1>1, <1>2 DEF Placed, At
<1>4. Promotions' /\ PromotedPlanFindsBrief'
  BY <1>1, <1>2, SameBriefs, PromotionsStay
<1>5. Numbered'
  BY <1>1, <1>2, NumberedStays DEF Fresh
<1>6. spoiled' \subseteq Briefs \X {"score", "stage", "plan", "edit", "promotion"}
  BY <1>1 DEF TypeOK, CutOff
<1>7. TypeOK'
  <2>0. bare \subseteq Nat /\ published \subseteq Nat /\ mishaps \in Nat
    BY <1>1 DEF TypeOK
  <2>1. queues' \subseteq Seq(Briefs) \ {<<>>} /\ bare' \subseteq Nat /\ mishaps' \in Nat
    <3>1. bare' \subseteq bare \cup published
      BY <1>1
    <3>2. queues' \subseteq Seq(Briefs) \ {<<>>}
      BY <1>1
    <3>3. bare' \subseteq Nat
      BY <2>0, <3>1
    <3>4. mishaps' \in Nat
      BY <1>1, <2>0
    <3> QED BY <3>2, <3>3, <3>4
  <2>2. /\ brief' \in [Briefs -> BriefDoc] /\ findings' \subseteq Finding
        /\ plans' \in Seq(Briefs \cup {None}) /\ published' \subseteq Nat
        /\ catalog' \subseteq Nat /\ page' \in [Briefs -> Nat] /\ transforms' \in Nat
        /\ requests' \in Nat
    BY <1>1 DEF TypeOK, BriefDoc
  <2> QED BY <1>3, <1>6, <2>1, <2>2 DEF TypeOK, BriefDoc
<1> QED BY <1>3, <1>4, <1>5, <1>7 DEF IntakeInv

---------------------------------------------------------------------------
(* The invariant.                                                          *)

LEMMA InitIntake == Init => IntakeInv
<1> SUFFICES ASSUME Init PROVE IntakeInv
  OBVIOUS
<1>1. /\ \A b \in Briefs : NewBrief \in BriefDoc
      /\ brief = [b \in Briefs |-> NewBrief]
  BY DEF Init, NewBrief, BriefDoc, Stages, Scores, Unscored
<1>2. \A p \in Procs : proc[p] = Idle /\ Sound(Idle) /\ Idle.pc = "idle"
  BY IdleSound DEF Init, Idle
<1>3. proc \in [Procs -> Process] /\ Placed
  BY <1>2, IdleSound DEF Init, Sound, Placed, At
<1>4. TypeOK
  BY <1>1, <1>3, EmptySeq DEF Init, TypeOK, BriefDoc
<1>5. Numbered /\ Promotions /\ PromotedPlanFindsBrief
  BY <1>2 DEF Init, Numbered, Promotions, PromotedPlanFindsBrief, Fresh, At
<1> QED BY <1>3, <1>4, <1>5 DEF IntakeInv

LEMMA StepIntake == IntakeInv /\ [Next]_vars => IntakeInv'
<1> SUFFICES ASSUME IntakeInv, [Next]_vars PROVE IntakeInv'
  OBVIOUS
<1>1. CASE \E b \in Briefs : CreatePipelineBrief(b) \/ GetBriefPage(b)
  BY <1>1, CreateKeeps
<1>2. CASE \E bs \in Batches : CreateBriefBatchWithScoring(bs)
  BY <1>2, CreateBatchKeeps
<1>3. CASE \E bs \in SUBSET Briefs : ApplyBulkDelete(bs)
  BY <1>3, DeleteKeeps
<1>4. CASE \E f \in findings : PostOverride(f) \/ PostResolve(f)
  BY <1>4, PatchFindingKeeps DEF PostOverride, PostResolve
<1>5. CASE CreateYoutubeAdvancedPlanDirect
  BY <1>5, DirectPlanKeeps
<1>6. CASE \E r \in Requests : Routes(r)
  <2> PICK r \in Requests : Routes(r)
    BY <1>6
  <2>1. CASE \E b \in Briefs : PostScore(r, b) \/ PatchScore(r, b) \/ PostBuildPlan(r, b)
    BY <2>1, PostScoreKeeps
  <2>2. CASE \E b \in Briefs : PostTransform(r, b)
    BY <2>2, PostTransformKeeps
  <2>3. CASE \E b \in Briefs : PostPromote(r, b)
    BY <2>3, PostPromoteKeeps
  <2>4. CASE \E b \in Briefs, to \in Stages : PostStage(r, b, to)
    BY <2>4, PostStageKeeps
  <2>5. CASE \E bs \in SUBSET Briefs : PostBulkRetire(r, bs)
    BY <2>5, PostBulkRetireKeeps
  <2>6. CASE \E k \in DOMAIN plans, hasId \in BOOLEAN : PostPublish(r, k, hasId)
    BY <2>6, PostPublishKeeps
  <2> QED BY <2>1, <2>2, <2>3, <2>4, <2>5, <2>6 DEF Routes
<1>7. CASE \E w \in Workers : TakeNext(w)
  BY <1>7, TakeNextKeeps
<1>8. CASE \E p \in Procs : Work(p) \/ GivesUp(p) \/ StoreFault(p)
  <2> PICK p \in Procs : Work(p) \/ GivesUp(p) \/ StoreFault(p)
    BY <1>8
  <2>1. CASE ScoreRead(p) \/ ScoreFails(p) \/ NoFindings(p) \/ GivesUp(p)
    BY <2>1, ScoreReadKeeps
  <2>2. CASE ScoreSave(p) \/ OverrideScore(p)
    BY <2>2, ScoreSaveKeeps
  <2>3. CASE RetireNext(p)
    BY <2>3, RetireNextKeeps
  <2>4. CASE StageSave(p)
    BY <2>4, StageSaveKeeps
  <2>5. CASE Drafted(p) \/ QueryFindings(p) \/ Revise(p)
    BY <2>5, DraftedKeeps, QueryFindingsKeeps, ReviseKeeps
  <2>6. CASE UnlinkFindings(p) \/ PersistFindings(p) \/ MarkAppliedByRevisor(p)
    BY <2>6, UnlinkFindingsKeeps, PersistFindingsKeeps, MarkAppliedKeeps
  <2>7. CASE SavePlan(p) \/ EditBuildPlan(p)
    BY <2>7, SavePlanKeeps
  <2>8. CASE SavePlanFault(p) \/ StoreFault(p)
    BY <2>8, SavePlanFaultKeeps
  <2>9. CASE PromoteCommit(p)
    BY <2>9, PromoteCommitKeeps
  <2>10. CASE LookUpBrief(p)
    BY <2>10, LookUpKeeps
  <2> QED BY <2>1, <2>2, <2>3, <2>4, <2>5, <2>6, <2>7, <2>8, <2>9, <2>10
          DEF Work, Scoring, Transforming
<1>9. CASE Crash
  BY <1>9, CrashKeeps
<1>10. CASE UNCHANGED vars
  <2>1. /\ UNCHANGED <<brief, findings, plans, published, catalog, queues, page, proc,
                       transforms, spoiled, bare, requests, mishaps>>
        /\ brief \in [Briefs -> BriefDoc] /\ queues \subseteq Seq(Briefs) \ {<<>>}
        /\ page \in [Briefs -> Nat]
        /\ spoiled \subseteq Briefs \X {"score", "stage", "plan", "edit", "promotion"}
        /\ TypeOK
    BY <1>10 DEF vars, IntakeInv, TypeOK, BriefDoc
  <2> QED BY <2>1, SameBriefs, BriefsChange
<1> QED BY <1>1, <1>2, <1>3, <1>4, <1>5, <1>6, <1>7, <1>8, <1>9, <1>10 DEF Next

LEMMA IntakeAlways == Spec => []IntakeInv
BY InitIntake, StepIntake, PTL DEF Spec

\* Every variable of the intake keeps its type, whatever requests, workers,
\* failing writes and crashes interleave.
THEOREM IntakeTypes == Spec => []TypeOK
<1>1. IntakeInv => TypeOK
  BY DEF IntakeInv
<1> QED BY <1>1, IntakeAlways, PTL

\* publishDeliverable looks a brief up by the plan it names: however scores,
\* edits and stage moves overlap a promotion, the plan made by it is that one,
\* unless two promotions of the brief did.
THEOREM PromotedPlansFindBrief == Spec => []PromotedPlanFindsBrief
<1>1. IntakeInv => PromotedPlanFindsBrief
  BY DEF IntakeInv
<1> QED BY <1>1, IntakeAlways, PTL

---------------------------------------------------------------------------
(* Verdicts.                                                               *)

\* A step that leaves every finding of a key as it is, or drops it.
LEMMA VerdictsOf ==
  ASSUME Numbered, findings' \subseteq findings
  PROVE  \A f \in findings : f.status \in {"overridden", "resolved"} =>
           \A g \in findings' :
             g.brief = f.brief /\ g.of = f.of /\ g.n = f.n =>
               g.status \in {"overridden", "resolved"}
BY DEF Numbered

\* What VerdictStands says of one step.
StepKeepsVerdicts ==
  \A f \in findings : f.status \in {"overridden", "resolved"} =>
    \A g \in findings' :
      g.brief = f.brief /\ g.of = f.of /\ g.n = f.n =>
        \/ g.status \in {"overridden", "resolved"}
        \/ \E p \in Procs : At(p, "mark") /\ proc[p].n = f.of

LEMMA FindingsWritten ==
  ASSUME Next
  PROVE  \/ findings' \subseteq findings
         \/ \E p \in Procs : PersistFindings(p) \/ MarkAppliedByRevisor(p)
         \/ \E f \in findings, s \in {"overridden", "resolved"} : PatchFinding(f, s)
<1>1. ASSUME NEW r \in Requests, Routes(r) PROVE findings' = findings
  BY <1>1 DEF Routes, PostScore, PatchScore, PostTransform, PostBuildPlan, PostPromote,
              PostStage, PostBulkRetire, PostPublish, Begin, docs
<1>2. ASSUME NEW p \in Procs, Work(p) \/ GivesUp(p) \/ StoreFault(p)
      PROVE  findings' \subseteq findings \/ PersistFindings(p) \/ MarkAppliedByRevisor(p)
  <2>1. CASE Transforming(p)
    BY <2>1 DEF Transforming, Drafted, QueryFindings, UnlinkFindings, NoFindings, Revise,
                SavePlan, SavePlanFault, docs
  <2>2. CASE ~Transforming(p)
    BY <1>2, <2>2 DEF Work, Scoring, ScoreRead, ScoreSave, ScoreFails, OverrideScore,
                      RetireNext, StageSave, EditBuildPlan, PromoteCommit, LookUpBrief,
                      GivesUp, StoreFault, docs
  <2> QED BY <2>1, <2>2
<1>3. ASSUME NEW w \in Workers, TakeNext(w) PROVE findings' = findings
  BY <1>3 DEF TakeNext, docs
<1>4. ASSUME Crash \/ CreateYoutubeAdvancedPlanDirect PROVE findings' = findings
  BY <1>4 DEF Crash, CreateYoutubeAdvancedPlanDirect, docs
<1>5. ASSUME NEW b, CreatePipelineBrief(b) \/ GetBriefPage(b) PROVE findings' = findings
  BY <1>5 DEF CreatePipelineBrief, GetBriefPage, docs
<1>6. ASSUME NEW bs, CreateBriefBatchWithScoring(bs) \/ ApplyBulkDelete(bs)
      PROVE  findings' = findings
  BY <1>6 DEF CreateBriefBatchWithScoring, ApplyBulkDelete, DeletePipelineBriefs
<1>7. ASSUME NEW f \in findings, PostOverride(f) \/ PostResolve(f)
      PROVE  \E s \in {"overridden", "resolved"} : PatchFinding(f, s)
  BY <1>7 DEF PostOverride, PostResolve
<1> QED BY <1>1, <1>2, <1>3, <1>4, <1>5, <1>6, <1>7 DEF Next

LEMMA VerdictStep == IntakeInv /\ [Next]_vars => [StepKeepsVerdicts]_vars
<1> SUFFICES ASSUME IntakeInv, Next PROVE StepKeepsVerdicts
  OBVIOUS
<1>1. Numbered /\ findings \subseteq Finding
  BY DEF IntakeInv, TypeOK
<1>2. CASE findings' \subseteq findings
  BY <1>1, <1>2, VerdictsOf DEF StepKeepsVerdicts
<1>3. ASSUME NEW p \in Procs, PersistFindings(p) PROVE StepKeepsVerdicts
  <2>1. At(p, "critique") /\ \A f \in findings : f.of # proc[p].n
    BY <1>1, <1>3 DEF PersistFindings, Numbered, Fresh, At
  <2>2. \A g \in findings' : g \in findings \/ g.of = proc[p].n
    BY <1>3 DEF PersistFindings
  <2> QED BY <1>1, <2>1, <2>2 DEF StepKeepsVerdicts, Numbered
<1>4. ASSUME NEW p \in Procs, MarkAppliedByRevisor(p) PROVE StepKeepsVerdicts
  <2> SUFFICES ASSUME NEW f \in findings, f.status \in {"overridden", "resolved"},
                      NEW g \in findings', g.brief = f.brief, g.of = f.of, g.n = f.n,
                      proc[p].n # f.of
               PROVE  g.status \in {"overridden", "resolved"}
    BY <1>4 DEF StepKeepsVerdicts, MarkAppliedByRevisor
  <2>1. CASE findings' = findings
    BY <1>1, <2>1 DEF Numbered
  <2>2. CASE findings' = {IF h \in Marked(p) THEN [h EXCEPT !.status = "applied"] ELSE h :
                            h \in findings}
    <3>1. PICK h \in findings :
            g = IF h \in Marked(p) THEN [h EXCEPT !.status = "applied"] ELSE h
      BY <2>2
    <3>2. g.brief = h.brief /\ g.of = h.of /\ g.n = h.n
      BY <1>1, <3>1, StatusWritten
    <3>3. h = f
      BY <1>1, <3>2 DEF Numbered
    <3>4. f \notin Marked(p)
      BY DEF Marked
    <3> QED BY <3>1, <3>3, <3>4
  <2> QED BY <1>4, <2>1, <2>2 DEF MarkAppliedByRevisor
<1>5. ASSUME NEW f \in findings, NEW s \in {"overridden", "resolved"}, PatchFinding(f, s)
      PROVE  StepKeepsVerdicts
  <2> DEFINE new == [f EXCEPT !.status = s]
  <2>1. findings' = (findings \ {f}) \cup {new} /\ f \in Finding
    BY <1>1, <1>5 DEF PatchFinding
  <2>2. new.status = s
    BY <2>1 DEF Finding
  <2> HIDE DEF new
  <2> QED BY <1>1, <2>1, <2>2 DEF StepKeepsVerdicts, Numbered
<1> QED BY <1>2, <1>3, <1>4, <1>5, FindingsWritten

\* What the user decided about a finding is not undone by another transform of
\* the brief, by another request or by a failure: only the transform that made
\* the finding may still mark it as applied.
THEOREM VerdictsStand == Spec => VerdictStands
<1>1. Spec => [][StepKeepsVerdicts]_vars
  BY IntakeAlways, VerdictStep, PTL DEF Spec
<1> QED BY <1>1 DEF VerdictStands, StepKeepsVerdicts

---------------------------------------------------------------------------
(* Stages, findings and the catalog: BoardInv, conjunct by conjunct.       *)

\* Nothing is added to or taken from the findings of a brief but a status.
SameKeys(b) ==
  /\ \A f \in findings' : f.brief = b =>
       \E g \in findings : g.brief = b /\ g.of = f.of /\ g.n = f.n
  /\ \A g \in findings : g.brief = b =>
       \E f \in findings' : f.brief = b /\ f.of = g.of /\ f.n = g.n

LEMMA BoardTypes ==
  ASSUME BoardInv
  PROVE  /\ TypeOK /\ IntakeInv /\ Exclusive /\ Moves /\ Lookups /\ PublishedIsCatalogued
         /\ Transforms /\ Reviewed
         /\ brief \in [Briefs -> BriefDoc] /\ proc \in [Procs -> Process]
         /\ findings \subseteq Finding
BY DEF BoardInv, IntakeInv, TypeOK, BriefDoc

\* A process that takes up an aspect is recorded where it overlaps another.
LEMMA ExclusiveWalks ==
  ASSUME Exclusive, proc \in [Procs -> Process], NEW p \in Procs, NEW x \in Process,
         proc' = [proc EXCEPT ![p] = x], spoiled \subseteq spoiled',
         \/ x.aspect = proc[p].aspect /\ x.brief = proc[p].brief
         \/ x.aspect = "none"
         \/ Overlapped(p, x.aspect, x.brief) \subseteq spoiled'
  PROVE  Exclusive'
<1>1. proc'[p] = x /\ \A q \in Procs \ {p} : proc'[q] = proc[q]
  OBVIOUS
<1>2. "stage" \notin Writes("none") /\ "plan" \notin Writes("none")
  BY DEF Writes
<1>3. ASSUME NEW q \in Procs \ {p}, NEW a \in {"stage", "plan"}, x.brief \in Briefs,
             proc[q].brief = x.brief, a \in Writes(x.aspect), a \in Writes(proc[q].aspect),
             <<x.brief, a>> \notin spoiled'
      PROVE  FALSE
  <2>1. CASE x.aspect = proc[p].aspect /\ x.brief = proc[p].brief
    BY <1>3, <2>1 DEF Exclusive
  <2>2. CASE x.aspect = "none"
    BY <1>2, <1>3, <2>2
  <2>3. CASE Overlapped(p, x.aspect, x.brief) \subseteq spoiled'
    BY <1>3, <2>3 DEF Overlapped
  <2> QED BY <2>1, <2>2, <2>3
<1> SUFFICES ASSUME NEW r \in Procs, NEW q \in Procs, NEW a \in {"stage", "plan"},
                    proc'[r].brief \in Briefs, proc'[q].brief = proc'[r].brief,
                    a \in Writes(proc'[r].aspect), a \in Writes(proc'[q].aspect),
                    <<proc'[r].brief, a>> \notin spoiled', r # q
             PROVE  FALSE
  BY DEF Exclusive
<1>4. CASE r = p
  BY <1>1, <1>3, <1>4
<1>5. CASE q = p
  BY <1>1, <1>3, <1>5
<1>6. CASE r # p /\ q # p
  BY <1>1, <1>6 DEF Exclusive
<1> QED BY <1>4, <1>5, <1>6

LEMMA ExclusiveStays ==
  ASSUME Exclusive, proc' = proc, spoiled \subseteq spoiled'
  PROVE  Exclusive'
<1> SUFFICES ASSUME NEW p \in Procs, NEW q \in Procs, NEW a \in {"stage", "plan"},
                    proc[p].brief \in Briefs, proc[q].brief = proc[p].brief,
                    a \in Writes(proc[p].aspect), a \in Writes(proc[q].aspect),
                    <<proc[p].brief, a>> \notin spoiled
             PROVE  p = q
  <2>1. /\ \A p, q \in Procs, a \in {"stage", "plan"} :
             /\ proc[p].brief \in Briefs /\ proc[q].brief = proc[p].brief
             /\ a \in Writes(proc[p].aspect) /\ a \in Writes(proc[q].aspect)
             /\ <<proc[p].brief, a>> \notin spoiled'
             => p = q
    OBVIOUS
  <2> QED BY <2>1 DEF Exclusive
<1> QED BY DEF Exclusive

LEMMA MovesWalk ==
  ASSUME Moves, proc \in [Procs -> Process], NEW p \in Procs, NEW x,
         proc' = [proc EXCEPT ![p] = x], plans' = plans, spoiled \subseteq spoiled', Placed,
         \A b \in Briefs : brief'[b].promoted = brief[b].promoted /\ brief'[b].stage = brief[b].stage,
         x.pc = "stage" => /\ x.aspect = "stage" /\ x.brief \in Briefs
                           /\ x.stage \in StageTable[brief[x.brief].stage]
  PROVE  Moves'
<1>1. proc'[p] = x /\ \A q \in Procs \ {p} : proc'[q] = proc[q]
  OBVIOUS
<1>2. \A q \in Procs : At(q, "stage") => proc[q].brief \in Briefs
  BY DEF Placed, At
<1> QED BY <1>1, <1>2 DEF Moves, At

LEMMA LookupsWalk ==
  ASSUME BoardInv, NEW p \in Procs, NEW x, proc' = [proc EXCEPT ![p] = x],
         UNCHANGED <<plans, published>>, spoiled \subseteq spoiled', bare \subseteq bare',
         catalog \subseteq catalog',
         \A b \in Briefs : /\ brief[b].plan # 0 => brief'[b].plan # 0
                           /\ brief'[b].is = "stored" => brief[b].is \in {"new", "stored"},
         x.pc \in Writing \cup {"edit"} => x.n # 0,
         At(p, "lookup") /\ proc[p].n \in published =>
           \/ proc[p].n \in catalog' \cup bare'
           \/ plans[proc[p].n] = None
           \/ ~Stored(plans[proc[p].n])
           \/ <<plans[proc[p].n], "promotion">> \in spoiled
  PROVE  Lookups' /\ PublishedIsCatalogued'
<1>1. proc'[p] = x /\ \A q \in Procs \ {p} : proc'[q] = proc[q]
  BY BoardTypes
<1>2. Lookups /\ PublishedIsCatalogued /\ Promotions
  BY BoardTypes DEF IntakeInv
<1>3. \A k \in published : /\ k \in DOMAIN plans /\ plans[k] \in Briefs \cup {None}
                           /\ plans[k] # None => brief[plans[k]].is # "new"
  BY <1>2, PlansSound DEF BoardInv, Lookups, Promotions
<1>4. Lookups'
  BY <1>1, <1>2, <1>3 DEF Lookups
<1>5. ASSUME NEW k \in published, k \notin catalog' \cup bare', plans[k] # None,
             Stored(plans[k])', <<plans[k], "promotion">> \notin spoiled'
      PROVE  \E q \in Procs : At(q, "lookup")' /\ proc'[q].n = k
  <2>1. Stored(plans[k])
    BY <1>3, <1>5 DEF Stored
  <2>2. PICK q \in Procs : At(q, "lookup") /\ proc[q].n = k
    BY <1>2, <1>5, <2>1 DEF PublishedIsCatalogued
  <2>3. q # p
    BY <1>5, <2>1, <2>2
  <2> QED BY <1>1, <2>2, <2>3 DEF At
<1>6. PublishedIsCatalogued'
  BY <1>5 DEF PublishedIsCatalogued, Stored
<1> QED BY <1>4, <1>6

LEMMA TransformsWalk ==
  ASSUME BoardInv, NEW p \in Procs, NEW x, proc' = [proc EXCEPT ![p] = x],
         transforms' = transforms,
         x.pc \in Writing =>
           /\ proc[p].pc \in Writing /\ x.aspect = proc[p].aspect
           /\ x.brief = proc[p].brief /\ x.n = proc[p].n,
         x.pc \in {"unlink", "unlinkUndo"} => \A g \in x.found : g.brief = x.brief,
         \A b \in Briefs : brief'[b].is = "new" => brief[b].is = "new",
         \A f \in findings' :
           \/ \E g \in findings : g.brief = f.brief /\ g.of = f.of
           \/ proc[p].pc \in Writing /\ f.brief = proc[p].brief /\ f.of = proc[p].n
  PROVE  Transforms'
<1>1. proc'[p] = x /\ \A q \in Procs \ {p} : proc'[q] = proc[q]
  BY BoardTypes
<1>2. Transforms /\ \A q \in Procs : proc[q].pc \in Writing => proc[q].brief \in Briefs
  BY BoardTypes DEF IntakeInv, Placed, Writing
<1>3. ASSUME NEW q \in Procs, proc'[q].pc \in Writing
      PROVE  /\ proc[q].pc \in Writing /\ proc'[q].aspect = proc[q].aspect
             /\ proc'[q].brief = proc[q].brief /\ proc'[q].n = proc[q].n
  BY <1>1, <1>3
<1>4. ASSUME NEW q \in Procs, proc'[q].pc \in Writing, NEW f \in findings', f.of = proc'[q].n
      PROVE  f.brief = proc'[q].brief
  BY <1>2, <1>3, <1>4 DEF Transforms
<1>5. ASSUME NEW q \in Procs, proc'[q].pc \in {"unlink", "unlinkUndo"}, NEW g \in proc'[q].found
      PROVE  g.brief = proc'[q].brief
  BY <1>1, <1>2, <1>5 DEF Transforms, Writing
<1> QED BY <1>2, <1>3, <1>4, <1>5 DEF Transforms

\* Only one transform at a time writes an unspoiled brief.
LEMMA OneWriter ==
  ASSUME BoardInv, NEW p \in Procs, NEW q \in Procs, NEW b \in Briefs,
         WritingOn(p, b), WritingOn(q, b), <<b, "plan">> \notin spoiled
  PROVE  p = q
<1>1. "plan" \in Writes("plan")
  BY DEF Writes
<1> QED BY <1>1, BoardTypes DEF WritingOn, Transforms, Exclusive

LEMMA ReviewedWalks ==
  ASSUME BoardInv, NEW p \in Procs, NEW x, proc' = [proc EXCEPT ![p] = x],
         spoiled \subseteq spoiled',
         \A b \in Briefs : <<b, "plan">> \notin spoiled' =>
           /\ brief'[b].is = "deleted" => brief[b].is = "deleted"
           /\ ~WritingOn(p, b) => brief'[b].plan = brief[b].plan /\ SameKeys(b),
         x.pc \in Writing => proc[p].pc \in Writing /\ x.brief = proc[p].brief,
         proc[p].pc \in Writing /\ <<proc[p].brief, "plan">> \notin spoiled' =>
           IF x.pc \in Writing
             THEN Fit(p)'
             ELSE \A f \in findings' :
                    f.brief = proc[p].brief => f.of = brief'[proc[p].brief].plan
  PROVE  Reviewed'
<1>1. proc'[p] = x /\ \A q \in Procs \ {p} : proc'[q] = proc[q]
  BY BoardTypes
<1>2. Reviewed
  BY BoardTypes
<1> SUFFICES ASSUME NEW b \in Briefs, <<b, "plan">> \notin spoiled'
             PROVE  /\ brief'[b].is # "deleted"
                    /\ \A q \in Procs : WritingOn(q, b)' => Fit(q)'
                    /\ (\A q \in Procs : ~WritingOn(q, b)') =>
                         \A f \in findings' : f.brief = b => f.of = brief'[b].plan
  BY DEF Reviewed, FindingsOf
<1>3. /\ brief'[b].is # "deleted"
      /\ \A q \in Procs : WritingOn(q, b) => Fit(q)
      /\ (\A q \in Procs : ~WritingOn(q, b)) =>
           \A f \in findings : f.brief = b => f.of = brief[b].plan
  BY <1>2 DEF Reviewed, FindingsOf
<1>4. \A q \in Procs : WritingOn(q, b)' => WritingOn(q, b)
  BY <1>1 DEF WritingOn
<1>5. CASE WritingOn(p, b)
  <2>1. \A q \in Procs : WritingOn(q, b)' => q = p
    BY <1>4, <1>5, OneWriter
  <2>2. WritingOn(p, b)' <=> x.pc \in Writing
    BY <1>1, <1>5 DEF WritingOn
  <2> QED BY <1>3, <1>5, <2>1, <2>2 DEF WritingOn
<1>6. CASE ~WritingOn(p, b)
  <2>1. brief'[b].plan = brief[b].plan /\ SameKeys(b)
    BY <1>6
  <2>2. ASSUME NEW q \in Procs, WritingOn(q, b)' PROVE Fit(q)'
    <3>1. proc'[q] = proc[q] /\ Fit(q) /\ proc[q].brief = b
      BY <1>1, <1>3, <1>4, <1>6, <2>2 DEF WritingOn
    <3> QED BY <2>1, <3>1 DEF Fit, FindingsOf, SameKeys, At
  <2>3. ASSUME \A q \in Procs : ~WritingOn(q, b)', NEW f \in findings', f.brief = b
        PROVE  f.of = brief'[b].plan
    <3>1. \A q \in Procs : ~WritingOn(q, b)
      BY <1>1, <1>6, <2>3 DEF WritingOn
    <3> QED BY <1>3, <2>1, <2>3, <3>1 DEF SameKeys
  <2> QED BY <1>3, <2>2, <2>3
<1> QED BY <1>5, <1>6

---------------------------------------------------------------------------
(* A step of one process keeps BoardInv.                                   *)

LEMMA WalkKeeps ==
  ASSUME BoardInv, IntakeInv', NEW p \in Procs, NEW x \in Process,
         proc' = [proc EXCEPT ![p] = x], Moves',
         UNCHANGED <<plans, published, transforms>>, spoiled \subseteq spoiled',
         bare \subseteq bare', catalog \subseteq catalog',
         \/ x.aspect = proc[p].aspect /\ x.brief = proc[p].brief
         \/ x.aspect = "none"
         \/ Overlapped(p, x.aspect, x.brief) \subseteq spoiled',
         \A b \in Briefs :
           /\ brief'[b].is = brief[b].is
           /\ \/ brief'[b].plan = brief[b].plan
              \/ brief'[b].plan # 0 /\ (<<b, "plan">> \in spoiled' \/ WritingOn(p, b))
           /\ SameKeys(b) \/ <<b, "plan">> \in spoiled' \/ WritingOn(p, b),
         \A f \in findings' :
           \/ \E g \in findings : g.brief = f.brief /\ g.of = f.of
           \/ proc[p].pc \in Writing /\ f.brief = proc[p].brief /\ f.of = proc[p].n,
         x.pc \in Writing \cup {"edit"} => x.n # 0,
         x.pc \in Writing =>
           /\ proc[p].pc \in Writing /\ x.aspect = proc[p].aspect
           /\ x.brief = proc[p].brief /\ x.n = proc[p].n,
         x.pc \in {"unlink", "unlinkUndo"} => \A g \in x.found : g.brief = x.brief,
         At(p, "lookup") /\ proc[p].n \in published =>
           \/ proc[p].n \in catalog' \cup bare'
           \/ plans[proc[p].n] = None
           \/ ~Stored(plans[proc[p].n])
           \/ <<plans[proc[p].n], "promotion">> \in spoiled,
         proc[p].pc \in Writing /\ <<proc[p].brief, "plan">> \notin spoiled' =>
           IF x.pc \in Writing
             THEN Fit(p)'
             ELSE \A f \in findings' :
                    f.brief = proc[p].brief => f.of = brief'[proc[p].brief].plan
  PROVE  BoardInv'
<1>0. BoardInv /\ Exclusive /\ proc \in [Procs -> Process]
  BY BoardTypes
<1>1. Exclusive'
  BY <1>0, ExclusiveWalks
<1>2. Lookups' /\ PublishedIsCatalogued'
  <2>1. \A b \in Briefs : /\ brief[b].plan # 0 => brief'[b].plan # 0
                          /\ brief'[b].is = "stored" => brief[b].is \in {"new", "stored"}
    OBVIOUS
  <2> QED BY <2>1, LookupsWalk
<1>3. Transforms'
  BY TransformsWalk
<1>4. Reviewed'
  <2>1. \A b \in Briefs : <<b, "plan">> \notin spoiled' =>
           /\ brief'[b].is = "deleted" => brief[b].is = "deleted"
           /\ ~WritingOn(p, b) => brief'[b].plan = brief[b].plan /\ SameKeys(b)
    OBVIOUS
  <2> QED BY <2>1, ReviewedWalks
<1> QED BY <1>1, <1>2, <1>3, <1>4 DEF BoardInv

\* What the findings are about, while the brief is not spoiled.
LEMMA FitNow ==
  ASSUME BoardInv, NEW p \in Procs, proc[p].pc \in Writing
  PROVE  /\ proc[p].brief \in Briefs /\ proc[p].n # 0 /\ proc[p].aspect = "plan"
         /\ <<proc[p].brief, "plan">> \notin spoiled =>
              Fit(p) /\ brief[proc[p].brief].is # "deleted"
<1>1. proc[p].brief \in Briefs
  BY BoardTypes DEF IntakeInv, Placed, Writing
<1> QED BY <1>1, BoardTypes DEF Lookups, Transforms, Reviewed, WritingOn

LEMMA KeysStay ==
  ASSUME findings' = findings
  PROVE  /\ \A b \in Briefs : SameKeys(b)
         /\ \A f \in findings' : \E g \in findings : g.brief = f.brief /\ g.of = f.of
BY DEF SameKeys

\* A process moves, and nothing else is stored.
LEMMA StandKeeps ==
  ASSUME BoardInv, IntakeInv', NEW p \in Procs, NEW x \in Process,
         proc' = [proc EXCEPT ![p] = x], UNCHANGED docs, UNCHANGED transforms,
         spoiled \subseteq spoiled', bare \subseteq bare',
         \/ x.aspect = proc[p].aspect /\ x.brief = proc[p].brief
         \/ x.aspect = "none"
         \/ Overlapped(p, x.aspect, x.brief) \subseteq spoiled',
         x.pc = "stage" => /\ x.aspect = "stage" /\ x.brief \in Briefs
                           /\ x.stage \in StageTable[brief[x.brief].stage],
         x.pc \in Writing \cup {"edit"} => x.n # 0,
         x.pc \in Writing =>
           /\ proc[p].pc \in Writing /\ x.aspect = proc[p].aspect
           /\ x.brief = proc[p].brief /\ x.n = proc[p].n,
         x.pc \in {"unlink", "unlinkUndo"} => \A g \in x.found : g.brief = x.brief,
         At(p, "lookup") => proc[p].n \in bare',
         proc[p].pc \in Writing /\ <<proc[p].brief, "plan">> \notin spoiled' =>
           IF x.pc \in Writing
             THEN Fit(p)'
             ELSE \A f \in findings : f.brief = proc[p].brief => f.of = brief[proc[p].brief].plan
  PROVE  BoardInv'
<1>1. /\ UNCHANGED <<brief, findings, plans, published, catalog>>
      /\ UNCHANGED <<plans, published, transforms>> /\ catalog \subseteq catalog'
  BY DEF docs
<1>2. Moves'
  BY <1>1, BoardTypes, MovesWalk DEF IntakeInv
<1>3. /\ \A b \in Briefs : SameKeys(b)
      /\ \A f \in findings' : \E g \in findings : g.brief = f.brief /\ g.of = f.of
  BY <1>1, KeysStay
<1>4. proc[p].pc \in Writing /\ <<proc[p].brief, "plan">> \notin spoiled' =>
        IF x.pc \in Writing
          THEN Fit(p)'
          ELSE \A f \in findings' :
                 f.brief = proc[p].brief => f.of = brief'[proc[p].brief].plan
  BY <1>1
<1> QED BY <1>1, <1>2, <1>3, <1>4, WalkKeeps

\* A process that is no transform, before or after.
LEMMA QuietKeeps ==
  ASSUME BoardInv, IntakeInv', NEW p \in Procs, NEW x \in Process,
         proc' = [proc EXCEPT ![p] = x], UNCHANGED docs, UNCHANGED transforms,
         spoiled \subseteq spoiled', bare \subseteq bare',
         \/ x.aspect = proc[p].aspect /\ x.brief = proc[p].brief
         \/ x.aspect = "none"
         \/ Overlapped(p, x.aspect, x.brief) \subseteq spoiled',
         x.pc = "stage" => /\ x.aspect = "stage" /\ x.brief \in Briefs
                           /\ x.stage \in StageTable[brief[x.brief].stage],
         x.pc = "edit" => x.n # 0,
         x.pc \notin Writing, proc[p].pc \notin Writing,
         At(p, "lookup") => proc[p].n \in bare'
  PROVE  BoardInv'
<1>1. x.pc \notin {"unlink", "unlinkUndo"}
  BY DEF Writing
<1> QED BY <1>1, StandKeeps

---------------------------------------------------------------------------
(* Requests that begin, and background scoring.                            *)

LEMMA IdleFields ==
  /\ Idle \in Process /\ Idle.pc = "idle" /\ Idle.aspect = "none" /\ Idle.n = 0
  /\ Idle.pc \notin Writing \cup {"edit", "stage", "lookup"}
BY IdleSound DEF Sound, Idle, Writing

LEMMA BeginsBoard ==
  ASSUME BoardInv, IntakeInv', NEW r \in Requests, NEW b \in Briefs,
         PostScore(r, b) \/ PatchScore(r, b) \/ PostBuildPlan(r, b) \/ PostPromote(r, b)
  PROVE  BoardInv'
<1>1. PICK a \in {"score", "edit", "promotion"}, pc \in {"read", "override", "edit", "promote"},
           n \in Nat :
        /\ Begin(r, a, b, pc, n) /\ transforms' = transforms /\ (pc = "edit" => n # 0)
  <2>1. page[b] \in Nat
    BY BoardTypes DEF TypeOK
  <2> QED BY <2>1 DEF PostScore, PatchScore, PostBuildPlan, PostPromote
<1> DEFINE x == [Idle EXCEPT !.pc = pc, !.aspect = a, !.brief = b, !.n = n]
<1>2. /\ proc' = [proc EXCEPT ![r] = x] /\ r \in Procs /\ UNCHANGED docs
      /\ spoiled' = spoiled \cup Overlapped(r, a, b) /\ bare' = bare /\ proc[r].pc = "idle"
  BY <1>1 DEF Begin, Procs, Active
<1>3. x \in Process /\ x.pc = pc /\ x.aspect = a /\ x.brief = b /\ x.n = n
  BY DEF Process, Idle
<1>4. /\ x.pc \notin Writing /\ proc[r].pc \notin Writing /\ x.pc # "stage"
      /\ ~At(r, "lookup")
  BY <1>2, <1>3 DEF Writing, At
<1> HIDE DEF x
<1> QED BY <1>1, <1>2, <1>3, <1>4, QuietKeeps

LEMMA StagesBoard ==
  ASSUME BoardInv, IntakeInv', NEW p \in Procs, NEW b \in Briefs, NEW to \in Stages,
         proc[p].pc \in {"idle", "bulk"}, StageCheck(p, b, to),
         spoiled' = spoiled \cup Overlapped(p, "stage", b),
         UNCHANGED <<docs, transforms, bare>>
  PROVE  BoardInv'
<1> DEFINE x == [Idle EXCEPT !.pc = "stage", !.aspect = "stage", !.brief = b, !.stage = to,
                             !.todo = proc[p].todo \ {b}]
<1>1. proc[p].todo \subseteq Briefs
  BY BoardTypes, ProcSound DEF Sound
<1>2. /\ x \in Process /\ x.pc = "stage" /\ x.aspect = "stage" /\ x.brief = b /\ x.stage = to
      /\ proc' = [proc EXCEPT ![p] = x] /\ to \in StageTable[brief[b].stage]
  BY <1>1 DEF Process, Idle, StageCheck
<1>3. x.pc \notin Writing /\ proc[p].pc \notin Writing /\ ~At(p, "lookup")
  BY <1>2 DEF Writing, At
<1> HIDE DEF x
<1> QED BY <1>2, <1>3, QuietKeeps DEF docs

LEMMA PostStageBoard ==
  ASSUME BoardInv, IntakeInv', NEW r \in Requests, NEW b \in Briefs, NEW to \in Stages,
         PostStage(r, b, to)
  PROVE  BoardInv'
BY StagesBoard DEF PostStage, Active, Procs

LEMMA PostBulkRetireBoard ==
  ASSUME BoardInv, IntakeInv', NEW r \in Requests, NEW bs \in SUBSET Briefs,
         PostBulkRetire(r, bs)
  PROVE  BoardInv'
<1> DEFINE x == [Idle EXCEPT !.pc = "bulk", !.todo = bs]
<1>1. /\ proc' = [proc EXCEPT ![r] = x] /\ r \in Procs /\ UNCHANGED docs
      /\ spoiled' = spoiled /\ bare' = bare /\ transforms' = transforms /\ proc[r].pc = "idle"
  BY DEF PostBulkRetire, Active, Procs, hist
<1>2. x \in Process /\ x.pc = "bulk" /\ x.aspect = "none"
  BY DEF Process, Idle
<1>3. x.pc \notin Writing /\ proc[r].pc \notin Writing /\ ~At(r, "lookup")
  BY <1>1, <1>2 DEF Writing, At
<1> HIDE DEF x
<1> QED BY <1>1, <1>2, <1>3, QuietKeeps

LEMMA RetireNextBoard ==
  ASSUME BoardInv, IntakeInv', NEW p \in Procs, RetireNext(p)
  PROVE  BoardInv'
<1>1. /\ At(p, "bulk") /\ UNCHANGED <<docs, transforms, bare>>
  BY DEF RetireNext
<1>2. PICK b \in proc[p].todo :
        \/ StageCheck(p, b, "retired") /\ spoiled' = spoiled \cup Overlapped(p, "stage", b)
        \/ /\ proc' = [proc EXCEPT ![p] =
                IF proc[p].todo = {b} THEN Idle
                  ELSE [proc[p] EXCEPT !.todo = proc[p].todo \ {b}]]
           /\ spoiled' = spoiled
  BY DEF RetireNext
<1>3. b \in Briefs /\ proc[p] \in Process /\ proc[p].pc = "bulk"
  BY <1>1, BoardTypes, ProcSound DEF Sound, At
<1>4. CASE StageCheck(p, b, "retired") /\ spoiled' = spoiled \cup Overlapped(p, "stage", b)
  BY <1>1, <1>3, <1>4, StagesBoard DEF Stages
<1>5. CASE /\ proc' = [proc EXCEPT ![p] =
                IF proc[p].todo = {b} THEN Idle
                  ELSE [proc[p] EXCEPT !.todo = proc[p].todo \ {b}]]
           /\ spoiled' = spoiled
  <2> DEFINE x == IF proc[p].todo = {b} THEN Idle
                                        ELSE [proc[p] EXCEPT !.todo = proc[p].todo \ {b}]
  <2>1. /\ x \in Process /\ x.pc \in {"idle", "bulk"}
        /\ x.aspect = "none" \/ (x.aspect = proc[p].aspect /\ x.brief = proc[p].brief)
    BY <1>3, IdleFields DEF Process
  <2>2. proc' = [proc EXCEPT ![p] = x]
    BY <1>5
  <2> HIDE DEF x
  <2>3. x.pc \notin Writing /\ proc[p].pc \notin Writing /\ ~At(p, "lookup") /\ x.pc # "stage"
    BY <1>3, <2>1 DEF Writing, At
  <2>4. UNCHANGED docs /\ UNCHANGED transforms /\ bare' = bare
    BY <1>1
  <2> QED BY <1>5, <2>1, <2>2, <2>3, <2>4, QuietKeeps
<1> QED BY <1>2, <1>4, <1>5

LEMMA TakeNextBoard ==
  ASSUME BoardInv, IntakeInv', NEW w \in Workers, TakeNext(w)
  PROVE  BoardInv'
<1>0. PICK batch \in queues :
        /\ proc' = [proc EXCEPT ![w] = [Idle EXCEPT !.pc = "read", !.aspect = "score",
                                                    !.brief = Head(batch)]]
        /\ spoiled' = spoiled \cup Overlapped(w, "score", Head(batch))
  BY DEF TakeNext
<1> DEFINE b == Head(batch)
           x == [Idle EXCEPT !.pc = "read", !.aspect = "score", !.brief = b]
<1>1. /\ proc' = [proc EXCEPT ![w] = x] /\ w \in Procs /\ proc[w].pc = "idle"
      /\ spoiled' = spoiled \cup Overlapped(w, "score", b)
      /\ UNCHANGED docs /\ UNCHANGED transforms /\ bare' = bare
  BY <1>0 DEF TakeNext, Procs, Active
<1>2. b \in Briefs
  BY BoardTypes, HeadTailProperties DEF TypeOK
<1>3. x \in Process /\ x.pc = "read" /\ x.aspect = "score" /\ x.brief = b
  BY <1>2 DEF Process, Idle
<1>4. x.pc \notin Writing /\ proc[w].pc \notin Writing /\ ~At(w, "lookup")
  BY <1>1, <1>3 DEF Writing, At
<1> HIDE DEF b, x
<1> QED BY <1>1, <1>3, <1>4, QuietKeeps

---------------------------------------------------------------------------
(* Transforms, step by step.                                               *)

\* A process ends: if it was a transform, its brief's findings fit.
LEMMA EndsBoard ==
  ASSUME BoardInv, IntakeInv', NEW p \in Procs, End(p), UNCHANGED docs, UNCHANGED transforms,
         spoiled \subseteq spoiled', bare \subseteq bare', At(p, "lookup") => proc[p].n \in bare',
         proc[p].pc \in Writing /\ <<proc[p].brief, "plan">> \notin spoiled' =>
           \A f \in findings : f.brief = proc[p].brief => f.of = brief[proc[p].brief].plan
  PROVE  BoardInv'
<1>1. proc' = [proc EXCEPT ![p] = Idle]
  BY DEF End
<1>2. Idle.pc \notin {"unlink", "unlinkUndo"} /\ Idle.pc \notin Writing
  BY IdleFields DEF Writing
<1> QED BY <1>1, <1>2, IdleFields, StandKeeps

\* A transform goes on.
LEMMA GoesOnBoard ==
  ASSUME BoardInv, IntakeInv', NEW p \in Procs, proc[p].pc \in Writing,
         NEW x \in Process, proc' = [proc EXCEPT ![p] = x], x.pc \in Writing,
         x.aspect = proc[p].aspect, x.brief = proc[p].brief, x.n = proc[p].n,
         x.pc \in {"unlink", "unlinkUndo"} => \A g \in x.found : g.brief = x.brief,
         UNCHANGED docs, UNCHANGED transforms, spoiled \subseteq spoiled', bare' = bare,
         <<proc[p].brief, "plan">> \notin spoiled' => Fit(p)'
  PROVE  BoardInv'
<1>1. x.n # 0 /\ x.pc # "stage" /\ ~At(p, "lookup")
  BY FitNow DEF Writing, At
<1> QED BY <1>1, StandKeeps

LEMMA ScoreReadBoard ==
  ASSUME BoardInv, IntakeInv', NEW p \in Procs, ScoreRead(p) \/ ScoreFails(p) \/ GivesUp(p)
  PROVE  BoardInv'
<1>1. /\ UNCHANGED docs /\ UNCHANGED transforms /\ spoiled' = spoiled /\ bare' = bare
      /\ \/ End(p) /\ proc[p].pc \in {"read", "score", "draft", "promote"}
         \/ At(p, "read") /\ Goto(p, "score")
  BY DEF ScoreRead, ScoreFails, GivesUp, hist, At
<1>2. CASE End(p) /\ proc[p].pc \in {"read", "score", "draft", "promote"}
  <2>1. ~At(p, "lookup") /\ (proc[p].pc \in Writing => proc[p].pc = "draft")
    BY <1>2 DEF At, Writing
  <2>2. proc[p].pc \in Writing /\ <<proc[p].brief, "plan">> \notin spoiled =>
          \A f \in findings : f.brief = proc[p].brief => f.of = brief[proc[p].brief].plan
    BY <2>1, FitNow DEF Fit, FindingsOf
  <2> QED BY <1>1, <1>2, <2>1, <2>2, EndsBoard
<1>3. CASE At(p, "read") /\ Goto(p, "score")
  <2> DEFINE x == [proc[p] EXCEPT !.pc = "score"]
  <2>1. /\ x \in Process /\ x.pc = "score" /\ x.aspect = proc[p].aspect
        /\ x.brief = proc[p].brief /\ proc[p].pc = "read" /\ proc' = [proc EXCEPT ![p] = x]
    BY <1>3, BoardTypes DEF Process, At, Goto
  <2>2. x.pc \notin Writing /\ proc[p].pc \notin Writing /\ ~At(p, "lookup")
    BY <2>1 DEF Writing, At
  <2> HIDE DEF x
  <2> QED BY <1>1, <2>1, <2>2, QuietKeeps
<1> QED BY <1>1, <1>2, <1>3

LEMMA DraftedBoard ==
  ASSUME BoardInv, IntakeInv', NEW p \in Procs, Drafted(p) \/ NoFindings(p)
  PROVE  BoardInv'
<1>1. PICK pc \in {"query", "save"} :
        /\ Goto(p, pc)
        /\ pc = "query" => At(p, "draft")
        /\ pc = "save" /\ At(p, "draft") =>
             spoiled' = spoiled \cup
               {<<b, "plan">> : b \in {proc[p].brief} \cap {f.brief : f \in findings}}
  BY DEF Drafted, NoFindings, At
<1>2. /\ proc[p].pc \in {"draft", "critique"} /\ proc[p].pc \in Writing
      /\ UNCHANGED docs /\ UNCHANGED transforms /\ spoiled \subseteq spoiled' /\ bare' = bare
  BY DEF Drafted, NoFindings, hist, At, Writing
<1> DEFINE x == [proc[p] EXCEPT !.pc = pc]
<1>3. /\ x \in Process /\ x.pc = pc /\ x.aspect = proc[p].aspect
      /\ x.brief = proc[p].brief /\ x.n = proc[p].n /\ proc' = [proc EXCEPT ![p] = x]
      /\ proc'[p] = x
  BY <1>1, BoardTypes DEF Process, Goto
<1> HIDE DEF x
<1>4. ASSUME <<proc[p].brief, "plan">> \notin spoiled' PROVE Fit(p)'
  <2>1. Fit(p) /\ brief' = brief /\ findings' = findings /\ proc[p].brief \in Briefs
    BY <1>2, <1>4, FitNow DEF docs
  <2>2. CASE pc = "query"
    BY <1>1, <1>3, <2>1, <2>2 DEF Fit, At, FindingsOf
  <2>3. CASE pc = "save"
    <3>1. \A f \in findings : f.brief # proc[p].brief
      <4>1. CASE At(p, "critique")
        BY <2>1, <4>1 DEF Fit, FindingsOf
      <4>2. CASE At(p, "draft")
        <5>1. spoiled' = spoiled \cup
                {<<b, "plan">> : b \in {proc[p].brief} \cap {f.brief : f \in findings}}
          BY <1>1, <2>3, <4>2 DEF At
        <5> QED BY <1>4, <5>1
      <4> QED BY <1>2, <4>1, <4>2 DEF At
    <3> QED BY <1>3, <2>1, <2>3, <3>1 DEF Fit, At, FindingsOf
  <2> QED BY <2>2, <2>3
<1>5. x.pc \in Writing /\ x.pc \notin {"unlink", "unlinkUndo"}
  BY <1>3 DEF Writing
<1> QED BY <1>2, <1>3, <1>4, <1>5, GoesOnBoard

LEMMA QueryFindingsBoard ==
  ASSUME BoardInv, IntakeInv', NEW p \in Procs, QueryFindings(p)
  PROVE  BoardInv'
<1> DEFINE next == IF At(p, "query") THEN "unlink" ELSE "unlinkUndo"
           x    == [proc[p] EXCEPT !.pc = next, !.found = FindingsOf(proc[p].brief)]
<1>1. /\ proc[p].pc \in {"query", "undo"} /\ proc[p].pc \in Writing
      /\ proc' = [proc EXCEPT ![p] = x]
      /\ UNCHANGED docs /\ UNCHANGED transforms /\ spoiled' = spoiled /\ bare' = bare
  BY DEF QueryFindings, hist, Writing
<1>2. FindingsOf(proc[p].brief) \subseteq Finding
  BY BoardTypes DEF FindingsOf
<1>3. /\ x \in Process /\ x.pc \in {"unlink", "unlinkUndo"} /\ x.aspect = proc[p].aspect
      /\ x.brief = proc[p].brief /\ x.n = proc[p].n /\ x.found = FindingsOf(proc[p].brief)
  BY <1>1, <1>2, BoardTypes DEF Process
<1> HIDE DEF x
<1>4. proc'[p] = x
  BY <1>1, BoardTypes
<1>5. Fit(p)'
  <2>1. findings' = findings
    BY <1>1 DEF docs
  <2> QED BY <1>3, <1>4, <2>1 DEF Fit, FindingsOf, At
<1>6. x.pc \in Writing /\ \A g \in x.found : g.brief = x.brief
  BY <1>3 DEF FindingsOf, Writing
<1> QED BY <1>1, <1>3, <1>5, <1>6, GoesOnBoard

LEMMA ReviseBoard ==
  ASSUME BoardInv, IntakeInv', NEW p \in Procs, Revise(p)
  PROVE  BoardInv'
<1>1. PICK applied \in SUBSET (1 .. MaxFindings) :
        /\ \A i \in applied : \E f \in findings : f.of = proc[p].n /\ f.n = i
        /\ proc' = [proc EXCEPT ![p].pc = IF applied = {} THEN "save" ELSE "mark",
                                ![p].todo = applied]
  BY DEF Revise
<1> DEFINE x == [proc[p] EXCEPT !.pc = IF applied = {} THEN "save" ELSE "mark",
                                !.todo = applied]
<1>2. /\ proc[p].pc = "revise" /\ proc[p].pc \in Writing
      /\ proc' = [proc EXCEPT ![p] = x]
      /\ UNCHANGED docs /\ UNCHANGED transforms /\ spoiled' = spoiled /\ bare' = bare
  BY <1>1, BoardTypes DEF Revise, hist, Writing, At
<1>3. /\ x \in Process /\ x.pc \in {"save", "mark"} /\ x.aspect = proc[p].aspect
      /\ x.brief = proc[p].brief /\ x.n = proc[p].n /\ x.todo = applied
  <2>1. applied \subseteq Nat /\ proc[p] \in Process
    BY BoardTypes, BoundsAssumption
  <2> QED BY <2>1 DEF Process
<1> HIDE DEF x
<1>4. proc'[p] = x
  BY <1>2, BoardTypes
<1>5. ASSUME <<proc[p].brief, "plan">> \notin spoiled' PROVE Fit(p)'
  <2>1. Fit(p) /\ findings' = findings
    BY <1>2, <1>5, FitNow DEF docs
  <2>2. \A f \in findings : f.brief = proc[p].brief => f.of = proc[p].n
    BY <1>2, <2>1 DEF Fit, FindingsOf
  <2>3. \A i \in applied : \E f \in findings : f.brief = proc[p].brief /\ f.n = i
    BY <1>1, <1>2, BoardTypes DEF Transforms
  <2>4. \A i \in x.todo : \E f \in findings : f.brief = x.brief /\ f.n = i
    BY <1>3, <2>3
  <2>5. \A f \in findings : f.brief = x.brief => f.of = x.n
    BY <1>3, <2>2
  <2>6. x.pc \in {"save", "mark"} /\ x.todo \subseteq 1 .. MaxFindings
    BY <1>3
  <2> QED BY <1>4, <2>1, <2>4, <2>5, <2>6 DEF Fit, FindingsOf, At
<1>6. x.pc \in Writing /\ x.pc \notin {"unlink", "unlinkUndo"}
  BY <1>3 DEF Writing
<1> QED BY <1>2, <1>3, <1>5, <1>6, GoesOnBoard

\* A failed write spoils what it leaves unfinished, but for the last one,
\* which rolls back.
LEMMA FaultsBoard ==
  ASSUME BoardInv, IntakeInv', NEW p \in Procs, SavePlanFault(p) \/ StoreFault(p)
  PROVE  BoardInv'
<1>1. CASE StoreFault(p)
  <2>1. /\ UNCHANGED docs /\ UNCHANGED transforms /\ End(p)
        /\ spoiled' = spoiled \cup CutOff(p)
        /\ bare' = bare \cup {k \in {proc[p].n} : At(p, "lookup")}
    BY <1>1 DEF StoreFault
  <2>2. proc[p].pc \in Writing => <<proc[p].brief, "plan">> \in spoiled'
    BY <2>1, FitNow, BoardTypes DEF Transforms, CutOff
  <2> QED BY <2>1, <2>2, EndsBoard
<1>2. CASE SavePlanFault(p)
  <2>1. /\ UNCHANGED docs /\ UNCHANGED transforms /\ spoiled' = spoiled /\ bare' = bare
        /\ proc[p].pc = "save" /\ proc[p].pc \in Writing
        /\ IF \E f \in findings : f.of = proc[p].n THEN Goto(p, "undo") ELSE End(p)
    BY <1>2 DEF SavePlanFault, hist, At, Writing
  <2>2. <<proc[p].brief, "plan">> \notin spoiled =>
          \A f \in findings : f.brief = proc[p].brief => f.of = proc[p].n
    BY <2>1, FitNow DEF Fit, FindingsOf
  <2>3. CASE ~ \E f \in findings : f.of = proc[p].n
    BY <2>1, <2>2, <2>3, EndsBoard DEF At
  <2>4. CASE \E f \in findings : f.of = proc[p].n
    <3> DEFINE x == [proc[p] EXCEPT !.pc = "undo"]
    <3>1. /\ x \in Process /\ x.pc = "undo" /\ x.aspect = proc[p].aspect
          /\ x.brief = proc[p].brief /\ x.n = proc[p].n /\ proc' = [proc EXCEPT ![p] = x]
          /\ proc'[p] = x
      BY <2>1, <2>4, BoardTypes DEF Process, Goto
    <3> HIDE DEF x
    <3>2. ASSUME <<proc[p].brief, "plan">> \notin spoiled' PROVE Fit(p)'
      <4>1. findings' = findings
        BY <2>1 DEF docs
      <4> QED BY <2>1, <2>2, <3>1, <3>2, <4>1 DEF Fit, FindingsOf, At
    <3>3. x.pc \in Writing
      BY <3>1 DEF Writing
    <3> QED BY <2>1, <3>1, <3>2, <3>3, GoesOnBoard
  <2> QED BY <2>3, <2>4
<1> QED BY <1>1, <1>2

---------------------------------------------------------------------------
(* Transforms: what they write.                                            *)

LEMMA PersistFindingsBoard ==
  ASSUME BoardInv, IntakeInv', NEW p \in Procs, PersistFindings(p)
  PROVE  BoardInv'
<1>1. PICK k \in 1 .. MaxFindings :
        findings' = findings \cup
          {[brief |-> proc[p].brief, of |-> proc[p].n, n |-> i, status |-> "unresolved"] :
             i \in 1 .. k}
  BY DEF PersistFindings
<1> DEFINE x == [proc[p] EXCEPT !.pc = "revise"]
<1>2. /\ proc[p].pc = "critique" /\ proc[p].pc \in Writing /\ proc' = [proc EXCEPT ![p] = x]
      /\ UNCHANGED <<brief, plans, published, catalog, transforms, spoiled, bare>>
  BY DEF PersistFindings, Goto, Writing, At, hist
<1>3. /\ x \in Process /\ x.pc = "revise" /\ x.aspect = proc[p].aspect
      /\ x.brief = proc[p].brief /\ x.n = proc[p].n /\ proc'[p] = x
  BY <1>2, BoardTypes DEF Process
<1> HIDE DEF x
<1>4. \A f \in findings' :
        \/ f \in findings
        \/ f.brief = proc[p].brief /\ f.of = proc[p].n
  BY <1>1
<1>5. \A b \in Briefs : SameKeys(b) \/ WritingOn(p, b)
  BY <1>1, <1>2, <1>4 DEF SameKeys, WritingOn
<1>6. Moves'
  BY <1>2, <1>3, BoardTypes, MovesWalk DEF IntakeInv
<1>7. ASSUME <<proc[p].brief, "plan">> \notin spoiled PROVE Fit(p)'
  <2>1. \A f \in findings : f.brief # proc[p].brief
    BY <1>2, <1>7, FitNow DEF Fit, FindingsOf, At
  <2>2. \A f \in findings' : f.brief = proc[p].brief => f.of = proc[p].n
    BY <1>4, <2>1
  <2> QED BY <1>3, <2>2 DEF Fit, FindingsOf, At
<1>8. /\ x.n # 0 /\ x.pc \in Writing /\ x.pc \notin {"unlink", "unlinkUndo"}
      /\ ~At(p, "lookup")
  BY <1>2, <1>3, FitNow DEF Writing, At
<1> QED BY <1>2, <1>3, <1>4, <1>5, <1>6, <1>7, <1>8, WalkKeeps

LEMMA UnlinkFindingsBoard ==
  ASSUME BoardInv, IntakeInv', NEW p \in Procs, UnlinkFindings(p)
  PROVE  BoardInv'
<1> DEFINE x == IF At(p, "unlink") THEN [proc[p] EXCEPT !.pc = "critique", !.found = {}]
                                   ELSE Idle
<1>1. /\ proc[p].pc \in {"unlink", "unlinkUndo"} /\ proc[p].pc \in Writing
      /\ findings' = findings \ {f \in findings : \E g \in proc[p].found :
                                    f.of = g.of /\ f.n = g.n /\ f.brief = g.brief}
      /\ proc' = [proc EXCEPT ![p] = x]
      /\ UNCHANGED <<brief, plans, published, catalog, transforms, spoiled, bare>>
  BY DEF UnlinkFindings, End, Writing, hist
<1>2. /\ x \in Process /\ proc'[p] = x
      /\ \/ /\ x.pc = "critique" /\ x.aspect = proc[p].aspect
            /\ x.brief = proc[p].brief /\ x.n = proc[p].n
         \/ x.pc = "idle" /\ x.aspect = "none"
  BY <1>1, BoardTypes, IdleFields DEF Process
<1> HIDE DEF x
<1>3. \A g \in proc[p].found : g.brief = proc[p].brief
  BY <1>1, BoardTypes DEF Transforms
<1>4. \A f \in findings : f.brief # proc[p].brief => f \in findings'
  BY <1>1, <1>3
<1>5. \A b \in Briefs : SameKeys(b) \/ WritingOn(p, b)
  BY <1>1, <1>4 DEF SameKeys, WritingOn
<1>6. Moves'
  BY <1>1, <1>2, BoardTypes, MovesWalk DEF IntakeInv
<1>7. ASSUME <<proc[p].brief, "plan">> \notin spoiled
      PROVE  \A f \in findings' : f.brief # proc[p].brief
  <2>1. \A f \in findings : f.brief = proc[p].brief =>
          \E g \in proc[p].found : g.of = f.of /\ g.n = f.n
    BY <1>1, <1>7, FitNow DEF Fit, FindingsOf
  <2> QED BY <1>1, <1>3, <2>1
<1>8. /\ x.pc \in Writing \cup {"edit"} => x.n # 0
      /\ x.pc \in Writing <=> x.pc = "critique"
      /\ x.pc \notin {"unlink", "unlinkUndo"} /\ ~At(p, "lookup")
  BY <1>1, <1>2, FitNow DEF Writing, At
<1>9. <<proc[p].brief, "plan">> \notin spoiled' =>
        IF x.pc \in Writing
          THEN Fit(p)'
          ELSE \A f \in findings' :
                 f.brief = proc[p].brief => f.of = brief'[proc[p].brief].plan
  <2>1. CASE x.pc = "critique"
    BY <1>1, <1>2, <1>7, <1>8, <2>1 DEF Fit, FindingsOf, At
  <2>2. CASE x.pc # "critique"
    BY <1>1, <1>7, <1>8, <2>2
  <2> QED BY <2>1, <2>2
<1>10. \A f \in findings' : f \in findings
  BY <1>1
<1> QED BY <1>1, <1>2, <1>5, <1>6, <1>8, <1>9, <1>10, WalkKeeps

\* While its brief is not spoiled, the revisor finds everything it is to mark.
LEMMA AllMarked ==
  ASSUME BoardInv, NEW p \in Procs, At(p, "mark"), <<proc[p].brief, "plan">> \notin spoiled
  PROVE  Cardinality(Marked(p)) = Cardinality(proc[p].todo)
<1>1. proc[p].pc = "mark" /\ proc[p].pc \in Writing
  BY DEF At, Writing
<1>2. \A i \in proc[p].todo : \E f \in findings : f.brief = proc[p].brief /\ f.of = proc[p].n
                                                  /\ f.n = i
  BY <1>1, FitNow DEF Fit, FindingsOf, At
<1>3. \A f, g \in Marked(p) : f.n = g.n => f = g
  BY <1>1, BoardTypes DEF Marked, Transforms, IntakeInv, Numbered
<1>4. ExistsBijection(proc[p].todo, Marked(p))
  <2> DEFINE h == [f \in Marked(p) |-> f.n]
  <2>1. h \in [Marked(p) -> proc[p].todo]
    BY DEF Marked
  <2>2. \A f, g \in Marked(p) : h[f] = h[g] => f = g
    BY <1>3
  <2>3. \A i \in proc[p].todo : \E f \in Marked(p) : h[f] = i
    BY <1>2 DEF Marked
  <2> HIDE DEF h
  <2>4. h \in Bijection(Marked(p), proc[p].todo)
    BY <2>1, <2>2, <2>3, Fun_IsBij
  <2>5. ExistsBijection(Marked(p), proc[p].todo)
    BY <2>4, Fun_ExistsBij
  <2> QED BY <2>5, Fun_ExistsBijSymmetric
<1>5. IsFiniteSet(proc[p].todo)
  <2>1. proc[p].todo \subseteq 1 .. MaxFindings
    BY <1>1, FitNow DEF Fit
  <2>2. IsFiniteSet(1 .. MaxFindings)
    BY BoundsAssumption, FS_Interval
  <2> QED BY <2>1, <2>2, FS_Subset
<1> QED BY <1>4, <1>5, FS_Bijection

LEMMA MarkAppliedBoard ==
  ASSUME BoardInv, IntakeInv', NEW p \in Procs, MarkAppliedByRevisor(p)
  PROVE  BoardInv'
<1>1. /\ proc[p].pc = "mark" /\ proc[p].pc \in Writing /\ At(p, "mark")
      /\ UNCHANGED <<brief, plans, published, catalog, transforms, spoiled, bare>>
  BY DEF MarkAppliedByRevisor, Writing, At, hist
<1>2. CASE End(p) /\ findings' = findings /\ Cardinality(Marked(p)) # Cardinality(proc[p].todo)
  <2>1. <<proc[p].brief, "plan">> \in spoiled
    BY <1>1, <1>2, AllMarked
  <2>2. UNCHANGED docs /\ ~At(p, "lookup")
    BY <1>1, <1>2 DEF docs, At
  <2> QED BY <1>1, <1>2, <2>1, <2>2, EndsBoard
<1>3. CASE /\ findings' = {IF f \in Marked(p) THEN [f EXCEPT !.status = "applied"] ELSE f :
                             f \in findings}
           /\ proc' = [proc EXCEPT ![p].pc = "save", ![p].todo = {}]
  <2> DEFINE x == [proc[p] EXCEPT !.pc = "save", !.todo = {}]
  <2>1. /\ proc' = [proc EXCEPT ![p] = x] /\ x \in Process /\ x.pc = "save"
        /\ x.aspect = proc[p].aspect /\ x.brief = proc[p].brief /\ x.n = proc[p].n
        /\ proc'[p] = x
    BY <1>3, BoardTypes DEF Process
  <2> HIDE DEF x
  <2>2. \A f \in findings : /\ [f EXCEPT !.status = "applied"].brief = f.brief
                            /\ [f EXCEPT !.status = "applied"].of = f.of
                            /\ [f EXCEPT !.status = "applied"].n = f.n
    BY BoardTypes, StatusWritten
  <2>3. /\ \A f \in findings' :
             \E g \in findings : g.brief = f.brief /\ g.of = f.of /\ g.n = f.n
        /\ \A g \in findings :
             \E f \in findings' : f.brief = g.brief /\ f.of = g.of /\ f.n = g.n
    BY <1>3, <2>2
  <2>4. \A b \in Briefs : SameKeys(b)
    BY <2>3 DEF SameKeys
  <2>5. Moves'
    BY <1>1, <2>1, BoardTypes, MovesWalk DEF IntakeInv
  <2>6. ASSUME <<proc[p].brief, "plan">> \notin spoiled PROVE Fit(p)'
    <3>1. \A f \in findings : f.brief = proc[p].brief => f.of = proc[p].n
      BY <1>1, <2>6, FitNow DEF Fit, FindingsOf
    <3>2. \A f \in findings' : f.brief = proc[p].brief => f.of = proc[p].n
      BY <2>3, <3>1
    <3> QED BY <2>1, <3>2 DEF Fit, FindingsOf, At
  <2>7. /\ x.n # 0 /\ x.pc \in Writing /\ x.pc \notin {"unlink", "unlinkUndo"}
        /\ ~At(p, "lookup")
    BY <1>1, <2>1, FitNow DEF Writing, At
  <2>8. \A f \in findings' : \E g \in findings : g.brief = f.brief /\ g.of = f.of
    BY <2>3
  <2> QED BY <1>1, <2>1, <2>4, <2>5, <2>6, <2>7, <2>8, WalkKeeps
<1> QED BY <1>2, <1>3 DEF MarkAppliedByRevisor

\* A process ends with a write to its brief, which names the same plan still.
LEMMA BriefWrittenBoard ==
  ASSUME BoardInv, IntakeInv', NEW p \in Procs, NEW x \in Process,
         proc' = [proc EXCEPT ![p] = x], x.pc \in {"idle", "bulk"}, x.aspect = "none", Moves',
         UNCHANGED <<findings, plans, published, catalog, transforms, bare>>,
         spoiled \subseteq spoiled', ~At(p, "lookup"),
         \A b \in Briefs :
           /\ brief'[b].is = brief[b].is
           /\ \/ brief'[b].plan = brief[b].plan
              \/ brief'[b].plan # 0 /\ (<<b, "plan">> \in spoiled' \/ WritingOn(p, b)),
         proc[p].pc \in Writing /\ <<proc[p].brief, "plan">> \notin spoiled' =>
           \A f \in findings : f.brief = proc[p].brief => f.of = brief'[proc[p].brief].plan
  PROVE  BoardInv'
<1>1. /\ \A b \in Briefs : SameKeys(b)
      /\ \A f \in findings' : \E g \in findings : g.brief = f.brief /\ g.of = f.of
  BY KeysStay
<1>2. x.pc \notin Writing \cup {"edit", "unlink", "unlinkUndo"}
  BY DEF Writing
<1> QED BY <1>1, <1>2, WalkKeeps

LEMMA ScoreSaveBoard ==
  ASSUME BoardInv, IntakeInv', NEW p \in Procs, ScoreSave(p) \/ OverrideScore(p)
  PROVE  BoardInv'
<1>1. /\ proc[p].pc \in {"score", "override"} /\ proc' = [proc EXCEPT ![p] = Idle]
      /\ UNCHANGED <<findings, plans, published, catalog, transforms, spoiled, bare>>
      /\ \E s : brief' \in {brief, [brief EXCEPT ![proc[p].brief].score = s]}
  BY DEF ScoreSave, OverrideScore, At, End, hist
<1>2. \A b \in Briefs :
        /\ brief'[b].is = brief[b].is /\ brief'[b].plan = brief[b].plan
        /\ brief'[b].stage = brief[b].stage /\ brief'[b].promoted = brief[b].promoted
  BY <1>1, BoardTypes DEF BriefDoc
<1>3. Moves'
  BY <1>1, <1>2, IdleFields, BoardTypes, MovesWalk DEF IntakeInv
<1>4. proc[p].pc \notin Writing /\ ~At(p, "lookup")
  BY <1>1 DEF Writing, At
<1> QED BY <1>1, <1>2, <1>3, <1>4, IdleFields, BriefWrittenBoard

LEMMA SavePlanBoard ==
  ASSUME BoardInv, IntakeInv', NEW p \in Procs, SavePlan(p) \/ EditBuildPlan(p)
  PROVE  BoardInv'
<1> DEFINE b == proc[p].brief
<1>1. /\ proc[p].pc \in {"save", "edit"} /\ proc' = [proc EXCEPT ![p] = Idle]
      /\ UNCHANGED <<findings, plans, published, catalog, transforms, bare>>
      /\ spoiled \subseteq spoiled'
      /\ brief' = IF Stored(b) THEN [brief EXCEPT ![b].plan = proc[p].n] ELSE brief
      /\ At(p, "edit") /\ Stored(b) /\ brief[b].plan # proc[p].n => <<b, "plan">> \in spoiled'
  BY DEF SavePlan, EditBuildPlan, At, End, hist
<1>2. b \in Briefs /\ proc[p].n # 0
  BY <1>1, BoardTypes DEF IntakeInv, Placed, Lookups, Writing
<1>3. \A c \in Briefs :
        /\ brief'[c].is = brief[c].is /\ brief'[c].stage = brief[c].stage
        /\ brief'[c].promoted = brief[c].promoted
        /\ brief'[c].plan = IF c = b /\ Stored(b) THEN proc[p].n ELSE brief[c].plan
  BY <1>1, <1>2, BoardTypes DEF BriefDoc
<1>4. Moves'
  BY <1>1, <1>3, IdleFields, BoardTypes, MovesWalk DEF IntakeInv
<1>5. /\ proc[p].pc \in Writing => At(p, "save") /\ WritingOn(p, b)
      /\ At(p, "save") \/ At(p, "edit")
      /\ At(p, "save") => WritingOn(p, b)
      /\ ~At(p, "lookup")
  BY <1>1 DEF Writing, WritingOn, At
<1>6. \A c \in Briefs :
        \/ brief'[c].plan = brief[c].plan
        \/ brief'[c].plan # 0 /\ (<<c, "plan">> \in spoiled' \/ WritingOn(p, c))
  BY <1>1, <1>2, <1>3, <1>5
<1>7. ASSUME proc[p].pc \in Writing, <<b, "plan">> \notin spoiled',
             NEW f \in findings, f.brief = b
      PROVE  f.of = brief'[b].plan
  <2>1. Fit(p) /\ brief[b].is # "deleted" /\ proc[p].pc = "save"
    BY <1>1, <1>5, <1>7, FitNow DEF At
  <2>2. brief[b].is # "new"
    BY <1>7, BoardTypes DEF Transforms
  <2> QED BY <1>2, <1>3, <1>7, <2>1, <2>2, BoardTypes DEF Fit, FindingsOf, Stored, BriefDoc
<1> HIDE DEF b
<1> QED BY <1>1, <1>3, <1>4, <1>5, <1>6, <1>7, IdleFields, BriefWrittenBoard DEF b

---------------------------------------------------------------------------
(* Stage moves, promotion and publication.                                 *)

\* A process that moves the stage of an unspoiled brief is the only one.
LEMMA OneMover ==
  ASSUME BoardInv, NEW p \in Procs, NEW q \in Procs, NEW b \in Briefs,
         proc[p].brief = b, proc[q].brief = b, <<b, "stage">> \notin spoiled,
         proc[p].aspect \in {"stage", "promotion"}, proc[q].aspect \in {"stage", "promotion"}
  PROVE  p = q
<1>1. "stage" \in Writes("stage") /\ "stage" \in Writes("promotion")
  BY DEF Writes
<1> QED BY <1>1, BoardTypes DEF Exclusive

\* The stage of one brief is written by the process that was to move it.
LEMMA MoveWritten ==
  ASSUME BoardInv, NEW p \in Procs, NEW x, proc' = [proc EXCEPT ![p] = x], x.pc # "stage",
         proc[p].aspect \in {"stage", "promotion"}, proc[p].brief \in Briefs,
         spoiled' = spoiled, Len(plans) <= Len(plans'), Len(plans) \in Nat, Len(plans') \in Nat,
         \A b \in Briefs : brief'[b].promoted \in {brief[b].promoted, Len(plans')},
         \A b \in Briefs : b = proc[p].brief \/ brief'[b].stage = brief[b].stage
  PROVE  Moves'
<1>1. proc'[p] = x /\ \A q \in Procs \ {p} : proc'[q] = proc[q]
  BY BoardTypes
<1>2. Moves /\ \A b \in Briefs : brief[b].promoted \in Nat
  BY BoardTypes DEF BriefDoc
<1>3. \A b \in Briefs : brief'[b].promoted <= Len(plans')
  BY <1>2 DEF Moves
<1>4. ASSUME NEW q \in Procs, At(q, "stage")'
      PROVE  /\ proc'[q].aspect = "stage"
             /\ <<proc'[q].brief, "stage">> \notin spoiled' =>
                  proc'[q].stage \in StageTable[brief'[proc'[q].brief].stage]
  <2>1. q # p /\ proc'[q] = proc[q] /\ At(q, "stage")
    BY <1>1, <1>4 DEF At
  <2>2. proc[q].brief \in Briefs /\ proc[q].aspect = "stage"
    BY <1>2, <2>1, BoardTypes DEF IntakeInv, Placed, Moves, At
  <2>3. <<proc[q].brief, "stage">> \notin spoiled => proc[q].brief # proc[p].brief
    BY <2>1, <2>2, OneMover
  <2> QED BY <1>2, <2>1, <2>2, <2>3 DEF Moves
<1> QED BY <1>3, <1>4 DEF Moves

LEMMA PlansLength ==
  ASSUME BoardInv
  PROVE  Len(plans) \in Nat /\ DOMAIN plans = 1 .. Len(plans)
BY BoardTypes, LenProperties DEF TypeOK

LEMMA StageSaveBoard ==
  ASSUME BoardInv, IntakeInv', NEW p \in Procs, StageSave(p)
  PROVE  BoardInv'
<1> DEFINE x == IF proc[p].todo = {} THEN Idle
                                     ELSE [Idle EXCEPT !.pc = "bulk", !.todo = proc[p].todo]
<1>1. /\ proc[p].pc = "stage" /\ proc' = [proc EXCEPT ![p] = x]
      /\ brief' = IF Stored(proc[p].brief)
                    THEN [brief EXCEPT ![proc[p].brief].stage = proc[p].stage] ELSE brief
      /\ UNCHANGED <<findings, plans, published, catalog, transforms, spoiled, bare>>
  BY DEF StageSave, End, At, hist
<1>2. x \in Process /\ x.pc \in {"idle", "bulk"} /\ x.aspect = "none"
  BY IdleFields, BoardTypes DEF Process, Idle
<1> HIDE DEF x
<1>3. proc[p].brief \in Briefs /\ proc[p].aspect = "stage"
  BY <1>1, BoardTypes DEF IntakeInv, Placed, Moves, At
<1>4. \A b \in Briefs :
        /\ brief'[b].is = brief[b].is /\ brief'[b].plan = brief[b].plan
        /\ brief'[b].promoted = brief[b].promoted
        /\ b = proc[p].brief \/ brief'[b].stage = brief[b].stage
  BY <1>1, BoardTypes DEF BriefDoc
<1>5. Moves'
  <2>1. Len(plans) \in Nat /\ Len(plans') \in Nat /\ Len(plans) <= Len(plans')
    BY <1>1, PlansLength
  <2>2. x.pc # "stage"
    BY <1>2
  <2> QED BY <1>1, <1>3, <1>4, <2>1, <2>2, MoveWritten
<1>6. proc[p].pc \notin Writing /\ ~At(p, "lookup")
  BY <1>1 DEF Writing, At
<1> QED BY <1>1, <1>2, <1>4, <1>5, <1>6, BriefWrittenBoard

\* A new plan is not published yet, and leaves the others where they are.
LEMMA PlanAdded ==
  ASSUME BoardInv, NEW c \in Briefs \cup {None}, plans' = Append(plans, c),
         UNCHANGED <<published, catalog, spoiled, bare>>,
         \A b \in Briefs : brief'[b].is = brief[b].is /\ brief'[b].plan = brief[b].plan,
         \A q \in Procs : /\ proc'[q].pc \in Writing \cup {"edit"} => proc'[q].n = proc[q].n
                                                   /\ proc[q].pc \in Writing \cup {"edit"}
                          /\ At(q, "lookup") => proc'[q] = proc[q]
  PROVE  /\ Lookups' /\ PublishedIsCatalogued'
         /\ Len(plans) \in Nat /\ Len(plans') = Len(plans) + 1
<1>1. plans \in Seq(Briefs \cup {None}) /\ Len(plans) \in Nat /\ DOMAIN plans = 1 .. Len(plans)
  BY BoardTypes, PlansLength DEF TypeOK
<1>2. /\ Len(plans') = Len(plans) + 1 /\ DOMAIN plans' = 1 .. Len(plans')
      /\ \A k \in DOMAIN plans : k \in DOMAIN plans' /\ plans'[k] = plans[k]
  BY <1>1, AppendProperties, LenProperties
<1>3. \A k \in published : k \in DOMAIN plans /\ plans[k] \in Briefs \cup {None}
  BY PlansSound DEF BoardInv, Lookups
<1>4. Lookups'
  BY <1>2, <1>3, BoardTypes DEF Lookups
<1>5. PublishedIsCatalogued'
  BY <1>2, <1>3, BoardTypes DEF PublishedIsCatalogued, Stored, At
<1> QED BY <1>1, <1>2, <1>4, <1>5

LEMMA PromoteCommitBoard ==
  ASSUME BoardInv, IntakeInv', NEW p \in Procs, PromoteCommit(p)
  PROVE  BoardInv'
<1> DEFINE b == proc[p].brief
<1>1. /\ proc[p].pc = "promote" /\ End(p) /\ proc' = [proc EXCEPT ![p] = Idle]
      /\ UNCHANGED <<findings, published, catalog, transforms, spoiled, bare>>
  BY DEF PromoteCommit, End, At, hist
<1>2. b \in Briefs /\ proc[p].aspect = "promotion" /\ proc[p].pc \notin Writing
      /\ ~At(p, "lookup") /\ ~WritingOn(p, b)
  BY <1>1, BoardTypes DEF IntakeInv, Placed, Promotions, At, Writing, WritingOn
<1>3. CASE ~Stored(b)
  <2>1. UNCHANGED docs
    BY <1>1, <1>3 DEF PromoteCommit, docs
  <2> QED BY <1>1, <1>2, <2>1, EndsBoard
<1>4. CASE Stored(b)
  <2>1. /\ plans' = Append(plans, b)
        /\ brief' = [brief EXCEPT ![b].stage = "selected", ![b].promoted = Len(plans')]
    BY <1>4 DEF PromoteCommit
  <2>2. \A c \in Briefs :
          /\ brief'[c].is = brief[c].is /\ brief'[c].plan = brief[c].plan
          /\ brief'[c].promoted \in {brief[c].promoted, Len(plans')}
          /\ c = b \/ brief'[c].stage = brief[c].stage
    BY <2>1, BoardTypes DEF BriefDoc
  <2>3. proc'[p] = Idle /\ \A q \in Procs \ {p} : proc'[q] = proc[q]
    BY <1>1, BoardTypes
  <2>4. /\ Lookups' /\ PublishedIsCatalogued'
        /\ Len(plans) \in Nat /\ Len(plans') = Len(plans) + 1
    <3>1. \A q \in Procs :
            /\ proc'[q].pc \in Writing \cup {"edit"} =>
                 proc'[q].n = proc[q].n /\ proc[q].pc \in Writing \cup {"edit"}
            /\ At(q, "lookup") => proc'[q] = proc[q]
      BY <1>2, <2>3, IdleFields
    <3> QED BY <1>1, <1>2, <2>1, <2>2, <3>1, PlanAdded
  <2>5. Moves'
    <3>1. Len(plans) \in Nat /\ Len(plans') \in Nat /\ Len(plans) <= Len(plans')
      BY <2>4
    <3> QED BY <1>1, <1>2, <2>2, <3>1, IdleFields, MoveWritten
  <2>6. Exclusive'
    BY <1>1, IdleFields, BoardTypes, ExclusiveWalks
  <2>7. /\ \A c \in Briefs : SameKeys(c)
        /\ \A f \in findings' : \E g \in findings : g.brief = f.brief /\ g.of = f.of
    BY <1>1, KeysStay
  <2>8. Idle.pc \notin Writing /\ Idle.pc \notin {"unlink", "unlinkUndo"}
    BY IdleFields DEF Writing
  <2>9. Transforms'
    BY <1>1, <2>2, <2>7, <2>8, TransformsWalk
  <2>10. Reviewed'
    BY <1>1, <1>2, <2>2, <2>7, <2>8, ReviewedWalks
  <2> QED BY <2>4, <2>5, <2>6, <2>9, <2>10 DEF BoardInv
<1> QED BY <1>3, <1>4

\* The brief of a published plan is found by the plan it names.
LEMMA LookUpBoard ==
  ASSUME BoardInv, IntakeInv', NEW p \in Procs, LookUpBrief(p)
  PROVE  BoardInv'
<1>1. /\ proc[p].pc \in {"lookup", "skip"} /\ proc' = [proc EXCEPT ![p] = Idle]
      /\ UNCHANGED <<brief, findings, plans, published, transforms, spoiled, bare>>
      /\ catalog' = IF At(p, "lookup") /\
                       \E b \in Briefs :
                         Stored(b) /\ brief[b].promoted = proc[p].n /\ brief[b].plan # 0
                      THEN catalog \cup {proc[p].n} ELSE catalog
  BY DEF LookUpBrief, End, At, hist
<1>2. proc[p].pc \notin Writing /\ catalog \subseteq catalog'
      /\ Idle.pc \notin Writing /\ Idle.pc \notin {"unlink", "unlinkUndo"}
  BY <1>1, IdleFields DEF Writing
<1>3. Moves'
  BY <1>1, IdleFields, BoardTypes, MovesWalk DEF IntakeInv
<1>4. /\ \A c \in Briefs : SameKeys(c)
      /\ \A f \in findings' : \E g \in findings : g.brief = f.brief /\ g.of = f.of
  BY <1>1, KeysStay
<1>5. ASSUME At(p, "lookup"), proc[p].n \in published, proc[p].n \notin bare, plans[proc[p].n] # None,
             Stored(plans[proc[p].n]), <<plans[proc[p].n], "promotion">> \notin spoiled
      PROVE  proc[p].n \in catalog'
  <2> DEFINE b == plans[proc[p].n]
  <2>1. proc[p].n \in DOMAIN plans /\ brief[b].plan # 0
    BY <1>5, BoardTypes DEF Lookups
  <2>2. b \in Briefs /\ brief[b].promoted = proc[p].n
    BY <1>5, <2>1, BoardTypes, PlansSound DEF IntakeInv, PromotedPlanFindsBrief
  <2> QED BY <1>1, <1>5, <2>1, <2>2
<1> QED BY <1>1, <1>2, <1>3, <1>4, <1>5, IdleFields, WalkKeeps

LEMMA PostPublishBoard ==
  ASSUME BoardInv, IntakeInv', NEW r \in Requests, NEW k \in DOMAIN plans,
         NEW hasId \in BOOLEAN, PostPublish(r, k, hasId)
  PROVE  BoardInv'
<1> DEFINE x == [Idle EXCEPT !.pc = IF hasId THEN "lookup" ELSE "skip", !.n = k]
<1>1. /\ r \in Procs /\ proc[r].pc = "idle" /\ proc' = [proc EXCEPT ![r] = x]
      /\ published' = published \cup {k}
      /\ bare' = IF hasId /\ (plans[k] # None => brief[plans[k]].plan # 0)
                   THEN bare \ {k} ELSE bare \cup {k}
      /\ UNCHANGED <<brief, findings, plans, catalog, transforms, spoiled>>
  BY DEF PostPublish, Active, Procs
<1>2. k \in Nat
  BY BoardTypes, PlansSound
<1>3. x \in Process /\ x.pc = (IF hasId THEN "lookup" ELSE "skip") /\ x.aspect = "none" /\ x.n = k
  BY <1>2 DEF Process, Idle, Stages
<1> HIDE DEF x
<1>4. /\ x.pc \notin Writing \cup {"edit", "stage"} /\ x.pc \notin {"unlink", "unlinkUndo"}
      /\ proc[r].pc \notin Writing /\ ~At(r, "lookup")
  BY <1>1, <1>3 DEF Writing, At
<1>5. proc'[r] = x /\ \A q \in Procs \ {r} : proc'[q] = proc[q]
  BY <1>1, BoardTypes
<1>6. Exclusive'
  BY <1>1, <1>3, BoardTypes, ExclusiveWalks
<1>7. Moves'
  BY <1>1, <1>4, BoardTypes, MovesWalk DEF IntakeInv
<1>8. /\ \A c \in Briefs : SameKeys(c)
      /\ \A f \in findings' : \E g \in findings : g.brief = f.brief /\ g.of = f.of
  BY <1>1, KeysStay
<1>9. Transforms'
  BY <1>1, <1>4, <1>8, TransformsWalk
<1>10. Reviewed'
  BY <1>1, <1>4, <1>8, ReviewedWalks
<1>11. Lookups'
  BY <1>1, <1>4, <1>5, BoardTypes DEF Lookups
<1>12. PublishedIsCatalogued'
  <2> SUFFICES ASSUME NEW j \in published', j \notin catalog \cup bare', plans[j] # None,
                      Stored(plans[j]), <<plans[j], "promotion">> \notin spoiled
               PROVE  \E q \in Procs : At(q, "lookup")' /\ proc'[q].n = j
    BY <1>1 DEF PublishedIsCatalogued, Stored
  <2>1. CASE j = k
    BY <1>1, <1>3, <1>5, <2>1 DEF At
  <2>2. CASE j # k
    <3>1. PICK q \in Procs : At(q, "lookup") /\ proc[q].n = j
      BY <1>1, <2>2, BoardTypes DEF PublishedIsCatalogued
    <3> QED BY <1>4, <1>5, <3>1 DEF At
  <2> QED BY <2>1, <2>2
<1> QED BY <1>6, <1>7, <1>9, <1>10, <1>11, <1>12 DEF BoardInv

---------------------------------------------------------------------------
(* A transform begins; steps that move no process; a crash.                *)

LEMMA PostTransformBoard ==
  ASSUME BoardInv, IntakeInv', NEW r \in Requests, NEW b \in Briefs, PostTransform(r, b)
  PROVE  BoardInv'
<1> DEFINE x == [Idle EXCEPT !.pc = "draft", !.aspect = "plan", !.brief = b,
                             !.n = transforms + 1]
<1>1. /\ r \in Procs /\ proc[r].pc = "idle" /\ transforms' = transforms + 1
      /\ proc' = [proc EXCEPT ![r] = x] /\ Stored(b)
      /\ UNCHANGED <<brief, findings, plans, published, catalog, bare>>
      /\ spoiled' = spoiled \cup Overlapped(r, "plan", b)
  BY DEF PostTransform, Begin, Active, Procs, docs
<1>2. transforms \in Nat
  BY BoardTypes DEF TypeOK
<1>3. /\ x \in Process /\ x.pc = "draft" /\ x.aspect = "plan" /\ x.brief = b
      /\ x.n = transforms + 1 /\ proc'[r] = x /\ \A q \in Procs \ {r} : proc'[q] = proc[q]
  <2>1. x \in Process /\ x.pc = "draft" /\ x.aspect = "plan" /\ x.brief = b
        /\ x.n = transforms + 1
    <3>1. transforms + 1 \in Nat
      BY <1>2
    <3> QED BY <3>1 DEF Process, Idle
  <2> QED BY <1>1, <2>1, BoardTypes
<1> HIDE DEF x
<1>4. x.pc \in Writing /\ x.n # 0 /\ proc[r].pc \notin Writing /\ ~At(r, "lookup")
  BY <1>1, <1>2, <1>3 DEF Writing, At
<1>5. Exclusive'
  BY <1>1, <1>3, BoardTypes, ExclusiveWalks
<1>6. Moves'
  BY <1>1, <1>3, BoardTypes, MovesWalk DEF IntakeInv
<1>7. Lookups' /\ PublishedIsCatalogued'
  BY <1>1, <1>4, LookupsWalk
<1>8. /\ \A q \in Procs : proc[q].n \in Nat
      /\ \A f \in findings : f.of \in Nat /\ f.of <= transforms
  BY BoardTypes DEF Process, Finding, IntakeInv, Numbered
<1>9. Transforms'
  <2>1. ASSUME NEW q \in Procs \ {r}, proc'[q].pc \in Writing
        PROVE  /\ proc'[q].aspect = "plan" /\ proc'[q].n <= transforms
               /\ proc'[q].n <= transforms' /\ proc'[q].n # transforms'
               /\ brief'[proc'[q].brief].is # "new"
               /\ \A s \in Procs \ {r} : proc'[s].pc \in Writing /\ proc'[s].n = proc'[q].n => q = s
               /\ \A f \in findings' : f.of = proc'[q].n => f.brief = proc'[q].brief
               /\ \A g \in proc'[q].found : proc'[q].pc \in {"unlink", "unlinkUndo"} =>
                    g.brief = proc'[q].brief
    <3>1. proc'[q] = proc[q] /\ proc[q].pc \in Writing
      BY <1>3, <2>1
    <3>2. proc[q].n <= transforms /\ proc[q].n <= transforms' /\ proc[q].n # transforms'
      BY <1>1, <1>2, <1>8, <3>1, BoardTypes DEF Transforms
    <3> QED BY <1>1, <1>3, <3>1, <3>2, BoardTypes DEF Transforms
  <2>2. /\ proc'[r].aspect = "plan" /\ proc'[r].n = transforms' /\ proc'[r].n <= transforms'
        /\ brief'[proc'[r].brief].is # "new" /\ proc'[r].pc \notin {"unlink", "unlinkUndo"}
        /\ \A f \in findings' : f.of # proc'[r].n
    BY <1>1, <1>2, <1>3, <1>8 DEF Stored
  <2> QED BY <2>1, <2>2 DEF Transforms
<1>10. Reviewed'
  <2> SUFFICES ASSUME NEW c \in Briefs, <<c, "plan">> \notin spoiled'
               PROVE  /\ brief[c].is # "deleted"
                      /\ \A q \in Procs : WritingOn(q, c)' => Fit(q)'
                      /\ (\A q \in Procs : ~WritingOn(q, c)') =>
                           \A f \in findings : f.brief = c => f.of = brief[c].plan
    BY <1>1 DEF Reviewed, FindingsOf
  <2>1. /\ brief[c].is # "deleted"
        /\ \A q \in Procs : WritingOn(q, c) => Fit(q)
        /\ (\A q \in Procs : ~WritingOn(q, c)) =>
             \A f \in findings : f.brief = c => f.of = brief[c].plan
    BY <1>1, BoardTypes DEF Reviewed, FindingsOf
  <2>2. ASSUME NEW q \in Procs, q # r, WritingOn(q, c)' PROVE Fit(q)'
    <3>1. proc'[q] = proc[q] /\ Fit(q)
      BY <1>3, <2>1, <2>2 DEF WritingOn
    <3> QED BY <1>1, <3>1 DEF Fit, FindingsOf, At
  <2>3. ASSUME WritingOn(r, c)' PROVE Fit(r)'
    <3>1. c = b
      BY <1>3, <2>3 DEF WritingOn
    <3>2. ASSUME NEW q \in Procs, WritingOn(q, b) PROVE FALSE
      <4>1. q # r /\ proc[q].aspect = "plan" /\ proc[q].brief = b
        BY <1>4, <3>2, BoardTypes DEF WritingOn, Transforms
      <4>2. <<b, "plan">> \in Overlapped(r, "plan", b)
        BY <4>1 DEF Overlapped, Writes
      <4> QED BY <1>1, <3>1, <4>2
    <3>3. \A f \in findings : f.brief = b => f.of = brief[b].plan
      BY <2>1, <3>1, <3>2
    <3> QED BY <1>1, <1>3, <3>3 DEF Fit, FindingsOf, At
  <2>4. ASSUME \A q \in Procs : ~WritingOn(q, c)'
        PROVE  \A q \in Procs : ~WritingOn(q, c)
    BY <1>3, <1>4, <2>4 DEF WritingOn
  <2> QED BY <2>1, <2>2, <2>3, <2>4
<1> QED BY <1>5, <1>6, <1>7, <1>9, <1>10 DEF BoardInv

\* No process moves.
LEMMA RestKeeps ==
  ASSUME BoardInv, IntakeInv', UNCHANGED <<proc, published, catalog, transforms, bare>>,
         plans' = plans, spoiled \subseteq spoiled',
         \A b \in Briefs :
           /\ brief'[b].plan = brief[b].plan /\ brief'[b].stage = brief[b].stage
           /\ brief'[b].promoted = brief[b].promoted
           /\ brief'[b].is = "new" => brief[b].is = "new"
           /\ brief'[b].is = "stored" => brief[b].is \in {"new", "stored"}
           /\ brief'[b].is = "deleted" => brief[b].is = "deleted" \/ <<b, "plan">> \in spoiled'
           /\ SameKeys(b),
         \A f \in findings' : \E g \in findings : g.brief = f.brief /\ g.of = f.of
  PROVE  BoardInv'
<1>1. /\ Exclusive /\ Moves /\ Lookups /\ PublishedIsCatalogued /\ Transforms /\ Reviewed
      /\ Placed /\ Promotions
  BY BoardTypes DEF IntakeInv
<1>2. \A q \in Procs : proc[q].pc \in Writing \cup {"stage"} => proc[q].brief \in Briefs
  BY <1>1 DEF Placed, Writing
<1>3. Exclusive'
  BY <1>1, ExclusiveStays
<1>4. Moves'
  BY <1>1, <1>2 DEF Moves, At
<1>5. \A k \in published : /\ k \in DOMAIN plans /\ plans[k] \in Briefs \cup {None}
                           /\ plans[k] # None => brief[plans[k]].is # "new"
  BY <1>1, PlansSound DEF BoardInv, Lookups, Promotions
<1>6. Lookups'
  BY <1>1, <1>5 DEF Lookups
<1>7. PublishedIsCatalogued'
  <2> SUFFICES ASSUME NEW k \in published, k \notin catalog \cup bare, plans[k] # None,
                      brief'[plans[k]].is = "stored", <<plans[k], "promotion">> \notin spoiled
               PROVE  \E q \in Procs : At(q, "lookup") /\ proc[q].n = k
    BY DEF PublishedIsCatalogued, Stored, At
  <2>1. Stored(plans[k])
    BY <1>5 DEF Stored
  <2> QED BY <1>1, <2>1 DEF PublishedIsCatalogued
<1>8. Transforms'
  <2>1. ASSUME NEW q \in Procs, proc[q].pc \in Writing
        PROVE  \A f \in findings' : f.of = proc[q].n => f.brief = proc[q].brief
    BY <1>1, <2>1 DEF Transforms
  <2> QED BY <1>1, <1>2, <2>1 DEF Transforms
<1>9. Reviewed'
  <2> SUFFICES ASSUME NEW b \in Briefs, <<b, "plan">> \notin spoiled'
               PROVE  /\ brief'[b].is # "deleted"
                      /\ \A q \in Procs : WritingOn(q, b) => Fit(q)'
                      /\ (\A q \in Procs : ~WritingOn(q, b)) =>
                           \A f \in findings' : f.brief = b => f.of = brief'[b].plan
    BY DEF Reviewed, FindingsOf, WritingOn
  <2>1. /\ brief[b].is # "deleted"
        /\ \A q \in Procs : WritingOn(q, b) => Fit(q)
        /\ (\A q \in Procs : ~WritingOn(q, b)) =>
             \A f \in findings : f.brief = b => f.of = brief[b].plan
    BY <1>1 DEF Reviewed, FindingsOf
  <2>2. brief'[b].plan = brief[b].plan /\ SameKeys(b) /\ brief'[b].is # "deleted"
    BY <2>1
  <2>3. ASSUME NEW q \in Procs, WritingOn(q, b) PROVE Fit(q)'
    <3>1. Fit(q) /\ proc[q].brief = b
      BY <2>1, <2>3 DEF WritingOn
    <3> QED BY <2>2, <3>1 DEF Fit, FindingsOf, SameKeys, At
  <2> QED BY <2>1, <2>2, <2>3 DEF SameKeys
<1> QED BY <1>3, <1>4, <1>6, <1>7, <1>8, <1>9 DEF BoardInv

LEMMA CreateBoard ==
  ASSUME BoardInv, IntakeInv', NEW b \in Briefs, CreatePipelineBrief(b) \/ GetBriefPage(b)
  PROVE  BoardInv'
<1>1. /\ UNCHANGED <<proc, published, catalog, transforms, bare, plans, findings, spoiled>>
      /\ \/ brief' = brief
         \/ brief[b].is = "new" /\ brief' = [brief EXCEPT ![b].is = "stored"]
  BY DEF CreatePipelineBrief, GetBriefPage, docs, hist
<1>2. /\ \A c \in Briefs : SameKeys(c)
      /\ \A f \in findings' : \E g \in findings : g.brief = f.brief /\ g.of = f.of
  BY <1>1, KeysStay
<1>3. \A c \in Briefs :
        /\ brief'[c].plan = brief[c].plan /\ brief'[c].stage = brief[c].stage
        /\ brief'[c].promoted = brief[c].promoted
        /\ brief'[c].is = brief[c].is \/ (brief[c].is = "new" /\ brief'[c].is = "stored")
  BY <1>1, BoardTypes DEF BriefDoc
<1> QED BY <1>1, <1>2, <1>3, RestKeeps

LEMMA CreateBatchBoard ==
  ASSUME BoardInv, IntakeInv', NEW bs \in Batches, CreateBriefBatchWithScoring(bs)
  PROVE  BoardInv'
<1>1. /\ UNCHANGED <<proc, published, catalog, transforms, bare, plans, findings, spoiled>>
      /\ \A i \in DOMAIN bs : brief[bs[i]].is = "new"
      /\ brief' = [b \in Briefs |-> IF \E i \in DOMAIN bs : bs[i] = b
                                      THEN [brief[b] EXCEPT !.is = "stored"] ELSE brief[b]]
  BY DEF CreateBriefBatchWithScoring, hist
<1>2. /\ \A c \in Briefs : SameKeys(c)
      /\ \A f \in findings' : \E g \in findings : g.brief = f.brief /\ g.of = f.of
  BY <1>1, KeysStay
<1>3. \A c \in Briefs :
        /\ brief'[c].plan = brief[c].plan /\ brief'[c].stage = brief[c].stage
        /\ brief'[c].promoted = brief[c].promoted
        /\ brief'[c].is = brief[c].is \/ (brief[c].is = "new" /\ brief'[c].is = "stored")
  BY <1>1, BoardTypes DEF BriefDoc
<1> QED BY <1>1, <1>2, <1>3, RestKeeps

LEMMA DeleteBoard ==
  ASSUME BoardInv, IntakeInv', NEW bs \in SUBSET Briefs, ApplyBulkDelete(bs)
  PROVE  BoardInv'
<1> DEFINE gone == {b \in bs : Stored(b)}
<1>1. /\ UNCHANGED <<proc, published, catalog, transforms, bare, plans, findings>>
      /\ brief' = [b \in Briefs |-> IF b \in gone THEN [brief[b] EXCEPT !.is = "deleted"]
                                                  ELSE brief[b]]
      /\ spoiled' = spoiled \cup {<<b, "plan">> : b \in gone}
  BY DEF ApplyBulkDelete, DeletePipelineBriefs
<1>2. /\ \A c \in Briefs : SameKeys(c)
      /\ \A f \in findings' : \E g \in findings : g.brief = f.brief /\ g.of = f.of
  BY <1>1, KeysStay
<1>3. \A c \in Briefs :
        /\ brief'[c].plan = brief[c].plan /\ brief'[c].stage = brief[c].stage
        /\ brief'[c].promoted = brief[c].promoted
        /\ \/ brief'[c].is = brief[c].is
           \/ brief'[c].is = "deleted" /\ <<c, "plan">> \in spoiled'
  BY <1>1, BoardTypes DEF BriefDoc
<1> QED BY <1>1, <1>2, <1>3, RestKeeps

LEMMA PatchFindingBoard ==
  ASSUME BoardInv, IntakeInv', NEW f \in findings, NEW s \in {"overridden", "resolved"},
         PatchFinding(f, s)
  PROVE  BoardInv'
<1> DEFINE new == [f EXCEPT !.status = s]
<1>1. /\ UNCHANGED <<brief, proc, published, catalog, transforms, bare, plans, spoiled>>
      /\ findings' = (findings \ {f}) \cup {new}
  BY DEF PatchFinding, hist
<1>2. new.brief = f.brief /\ new.of = f.of /\ new.n = f.n
  BY BoardTypes, StatusWritten
<1> HIDE DEF new
<1>3. /\ \A c \in Briefs : SameKeys(c)
      /\ \A g \in findings' : \E h \in findings : h.brief = g.brief /\ h.of = g.of
  BY <1>1, <1>2 DEF SameKeys
<1> QED BY <1>1, <1>3, RestKeeps

LEMMA DirectPlanBoard ==
  ASSUME BoardInv, IntakeInv', CreateYoutubeAdvancedPlanDirect
  PROVE  BoardInv'
<1>1. /\ plans' = Append(plans, None)
      /\ UNCHANGED <<brief, findings, published, catalog, proc, transforms, spoiled, bare>>
  BY DEF CreateYoutubeAdvancedPlanDirect, hist
<1>2. /\ Lookups' /\ PublishedIsCatalogued'
      /\ Len(plans) \in Nat /\ Len(plans') = Len(plans) + 1
  BY <1>1, PlanAdded
<1>3. \A b \in Briefs : brief[b].promoted \in Nat /\ brief[b].promoted <= Len(plans)
  BY BoardTypes DEF Moves, BriefDoc
<1>4. Moves'
  BY <1>1, <1>2, <1>3, BoardTypes DEF Moves, At
<1>5. Exclusive'
  BY <1>1, BoardTypes DEF Exclusive
<1>6. Transforms'
  BY <1>1, BoardTypes DEF Transforms
<1>7. Reviewed'
  BY <1>1, BoardTypes DEF Reviewed, WritingOn, Fit, FindingsOf, At
<1> QED BY <1>2, <1>4, <1>5, <1>6, <1>7 DEF BoardInv

\* The process dies: transforms spoil their briefs, publications are in bare.
LEMMA CrashBoard ==
  ASSUME BoardInv, IntakeInv', Crash
  PROVE  BoardInv'
<1>1. /\ UNCHANGED <<brief, findings, plans, published, catalog, transforms>>
      /\ proc' = [p \in Procs |-> Idle]
      /\ spoiled' = spoiled \cup UNION {CutOff(p) : p \in Procs}
      /\ bare' = bare \cup {k \in published : \E p \in Procs : At(p, "lookup") /\ proc[p].n = k}
  BY DEF Crash, docs
<1>2. \A p \in Procs : /\ proc'[p] = Idle /\ Idle.aspect = "none" /\ Idle.pc = "idle"
                       /\ Idle.pc \notin Writing \cup {"edit"}
  BY <1>1, IdleFields
<1>3. Exclusive'
  BY <1>2 DEF Exclusive, Writes
<1>4. Moves'
  BY <1>1, <1>2, BoardTypes DEF Moves, At
<1>5. Lookups'
  BY <1>1, <1>2, BoardTypes DEF Lookups
<1>6. PublishedIsCatalogued'
  BY <1>1, BoardTypes DEF PublishedIsCatalogued, Stored
<1>7. Transforms'
  BY <1>2 DEF Transforms
<1>8. Reviewed'
  <2> SUFFICES ASSUME NEW b \in Briefs, <<b, "plan">> \notin spoiled'
               PROVE  /\ brief[b].is # "deleted"
                      /\ \A f \in findings : f.brief = b => f.of = brief[b].plan
    BY <1>1, <1>2 DEF Reviewed, WritingOn, FindingsOf
  <2>1. \A p \in Procs : ~WritingOn(p, b)
    BY <1>1, BoardTypes DEF WritingOn, Transforms, CutOff
  <2> QED BY <1>1, <2>1, BoardTypes DEF Reviewed, FindingsOf
<1> QED BY <1>3, <1>4, <1>5, <1>6, <1>7, <1>8 DEF BoardInv

---------------------------------------------------------------------------
(* BoardInv holds.                                                         *)

LEMMA InitBoard == Init => BoardInv
<1> SUFFICES ASSUME Init PROVE BoardInv
  OBVIOUS
<1>1. IntakeInv
  BY InitIntake
<1>2. \A p \in Procs : /\ proc[p] = Idle /\ Idle.aspect = "none" /\ Idle.pc = "idle"
                       /\ Idle.pc \notin Writing \cup {"edit"}
  BY IdleFields DEF Init
<1>3. /\ findings = {} /\ published = {} /\ plans = <<>>
      /\ \A b \in Briefs : brief[b].promoted = 0 /\ brief[b].is = "new"
  BY DEF Init, NewBrief
<1>4. Exclusive
  BY <1>2 DEF Exclusive, Writes
<1>5. Moves /\ Lookups /\ PublishedIsCatalogued
  BY <1>2, <1>3 DEF Moves, Lookups, PublishedIsCatalogued, At
<1>6. Transforms /\ Reviewed
  BY <1>2, <1>3 DEF Transforms, Reviewed, WritingOn, FindingsOf
<1> QED BY <1>1, <1>4, <1>5, <1>6 DEF BoardInv

LEMMA StepBoard == BoardInv /\ [Next]_vars => BoardInv'
<1> SUFFICES ASSUME BoardInv, [Next]_vars PROVE BoardInv'
  OBVIOUS
<1>0. IntakeInv'
  BY StepIntake, BoardTypes
<1>1. CASE \E b \in Briefs : CreatePipelineBrief(b) \/ GetBriefPage(b)
  BY <1>0, <1>1, CreateBoard
<1>2. CASE \E bs \in Batches : CreateBriefBatchWithScoring(bs)
  BY <1>0, <1>2, CreateBatchBoard
<1>3. CASE \E bs \in SUBSET Briefs : ApplyBulkDelete(bs)
  BY <1>0, <1>3, DeleteBoard
<1>4. CASE \E f \in findings : PostOverride(f) \/ PostResolve(f)
  BY <1>0, <1>4, PatchFindingBoard DEF PostOverride, PostResolve
<1>5. CASE CreateYoutubeAdvancedPlanDirect
  BY <1>0, <1>5, DirectPlanBoard
<1>6. CASE \E r \in Requests : Routes(r)
  <2> PICK r \in Requests : Routes(r)
    BY <1>6
  <2>1. CASE \E b \in Briefs : PostScore(r, b) \/ PatchScore(r, b) \/ PostBuildPlan(r, b)
                               \/ PostPromote(r, b)
    BY <1>0, <2>1, BeginsBoard
  <2>2. CASE \E b \in Briefs : PostTransform(r, b)
    BY <1>0, <2>2, PostTransformBoard
  <2>3. CASE \E b \in Briefs, to \in Stages : PostStage(r, b, to)
    BY <1>0, <2>3, PostStageBoard
  <2>4. CASE \E bs \in SUBSET Briefs : PostBulkRetire(r, bs)
    BY <1>0, <2>4, PostBulkRetireBoard
  <2>5. CASE \E k \in DOMAIN plans, hasId \in BOOLEAN : PostPublish(r, k, hasId)
    BY <1>0, <2>5, PostPublishBoard
  <2> QED BY <2>1, <2>2, <2>3, <2>4, <2>5 DEF Routes
<1>7. CASE \E w \in Workers : TakeNext(w)
  BY <1>0, <1>7, TakeNextBoard
<1>8. CASE \E p \in Procs : Work(p) \/ GivesUp(p) \/ StoreFault(p)
  <2> PICK p \in Procs : Work(p) \/ GivesUp(p) \/ StoreFault(p)
    BY <1>8
  <2>1. CASE ScoreRead(p) \/ ScoreFails(p) \/ GivesUp(p)
    BY <1>0, <2>1, ScoreReadBoard
  <2>2. CASE ScoreSave(p) \/ OverrideScore(p)
    BY <1>0, <2>2, ScoreSaveBoard
  <2>3. CASE RetireNext(p)
    BY <1>0, <2>3, RetireNextBoard
  <2>4. CASE StageSave(p)
    BY <1>0, <2>4, StageSaveBoard
  <2>5. CASE Drafted(p) \/ NoFindings(p) \/ QueryFindings(p) \/ Revise(p)
    BY <1>0, <2>5, DraftedBoard, QueryFindingsBoard, ReviseBoard
  <2>6. CASE UnlinkFindings(p) \/ PersistFindings(p) \/ MarkAppliedByRevisor(p)
    BY <1>0, <2>6, UnlinkFindingsBoard, PersistFindingsBoard, MarkAppliedBoard
  <2>7. CASE SavePlan(p) \/ EditBuildPlan(p)
    BY <1>0, <2>7, SavePlanBoard
  <2>8. CASE SavePlanFault(p) \/ StoreFault(p)
    BY <1>0, <2>8, FaultsBoard
  <2>9. CASE PromoteCommit(p)
    BY <1>0, <2>9, PromoteCommitBoard
  <2>10. CASE LookUpBrief(p)
    BY <1>0, <2>10, LookUpBoard
  <2> QED BY <2>1, <2>2, <2>3, <2>4, <2>5, <2>6, <2>7, <2>8, <2>9, <2>10
          DEF Work, Scoring, Transforming
<1>9. CASE Crash
  BY <1>0, <1>9, CrashBoard
<1>10. CASE UNCHANGED vars
  <2>1. /\ UNCHANGED <<proc, published, catalog, transforms, bare>> /\ plans' = plans
        /\ spoiled' = spoiled /\ brief' = brief /\ findings' = findings
    BY <1>10 DEF vars
  <2>2. \A b \in Briefs : brief[b].is \in {"new", "stored", "deleted"}
    BY BoardTypes DEF BriefDoc
  <2>3. /\ \A c \in Briefs : SameKeys(c)
        /\ \A f \in findings' : \E g \in findings : g.brief = f.brief /\ g.of = f.of
    BY <2>1, KeysStay
  <2> QED BY <1>0, <2>1, <2>2, <2>3, RestKeeps
<1> QED BY <1>1, <1>2, <1>3, <1>4, <1>5, <1>6, <1>7, <1>8, <1>9, <1>10 DEF Next

LEMMA BoardAlways == Spec => []BoardInv
BY InitBoard, StepBoard, PTL DEF Spec

\* publishDeliverable enqueues for the content catalog every plan whose brief
\* had a build plan when it was published: no promotion, edit, stage move or
\* transform takes that away before the look-up, whatever interleaves.
THEOREM PublishedAreCatalogued == Spec => []PublishedIsCatalogued
<1>1. BoardInv => PublishedIsCatalogued
  BY DEF BoardInv
<1> QED BY <1>1, BoardAlways, PTL

\* The findings shown with a build plan are findings on that plan: a transform
\* unlinks the old ones before it stores its own, rolls its own back when the
\* plan cannot be saved, and finds all it is to mark; the exceptions are those
\* that spoiled records, for any number of transforms, edits and failures.
THEOREM FindingsFollowPlan == Spec => []FindingsAreAboutPlan
<1>1. BoardInv => FindingsAreAboutPlan
  <2> SUFFICES ASSUME BoardInv, NEW f \in findings, <<f.brief, "plan">> \notin spoiled,
                      ~ \E p \in Procs : proc[p].aspect = "plan" /\ proc[p].brief = f.brief
               PROVE  f.of = brief[f.brief].plan
    BY DEF FindingsAreAboutPlan
  <2>1. f.brief \in Briefs
    BY BoardTypes DEF Finding
  <2>2. \A p \in Procs : ~WritingOn(p, f.brief)
    BY BoardTypes DEF WritingOn, Transforms
  <2> QED BY <2>1, <2>2, BoardTypes DEF Reviewed, FindingsOf
<1> QED BY <1>1, BoardAlways, PTL

---------------------------------------------------------------------------
(* Stages.                                                                 *)

\* What StageFollowsTable says of one step.
StepFollowsTable ==
  \A b \in Briefs :
    \/ brief'[b].stage \in StageTable[brief[b].stage] \cup {brief[b].stage}
    \/ brief'[b].promoted # brief[b].promoted /\ brief'[b].stage = "selected"
    \/ <<b, "stage">> \in spoiled

\* Only a stage move or a promotion writes a stage.
LEMMA StagesWritten ==
  ASSUME BoardInv, Next
  PROVE  \/ \A b \in Briefs : brief'[b].stage = brief[b].stage
         \/ \E p \in Procs : StageSave(p) \/ PromoteCommit(p)
<1> DEFINE Same == \A b \in Briefs : brief'[b].stage = brief[b].stage
<1>0. brief \in [Briefs -> BriefDoc]
  BY BoardTypes
<1>1. ASSUME brief' = brief PROVE Same
  BY <1>1
<1>2. ASSUME NEW b, NEW s, \/ brief' = [brief EXCEPT ![b].score = s]
                           \/ brief' = [brief EXCEPT ![b].plan = s]
                           \/ brief' = [brief EXCEPT ![b].is = s]
      PROVE  Same
  BY <1>0, <1>2 DEF BriefDoc
<1> HIDE DEF Same
<1>3. ASSUME NEW r \in Requests, Routes(r) PROVE Same
  BY <1>1, <1>3 DEF Routes, PostScore, PatchScore, PostTransform, PostBuildPlan, PostPromote,
                    PostStage, PostBulkRetire, PostPublish, Begin, docs
<1>4. ASSUME NEW p \in Procs, Work(p) \/ GivesUp(p) \/ StoreFault(p)
      PROVE  Same \/ StageSave(p) \/ PromoteCommit(p)
  <2>1. CASE Transforming(p)
    BY <1>1, <1>2, <2>1 DEF Transforming, Drafted, QueryFindings, UnlinkFindings, NoFindings,
                            PersistFindings, MarkAppliedByRevisor, Revise, SavePlan,
                            SavePlanFault, docs
  <2>2. CASE ScoreSave(p) \/ OverrideScore(p) \/ EditBuildPlan(p)
    BY <1>1, <1>2, <2>2 DEF ScoreSave, OverrideScore, EditBuildPlan
  <2>3. CASE ScoreRead(p) \/ ScoreFails(p) \/ RetireNext(p) \/ LookUpBrief(p) \/ GivesUp(p)
             \/ StoreFault(p)
    BY <1>1, <2>3 DEF ScoreRead, ScoreFails, RetireNext, LookUpBrief, GivesUp, StoreFault, docs
  <2> QED BY <1>4, <2>1, <2>2, <2>3 DEF Work, Scoring
<1>5. ASSUME NEW w \in Workers, TakeNext(w) PROVE Same
  BY <1>1, <1>5 DEF TakeNext, docs
<1>6. ASSUME Crash \/ CreateYoutubeAdvancedPlanDirect PROVE Same
  BY <1>1, <1>6 DEF Crash, CreateYoutubeAdvancedPlanDirect, docs
<1>7. ASSUME NEW b, CreatePipelineBrief(b) \/ GetBriefPage(b) PROVE Same
  BY <1>1, <1>2, <1>7 DEF CreatePipelineBrief, GetBriefPage, docs
<1>8. ASSUME NEW bs, CreateBriefBatchWithScoring(bs) \/ ApplyBulkDelete(bs) PROVE Same
  BY <1>0, <1>8 DEF CreateBriefBatchWithScoring, ApplyBulkDelete, DeletePipelineBriefs, Same,
                    BriefDoc
<1>9. ASSUME NEW f \in findings, PostOverride(f) \/ PostResolve(f) PROVE Same
  BY <1>1, <1>9 DEF PostOverride, PostResolve, PatchFinding
<1> QED BY <1>3, <1>4, <1>5, <1>6, <1>7, <1>8, <1>9 DEF Next, Same

LEMMA TableStep == BoardInv /\ [Next]_vars => [StepFollowsTable]_vars
<1> SUFFICES ASSUME BoardInv, Next PROVE StepFollowsTable
  OBVIOUS
<1>1. brief \in [Briefs -> BriefDoc] /\ Moves /\ IntakeInv
  BY BoardTypes
<1>2. CASE \A b \in Briefs : brief'[b].stage = brief[b].stage
  BY <1>2 DEF StepFollowsTable
<1>3. ASSUME NEW p \in Procs, StageSave(p) PROVE StepFollowsTable
  <2>1. At(p, "stage") /\ proc[p].brief \in Briefs
    BY <1>1, <1>3 DEF StageSave, IntakeInv, Placed, At
  <2>2. \/ brief' = brief
        \/ brief' = [brief EXCEPT ![proc[p].brief].stage = proc[p].stage]
    BY <1>3 DEF StageSave
  <2>3. \A b \in Briefs : \/ brief'[b].stage = brief[b].stage
                          \/ b = proc[p].brief /\ brief'[b].stage = proc[p].stage
    BY <1>1, <2>1, <2>2 DEF BriefDoc
  <2>4. <<proc[p].brief, "stage">> \notin spoiled =>
          proc[p].stage \in StageTable[brief[proc[p].brief].stage]
    BY <1>1, <2>1 DEF Moves
  <2> QED BY <2>3, <2>4 DEF StepFollowsTable
<1>4. ASSUME NEW p \in Procs, PromoteCommit(p) PROVE StepFollowsTable
  <2>1. proc[p].brief \in Briefs
    BY <1>1, <1>4 DEF PromoteCommit, IntakeInv, Placed, At
  <2>2. CASE brief' = brief
    BY <2>2 DEF StepFollowsTable
  <2>3. CASE /\ plans' = Append(plans, proc[p].brief)
             /\ brief' = [brief EXCEPT ![proc[p].brief].stage = "selected",
                                       ![proc[p].brief].promoted = Len(plans')]
    <3>1. Len(plans) \in Nat /\ Len(plans') = Len(plans) + 1
      BY <2>1, <2>3, PlansLength, AppendProperties, <1>1 DEF IntakeInv, TypeOK
    <3>2. \A b \in Briefs : brief[b].promoted \in Nat /\ brief[b].promoted <= Len(plans)
      BY <1>1 DEF Moves, BriefDoc
    <3>3. \A b \in Briefs : \/ brief'[b].stage = brief[b].stage
                            \/ brief'[b].stage = "selected" /\ brief'[b].promoted = Len(plans')
      BY <1>1, <2>1, <2>3 DEF BriefDoc
    <3>4. \A b \in Briefs : brief[b].promoted # Len(plans')
      BY <3>1, <3>2
    <3> QED BY <3>3, <3>4 DEF StepFollowsTable
  <2> QED BY <1>4, <2>2, <2>3 DEF PromoteCommit
<1> QED BY <1>2, <1>3, <1>4, StagesWritten

\* transitionBriefStage checks a move against a brief it read before it waited:
\* the move it writes is still one of the table, and a promotion selects,
\* unless two moves of the brief overlapped.
THEOREM StagesFollowTable == Spec => StageFollowsTable
<1>1. Spec => [][StepFollowsTable]_vars
  BY BoardAlways, TableStep, PTL DEF Spec
<1> QED BY <1>1 DEF StageFollowsTable, StepFollowsTable
==============================================================================
