----------------------------- MODULE Generation -----------------------------
(***************************************************************************)
(* How a step that asks the language model gets from what it read to what  *)
(* it stores (src/engine/, src/intake/scoring.ts, src/research/): it reads,*)
(* asks, parses and validates the answer, asks once more (the critic and   *)
(* the revisor twice more, the researcher never), and stores.  The scenes  *)
(* it read can be edited meanwhile: the edits take no lock.  One step runs *)
(* at a time.                                                              *)
(*                                                                         *)
(* An answer is Garbage or a sequence of entries.  An entry is the name it *)
(* cites (a scene, a beat, an archetype, a criterion, a finding, a tech    *)
(* stack), Stray if there is no such thing, or Flawed if a field of it is  *)
(* missing or out of range.                                                *)
(***************************************************************************)
EXTENDS Naturals, Sequences, FiniteSets

CONSTANTS
  MaxNames,    \* bound: scenes ever made; there are as many of all else to cite
  Stray, Flawed, Garbage,
  MaxEntries,  \* bound: entries of an answer
  Sizes,       \* the lengths that pass a step's count check
  Distinct     \* how many archetypes a set of titles needs

ASSUME NamesAssumption == MaxNames \in Nat /\ {Stray, Flawed, Garbage} \cap Nat = {}
ASSUME SizesAssumption == Sizes \subseteq 1 .. MaxEntries

VARIABLES
  present,  \* the plan's scenes
  spent,    \* how many ids were given to scenes so far
  job,      \* the step under way: what it read, why it asks, what it stores
  last      \* history: the last thing stored about scenes not edited since

genVars == <<present, spent, job, last>>

Names == 1 .. MaxNames

Entries(a) == {a[i] : i \in DOMAIN a}

Answers == UNION {[1 .. n -> Names \cup {Stray, Flawed}] : n \in 0 .. MaxEntries}

---------------------------------------------------------------------------
(* The steps: whether they read the scenes, how often they ask at most, and *)
(* what becomes of the answer.  The text ones save a list or a record that  *)
(* nothing here depends on.                                                 *)

Step(op, reads, tries, saves) ==
  [op |-> op, reads |-> reads, tries |-> tries, saves |-> saves]

DetectRequirementsCoverLetter     == Step("requirements", FALSE, 2, "text")
DetectRequirementsYoutubeAdvanced == Step("episodePlan", FALSE, 2, "text")
MatchProjects             == Step("match", FALSE, 2, "text")
GenerateScenesV1          == Step("scenesV1", FALSE, 2, "scenes")
GenerateScenesV2          == Step("scenesV2", FALSE, 2, "scenes")
WriteScripts              == Step("scripts", TRUE, 2, "scripts")
GenerateHookVariants      == Step("hooks", FALSE, 2, "text")
GenerateShotList          == Step("shots", TRUE, 2, "shots")
GenerateTitleVariants     == Step("titles", FALSE, 2, "text")
GenerateThumbnailConcepts == Step("thumbs", FALSE, 2, "text")
ExtractShortsCandidates   == Step("shorts", TRUE, 2, "candidates")
GeneratePublishMetadata   == Step("metadata", TRUE, 2, "metadata")
ScoreBriefViaLLM          == Step("score", FALSE, 2, "text")
TransformBrief            == Step("transform", FALSE, 2, "text")
CritiquePlan              == Step("critique", FALSE, 3, "advice")
RevisePlan                == Step("revise", FALSE, 3, "advice")
RunResearch               == Step("research", FALSE, 1, "text")

Steps == {DetectRequirementsCoverLetter, DetectRequirementsYoutubeAdvanced, MatchProjects,
          GenerateScenesV1, GenerateScenesV2, WriteScripts, GenerateHookVariants,
          GenerateShotList, GenerateTitleVariants, GenerateThumbnailConcepts,
          ExtractShortsCandidates, GeneratePublishMetadata, ScoreBriefViaLLM,
          TransformBrief, CritiquePlan, RevisePlan, RunResearch}

NoStep == Step("none", FALSE, 0, "text")
NoJob  == [step |-> NoStep, pc |-> "idle", seen |-> {}, tries |-> 0, why |-> "none",
           kept |-> [of |-> {}, n |-> 0]]
NoLast == [op |-> "none", why |-> "none", of |-> {}, n |-> 0]

GenInit == present = {} /\ spent = 0 /\ job = NoJob /\ last = NoLast

---------------------------------------------------------------------------
(* What a step accepts *)

\* The model is asked for one thing; what there is of it is checked by a
\* schema, and nothing in it is cited.
Requirements(a) == Flawed \notin Entries(a)
EpisodePlan(a)  == a # <<>> /\ Flawed \notin Entries(a)
Matches(a)      == Flawed \notin Entries(a)
ScenesV1(a)     == a # <<>> /\ Flawed \notin Entries(a)
Score(a)        == a # <<>> /\ Flawed \notin Entries(a)
Synthesis(a)    == a # <<>> /\ Flawed \notin Entries(a)

\* The count is checked apart from the schema: no scenes pass it, too.
ScenesV2(a)   == Flawed \notin Entries(a)
SceneCount(a) == Len(a) \in Sizes
KnownBeats(a) == Entries(a) \subseteq Names

TransformSchema(a) == a # <<>> /\ Flawed \notin Entries(a)
TechStack(a)       == Entries(a) \subseteq Names

HookVariants(a)  == Len(a) \in Sizes /\ Entries(a) \subseteq Names
TitleVariants(a) == /\ Len(a) \in Sizes /\ Entries(a) \subseteq Names
                    /\ Cardinality(Entries(a)) >= Distinct
Thumbnails(a)    == Len(a) \in Sizes /\ Flawed \notin Entries(a)

\* An entry for every scene; what else the answer holds is not looked at.
Scripts(a, seen)    == seen \subseteq Entries(a) /\ Flawed \notin Entries(a)
ShotList(a, seen)   == seen \subseteq Entries(a) /\ Flawed \notin Entries(a)
Candidates(a, seen) == Len(a) \in Sizes /\ Entries(a) \subseteq seen
Metadata(a, seen)   == Len(a) = Cardinality(seen) /\ Flawed \notin Entries(a)

\* The critic and the revisor refuse nothing that parses.
Criticism(a) == Flawed \notin Entries(a)
Revision(a)  == Flawed \notin Entries(a)

\* filterToKnownReferences, ensureCompleteCoverage: an entry that cites
\* nothing known is dropped.
KnownReferences(a, known) == Entries(a) \cap known
Coverage(a, expected)     == Entries(a) \cap expected

Accepts(step, a, seen) ==
  /\ a # Garbage
  /\ CASE step.op = "requirements" -> Requirements(a)
       [] step.op = "episodePlan"  -> EpisodePlan(a)
       [] step.op = "match"        -> Matches(a)
       [] step.op = "scenesV1"     -> ScenesV1(a)
       [] step.op = "scenesV2"     -> ScenesV2(a) /\ SceneCount(a) /\ KnownBeats(a)
       [] step.op = "scripts"      -> Scripts(a, seen)
       [] step.op = "hooks"        -> HookVariants(a)
       [] step.op = "shots"        -> ShotList(a, seen)
       [] step.op = "titles"       -> TitleVariants(a)
       [] step.op = "thumbs"       -> Thumbnails(a)
       [] step.op = "shorts"       -> Candidates(a, seen)
       [] step.op = "metadata"     -> Metadata(a, seen)
       [] step.op = "score"        -> Score(a)
       [] step.op = "transform"    -> TransformSchema(a) /\ TechStack(a)
       [] step.op = "critique"     -> Criticism(a)
       [] step.op = "revise"       -> Revision(a)
       [] step.op = "research"     -> Synthesis(a)

\* What is taken over from an accepted answer: what it cites, and how many
\* entries it has.
TakenOver(step, a, seen) ==
  CASE step.op = "scripts"  -> KnownReferences(a, seen)
    [] step.op = "critique" -> KnownReferences(a, Names)
    [] step.op = "revise"   -> Coverage(a, Names)
    [] OTHER                -> Entries(a)

---------------------------------------------------------------------------
(* Asking *)

Begin(step) ==
  /\ job.pc = "idle"
  /\ step.reads => present # {}
  /\ job' = [NoJob EXCEPT !.step = step, !.pc = "ask",
                          !.seen = IF step.reads THEN present ELSE {}]
  /\ UNCHANGED <<present, spent, last>>

Keep(a) ==
  job' = IF job.step.saves = "text" THEN NoJob
         ELSE [job EXCEPT !.pc = "store", 
                          !.kept = [of |-> TakenOver(job.step, a, job.seen), n |-> Len(a)]]
GiveUp == job' = NoJob
AskAgain(why) == job' = [job EXCEPT !.tries = @ + 1, !.why = why]

\* Why a first answer is refused.
Refusal(step, a) ==
  IF a = Garbage THEN "form"
  ELSE IF step # GenerateScenesV2 \/ ~ScenesV2(a) THEN "content"
  ELSE IF ~SceneCount(a) THEN "count" ELSE "beats"

FirstAnswer(a) ==
  /\ job.pc = "ask" /\ job.tries = 0
  /\ IF Accepts(job.step, a, job.seen) THEN Keep(a)
     ELSE IF job.step.tries > 1 THEN AskAgain(Refusal(job.step, a)) ELSE GiveUp
  /\ UNCHANGED <<present, spent, last>>

\* Mutant: the second answer is only parsed.
LastAnswerUnchecked(a) ==
  /\ job.pc = "ask" /\ job.tries = 1 /\ job.step.tries = 2
  /\ IF a # Garbage THEN Keep(a) ELSE GiveUp
  /\ UNCHANGED <<present, spent, last>>

\* The second answer is refused for good.  Scenes asked for again because of
\* their beats are not counted again: there may even be none.
LastAnswer(a) ==
  /\ job.pc = "ask" /\ job.tries = 1 /\ job.step.tries = 2
  /\ IF \/ Accepts(job.step, a, job.seen)
        \/ /\ job.step = GenerateScenesV2 /\ job.why = "beats"
           /\ a # Garbage /\ ScenesV2(a) /\ KnownBeats(a)
       THEN Keep(a) ELSE GiveUp
  /\ UNCHANGED <<present, spent, last>>

\* critiquePlan, revisePlan: three attempts, whatever failed, and then the
\* plan is shipped as it is.
Advice(a) ==
  /\ job.pc = "ask" /\ job.tries > 0 /\ job.step.tries = 3
  /\ IF Accepts(job.step, a, job.seen) THEN Keep(a)
     ELSE IF job.tries < 2 THEN AskAgain(Refusal(job.step, a)) ELSE GiveUp
  /\ UNCHANGED <<present, spent, last>>

\* The provider itself fails: only critic and revisor try again.
ProviderFails ==
  /\ job.pc = "ask"
  /\ IF job.step.tries = 3 /\ job.tries < 2 THEN AskAgain("form") ELSE GiveUp
  /\ UNCHANGED <<present, spent, last>>

---------------------------------------------------------------------------
(* Storing *)

Stores(what) == job.pc = "store" /\ job.step.saves = what

\* The findings, and those of them the revisor says it has applied.
StoreAdvice ==
  /\ Stores("advice")
  /\ last' = [op |-> job.step.op, why |-> "none", of |-> job.kept.of, n |-> 0]
  /\ job' = NoJob
  /\ UNCHANGED <<present, spent>>

\* All scenes are replaced in one batch.
StoreScenes ==
  /\ Stores("scenes")
  /\ spent' = spent + job.kept.n /\ spent' <= MaxNames
  /\ present' = spent + 1 .. spent'
  /\ last' = [op |-> job.step.op, why |-> job.why, of |-> present', n |-> job.kept.n]
  /\ job' = NoJob

Done(of, n) ==
  /\ last' = IF job.seen = present
               THEN [op |-> job.step.op, why |-> "none", of |-> of, n |-> n] ELSE NoLast
  /\ job' = NoJob

\* One batch, which fails if a scene is gone.
StoreScripts ==
  /\ Stores("scripts")
  /\ IF job.kept.of \subseteq present
       THEN Done(job.kept.of, Cardinality(job.seen))
       ELSE job' = NoJob /\ UNCHANGED last
  /\ UNCHANGED <<present, spent>>

\* One patch after the other, in the order of the scenes; a scene that is
\* gone is passed over.  "of" collects the scenes that have a shot list.
StoreShots ==
  /\ Stores("shots")
  /\ Done(job.seen \cap job.kept.of \cap present, Cardinality(job.seen))
  /\ UNCHANGED <<present, spent>>

StoreCandidates ==
  /\ Stores("candidates")
  /\ Done(job.kept.of, job.kept.n)
  /\ UNCHANGED <<present, spent>>

\* A chapter per scene that was read, labelled by the answer in that order.
StoreMetadata ==
  /\ Stores("metadata")
  /\ Done(job.seen, job.kept.n)
  /\ UNCHANGED <<present, spent>>

\* A write fails: of the shots, those before it are there, each in the place
\* of an older one.
WriteFails == job.pc = "store" /\ GiveUp /\ UNCHANGED <<present, spent, last>>

---------------------------------------------------------------------------
(* The editor, at any time *)

AddScene ==
  /\ spent < MaxNames /\ spent' = spent + 1
  /\ present' = present \cup {spent'}
  /\ last' = NoLast /\ UNCHANGED job

DeleteScene ==
  /\ \E s \in present : present' = present \ {s}
  /\ last' = NoLast /\ UNCHANGED <<spent, job>>

GenNext ==
  \/ \E step \in Steps : Begin(step)
  \/ \E a \in Answers \cup {Garbage} : FirstAnswer(a) \/ LastAnswer(a) \/ Advice(a)
  \/ ProviderFails
  \/ StoreAdvice \/ StoreScenes \/ StoreScripts \/ StoreShots \/ StoreCandidates \/ StoreMetadata
  \/ WriteFails \/ AddScene \/ DeleteScene

GenSpec == GenInit /\ [][GenNext]_genVars

---------------------------------------------------------------------------
(* Properties *)

Entry == Names \cup {Stray, Flawed}

GenTypeOK ==
  /\ spent \in 0 .. MaxNames /\ present \subseteq 1 .. spent
  /\ job \in [step : Steps \cup {NoStep}, pc : {"idle", "ask", "store"}, seen : SUBSET Names,
              tries : 0 .. 2, why : {"none", "form", "content", "count", "beats"},
              kept : [of : SUBSET Entry, n : Nat]]
  /\ last \in [op : {s.op : s \in Steps} \cup {"none"},
               why : {"none", "form", "content", "count", "beats"},
               of : SUBSET Entry, n : Nat]

\* What is stored about scenes fits them until they are edited, whichever
\* answer it was: every scene has its script and its shot list, candidates
\* cite scenes that exist, there are as many chapters as scenes, and the
\* number of scenes is the one asked for, except when the first answer was
\* refused for its beats.  No finding cites a criterion, and no revision a
\* finding, that there is not.
AnswersFit ==
  /\ last.op \in {"scripts", "shots"} => last.of = present
  /\ last.op = "shorts"   => last.of \subseteq present /\ last.n \in Sizes
  /\ last.op = "metadata" => last.n = Cardinality(present)
  /\ last.op \in {"critique", "revise"} => last.of \subseteq Names
  /\ last.op = "scenesV2" /\ last.why # "beats" => Cardinality(present) \in Sizes

\* The inductive invariant behind it: what waits to be stored fits what the
\* step has read, whichever answer it was taken from.
Accepted ==
  /\ job.pc # "idle" => job.step \in Steps
  /\ job.pc = "store" =>
       /\ job.step.op = "scripts"  => job.kept.of = job.seen
       /\ job.step.op = "shots"    => job.seen \subseteq job.kept.of
       /\ job.step.op = "shorts"   => job.kept.of \subseteq job.seen /\ job.kept.n \in Sizes
       /\ job.step.op = "metadata" => job.kept.n = Cardinality(job.seen)
       /\ job.step.op \in {"critique", "revise"} => job.kept.of \subseteq Names
       /\ job.step.op = "scenesV2" /\ job.why # "beats" => job.kept.n \in Sizes

GenInv == GenTypeOK /\ Accepted /\ AnswersFit
=============================================================================
