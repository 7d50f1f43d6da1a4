------------------------------ MODULE Polling ------------------------------
(***************************************************************************)
(* Ingestion of listings (src/polling/service.ts, src/db/listings.ts,      *)
(* src/db/plans.ts, the /poll route, the scheduled poll job and the        *)
(* manual cover-letter form): Neurocore redelivers a signal until it is    *)
(* acked, and each listing is to become one plan.                          *)
(*                                                                         *)
(* One action per await.  Plans, listings and the polling config are       *)
(* Firestore documents and survive a crash; the cycle mutex does not.      *)
(***************************************************************************)
EXTENDS Naturals, FiniteSets

CONSTANTS
  Signals,     \* pending-listing memories in Neurocore (memoryId)
  Listings,    \* listing ids
  ListingOf,   \* the listing a signal is about: several signals may share one
  Cycles,      \* activations of runPollCycle: scheduled ticks and POST /poll
  Forms,       \* submissions of the cover-letter form in flight together
  MaxMishaps   \* bound: calls that fail, and crashes, together

ASSUME ListingOfType == ListingOf \in [Signals -> Listings]
ASSUME BoundNat == MaxMishaps \in Nat

VARIABLES
  pending,    \* external: signals Neurocore still delivers
  polled,     \* plans the poll created, per listing (persistent)
  manual,     \* listings with a plan made by hand (persistent)
  listed,     \* listings in available_listings (persistent)
  selected,   \* ... of which planId is set (persistent)
  settings,   \* pollingEnabled and autoRunPipeline (persistent)
  handed,     \* listings whose polled plan went to enqueuePipeline
  inFlight,   \* cycleInFlight
  cpc,        \* where each cycle is
  seen,       \* the autoRunPipeline its cycle read
  batch,      \* signals its cycle still has to process
  cur,        \* the signal it is processing
  fpc, ffor,  \* where each form submission is, and its listing
  mishaps

store   == <<polled, manual, listed, selected>>
cycle   == <<cpc, seen, batch, cur>>
form    == <<fpc, ffor>>
vars    == <<pending, polled, manual, listed, selected, settings, handed, inFlight,
             cpc, seen, batch, cur, fpc, ffor, mishaps>>

Mishap == mishaps < MaxMishaps /\ mishaps' = mishaps + 1

Init ==
  /\ pending = Signals
  /\ polled = [l \in Listings |-> 0] /\ manual = {} /\ listed = {} /\ selected = {}
  /\ settings \in [enabled : BOOLEAN, auto : BOOLEAN]
  /\ handed = {} /\ inFlight = FALSE
  /\ cpc = [c \in Cycles |-> "idle"] /\ seen = [c \in Cycles |-> FALSE]
  /\ batch = [c \in Cycles |-> {}]
  /\ \E s \in Signals : cur = [c \in Cycles |-> s]
  /\ fpc = [f \in Forms |-> "idle"]
  /\ \E l \in Listings : ffor = [f \in Forms |-> l]
  /\ mishaps = 0

\* Each action of a cycle moves it from one await to the next.
Goto(c, from, to) == cpc[c] = from /\ cpc' = [cpc EXCEPT ![c] = to]

About(c) == ListingOf[cur[c]]

---------------------------------------------------------------------------
\* Mutant: a second cycle starts while one is running.
CycleStartUnguarded(c) ==
  /\ Goto(c, "idle", "config")
  /\ inFlight' = TRUE
  /\ UNCHANGED <<pending, store, settings, handed, seen, batch, cur, form, mishaps>>

\* A cycle that finds another one running returns at once.
CycleStart(c) ==
  /\ ~inFlight
  /\ Goto(c, "idle", "config")
  /\ inFlight' = TRUE
  /\ UNCHANGED <<pending, store, settings, handed, seen, batch, cur, form, mishaps>>

ReadConfig(c) ==
  /\ Goto(c, "config", IF settings.enabled THEN "fetch" ELSE "record")
  /\ seen' = [seen EXCEPT ![c] = settings.auto]
  /\ UNCHANGED <<pending, store, settings, handed, inFlight, batch, cur, form, mishaps>>

Fetch(c) ==
  /\ Goto(c, "fetch", "next")
  /\ batch' = [batch EXCEPT ![c] = pending]
  /\ UNCHANGED <<pending, store, settings, handed, inFlight, seen, cur, form, mishaps>>

NextSignal(c) ==
  /\ \E s \in batch[c] :
       /\ Goto(c, "next", "dedup")
       /\ batch' = [batch EXCEPT ![c] = @ \ {s}]
       /\ cur' = [cur EXCEPT ![c] = s]
  /\ UNCHANGED <<pending, store, settings, handed, inFlight, seen, form, mishaps>>

LastSignal(c) ==
  /\ batch[c] = {}
  /\ Goto(c, "next", "record")
  /\ UNCHANGED <<pending, store, settings, handed, inFlight, seen, batch, cur, form, mishaps>>

Planned(l) == polled[l] > 0 \/ l \in manual

\* Mutant: a listing that has a plan is written to available_listings again.
DedupRefresh(c) ==
  /\ Goto(c, "dedup", IF Planned(About(c)) THEN "upsert" ELSE "create")
  /\ UNCHANGED <<pending, store, settings, handed, inFlight, seen, batch, cur, form, mishaps>>

\* findPlanByListing: a listing that has a plan is acked without a new one.
Dedup(c) ==
  /\ Goto(c, "dedup", IF Planned(About(c)) THEN "ack" ELSE "create")
  /\ UNCHANGED <<pending, store, settings, handed, inFlight, seen, batch, cur, form, mishaps>>

CreatePlan(c) ==
  /\ Goto(c, "create", "upsert")
  /\ polled' = [polled EXCEPT ![About(c)] = @ + 1]
  /\ UNCHANGED <<pending, manual, listed, selected, settings, handed, inFlight, seen,
                 batch, cur, form, mishaps>>

\* Mutant: the listing is stored under the id of the signal.
UpsertSignal(c) ==
  /\ Goto(c, "upsert", IF seen[c] THEN "enqueue" ELSE "ack")
  /\ listed' = listed \cup {cur[c]}
  /\ UNCHANGED <<pending, polled, manual, selected, settings, handed, inFlight, seen,
                 batch, cur, form, mishaps>>

\* upsertListing replaces the whole document: planId becomes null.
UpsertListing(c) ==
  /\ Goto(c, "upsert", IF seen[c] THEN "enqueue" ELSE "ack")
  /\ listed' = listed \cup {About(c)}
  /\ selected' = selected \ {About(c)}
  /\ UNCHANGED <<pending, polled, manual, settings, handed, inFlight, seen, batch, cur,
                 form, mishaps>>

\* enqueuePipeline; its failure is logged and forgotten.
Handover(c) ==
  /\ Goto(c, "enqueue", "ack")
  /\ \/ handed' = handed \cup {About(c)} /\ UNCHANGED mishaps
     \/ Mishap /\ UNCHANGED handed
  /\ UNCHANGED <<pending, store, settings, inFlight, seen, batch, cur, form>>

\* A failed ack is logged; it may have reached Neurocore all the same.
Ack(c) ==
  /\ Goto(c, "ack", "next")
  /\ \/ pending' = pending \ {cur[c]} /\ (Mishap \/ UNCHANGED mishaps)
     \/ Mishap /\ UNCHANGED pending
  /\ UNCHANGED <<store, settings, handed, inFlight, seen, batch, cur, form>>

\* Mutant: the failed listing is acked like a processed one.
ListingFaultAcked(c) ==
  /\ cpc[c] \in {"dedup", "create", "upsert"}
  /\ Mishap
  /\ cpc' = [cpc EXCEPT ![c] = "ack"]
  /\ UNCHANGED <<pending, store, settings, handed, inFlight, seen, batch, cur, form>>

\* processListing throws: the signal is not acked, the loop continues.  The
\* plan may have been written although createPlan reported a failure.
ListingFault(c) ==
  /\ cpc[c] \in {"dedup", "create", "upsert"}
  /\ Mishap
  /\ \/ UNCHANGED polled
     \/ cpc[c] = "create" /\ polled' = [polled EXCEPT ![About(c)] = @ + 1]
  /\ cpc' = [cpc EXCEPT ![c] = "next"]
  /\ UNCHANGED <<pending, manual, listed, selected, settings, handed, inFlight, seen,
                 batch, cur, form>>

\* Mutant: a cycle ends with its flag still up.
FinishForgetful(c) ==
  /\ Goto(c, "record", "idle")
  /\ inFlight' = TRUE
  /\ UNCHANGED <<pending, store, settings, handed, seen, batch, cur, form, mishaps>>

\* recordPoll, and the finally block.
Finish(c) ==
  /\ Goto(c, "record", "idle")
  /\ inFlight' = FALSE
  /\ UNCHANGED <<pending, store, settings, handed, seen, batch, cur, form, mishaps>>

\* The config, Neurocore or lastPollAt cannot be reached: the cycle ends.
CycleFault(c) ==
  /\ cpc[c] \in {"config", "fetch", "record"}
  /\ Mishap
  /\ cpc' = [cpc EXCEPT ![c] = "idle"]
  /\ inFlight' = FALSE
  /\ UNCHANGED <<pending, store, settings, handed, seen, batch, cur, form>>

---------------------------------------------------------------------------
\* POST /plans/new/cover-letter with the id of a listing on the listings page.

FormSubmit(f, l) ==
  /\ fpc[f] = "idle" /\ l \in listed
  /\ fpc' = [fpc EXCEPT ![f] = "create"] /\ ffor' = [ffor EXCEPT ![f] = l]
  /\ UNCHANGED <<pending, store, settings, handed, inFlight, cycle, mishaps>>

FormCreate(f) ==
  /\ fpc[f] = "create" /\ fpc' = [fpc EXCEPT ![f] = "mark"]
  /\ manual' = manual \cup {ffor[f]}
  /\ UNCHANGED <<pending, polled, listed, selected, settings, handed, inFlight, cycle,
                 ffor, mishaps>>

\* markListingSelected
FormMark(f) ==
  /\ fpc[f] = "mark" /\ fpc' = [fpc EXCEPT ![f] = "idle"]
  /\ selected' = selected \cup ({ffor[f]} \cap listed)
  /\ UNCHANGED <<pending, polled, manual, listed, settings, handed, inFlight, cycle,
                 ffor, mishaps>>

FormFault(f) ==
  /\ fpc[f] # "idle"
  /\ Mishap
  /\ fpc' = [fpc EXCEPT ![f] = "idle"]
  /\ UNCHANGED <<pending, store, settings, handed, inFlight, cycle, ffor>>

---------------------------------------------------------------------------
\* The settings page sets autoRunPipeline; pollingEnabled is edited in the
\* config document itself, whenever the operator wants.
PatchSettings ==
  /\ settings' \in [enabled : BOOLEAN, auto : BOOLEAN] \ {settings}
  /\ UNCHANGED <<pending, store, handed, inFlight, cycle, form, mishaps>>

Crash ==
  /\ Mishap
  /\ inFlight' = FALSE
  /\ cpc' = [c \in Cycles |-> "idle"]
  /\ batch' = [c \in Cycles |-> {}]
  /\ fpc' = [f \in Forms |-> "idle"]
  /\ UNCHANGED <<pending, store, settings, handed, seen, cur, ffor>>

Step(c) == ReadConfig(c) \/ Fetch(c) \/ NextSignal(c) \/ LastSignal(c) \/ Dedup(c)
             \/ CreatePlan(c) \/ UpsertListing(c) \/ Handover(c) \/ Ack(c) \/ Finish(c)

Next ==
  \/ \E c \in Cycles : CycleStart(c) \/ Step(c) \/ ListingFault(c) \/ CycleFault(c)
  \/ \E f \in Forms, l \in Listings : FormSubmit(f, l)
  \/ \E f \in Forms : FormCreate(f) \/ FormMark(f) \/ FormFault(f)
  \/ PatchSettings
  \/ Crash

Spec == Init /\ [][Next]_vars

\* The scheduler keeps ticking and every call settles.  The scheduled tick
\* that finds a cycle running is lost, so the start is only weakly fair.
Fairness ==
  /\ WF_vars(\E c \in Cycles : CycleStart(c))
  /\ \A c \in Cycles : WF_vars(Step(c))

FairSpec == Spec /\ Fairness

---------------------------------------------------------------------------
(* Properties *)

Busy(c) == cpc[c] # "idle"

\* Every variable keeps its type.
TypeOK ==
  /\ pending \subseteq Signals
  /\ polled \in [Listings -> Nat]
  /\ manual \subseteq Listings /\ listed \subseteq Listings /\ selected \subseteq Listings
  /\ settings \in [enabled : BOOLEAN, auto : BOOLEAN]
  /\ handed \subseteq Listings /\ inFlight \in BOOLEAN
  /\ cpc \in [Cycles -> {"idle", "config", "fetch", "next", "dedup", "create", "upsert",
                         "enqueue", "ack", "record"}]
  /\ seen \in [Cycles -> BOOLEAN]
  /\ batch \in [Cycles -> SUBSET Signals] /\ cur \in [Cycles -> Signals]
  /\ fpc \in [Forms -> {"idle", "create", "mark"}] /\ ffor \in [Forms -> Listings]
  /\ mishaps \in Nat

\* "Idempotent on the listing axis": redelivered signals, two signals for one
\* listing, a manual cycle beside a scheduled one, a crash in the middle and a
\* create that landed but reported a failure never make the poll create a
\* second plan for a listing.
PolledOnce == \A l \in Listings : polled[l] <= 1

\* A signal Neurocore stops delivering has its plan: the ack never overtakes
\* the plan, whatever fails in between.
AckedIsPlanned == \A s \in Signals \ pending : Planned(ListingOf[s])

\* upsertListing's overwrite "is safe": it never erases the planId a form
\* submission put on a listing.
SelectionSurvives == [][selected \subseteq selected']_vars

\* "Upsert into available_listings so the M12 listings page has the full PI
\* context": a signal that was acked left its listing there.
AckedIsListed == \A s \in Signals \ pending : ListingOf[s] \in listed

\* While polling stays enabled every pending signal is eventually planned and
\* acked: neither a failed cycle nor a crash leaves the mutex up.
Ingested == \A s \in Signals : s \in pending ~> s \notin pending \/ ~settings.enabled

\* The strengthening the proofs need: one cycle at a time, and a cycle about
\* to create a plan is right that there is none.
OneCycle ==
  /\ \A c, d \in Cycles : Busy(c) /\ Busy(d) => c = d
  /\ \A c \in Cycles : Busy(c) => inFlight

CreateIsNeeded == \A c \in Cycles : cpc[c] = "create" => polled[About(c)] = 0
AckIsPlanned   == \A c \in Cycles :
                    cpc[c] \in {"upsert", "enqueue", "ack"} => Planned(About(c))

\* A listing is on the page only after its plan was created, and once.
ListedIsPlanned ==
  /\ \A l \in listed : polled[l] > 0
  /\ \A c \in Cycles : cpc[c] = "upsert" => About(c) \notin listed /\ polled[About(c)] > 0
  /\ selected \subseteq listed

IInv == TypeOK /\ OneCycle /\ CreateIsNeeded /\ AckIsPlanned /\ ListedIsPlanned
          /\ PolledOnce /\ AckedIsPlanned
=============================================================================
