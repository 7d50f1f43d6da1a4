---------------------------- MODULE ModelConfig -----------------------------
(***************************************************************************)
(* The cache of Neurocore's model configuration                            *)
(* (src/engine/model-config.ts): the fetch on boot, the refresh timer, the *)
(* admin endpoint, and the fetch on demand of an empty cache.              *)
(***************************************************************************)
EXTENDS Naturals

VARIABLES
  config,     \* _cache.source, or "none"
  fetch,      \* per caller: "none", or its request to Neurocore is "sent" or "lost"
  timer,      \* _refreshTimer is armed
  reachable   \* external: Neurocore answers

configVars == <<config, fetch, timer, reachable>>

Fetchers == {"refresh", "admin", "demand"}

\* A request made while Neurocore is away fails.
Asked == IF reachable THEN "sent" ELSE "lost"

\* initModelConfigCache has just been called.
ConfigInit ==
  /\ reachable \in BOOLEAN
  /\ config = "none" /\ timer = FALSE
  /\ fetch = [f \in Fetchers |-> IF f = "refresh" THEN Asked ELSE "none"]

Ask(f) == fetch[f] = "none" /\ fetch' = [fetch EXCEPT ![f] = Asked]
Over(f) == fetch' = [fetch EXCEPT ![f] = "none"]

\* scheduleNextRefresh replaces the timer that is there.
ScheduleNextRefresh == timer' = TRUE

TimerFires ==
  /\ timer /\ timer' = FALSE
  /\ Ask("refresh")
  /\ UNCHANGED <<config, reachable>>

\* POST /admin/refresh-model-config
AdminRefresh == Ask("admin") /\ UNCHANGED <<config, timer, reachable>>

\* getModelConfig: a second caller waits for the fetch of the first.
GetModelConfig ==
  /\ config = "none"
  /\ Ask("demand")
  /\ UNCHANGED <<config, timer, reachable>>

\* Mutant: a failed refresh leaves the timer unarmed.
RefreshDoneOnce(f) ==
  /\ f \in {"refresh", "admin"} /\ fetch[f] # "none"
  /\ config' = IF fetch[f] = "sent" THEN "neurocore"
               ELSE IF config = "none" THEN "env_fallback" ELSE config
  /\ IF fetch[f] = "sent" THEN ScheduleNextRefresh ELSE UNCHANGED timer
  /\ Over(f)
  /\ UNCHANGED reachable

\* refreshModelConfig returns: a failure keeps what is cached.
RefreshDone(f) ==
  /\ f \in {"refresh", "admin"} /\ fetch[f] # "none"
  /\ config' = IF fetch[f] = "sent" THEN "neurocore"
               ELSE IF config = "none" THEN "env_fallback" ELSE config
  /\ ScheduleNextRefresh
  /\ Over(f)
  /\ UNCHANGED reachable

\* The fetch on demand returns: a failure caches the fallback, even over a
\* configuration a refresh has fetched meanwhile.
DemandDone ==
  /\ fetch["demand"] # "none"
  /\ config' = IF fetch["demand"] = "sent" THEN "neurocore" ELSE "env_fallback"
  /\ ScheduleNextRefresh
  /\ Over("demand")
  /\ UNCHANGED reachable

\* Going away takes any of the requests under way along.
NeurocoreGoes ==
  /\ reachable /\ reachable' = FALSE
  /\ \E gone \in SUBSET {f \in Fetchers : fetch[f] = "sent"} :
       fetch' = [f \in Fetchers |-> IF f \in gone THEN "lost" ELSE fetch[f]]
  /\ UNCHANGED <<config, timer>>

NeurocoreReturns == ~reachable /\ reachable' = TRUE /\ UNCHANGED <<config, fetch, timer>>

Returned == DemandDone \/ \E f \in Fetchers : RefreshDone(f)

ConfigNext ==
  \/ TimerFires \/ AdminRefresh \/ GetModelConfig
  \/ Returned
  \/ NeurocoreGoes \/ NeurocoreReturns

---------------------------------------------------------------------------
(* Properties *)

\* Every variable keeps its type.
ConfigTypeOK ==
  /\ config \in {"none", "env_fallback", "neurocore"}
  /\ fetch \in [Fetchers -> {"none", "sent", "lost"}]
  /\ timer \in BOOLEAN /\ reachable \in BOOLEAN

\* Whatever was lost and in whichever order fetches returned: once Neurocore
\* stays reachable, its configuration is cached in the end and stays.
ConfigRecovers == <>[]reachable => <>[](config = "neurocore")
=============================================================================
