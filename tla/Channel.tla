------------------------------ MODULE Channel -------------------------------
(***************************************************************************)
(* The nightly refresh of stack performance                                *)
(* (src/cron/refresh-stack-performance.ts) over the YouTube client: the    *)
(* daily quota (youtube/quota.ts), the cached access token                 *)
(* (youtube/oauth.ts) and one request with its retry (youtube/client.ts).  *)
(*                                                                         *)
(* The run makes its calls one after the other; midnight, an expiring      *)
(* token and a restart can fall between any two steps.                     *)
(***************************************************************************)
EXTENDS Naturals, FiniteSets

CONSTANTS
  Videos,      \* published videos, one catalog row each
  Stacks,      \* their primary tech stacks
  Caps,        \* values of YOUTUBE_DAILY_QUOTA, in quota units
  MaxRuns      \* bound: nightly runs

ASSUME CapsNat == Caps \subseteq Nat \ {0}
ASSUME RunsNat == MaxRuns \in Nat

YtAttempts     == 2   \* MAX_ATTEMPTS
StatsUnits     == 1   \* getVideoStats, per batch
AnalyticsUnits == 5   \* getVideoAnalytics

VARIABLES
  stackOf,    \* external: the stack of each video
  catalog,    \* external: the videos in Neurocore's content catalog
  cap,        \* the daily cap
  consumed,   \* units charged today
  token,      \* the cached access token: "none", "live" or "revoked"
  phase,      \* the run: "idle", "stats", "analytics" or "upsert"
  listed,     \* the videos this run listed
  todo,       \* videos whose analytics it still has to ask for, then the
              \* stacks it still has to upsert
  call,       \* the request: "none", "token" or "send"
  try,        \* its attempt
  perf,       \* external: per stack, the run that last upserted its row
  runs,       \* runs started
  met         \* history: the latest run met the quota, its own or Google's

run         == <<phase, listed, todo, call, try>>
channelVars == <<stackOf, catalog, cap, consumed, token, phase, listed, todo, call, try,
                 perf, runs, met>>

ChannelInit ==
  /\ stackOf \in [Videos -> Stacks] /\ catalog = {}
  /\ cap \in Caps /\ consumed = 0 /\ token = "none"
  /\ phase = "idle" /\ listed = {} /\ todo = {} /\ call = "none" /\ try = 0
  /\ perf = [s \in Stacks |-> 0] /\ runs = 0 /\ met = FALSE

---------------------------------------------------------------------------
\* A video is published while no run is under way.
VideoPublished ==
  /\ phase = "idle"
  /\ \E v \in Videos \ catalog : catalog' = catalog \cup {v}
  /\ UNCHANGED <<stackOf, cap, consumed, token, run, perf, runs, met>>

\* The cron minute: the catalog is listed, unless that fails; an empty one
\* ends the run.
RefreshStarts ==
  /\ phase = "idle"
  /\ runs < MaxRuns /\ runs' = runs + 1 /\ met' = FALSE
  /\ \/ /\ catalog # {}
        /\ phase' = "stats" /\ listed' = catalog
     \/ UNCHANGED <<phase, listed>>
  /\ UNCHANGED <<stackOf, catalog, cap, consumed, token, todo, call, try, perf>>

\* The run returns, or an error leaves it.
Stops == phase' = "idle" /\ listed' = {} /\ todo' = {} /\ call' = "none" /\ try' = 0

---------------------------------------------------------------------------
\* quota.consume: refuse what would pass 95 percent of the cap.

Units == IF phase = "stats" THEN StatsUnits ELSE AnalyticsUnits

\* Mutant: the units asked for are left out of the comparison.
ExceedsAlready(units) == 100 * consumed > 95 * cap

Exceeds(units) == 100 * (consumed + units) > 95 * cap

\* The video whose turn it is, and a call for the stats of all or for its
\* analytics.
Turn == CHOOSE v \in todo : TRUE

Calling == phase = "stats" \/ (phase = "analytics" /\ todo # {})

Charge ==
  /\ Calling /\ call = "none" /\ ~Exceeds(Units)
  /\ consumed' = consumed + Units
  /\ call' = "token" /\ try' = 1
  /\ UNCHANGED <<stackOf, catalog, cap, token, phase, listed, todo, perf, runs, met>>

\* rollDayIfNeeded
DayRolls ==
  /\ consumed # 0 /\ consumed' = 0
  /\ UNCHANGED <<stackOf, catalog, cap, token, run, perf, runs, met>>

---------------------------------------------------------------------------
\* requestJson: a token, then the request.

\* Mutant: an exhausted quota is skipped like any failure of one video.
SkipsOnQuota(code) ==
  IF phase = "stats"
    THEN Stops
    ELSE /\ todo' = todo \ {Turn} /\ call' = "none" /\ try' = 0
         /\ UNCHANGED <<phase, listed>>

\* The call throws.  Only an error other than the quota's skips one video.
Throws(code) ==
  IF phase = "stats" \/ code = "quota"
    THEN Stops
    ELSE /\ todo' = todo \ {Turn} /\ call' = "none" /\ try' = 0
         /\ UNCHANGED <<phase, listed>>

\* consume throws QUOTA_EXCEEDED before anything is sent.
ChargeRefused ==
  /\ Calling /\ call = "none" /\ Exceeds(Units)
  /\ met' = TRUE
  /\ Throws("quota")
  /\ UNCHANGED <<stackOf, catalog, cap, consumed, token, perf, runs>>

\* A 401 on the first attempt drops the token; an error of the network or
\* the server is tried again; anything else is thrown.
CallFails(code) ==
  \/ /\ code = "unauthorized" /\ try = 1
     /\ token' = "none" /\ call' = "token" /\ try' = try + 1
     /\ UNCHANGED <<phase, listed, todo>>
  \/ /\ code = "retryable" /\ try < YtAttempts
     /\ call' = "token" /\ try' = try + 1
     /\ UNCHANGED <<token, phase, listed, todo>>
  \/ /\ ~(code = "unauthorized" /\ try = 1) /\ ~(code = "retryable" /\ try < YtAttempts)
     /\ Throws(code)
     /\ UNCHANGED token

\* getAccessToken: the cached token, or a refresh.
GetAccessToken ==
  /\ call = "token"
  /\ \/ /\ token # "none"
        /\ call' = "send" /\ UNCHANGED <<token, phase, listed, todo, try>>
     \/ /\ token = "none"
        /\ token' = "live"
        /\ call' = "send" /\ UNCHANGED <<phase, listed, todo, try>>
     \/ /\ token = "none"
        /\ \E code \in {"unauthorized", "retryable", "terminal"} : CallFails(code)
  /\ UNCHANGED <<stackOf, catalog, cap, consumed, perf, runs, met>>

\* Its expiry is near, or Google withdrew it.
TokenAges ==
  /\ token = "live" /\ token' \in {"none", "revoked"}
  /\ UNCHANGED <<stackOf, catalog, cap, consumed, run, perf, runs, met>>

\* The answer is taken: the stats of all videos, or the analytics of one
\* (no rows, or the 403 of a channel without data, counts as zeros).
Answered ==
  /\ call = "send" /\ token = "live"
  /\ IF phase = "stats"
       THEN phase' = "analytics" /\ todo' = listed
       ELSE todo' = todo \ {Turn} /\ UNCHANGED phase
  /\ call' = "none" /\ try' = 0
  /\ UNCHANGED <<stackOf, catalog, cap, consumed, token, listed, perf, runs, met>>

SendFails ==
  /\ call = "send"
  /\ \E code \in {"unauthorized", "retryable", "quota", "terminal"} :
       /\ code = "retryable" \/ (code = "unauthorized" <=> token = "revoked")
       /\ met' = (met \/ code = "quota")
       /\ CallFails(code)
  /\ UNCHANGED <<stackOf, catalog, cap, consumed, perf, runs>>

---------------------------------------------------------------------------
\* Every video has been asked for: group by stack and upsert group by group;
\* a group that fails is left as it was.

GroupByStack ==
  /\ phase = "analytics" /\ todo = {} /\ call = "none"
  /\ phase' = "upsert" /\ todo' = {stackOf[v] : v \in listed}
  /\ UNCHANGED <<stackOf, catalog, cap, consumed, token, listed, call, try, perf, runs, met>>

Upsert ==
  /\ phase = "upsert" /\ todo # {}
  /\ \E s \in todo :
       /\ todo' = todo \ {s}
       /\ perf' \in {perf, [perf EXCEPT ![s] = runs]}
  /\ UNCHANGED <<stackOf, catalog, cap, consumed, token, phase, listed, call, try, runs, met>>

RefreshEnds ==
  /\ phase = "upsert" /\ todo = {}
  /\ Stops
  /\ UNCHANGED <<stackOf, catalog, cap, consumed, token, perf, runs, met>>

\* A restart forgets the run, the token and what was consumed.
Restarts ==
  /\ phase # "idle"
  /\ Stops /\ token' = "none" /\ consumed' = 0
  /\ UNCHANGED <<stackOf, catalog, cap, perf, runs, met>>

ChannelNext ==
  \/ VideoPublished \/ RefreshStarts
  \/ Charge \/ ChargeRefused \/ DayRolls
  \/ GetAccessToken \/ TokenAges \/ Answered \/ SendFails
  \/ GroupByStack \/ Upsert \/ RefreshEnds
  \/ Restarts

ChannelSpec == ChannelInit /\ [][ChannelNext]_channelVars

---------------------------------------------------------------------------
(* Properties *)

\* Every variable keeps its type, and what is charged stays within 95 percent
\* of the cap.
ChannelTypeOK ==
  /\ stackOf \in [Videos -> Stacks]
  /\ listed \subseteq catalog /\ catalog \subseteq Videos
  /\ cap \in Caps /\ consumed \in Nat /\ 100 * consumed <= 95 * cap
  /\ token \in {"none", "live", "revoked"}
  /\ phase \in {"idle", "stats", "analytics", "upsert"}
  /\ todo \subseteq IF phase = "upsert" THEN Stacks ELSE listed
  /\ call \in {"none", "token", "send"} /\ try \in 0..YtAttempts
  /\ perf \in [Stacks -> 0..runs] /\ runs \in 0..MaxRuns /\ met \in BOOLEAN

\* "YouTube quota exhaustion stops the whole run (so we don't leave half the
\* registry stale)": a run that met the quota, at its own limit or in an
\* answer of Google's, upserts no stack.
QuotaStopsTheRun == [][perf' # perf => ~met]_channelVars

\* The inductive invariant behind it: requests are made by the two phases
\* that ask, and a run that met the quota is over.
ChannelInv ==
  /\ ChannelTypeOK
  /\ call # "none" => Calling
  /\ met => phase = "idle"
=============================================================================
