----------------------------- MODULE CliRunner ------------------------------
(***************************************************************************)
(* The subprocess runner behind every LLM call                             *)
(* (src/providers/cli-runner.ts): one circuit breaker per provider shared  *)
(* by concurrent calls, a timeout and an output cap that kill the child,   *)
(* one retry after a pause, and the kill sweep of a shutdown.              *)
(*                                                                         *)
(* Time passes in ticks: an age is how many ticks ago something happened.  *)
(***************************************************************************)
EXTENDS Naturals, Sequences

CONSTANTS
  Calls,             \* concurrent runCli calls for one provider
  CliAttempts,       \* MAX_ATTEMPTS
  FailureThreshold,  \* FAILURE_THRESHOLD
  FailureWindow,     \* FAILURE_WINDOW_MS, in ticks
  BreakDuration      \* BREAK_DURATION_MS, in ticks

ASSUME CliConstants ==
  /\ CliAttempts \in Nat \ {0} /\ FailureThreshold \in Nat \ {0}
  /\ FailureWindow \in Nat /\ BreakDuration \in Nat \ {0}

VARIABLES
  failures,   \* breaker.failures: the ages of the failures it remembers
  pause,      \* ticks until breaker.breakUntil
  past,       \* history: ages of all failures since the last success
  cpc,        \* per call: where it is
  attempt,    \* per call: the attempt it is on
  spoiled,    \* calls whose child timed out or overran the output cap
  dying,      \* calls whose child has been sent SIGKILL
  shim,       \* config.bin is a .cmd or .bat file, run by cmd.exe
  strays,     \* calls whose shim is dead while the CLI under it holds the pipe
  stopping    \* a shutdown signal has arrived

cliVars == <<failures, pause, past, cpc, attempt, spoiled, dying, shim, strays, stopping>>

Child(c)  == cpc[c] = "child"
Result    == {"answered", "failed", "refused"}

CliInit ==
  /\ failures = <<>> /\ pause = 0 /\ past = <<>>
  /\ cpc = [c \in Calls |-> "idle"] /\ attempt = [c \in Calls |-> 0]
  /\ spoiled = {} /\ dying = {} /\ strays = {} /\ stopping = FALSE
  /\ shim \in BOOLEAN

---------------------------------------------------------------------------
\* The breaker.

\* while (failures[0] < now - WINDOW) failures.shift() takes the first k.
Shifts(ages, k, limit) ==
  /\ \A i \in 1..k : ages[i] > limit
  /\ k < Len(ages) => ages[k + 1] <= limit

RecordFailure ==
  /\ \E k \in 0..Len(failures) :
       /\ Shifts(failures, k, FailureWindow)
       /\ failures' = Append(SubSeq(failures, k + 1, Len(failures)), 0)
  /\ past' = Append(past, 0)
  /\ pause' = IF Len(failures') >= FailureThreshold THEN BreakDuration ELSE pause

BreakerCleared == failures' = <<>> /\ pause' = 0 /\ past' = <<>>

CircuitOpen == pause > 0

---------------------------------------------------------------------------
\* runCli: refuse, or spawn a child and wait for it.

Spawns(c) ==
  /\ cpc' = [cpc EXCEPT ![c] = "child"]
  /\ attempt' = [attempt EXCEPT ![c] = @ + 1]

Refuses(c) == cpc' = [cpc EXCEPT ![c] = "refused"] /\ UNCHANGED attempt

RunCli(c) ==
  /\ cpc[c] = "idle"
  /\ IF CircuitOpen THEN Refuses(c) ELSE Spawns(c)
  /\ UNCHANGED <<failures, pause, past, spoiled, dying, shim, strays, stopping>>

\* Mutant: only the first attempt looks at the breaker.
RetryUnchecked(c) ==
  /\ cpc[c] = "backoff"
  /\ Spawns(c)
  /\ UNCHANGED <<failures, pause, past, spoiled, dying, shim, strays, stopping>>

\* RETRY_BACKOFF_MS after a failed attempt.
Retry(c) ==
  /\ cpc[c] = "backoff"
  /\ IF CircuitOpen THEN Refuses(c) ELSE Spawns(c)
  /\ UNCHANGED <<failures, pause, past, spoiled, dying, shim, strays, stopping>>

\* The outcome is settled and the child forgotten.
Settled(c) ==
  /\ spoiled' = spoiled \ {c} /\ dying' = dying \ {c} /\ strays' = strays \ {c}
  /\ UNCHANGED <<attempt, shim, stopping>>

Fails(c) ==
  /\ RecordFailure
  /\ cpc' = [cpc EXCEPT ![c] = IF attempt[c] < CliAttempts THEN "backoff" ELSE "failed"]
  /\ Settled(c)

Succeeds(c) ==
  /\ BreakerCleared
  /\ cpc' = [cpc EXCEPT ![c] = "answered"]
  /\ Settled(c)

\* The child ends by itself: exit code 0 counts unless it came too late or
\* said too much.
ExitsCleanly(c) ==
  /\ Child(c) /\ c \notin strays
  /\ IF c \in spoiled THEN Fails(c) ELSE Succeeds(c)

\* It cannot be spawned, exits with another code, or a stray lets go of the
\* pipe after its shim was killed.
ExitsBadly(c) == Child(c) /\ Fails(c)

\* Mutant: the timeout is noted and nothing is killed.
RunsOutUnharmed(c) ==
  /\ Child(c) /\ c \notin spoiled
  /\ spoiled' = spoiled \cup {c}
  /\ UNCHANGED <<failures, pause, past, cpc, attempt, dying, shim, strays, stopping>>

\* The timeout fires, or standard output passes its cap: SIGTERM, and SIGKILL
\* after the grace.
RunsOut(c) ==
  /\ Child(c) /\ c \notin spoiled
  /\ spoiled' = spoiled \cup {c}
  /\ dying' = dying \cup {c}
  /\ UNCHANGED <<failures, pause, past, cpc, attempt, shim, strays, stopping>>

\* The kill takes effect.  A killed shim does not take the CLI with it: the
\* close event waits for that to let go of the pipe.
Dies(c) ==
  /\ Child(c) /\ c \in dying /\ c \notin strays
  /\ \/ Fails(c)
     \/ /\ shim
        /\ strays' = strays \cup {c}
        /\ UNCHANGED <<failures, pause, past, cpc, attempt, spoiled, dying, shim, stopping>>

\* The caller takes the answer or the error.
Taken(c) ==
  /\ cpc[c] \in Result
  /\ cpc' = [cpc EXCEPT ![c] = "idle"] /\ attempt' = [attempt EXCEPT ![c] = 0]
  /\ UNCHANGED <<failures, pause, past, spoiled, dying, shim, strays, stopping>>

---------------------------------------------------------------------------
\* A shutdown kills the children it knows; requests still running go on
\* until the server has closed, or ten seconds are over.
KillAllInflight ==
  /\ ~stopping /\ stopping' = TRUE
  /\ dying' = dying \cup {c \in Calls : Child(c)}
  /\ UNCHANGED <<failures, pause, past, cpc, attempt, spoiled, shim, strays>>

\* The process exits and is started again: after a shutdown signal, or because
\* a child closed its standard input while the prompt was being written to it,
\* an error nobody listens for.
ProcessExits ==
  /\ stopping \/ \E c \in Calls : Child(c)
  /\ BreakerCleared
  /\ cpc' = [c \in Calls |-> "idle"] /\ attempt' = [c \in Calls |-> 0]
  /\ spoiled' = {} /\ dying' = {} /\ strays' = {} /\ stopping' = FALSE
  /\ UNCHANGED shim

\* The history forgets the failures that can no longer matter.
Tick ==
  /\ failures' = [i \in DOMAIN failures |->
                    IF failures[i] <= FailureWindow THEN failures[i] + 1 ELSE failures[i]]
  /\ \E k \in 0..Len(past) :
       /\ Shifts(past, k, FailureWindow + BreakDuration - 1)
       /\ past' = [i \in 1..(Len(past) - k) |-> past[i + k] + 1]
  /\ pause' = IF pause > 0 THEN pause - 1 ELSE 0
  /\ UNCHANGED <<cpc, attempt, spoiled, dying, shim, strays, stopping>>

CliStep(c) ==
  \/ RunCli(c) \/ Retry(c) \/ Taken(c)
  \/ ExitsCleanly(c) \/ ExitsBadly(c) \/ RunsOut(c) \/ Dies(c)

CliNext ==
  \/ \E c \in Calls : CliStep(c)
  \/ KillAllInflight \/ ProcessExits \/ Tick

CliSpec == CliInit /\ [][CliNext]_cliVars

---------------------------------------------------------------------------
(* Properties *)

\* Every variable keeps its type.
CliTypeOK ==
  /\ failures \in Seq(0..FailureWindow + 1)
  /\ past \in Seq(0..FailureWindow + BreakDuration)
  /\ pause \in 0..BreakDuration
  /\ cpc \in [Calls -> {"idle", "child", "backoff"} \cup Result]
  /\ attempt \in [Calls -> 0..CliAttempts]
  /\ spoiled \subseteq Calls /\ dying \subseteq Calls /\ strays \subseteq Calls
  /\ shim \in BOOLEAN /\ stopping \in BOOLEAN

\* Some FailureThreshold failures since the last success lie within the
\* window, and the last of them is younger than the break.
Broken ==
  \E i \in DOMAIN past :
    LET last == i + FailureThreshold - 1
    IN  /\ last \in DOMAIN past
        /\ past[i] - past[last] <= FailureWindow
        /\ past[last] < BreakDuration

\* "circuit breaker: 3 failures in 60s opens a 60s break": concurrent calls
\* and retries included, no child is spawned during a break, and no call is
\* refused outside one.
BreakerKeepsWord ==
  [][\A c \in Calls :
       /\ cpc[c] \in {"idle", "backoff"} /\ cpc'[c] = "child" => ~Broken
       /\ cpc[c] \in {"idle", "backoff"} /\ cpc'[c] = "refused" => Broken]_cliVars

\* The inductive invariant behind it.  Ages fall from the first to the last, ...
Falling(ages) == \A i, j \in DOMAIN ages : i < j => ages[i] >= ages[j]

\* ... counted from the last, the breaker's failures are those of the history
\* as far as they are recent, ...
Clipped(age) == IF age <= FailureWindow THEN age ELSE FailureWindow + 1

Matching ==
  \A j \in Nat :
    LET f == Len(failures) - j
        p == Len(past) - j
    IN  /\ f > 0 /\ p > 0 => failures[f] = Clipped(past[p])
        /\ f > 0 /\ p <= 0 => failures[f] > FailureWindow
        /\ f <= 0 /\ p > 0 => past[p] > FailureWindow

\* ... and the pause is what is left of the break that the latest rapid
\* failures opened.
Rapid(i) ==
  LET last == i + FailureThreshold - 1
  IN  i \in DOMAIN past /\ last \in DOMAIN past /\ past[i] <= past[last] + FailureWindow

Pausing ==
  LET Age(i) == past[i + FailureThreshold - 1]
  IN  /\ \A i \in DOMAIN past : Rapid(i) => Age(i) + pause >= BreakDuration
      /\ pause > 0 => \E i \in DOMAIN past : Rapid(i) /\ Age(i) + pause = BreakDuration

\* Only a call with an attempt left waits for it.
Counted == \A c \in Calls : /\ cpc[c] = "idle" => attempt[c] = 0
                            /\ cpc[c] = "backoff" => attempt[c] < CliAttempts

CliInv == CliTypeOK /\ Counted /\ Falling(failures) /\ Falling(past) /\ Matching /\ Pausing

\* Every call that spawned a child ends, through its timeout, the kill and
\* the second attempt if need be; only behind a shim can it hang, when the
\* CLI under the killed shim keeps the pipe open.
EveryCallEnds ==
  \A c \in Calls : cpc[c] \in {"child", "backoff"} ~> cpc[c] \in Result \cup {"idle"} \/ c \in strays
=============================================================================
