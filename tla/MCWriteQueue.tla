---------------------------- MODULE MCWriteQueue ----------------------------
(* TLC instances of WriteQueue. *)
EXTENDS WriteQueue, TLC

CONSTANTS e1, e2, worker

TwoEntries == {e1, e2}

\* Entries are interchangeable (safety runs).
Interchangeable == Permutations(TwoEntries)

Mishaps == crashes + exits + faults

\* What can still make a difference: which file a descriptor names until it
\* has been written to, the temporary file while somebody is writing, and of
\* the history what the invariants ask for.  How often there was an exit is
\* not asked for, nor, after a mishap, how many dead letters an entry has; nor,
\* after a race, which callers were told of a failure.
Relevant ==
  <<mem, main, snap, drain, boot, rows, raced, faults + crashes, exits > 0,
    [w \in Writers |-> IF raced /\ wpc[w] = "err" THEN "ok" ELSE wpc[w]],
    [w \in Writers |-> IF wpc[w] = "write" THEN fd[w] ELSE "closed"],
    IF \E w \in Writers : Writing(w) THEN tmp ELSE NoFile,
    [e \in Entries |-> IF Mishaps > 0 /\ dead[e] > 1 THEN 1 ELSE dead[e]],
    IF Mishaps > 0 THEN {} ELSE lost>>
=============================================================================
