------------------------------- MODULE Outbox -------------------------------
(***************************************************************************)
(* What the write queue promises its callers, whatever its files, drains   *)
(* and retries do: a write it has taken in is worked on until it is in the *)
(* catalog or in the dead-letter file, nothing else is written, and a      *)
(* restart brings back only writes that somebody offered.                  *)
(***************************************************************************)
EXTENDS Naturals

CONSTANT Writes   \* the writes offered to the queue

VARIABLES
  up,        \* the queue has started working
  offered,   \* the writes callers have handed over
  pending,   \* those it is working on
  rows,      \* per write: its rows in the catalog
  dead       \* per write: its lines in the dead-letter file

outbox == <<up, offered, pending, rows, dead>>

Init ==
  /\ up = FALSE /\ offered = {} /\ pending = {}
  /\ rows = [w \in Writes |-> 0] /\ dead = [w \in Writes |-> 0]

Settled(w) == rows[w] > 0 \/ dead[w] > 0

\* Before the queue has started a write may be lost to what it reads back.
Offer(w) ==
  /\ w \notin offered /\ offered' = offered \cup {w}
  /\ pending' = IF up THEN pending \cup {w} ELSE pending
  /\ UNCHANGED <<up, rows, dead>>

Leave == pending' \subseteq pending /\ \A w \in pending \ pending' : Settled(w)'

\* One attempt at one pending write: a row, a dead letter, or nothing; then
\* any settled writes leave.
Attempt(w) ==
  /\ up /\ w \in pending
  /\ \/ rows' = [rows EXCEPT ![w] = @ + 1] /\ UNCHANGED dead
     \/ dead' = [dead EXCEPT ![w] = @ + 1] /\ UNCHANGED rows
     \/ UNCHANGED <<rows, dead>>
  /\ Leave
  /\ UNCHANGED <<up, offered>>

Recover ==
  /\ ~up /\ up' = TRUE
  /\ pending' \subseteq offered
  /\ UNCHANGED <<offered, rows, dead>>

Restart ==
  /\ up' = FALSE /\ pending' = {}
  /\ UNCHANGED <<offered, rows, dead>>

Next ==
  \/ \E w \in Writes : Offer(w) \/ Attempt(w)
  \/ Recover \/ Restart

Spec == Init /\ [][Next]_outbox
=============================================================================
