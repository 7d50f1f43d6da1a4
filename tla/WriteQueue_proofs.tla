-------------------------- MODULE WriteQueue_proofs --------------------------
(***************************************************************************)
(* Theorems about WriteQueue: for every set of entries and every bound on  *)
(* attempts, rows, failures and crashes, its variables keep their types    *)
(* and it implements Outbox.                                               *)
(***************************************************************************)
EXTENDS WriteQueue, SequenceTheorems, FiniteSetTheorems, TLAPS

---------------------------------------------------------------------------
(* The entries of a sequence of items.                                     *)

LEMMA IdsType ==
  ASSUME NEW q \in Seq(Item)
  PROVE  Ids(q) \subseteq Entries /\ \A i \in DOMAIN q : q[i] \in Item /\ q[i].id \in Ids(q)
<1>1. \A i \in DOMAIN q : q[i] \in Item
  BY LenProperties, ElementOfSeq
<1> QED BY <1>1 DEF Ids, Item

LEMMA IdsEmpty == Ids(<<>>) = {}
BY DEF Ids

LEMMA IdsAppend ==
  ASSUME NEW q \in Seq(Item), NEW x \in Item
  PROVE  /\ Append(q, x) \in Seq(Item)
         /\ Ids(Append(q, x)) = Ids(q) \cup {x.id}
         /\ Len(Append(q, x)) = Len(q) + 1
         /\ \A i \in 1 .. Len(q) : Append(q, x)[i] = q[i]
         /\ Append(q, x)[Len(q) + 1] = x
<1> DEFINE a == Append(q, x)
<1>1. /\ a \in Seq(Item) /\ Len(a) = Len(q) + 1 /\ Len(q) \in Nat
      /\ DOMAIN q = 1 .. Len(q) /\ DOMAIN a = 1 .. Len(q) + 1
      /\ \A i \in 1 .. Len(q) : a[i] = q[i]
      /\ a[Len(q) + 1] = x
  BY AppendProperties, LenProperties
<1> HIDE DEF a
<1>2. Ids(a) = Ids(q) \cup {x.id}
  <2>1. ASSUME NEW e \in Ids(a) PROVE e \in Ids(q) \cup {x.id}
    <3>1. PICK i \in 1 .. Len(q) + 1 : e = a[i].id
      BY <1>1 DEF Ids
    <3>2. i \in 1 .. Len(q) \/ i = Len(q) + 1
      BY <1>1
    <3> QED BY <1>1, <3>1, <3>2 DEF Ids
  <2>2. ASSUME NEW e \in Ids(q) PROVE e \in Ids(a)
    <3>1. PICK i \in 1 .. Len(q) : e = q[i].id
      BY <1>1 DEF Ids
    <3>2. i \in DOMAIN a /\ e = a[i].id
      BY <1>1, <3>1
    <3> QED BY <3>2 DEF Ids
  <2>3. x.id \in Ids(a)
    <3>1. Len(q) + 1 \in DOMAIN a
      BY <1>1
    <3> QED BY <1>1, <3>1 DEF Ids
  <2> QED BY <2>1, <2>2, <2>3
<1> QED BY <1>1, <1>2 DEF a

\* Overwriting a file leaves the new lines, and after them the old ones that
\* were longer, the first of which may be torn.
LEMMA OverwriteIs ==
  ASSUME NEW old \in Seq(Item), NEW new \in Seq(Item), NEW file \in Overwrite(old, new)
  PROVE  /\ file \in Seq(Item)
         /\ \A i \in DOMAIN new : i \in DOMAIN file /\ file[i] = new[i]
         /\ \E d \in {0, 1} : \A i \in DOMAIN file :
              \/ i \in DOMAIN new
              \/ i > Len(new) /\ i + d \in DOMAIN old /\ file[i] = old[i + d]
<1>1. CASE file = new
  BY <1>1
<1>2. CASE file # new
  <2>1. PICK j \in {Len(new) + 1, Len(new) + 2} : file = new \o SubSeq(old, j, Len(old))
    BY <1>2 DEF Overwrite
  <2> DEFINE rest == SubSeq(old, j, Len(old))
             d == j - Len(new) - 1
  <2>2. Len(new) \in Nat /\ Len(old) \in Nat /\ j \in Nat \ {0} /\ j \in Int /\ Len(old) \in Int
    BY LenProperties
  <2>3. \A i \in j .. Len(old) : old[i] \in Item
    BY <2>2, ElementOfSeq
  <2>4. /\ rest \in Seq(Item)
        /\ Len(rest) = IF j <= Len(old) THEN Len(old) - j + 1 ELSE 0
        /\ \A i \in 1 .. Len(old) - j + 1 : rest[i] = old[j + i - 1]
    BY <2>2, <2>3, SubSeqProperties
  <2> HIDE DEF rest
  <2>5. /\ file \in Seq(Item) /\ Len(file) = Len(new) + Len(rest)
        /\ \A i \in 1 .. Len(new) + Len(rest) :
             file[i] = IF i <= Len(new) THEN new[i] ELSE rest[i - Len(new)]
    BY <2>1, <2>4, ConcatProperties DEF rest
  <2>6. /\ DOMAIN file = 1 .. Len(file) /\ DOMAIN new = 1 .. Len(new)
        /\ DOMAIN old = 1 .. Len(old) /\ Len(rest) \in Nat
    BY <2>4, <2>5, LenProperties
  <2>7. ASSUME NEW i \in DOMAIN file, i \notin DOMAIN new
        PROVE  i > Len(new) /\ i + d \in DOMAIN old /\ file[i] = old[i + d]
    <3>1. /\ i \in Nat /\ i > Len(new) /\ i - Len(new) \in 1 .. Len(old) - j + 1
          /\ file[i] = rest[i - Len(new)]
      <4>1. i \in Nat /\ i <= Len(new) + Len(rest) /\ i > Len(new)
        BY <2>2, <2>5, <2>6, <2>7
      <4>2. i - Len(new) \in 1 .. Len(rest)
        BY <2>2, <2>6, <4>1
      <4>3. Len(rest) > 0 => Len(rest) = Len(old) - j + 1
        BY <2>2, <2>4
      <4>4. i - Len(new) \in 1 .. Len(old) - j + 1
        BY <2>2, <2>6, <4>2, <4>3
      <4>5. i \in 1 .. Len(new) + Len(rest) /\ ~(i <= Len(new))
        BY <2>2, <2>6, <4>1
      <4> QED BY <2>5, <4>1, <4>4, <4>5
    <3>2. i + d = j + (i - Len(new)) - 1
      BY <2>2, <3>1
    <3>3. i + d \in DOMAIN old
      BY <2>2, <2>6, <3>1
    <3> QED BY <2>4, <3>1, <3>2, <3>3
  <2>8. d \in {0, 1}
    BY <2>2
  <2>9. \A i \in DOMAIN new : i \in DOMAIN file /\ file[i] = new[i]
    BY <2>2, <2>5, <2>6
  <2> HIDE DEF d
  <2> QED BY <2>5, <2>7, <2>8, <2>9
<1> QED BY <1>1, <1>2

\* What overwriting a file leaves in it was in the file or is written, and
\* everything written is there.
LEMMA OverwriteIds ==
  ASSUME NEW old \in Seq(Item), NEW new \in Seq(Item), NEW file \in Overwrite(old, new)
  PROVE  /\ file \in Seq(Item) /\ Ids(file) \subseteq Ids(old) \cup Ids(new)
         /\ Ids(new) \subseteq Ids(file)
<1>1. /\ file \in Seq(Item)
      /\ \A i \in DOMAIN new : i \in DOMAIN file /\ file[i] = new[i]
      /\ \A i \in DOMAIN file : i \in DOMAIN new \/ \E j \in DOMAIN old : file[i] = old[j]
  BY OverwriteIs
<1> QED BY <1>1 DEF Ids

\* The filter by index keeps what it is not told to remove, and only that:
\* the k-th kept index is the one with k kept indexes up to it.
LEMMA WithoutKeeps ==
  ASSUME NEW q \in Seq(Item), NEW is
  PROVE  /\ Without(q, is) \in Seq(Item)
         /\ Ids(Without(q, is)) \subseteq Ids(q)
         /\ \A i \in DOMAIN q : i \notin is => q[i].id \in Ids(Without(q, is))
         /\ \A k \in DOMAIN Without(q, is) :
              \E i \in DOMAIN q : i \notin is /\ Without(q, is)[k] = q[i]
         /\ Distinct(q) => Distinct(Without(q, is))
<1> DEFINE Spared == {i \in DOMAIN q : i \notin is}
           n == Cardinality(Spared)
           Upto(i) == {j \in Spared : j <= i}
           rank == [i \in Spared |-> Cardinality(Upto(i))]
           at == [k \in 1 .. n |-> CHOOSE i \in Spared : Cardinality(Upto(i)) = k]
           out == [k \in DOMAIN at |-> q[at[k]]]
<1>1. Len(q) \in Nat /\ DOMAIN q = 1 .. Len(q) /\ \A i \in DOMAIN q : q[i] \in Item
  BY LenProperties, ElementOfSeq
<1>2. IsFiniteSet(Spared) /\ n \in Nat
  <2>1. IsFiniteSet(1 .. Len(q))
    BY <1>1, FS_Interval
  <2>2. Spared \subseteq 1 .. Len(q)
    BY <1>1
  <2> QED BY <2>1, <2>2, FS_Subset, FS_CardinalityType
<1>3. ASSUME NEW i \in Spared
      PROVE  /\ IsFiniteSet(Upto(i)) /\ Cardinality(Upto(i)) \in 1 .. n
  <2>1. IsFiniteSet(Upto(i)) /\ Cardinality(Upto(i)) <= n
    BY <1>2, FS_Subset
  <2>2. i \in Upto(i)
    BY <1>1
  <2>3. Cardinality(Upto(i)) \in Nat /\ Cardinality(Upto(i)) # 0
    BY <2>1, <2>2, FS_CardinalityType, FS_EmptySet
  <2> HIDE DEF Upto
  <2> QED BY <1>2, <2>1, <2>3
<1>4. ASSUME NEW i \in Spared, NEW j \in Spared, i < j
      PROVE  Cardinality(Upto(i)) # Cardinality(Upto(j))
  <2>1. Upto(i) \subseteq Upto(j) /\ j \in Upto(j) /\ j \notin Upto(i)
    BY <1>1, <1>4
  <2> HIDE DEF Upto
  <2> QED BY <1>3, <2>1, FS_Subset
<1>5. rank \in Injection(Spared, 1 .. n)
  <2>1. rank \in [Spared -> 1 .. n]
    BY <1>3
  <2>2. ASSUME NEW i \in Spared, NEW j \in Spared, rank[i] = rank[j] PROVE i = j
    <3>1. Cardinality(Upto(i)) = Cardinality(Upto(j))
      BY <2>2
    <3>2. i \in Nat /\ j \in Nat
      BY <1>1
    <3> HIDE DEF Upto, Spared
    <3> QED BY <1>4, <3>1, <3>2
  <2> HIDE DEF rank
  <2> QED BY <2>1, <2>2 DEF Injection, IsInjective
<1>6. rank \in Surjection(Spared, 1 .. n)
  <2>1. IsFiniteSet(1 .. n) /\ Cardinality(1 .. n) = n
    BY <1>2, FS_Interval
  <2> HIDE DEF rank, Spared
  <2> QED BY <1>5, <2>1, FS_Injection DEF n
<1>7. ASSUME NEW k \in 1 .. n PROVE at[k] \in Spared /\ Cardinality(Upto(at[k])) = k
  <2>1. \E i \in Spared : rank[i] = k
    BY <1>6 DEF Surjection
  <2>2. \E i \in Spared : Cardinality(Upto(i)) = k
    BY <2>1
  <2>3. at[k] = CHOOSE i \in Spared : Cardinality(Upto(i)) = k
    OBVIOUS
  <2> HIDE DEF at, Spared, Upto
  <2> QED BY <2>2, <2>3
<1>8. ASSUME NEW i \in Spared PROVE at[Cardinality(Upto(i))] = i
  <2> DEFINE k == Cardinality(Upto(i))
  <2>1. k \in 1 .. n
    BY <1>3
  <2>2. at[k] \in Spared /\ Cardinality(Upto(at[k])) = k
    BY <1>7, <2>1
  <2>3. i \in Nat /\ at[k] \in Nat
    BY <1>1, <2>2
  <2> HIDE DEF at, Spared, Upto
  <2> QED BY <1>4, <2>2, <2>3
<1>9. Without(q, is) = out
  BY DEF Without
<1>10. DOMAIN at = 1 .. n
  OBVIOUS
<1>11. out \in Seq(Item) /\ DOMAIN out = 1 .. n /\ \A k \in 1 .. n : out[k] = q[at[k]]
  <2>1. \A k \in 1 .. n : q[at[k]] \in Item
    BY <1>1, <1>7
  <2>2. out = [k \in 1 .. n |-> q[at[k]]]
    BY <1>10
  <2> HIDE DEF out, at
  <2>3. out \in [1 .. n -> Item]
    BY <2>1, <2>2
  <2> HIDE DEF n
  <2> QED BY <1>2, <2>2, <2>3, SeqDef
<1> HIDE DEF out, at
<1>12. Ids(out) \subseteq Ids(q)
  <2>1. ASSUME NEW k \in 1 .. n PROVE at[k] \in DOMAIN q /\ out[k] = q[at[k]]
    BY <1>7, <1>11, <2>1
  <2> HIDE DEF n
  <2>2. ASSUME NEW k \in DOMAIN out PROVE out[k].id \in Ids(q)
    BY <1>11, <2>1, <2>2 DEF Ids
  <2> QED BY <2>2 DEF Ids
<1>13. ASSUME NEW i \in DOMAIN q, i \notin is PROVE q[i].id \in Ids(out)
  <2>1. i \in Spared
    BY <1>13
  <2> DEFINE k == Cardinality(Upto(i))
  <2>2. k \in 1 .. n /\ out[k] = q[i]
    BY <1>3, <1>8, <1>11, <2>1
  <2> HIDE DEF k
  <2> QED BY <1>11, <2>2 DEF Ids
<1>14. \A k \in DOMAIN out : at[k] \in DOMAIN q /\ at[k] \notin is /\ out[k] = q[at[k]]
  BY <1>7, <1>11
<1>15. ASSUME Distinct(q) PROVE Distinct(out)
  <2> SUFFICES ASSUME NEW k \in 1 .. n, NEW l \in 1 .. n, out[k].id = out[l].id
               PROVE  k = l
    BY <1>11 DEF Distinct
  <2>1. q[at[k]].id = q[at[l]].id /\ at[k] \in DOMAIN q /\ at[l] \in DOMAIN q
    BY <1>11, <1>14
  <2>2. at[k] = at[l]
    BY <1>15, <2>1 DEF Distinct
  <2>3. Cardinality(Upto(at[k])) = k /\ Cardinality(Upto(at[l])) = l
    BY <1>7
  <2> HIDE DEF Upto, n
  <2> QED BY <2>2, <2>3
<1>16. \A k \in DOMAIN out : \E i \in DOMAIN q : i \notin is /\ out[k] = q[i]
  BY <1>14
<1> QED BY <1>9, <1>11, <1>12, <1>13, <1>15, <1>16

LEMMA IdsSame ==
  ASSUME NEW q \in Seq(Item), NEW p \in Seq(Item), DOMAIN p = DOMAIN q,
         \A i \in DOMAIN q : p[i].id = q[i].id
  PROVE  Ids(p) = Ids(q)
BY DEF Ids

---------------------------------------------------------------------------
(* Restarts and rejected drains.                                           *)

LEMMA OfferedStays ==
  ASSUME \A e \in Entries : wpc[e] = "new" <=> wpc'[e] = "new"
  PROVE  Offered' = Offered
BY DEF Offered

LEMMA RebootKeeps ==
  ASSUME QueueInv, Reboot, UNCHANGED <<files, raced, remote>>,
         faults' \in Nat, crashes' \in Nat, exits' \in Nat
  PROVE  QueueInv' /\ Offered' = Offered /\ ~Recovered'
<1>0. TypeOK /\ Known
  BY DEF QueueInv
<1>1. /\ queue' = <<>> /\ due' = {} /\ dpc' = "idle" /\ batch' = {} /\ gone' = {}
      /\ rpc' = "read" /\ rbuf' = <<>>
      /\ main' = main /\ tmp' = tmp /\ raced' = raced
      /\ rows' = rows /\ dead' = dead /\ lost' = lost
      /\ snap' = [w \in Writers |-> <<>>] /\ fd' = [w \in Writers |-> "closed"]
  BY DEF Reboot, files, remote
<1>2. /\ wpc' \in [Writers -> {"idle", "new", "open", "write", "rename", "ok", "err"}]
      /\ wpc'[Drain] = "idle"
      /\ \A e \in Entries : wpc[e] = "new" <=> wpc'[e] = "new"
  BY <1>0, DrainIsNoEntry DEF Reboot, TypeOK, Writers
<1>3. <<>> \in Seq(Item)
  BY EmptySeq
<1>4. Offered' = Offered
  BY <1>2, OfferedStays
<1>5. TypeOK'
  BY <1>0, <1>1, <1>2, <1>3 DEF TypeOK
<1>6. OpenFiles'
  BY <1>1 DEF OpenFiles
<1>7. Indexes'
  BY <1>1, <1>2 DEF Indexes, Writing
<1>8. Known'
  BY <1>0, <1>1, <1>4, IdsEmpty DEF Known
<1>9. ~Recovered'
  BY <1>1 DEF Recovered
<1> QED BY <1>4, <1>5, <1>6, <1>7, <1>8, <1>9 DEF QueueInv

LEMMA DrainRejectsKeeps ==
  ASSUME QueueInv, DrainRejects, UNCHANGED <<files, raced, remote>>,
         faults' \in Nat, crashes' \in Nat
  PROVE  QueueInv' /\ Offered' = Offered
<1>0. TypeOK /\ OpenFiles /\ Indexes /\ Known
  BY DEF QueueInv
<1>1. CASE DrainRejectionCaught
  <2>1. /\ dpc' = "idle" /\ batch' = {} /\ gone' = {}
        /\ wpc' = [wpc EXCEPT ![Drain] = "idle"]
        /\ snap' = [snap EXCEPT ![Drain] = <<>>]
        /\ fd' = [fd EXCEPT ![Drain] = "closed"]
        /\ UNCHANGED <<queue, due, rpc, rbuf, exits, main, tmp, raced, rows, dead, lost>>
    BY <1>1 DEF DrainRejectionCaught, mem, boot, files, remote
  <2>2. <<>> \in Seq(Item)
    BY EmptySeq
  <2>3. TypeOK'
    BY <1>0, <2>1, <2>2 DEF TypeOK, Writers
  <2>4. Offered' = Offered
    BY <1>0, <2>1, DrainIsNoEntry, OfferedStays DEF TypeOK, Writers
  <2>5. OpenFiles'
    BY <1>0, <2>1 DEF OpenFiles, TypeOK, Writers
  <2>6. Indexes'
    BY <1>0, <2>1 DEF Indexes, TypeOK, Writers, Writing
  <2>7. Known'
    BY <1>0, <2>1, <2>4, IdsEmpty DEF Known, TypeOK, Writers
  <2> QED BY <2>3, <2>4, <2>5, <2>6, <2>7 DEF QueueInv
<1>2. CASE DrainRejectionUnhandled
  <2>1. Reboot /\ exits' \in Nat
    BY <1>0, <1>2 DEF DrainRejectionUnhandled, TypeOK
  <2> QED BY <2>1, RebootKeeps
<1> QED BY <1>1, <1>2 DEF DrainRejects

---------------------------------------------------------------------------
(* The writers of the queue file.                                          *)

LEMMA EnqueueKeeps ==
  ASSUME QueueInv, NEW e \in Entries, Enqueue(e)
  PROVE  QueueInv' /\ Offered' = Offered \cup {e} /\ Ids(queue') = Ids(queue) \cup {e}
<1>0. TypeOK /\ OpenFiles /\ Indexes /\ Known /\ queue \in Seq(Item)
  BY DEF QueueInv, TypeOK
<1> DEFINE item == [id |-> e, n |-> 0]
<1>1. /\ queue' = Append(queue, item) /\ due' = due \cup {e}
      /\ wpc' = [wpc EXCEPT ![e] = "open"] /\ snap' = [snap EXCEPT ![e] = queue']
      /\ raced' \in BOOLEAN
      /\ UNCHANGED <<main, tmp, fd, dpc, batch, gone, rpc, rbuf, rows, dead, lost,
                     faults, crashes, exits>>
  BY DEF Enqueue, Serialize, files, drain, boot, remote, budget
<1>2. item \in Item /\ item.id = e
  BY DEF Item
<1> HIDE DEF item
<1>3. /\ queue' \in Seq(Item) /\ Ids(queue') = Ids(queue) \cup {e}
      /\ Len(queue') = Len(queue) + 1 /\ \A i \in 1 .. Len(queue) : queue'[i] = queue[i]
      /\ DOMAIN queue = 1 .. Len(queue) /\ DOMAIN queue' = 1 .. Len(queue')
      /\ Len(queue) \in Nat
  BY <1>0, <1>1, <1>2, IdsAppend, LenProperties
<1>4. e # Drain
  BY DrainIsNoEntry
<1>5. TypeOK'
  BY <1>0, <1>1, <1>3 DEF TypeOK, Writers
<1>6. Offered' = Offered \cup {e}
  BY <1>0, <1>1 DEF Offered, TypeOK, Writers
<1>7. OpenFiles'
  BY <1>0, <1>1 DEF OpenFiles
<1>8. Indexes'
  <2>1. DOMAIN queue \subseteq DOMAIN queue' /\ \A i \in DOMAIN queue : queue'[i] = queue[i]
    BY <1>3
  <2> QED BY <1>0, <1>1, <1>4, <2>1 DEF Indexes, Writing, Recovered, Settled, TypeOK, Writers
<1>9. Known'
  BY <1>0, <1>1, <1>3, <1>6 DEF Known, TypeOK, Writers
<1> QED BY <1>3, <1>5, <1>6, <1>7, <1>8, <1>9 DEF QueueInv

LEMMA OpenTmpKeeps ==
  ASSUME QueueInv, NEW w \in Writers, OpenTmp(w)
  PROVE  QueueInv' /\ Offered' = Offered
<1>0. TypeOK /\ OpenFiles /\ Indexes /\ Known
  BY DEF QueueInv
<1>1. /\ wpc[w] = "open" /\ tmp' = <<>>
      /\ fd' = [fd EXCEPT ![w] = "tmp"] /\ wpc' = [wpc EXCEPT ![w] = "write"]
      /\ UNCHANGED <<queue, due, main, snap, raced, dpc, batch, gone, rpc, rbuf, rows,
                     dead, lost, faults, crashes, exits>>
  BY DEF OpenTmp, mem, drain, boot, remote, budget
<1>2. <<>> \in Seq(Item)
  BY EmptySeq
<1>3. TypeOK'
  BY <1>0, <1>1, <1>2 DEF TypeOK, Lines
<1>4. Offered' = Offered
  BY <1>0, <1>1, OfferedStays DEF TypeOK, Writers
<1>5. OpenFiles'
  BY <1>0, <1>1, <1>2 DEF OpenFiles, TypeOK
<1>6. Indexes'
  BY <1>0, <1>1 DEF Indexes, Writing, Recovered, Settled, TypeOK, Writers
<1>7. Known'
  BY <1>0, <1>1, <1>4, IdsEmpty DEF Known
<1> QED BY <1>3, <1>4, <1>5, <1>6, <1>7 DEF QueueInv

LEMMA WriteTmpKeeps ==
  ASSUME QueueInv, NEW w \in Writers, WriteTmp(w)
  PROVE  QueueInv' /\ Offered' = Offered
<1>0. /\ TypeOK /\ OpenFiles /\ Indexes /\ Known
      /\ snap[w] \in Seq(Item) /\ Ids(snap[w]) \subseteq Offered
  BY DEF QueueInv, TypeOK, Known
<1>1. /\ wpc[w] = "write"
      /\ wpc' = [wpc EXCEPT ![w] = "rename"] /\ snap' = [snap EXCEPT ![w] = <<>>]
      /\ UNCHANGED <<queue, due, fd, raced, dpc, batch, gone, rpc, rbuf, rows,
                     dead, lost, faults, crashes, exits>>
  BY DEF WriteTmp, mem, drain, boot, remote, budget
<1>2. <<>> \in Seq(Item)
  BY EmptySeq
<1>3. Offered' = Offered
  BY <1>0, <1>1, OfferedStays DEF TypeOK, Writers
<1>4. \/ fd[w] = "tmp"  /\ tmp' \in Overwrite(tmp, snap[w]) /\ main' = main
      \/ fd[w] = "main" /\ main' \in Overwrite(main, snap[w]) /\ tmp' = tmp
      \/ main' = main /\ tmp' = tmp
  BY DEF WriteTmp, files
<1>5. ASSUME NEW old \in {main, tmp}, old \in Seq(Item), NEW new \in Overwrite(old, snap[w])
      PROVE  new \in Seq(Item) /\ Ids(new) \subseteq Offered
  <2>1. old # NoFile
    BY <1>5, NoFileIsNoContent
  <2> QED BY <1>0, <1>5, <2>1, OverwriteIds DEF Known
<1>6. /\ main' \in Lines /\ tmp' \in Lines
      /\ main \in Seq(Item) => main' \in Seq(Item)
      /\ tmp \in Seq(Item) => tmp' \in Seq(Item)
      /\ main' # NoFile => Ids(main') \subseteq Offered
      /\ tmp' # NoFile => Ids(tmp') \subseteq Offered
  <2>1. /\ main \in Lines /\ tmp \in Lines
        /\ main # NoFile => Ids(main) \subseteq Offered
        /\ tmp # NoFile => Ids(tmp) \subseteq Offered
    BY <1>0 DEF TypeOK, Known
  <2>2. CASE fd[w] = "tmp"  /\ tmp' \in Overwrite(tmp, snap[w]) /\ main' = main
    <3>1. tmp \in Seq(Item)
      BY <1>0, <2>2 DEF OpenFiles
    <3>2. tmp' \in Seq(Item) /\ Ids(tmp') \subseteq Offered
      BY <1>5, <2>2, <3>1
    <3> QED BY <2>1, <2>2, <3>2 DEF Lines
  <2>3. CASE fd[w] = "main" /\ main' \in Overwrite(main, snap[w]) /\ tmp' = tmp
    <3>1. main \in Seq(Item)
      BY <1>0, <2>3 DEF OpenFiles
    <3>2. main' \in Seq(Item) /\ Ids(main') \subseteq Offered
      BY <1>5, <2>3, <3>1
    <3> QED BY <2>1, <2>3, <3>2 DEF Lines
  <2>4. CASE main' = main /\ tmp' = tmp
    BY <2>1, <2>4
  <2> QED BY <1>4, <2>2, <2>3, <2>4
<1>7. TypeOK'
  BY <1>0, <1>1, <1>2, <1>6 DEF TypeOK
<1>8. OpenFiles'
  BY <1>0, <1>1, <1>6 DEF OpenFiles
<1>9. Indexes'
  BY <1>0, <1>1 DEF Indexes, Writing, Recovered, Settled, TypeOK, Writers
<1>10. Known'
  BY <1>0, <1>1, <1>3, <1>6, IdsEmpty DEF Known, TypeOK, Writers
<1> QED BY <1>3, <1>7, <1>8, <1>9, <1>10 DEF QueueInv

LEMMA RenameKeeps ==
  ASSUME QueueInv, NEW w \in Writers, Rename(w)
  PROVE  QueueInv' /\ Offered' = Offered
<1>0. TypeOK /\ OpenFiles /\ Indexes /\ Known
  BY DEF QueueInv
<1>1. /\ wpc[w] = "rename" /\ tmp # NoFile /\ main' = tmp /\ tmp' = NoFile
      /\ fd' = [v \in Writers |->
                  IF v = w THEN "closed"
                  ELSE IF fd[v] = "tmp" THEN "main"
                  ELSE IF fd[v] = "main" THEN "replaced" ELSE fd[v]]
      /\ UNCHANGED <<queue, due, snap, raced, batch, gone, rpc, rbuf, rows, dead, lost,
                     faults, crashes, exits>>
  BY DEF Rename, mem, drain, boot, remote, budget
<1>2. tmp \in Seq(Item)
  BY <1>0, <1>1 DEF TypeOK, Lines
<1>3. \/ /\ w = Drain /\ wpc' = [wpc EXCEPT ![w] = "idle"] /\ dpc' = "idle"
      \/ /\ w # Drain /\ wpc' = [wpc EXCEPT ![w] = "ok"] /\ dpc' = dpc
  BY DEF Rename, drain
<1>4. TypeOK'
  <2>1. fd' \in [Writers -> {"closed", "tmp", "main", "replaced"}]
    BY <1>0, <1>1 DEF TypeOK
  <2>2. wpc' \in [Writers -> {"idle", "new", "open", "write", "rename", "ok", "err"}]
    BY <1>0, <1>3 DEF TypeOK
  <2>3. dpc' \in {"idle", "post", "dead", "persist"}
    BY <1>0, <1>3 DEF TypeOK
  <2> QED BY <1>0, <1>1, <1>2, <2>1, <2>2, <2>3 DEF TypeOK, Lines
<1>5. Offered' = Offered
  BY <1>0, <1>1, <1>3, OfferedStays DEF TypeOK, Writers
<1>6. OpenFiles'
  <2>1. \A v \in Writers : fd'[v] # "tmp"
    BY <1>1
  <2> QED BY <1>1, <1>2, <2>1 DEF OpenFiles
<1>7. Indexes'
  <2>1. w = Drain => dpc = "persist"
    BY <1>0, <1>1 DEF Indexes, Writing
  <2> QED BY <1>0, <1>1, <1>3, <2>1 DEF Indexes, Writing, Recovered, Settled, TypeOK, Writers
<1>8. Known'
  BY <1>0, <1>1, <1>5 DEF Known
<1> QED BY <1>4, <1>5, <1>6, <1>7, <1>8 DEF QueueInv

LEMMA PersistThrowsKeeps ==
  ASSUME QueueInv, NEW w \in Writers, Writing(w), PersistThrows(w),
         UNCHANGED <<files, raced, remote>>, faults' \in Nat, crashes' \in Nat
  PROVE  QueueInv' /\ Offered' = Offered
<1>0. TypeOK /\ OpenFiles /\ Indexes /\ Known
  BY DEF QueueInv
<1>1. CASE w = Drain
  BY <1>1, DrainRejectsKeeps DEF PersistThrows
<1>2. CASE w # Drain
  <2>1. /\ wpc' = [wpc EXCEPT ![w] = "err"] /\ snap' = [snap EXCEPT ![w] = <<>>]
        /\ fd' = [fd EXCEPT ![w] = "closed"]
        /\ UNCHANGED <<queue, due, main, tmp, raced, dpc, batch, gone, rpc, rbuf,
                       rows, dead, lost, exits>>
    BY <1>2 DEF PersistThrows, mem, files, drain, boot, remote
  <2>2. <<>> \in Seq(Item)
    BY EmptySeq
  <2>3. TypeOK'
    BY <1>0, <2>1, <2>2 DEF TypeOK
  <2>4. Offered' = Offered
    BY <1>0, <2>1, OfferedStays DEF TypeOK, Writers, Writing
  <2>5. OpenFiles'
    BY <1>0, <2>1 DEF OpenFiles, TypeOK
  <2>6. Indexes'
    BY <1>0, <1>2, <2>1 DEF Indexes, Writing, Recovered, Settled, TypeOK, Writers
  <2>7. Known'
    BY <1>0, <2>1, <2>4, IdsEmpty DEF Known, TypeOK
  <2> QED BY <2>3, <2>4, <2>5, <2>6, <2>7 DEF QueueInv
<1> QED BY <1>1, <1>2

---------------------------------------------------------------------------
(* The drain.                                                              *)

\* Every attempt is at an entry of the queue.
LEMMA CurrentInBatch ==
  ASSUME batch \in SUBSET Nat, batch # {}
  PROVE  Current \in batch
<1> DEFINE Less == {p \in Nat \X Nat : p[1] < p[2]}
<1>1. IsWellFoundedOn(Less, Nat)
  BY NatLessThanWellFounded DEF OpToRel
<1>2. PICK i \in batch : \A j \in batch : i <= j
  <2>1. PICK i \in batch : \A j \in batch : <<j, i>> \notin Less
    <3> HIDE DEF Less
    <3> QED BY <1>1, WFMin
  <2>2. \A j \in batch : ~(j < i)
    BY <2>1
  <2> QED BY <2>2
<1>3. \E k \in batch : \A j \in batch : k <= j
  BY <1>2
<1> QED BY <1>3 DEF Current

\* The loop moves on: what then leaves the queue is settled.
LEMMA NextIndexKeeps ==
  ASSUME QueueInv, dpc \in {"post", "dead"}, NEW q \in Seq(Item), DOMAIN q = DOMAIN queue,
         \A i \in DOMAIN queue : q[i].id = queue[i].id,
         NEW ready \in SUBSET Entries, NEW removed \in SUBSET (gone \cup {Current}),
         \A i \in removed : rows'[queue[i].id] > 0 \/ dead'[queue[i].id] > 0,
         NextIndex(q, ready, removed), UNCHANGED <<files, boot, budget>>,
         rows' \in [Entries -> Nat], dead' \in [Entries -> Nat], lost' \in SUBSET Entries
  PROVE  /\ QueueInv' /\ Offered' = Offered
         /\ Ids(queue') \subseteq Ids(queue)
         /\ \A e \in Ids(queue) \ Ids(queue') : rows'[e] > 0 \/ dead'[e] > 0
<1>0. TypeOK /\ OpenFiles /\ Indexes /\ Known /\ queue \in Seq(Item)
  BY DEF QueueInv, TypeOK
<1>1. /\ batch' = batch \ {Current} /\ fd' = fd
      /\ main' = main /\ tmp' = tmp /\ rpc' = rpc /\ rbuf' = rbuf
      /\ faults' = faults /\ crashes' = crashes /\ exits' = exits
  BY DEF NextIndex, files, boot, budget
<1>2. Current \in batch /\ removed \subseteq DOMAIN queue
  <2>1. Current \in batch
    BY <1>0, CurrentInBatch DEF TypeOK, Indexes
  <2> HIDE DEF Current
  <2> QED BY <1>0, <2>1 DEF Indexes
<1>3. Ids(q) = Ids(queue) /\ DOMAIN queue \subseteq Nat
  BY <1>0, IdsSame, LenProperties
<1>4. Recovered /\ ~Writing(Drain)
  BY <1>0 DEF Indexes
<1>5. CASE batch' # {}
  <2>1. /\ queue' = q /\ due' = ready /\ gone' = removed /\ dpc' = "post"
        /\ wpc' = wpc /\ snap' = snap /\ raced' = raced
    BY <1>5 DEF NextIndex
  <2>2. TypeOK'
    BY <1>0, <1>1, <1>2, <1>3, <2>1 DEF TypeOK
  <2>3. Offered' = Offered
    BY <2>1, OfferedStays
  <2>4. OpenFiles'
    BY <1>0, <1>1, <2>1 DEF OpenFiles
  <2>5. Indexes'
    <3>1. batch' \subseteq DOMAIN queue
      BY <1>0, <1>1 DEF Indexes
    <3> QED BY <1>0, <1>1, <1>2, <1>4, <1>5, <2>1, <3>1 DEF Indexes, Recovered, Writing, Settled
  <2>6. Known'
    BY <1>0, <1>1, <1>3, <2>1, <2>3 DEF Known
  <2> QED BY <1>3, <2>1, <2>2, <2>3, <2>4, <2>5, <2>6 DEF QueueInv
<1>6. CASE batch' = {}
  <2>1. /\ queue' = Without(q, removed) /\ due' = ready \cap Ids(queue')
        /\ gone' = {} /\ dpc' = "persist"
        /\ wpc' = [wpc EXCEPT ![Drain] = "open"] /\ snap' = [snap EXCEPT ![Drain] = queue']
        /\ raced' \in BOOLEAN
    BY <1>6 DEF NextIndex, Serialize
  <2>2. /\ queue' \in Seq(Item) /\ Ids(queue') \subseteq Ids(q)
        /\ \A i \in DOMAIN q : i \notin removed => q[i].id \in Ids(queue')
    BY <2>1, WithoutKeeps
  <2>3. ASSUME NEW e \in Ids(queue), e \notin Ids(queue')
        PROVE  rows'[e] > 0 \/ dead'[e] > 0
    <3>1. PICK i \in DOMAIN queue : e = queue[i].id
      BY <2>3 DEF Ids
    <3>2. i \in removed
      BY <2>2, <2>3, <3>1
    <3> QED BY <3>1, <3>2
  <2>4. TypeOK'
    BY <1>0, <1>1, <1>6, <2>1, <2>2 DEF TypeOK
  <2>5. Offered' = Offered
    BY <1>0, <2>1, DrainIsNoEntry, OfferedStays DEF TypeOK, Writers
  <2>6. OpenFiles'
    BY <1>0, <1>1, <2>1 DEF OpenFiles
  <2>7. Indexes'
    BY <1>0, <1>1, <1>4, <1>6, <2>1 DEF Indexes, Recovered, Writing, TypeOK, Writers
  <2>8. Known'
    BY <1>0, <1>1, <1>3, <2>1, <2>2, <2>5 DEF Known, TypeOK, Writers
  <2> QED BY <1>3, <2>2, <2>3, <2>4, <2>5, <2>6, <2>7, <2>8 DEF QueueInv
<1> QED BY <1>5, <1>6

---------------------------------------------------------------------------
(* Attempts at one entry.                                                  *)

LEMMA CurrentIs ==
  ASSUME QueueInv, dpc \in {"post", "dead"}
  PROVE  /\ Current \in batch /\ Current \in DOMAIN queue
         /\ queue[Current] \in Item /\ queue[Current].id \in Entries
         /\ queue[Current].id \in Ids(queue)
<1>1. batch \in SUBSET Nat /\ batch # {} /\ batch \subseteq DOMAIN queue /\ queue \in Seq(Item)
  BY DEF QueueInv, TypeOK, Indexes
<1>2. Current \in batch
  BY <1>1, CurrentInBatch
<1> HIDE DEF Current
<1> QED BY <1>1, <1>2, IdsType DEF Item

LEMMA AttemptedIs ==
  ASSUME QueueInv, dpc \in {"post", "dead"}
  PROVE  /\ Attempted \in Seq(Item) /\ DOMAIN Attempted = DOMAIN queue
         /\ \A i \in DOMAIN queue : Attempted[i].id = queue[i].id
<1> DEFINE item == [queue[Current] EXCEPT !.n = queue[Current].n + 1]
<1>1. /\ queue \in Seq(Item) /\ DOMAIN queue = 1 .. Len(queue)
      /\ Current \in 1 .. Len(queue) /\ queue[Current] \in Item
  BY CurrentIs, LenProperties DEF QueueInv, TypeOK
<1>2. item \in Item /\ item.id = queue[Current].id
  BY <1>1 DEF Item
<1>3. Attempted = [queue EXCEPT ![Current] = item]
  BY DEF Attempted
<1> HIDE DEF item, Current
<1>4. /\ Attempted \in Seq(Item) /\ Len(Attempted) = Len(queue)
      /\ \A i \in 1 .. Len(queue) : Attempted[i] = IF i = Current THEN item ELSE queue[i]
  BY <1>1, <1>2, <1>3, ExceptSeq
<1>5. DOMAIN Attempted = 1 .. Len(queue)
  BY <1>4, LenProperties
<1> QED BY <1>1, <1>2, <1>4, <1>5

\* One more row, or one more dead letter, of an entry.
LEMMA Counted ==
  ASSUME NEW count \in [Entries -> Nat], NEW e \in Entries
  PROVE  LET more == [count EXCEPT ![e] = count[e] + 1]
         IN  /\ more \in [Entries -> Nat] /\ more[e] > 0
             /\ \A d \in Entries : count[d] > 0 => more[d] > 0
OBVIOUS

\* What an attempt means to Outbox.
LEMMA AttemptImplements ==
  ASSUME QueueInv, dpc \in {"post", "dead"}, rpc' = rpc, Offered' = Offered,
         Ids(queue') \subseteq Ids(queue),
         \A e \in Ids(queue) \ Ids(queue') : rows'[e] > 0 \/ dead'[e] > 0,
         NEW e \in Ids(queue),
         \/ rows' = [rows EXCEPT ![e] = rows[e] + 1] /\ dead' = dead
         \/ dead' = [dead EXCEPT ![e] = dead[e] + 1] /\ rows' = rows
         \/ rows' = rows /\ dead' = dead
  PROVE  Promised!Next
<1>1. Recovered /\ Recovered'
  BY DEF QueueInv, Indexes, Recovered
<1>2. e \in Entries
  BY IdsType DEF QueueInv, TypeOK
<1>3. Promised!Attempt(e)
  BY <1>1 DEF Promised!Attempt, Promised!Leave, Promised!Settled, Offered
<1> QED BY <1>2, <1>3 DEF Promised!Next

\* An attempt changes the queue, its counts and the drain, nothing else.
LEMMA PostKeeps ==
  ASSUME QueueInv, Post
  PROVE  QueueInv' /\ [Promised!Next]_(Promised!outbox)
<1> DEFINE e == queue[Current].id
<1>0. TypeOK /\ Indexes /\ gone \subseteq DOMAIN queue
  BY DEF QueueInv, Indexes
<1>1. /\ dpc = "post" /\ dpc \in {"post", "dead"}
      /\ UNCHANGED <<main, tmp, rpc, rbuf, dead, faults, crashes, exits>>
  BY DEF Post, PostOk, PostRetryable, PostPoison, files, boot, remote, budget
<1>2. /\ Current \in batch /\ Current \in DOMAIN queue /\ e \in Entries /\ e \in Ids(queue)
      /\ Attempted \in Seq(Item) /\ DOMAIN Attempted = DOMAIN queue
      /\ \A i \in DOMAIN queue : Attempted[i].id = queue[i].id
      /\ queue \in Seq(Item)
  BY <1>1, CurrentIs, AttemptedIs DEF QueueInv, TypeOK
<1>3. \A i \in DOMAIN queue : queue[i].id \in Entries
  BY <1>2, IdsType DEF Item
<1>4. ASSUME NEW i \in gone PROVE rows[queue[i].id] > 0 \/ dead[queue[i].id] > 0
  BY <1>0 DEF Indexes, Settled
<1> HIDE DEF Current, Attempted
<1>5. CASE PostOk
  <2>1. rows' = [rows EXCEPT ![e] = rows[e] + 1] /\ lost' = lost
    BY <1>5 DEF PostOk, Posted
  <2>2. /\ rows' \in [Entries -> Nat] /\ rows'[e] > 0
        /\ \A d \in Entries : rows[d] > 0 => rows'[d] > 0
    <3> HIDE DEF e
    <3> QED BY <1>0, <1>2, <2>1, Counted DEF TypeOK
  <2>3. \A i \in gone \cup {Current} : rows'[queue[i].id] > 0 \/ dead'[queue[i].id] > 0
    BY <1>0, <1>1, <1>3, <1>4, <2>2
  <2>4. NextIndex(queue, due, gone \cup {Current})
    BY <1>5 DEF PostOk
  <2>5. /\ QueueInv' /\ Offered' = Offered /\ Ids(queue') \subseteq Ids(queue)
        /\ \A d \in Ids(queue) \ Ids(queue') : rows'[d] > 0 \/ dead'[d] > 0
    BY <1>0, <1>1, <1>2, <2>1, <2>2, <2>3, <2>4, NextIndexKeeps DEF TypeOK, files, boot, budget
  <2> QED BY <1>1, <1>2, <2>1, <2>5, AttemptImplements
<1>6. CASE PostRetryable
  <2>1. /\ \/ rows' = [rows EXCEPT ![e] = rows[e] + 1] \/ rows' = rows
        /\ lost' \in SUBSET Entries
    BY <1>0, <1>2, <1>6 DEF PostRetryable, Posted, TypeOK
  <2>2. rows' \in [Entries -> Nat] /\ \A d \in Entries : rows[d] > 0 => rows'[d] > 0
    <3>1. CASE rows' = [rows EXCEPT ![e] = rows[e] + 1]
      <4> HIDE DEF e
      <4> QED BY <1>0, <1>2, <3>1, Counted DEF TypeOK
    <3>2. CASE rows' = rows
      BY <1>0, <3>2 DEF TypeOK
    <3> QED BY <2>1, <3>1, <3>2
  <2>3. \A i \in gone : rows'[queue[i].id] > 0 \/ dead'[queue[i].id] > 0
    BY <1>0, <1>1, <1>3, <1>4, <2>2
  <2>4. CASE Attempted[Current].n >= MaxAttempts
    <3>1. /\ queue' = Attempted /\ dpc' = "dead"
          /\ UNCHANGED <<due, wpc, snap, fd, raced, batch, gone>>
      BY <1>6, <2>4 DEF PostRetryable, writer
    <3>2. Ids(queue') = Ids(queue)
      BY <1>2, <3>1, IdsSame
    <3>3. Offered' = Offered
      BY <3>1, OfferedStays
    <3>4. TypeOK'
      BY <1>0, <1>1, <1>2, <2>1, <2>2, <3>1 DEF TypeOK
    <3>5. OpenFiles'
      BY <1>1, <3>1 DEF QueueInv, OpenFiles
    <3>6. Indexes'
      BY <1>0, <1>1, <1>2, <2>3, <3>1 DEF Indexes, Recovered, Writing, Settled
    <3>7. Known'
      BY <1>1, <3>1, <3>2, <3>3 DEF QueueInv, Known
    <3>8. Promised!Next
      BY <1>1, <1>2, <2>1, <3>2, <3>3, AttemptImplements
    <3> QED BY <3>4, <3>5, <3>6, <3>7, <3>8 DEF QueueInv
  <2>5. CASE ~(Attempted[Current].n >= MaxAttempts)
    <3>1. NextIndex(Attempted, due \ {e}, gone)
      BY <1>6, <2>5 DEF PostRetryable
    <3>2. /\ QueueInv' /\ Offered' = Offered /\ Ids(queue') \subseteq Ids(queue)
          /\ \A d \in Ids(queue) \ Ids(queue') : rows'[d] > 0 \/ dead'[d] > 0
      <4>1. due \ {e} \in SUBSET Entries
        BY <1>0 DEF TypeOK
      <4>2. dead' \in [Entries -> Nat]
        BY <1>0, <1>1 DEF TypeOK
      <4> HIDE DEF e
      <4> QED BY <1>1, <1>2, <2>1, <2>2, <2>3, <3>1, <4>1, <4>2, NextIndexKeeps
               DEF files, boot, budget
    <3> QED BY <1>1, <1>2, <2>1, <3>2, AttemptImplements
  <2> QED BY <2>4, <2>5
<1>7. CASE PostPoison
  <2>1. /\ queue' = Attempted /\ dpc' = "dead"
        /\ UNCHANGED <<due, wpc, snap, fd, raced, batch, gone, rows, lost>>
    BY <1>7 DEF PostPoison, writer, remote
  <2>2. Ids(queue') = Ids(queue)
    BY <1>2, <2>1, IdsSame
  <2>3. Offered' = Offered
    BY <2>1, OfferedStays
  <2>4. TypeOK'
    BY <1>0, <1>1, <1>2, <2>1 DEF TypeOK
  <2>5. OpenFiles'
    BY <1>1, <2>1 DEF QueueInv, OpenFiles
  <2>6. Indexes'
    BY <1>0, <1>1, <1>2, <2>1 DEF Indexes, Recovered, Writing, Settled
  <2>7. Known'
    BY <1>1, <2>1, <2>2, <2>3 DEF QueueInv, Known
  <2>8. Promised!Next
    BY <1>1, <1>2, <2>1, <2>2, <2>3, AttemptImplements
  <2> QED BY <2>4, <2>5, <2>6, <2>7, <2>8 DEF QueueInv
<1> QED BY <1>5, <1>6, <1>7 DEF Post

LEMMA DeadLetterKeeps ==
  ASSUME QueueInv, DeadLetter
  PROVE  QueueInv' /\ [Promised!Next]_(Promised!outbox)
<1> DEFINE e == queue[Current].id
<1>0. TypeOK /\ Indexes /\ gone \subseteq DOMAIN queue
  BY DEF QueueInv, Indexes
<1>1. /\ dpc = "dead" /\ dpc \in {"post", "dead"}
      /\ UNCHANGED <<main, tmp, rpc, rbuf, rows, lost, faults, crashes, exits>>
      /\ dead' = [dead EXCEPT ![e] = dead[e] + 1]
      /\ NextIndex(queue, due, gone \cup {Current})
  BY DEF DeadLetter, files, boot, budget
<1>2. /\ Current \in batch /\ Current \in DOMAIN queue /\ e \in Entries /\ e \in Ids(queue)
      /\ queue \in Seq(Item)
  BY <1>1, CurrentIs DEF QueueInv, TypeOK
<1>3. \A i \in DOMAIN queue : queue[i].id \in Entries
  BY <1>2, IdsType DEF Item
<1>4. ASSUME NEW i \in gone PROVE rows[queue[i].id] > 0 \/ dead[queue[i].id] > 0
  BY <1>0 DEF Indexes, Settled
<1> HIDE DEF Current
<1>5. /\ dead' \in [Entries -> Nat] /\ dead'[e] > 0
      /\ \A d \in Entries : dead[d] > 0 => dead'[d] > 0
  <2> HIDE DEF e
  <2> QED BY <1>0, <1>1, <1>2, Counted DEF TypeOK
<1>6. \A i \in gone \cup {Current} : rows'[queue[i].id] > 0 \/ dead'[queue[i].id] > 0
  BY <1>0, <1>1, <1>3, <1>4, <1>5
<1>7. /\ QueueInv' /\ Offered' = Offered /\ Ids(queue') \subseteq Ids(queue)
      /\ \A d \in Ids(queue) \ Ids(queue') : rows'[d] > 0 \/ dead'[d] > 0
  BY <1>0, <1>1, <1>2, <1>5, <1>6, NextIndexKeeps DEF TypeOK, files, boot, budget
<1> QED BY <1>1, <1>2, <1>7, AttemptImplements

---------------------------------------------------------------------------
(* The other steps.                                                        *)

\* A step that shows Outbox nothing.
LEMMA Unseen ==
  ASSUME Offered' = Offered, Recovered' <=> Recovered, Ids(queue') = Ids(queue),
         rows' = rows, dead' = dead
  PROVE  UNCHANGED Promised!outbox
BY DEF Promised!outbox, Offered, Recovered

\* A restart, of which a caller that was still writing may never hear.
LEMMA RebootImplements ==
  ASSUME QueueInv, Reboot, Offered' = Offered, ~Recovered', UNCHANGED remote
  PROVE  [Promised!Next]_(Promised!outbox)
BY DEF Promised!Next, Promised!Restart, Offered, remote

LEMMA EnqueueImplements ==
  ASSUME QueueInv, NEW e \in Entries, Enqueue(e)
  PROVE  Promised!Next
<1>1. Offered' = Offered \cup {e} /\ Ids(queue') = Ids(queue) \cup {e}
  BY EnqueueKeeps
<1>2. /\ e \notin Offered /\ rpc' = rpc /\ rows' = rows /\ dead' = dead
  BY DEF Enqueue, Offered, boot, remote
<1>3. Promised!Offer(e)
  BY <1>1, <1>2 DEF Promised!Offer, Recovered, Offered
<1> QED BY <1>3 DEF Promised!Next

LEMMA PersistSteps ==
  ASSUME QueueInv, NEW w \in Writers, Persist(w) \/ PersistFault(w)
  PROVE  QueueInv' /\ [Promised!Next]_(Promised!outbox)
<1>0. faults \in Nat /\ crashes \in Nat
  BY DEF QueueInv, TypeOK
<1>1. CASE OpenTmp(w) \/ WriteTmp(w) \/ Rename(w)
  <2>1. QueueInv' /\ Offered' = Offered
    BY <1>1, OpenTmpKeeps, WriteTmpKeeps, RenameKeeps
  <2>2. rpc' = rpc /\ queue' = queue /\ rows' = rows /\ dead' = dead
    BY <1>1 DEF OpenTmp, WriteTmp, Rename, mem, boot, remote
  <2> QED BY <2>1, <2>2, Unseen DEF Recovered
<1>2. CASE RenameMissing(w) \/ PersistFault(w)
  <2>1. /\ Writing(w) /\ PersistThrows(w) /\ UNCHANGED <<files, raced, remote>>
        /\ faults' \in Nat /\ crashes' \in Nat
    BY <1>0, <1>2 DEF RenameMissing, PersistFault, Writing
  <2>2. QueueInv' /\ Offered' = Offered
    BY <2>1, PersistThrowsKeeps
  <2>3. CASE w # Drain \/ DrainRejectionCaught
    <3>1. rpc' = rpc /\ queue' = queue /\ rows' = rows /\ dead' = dead
      BY <2>1, <2>3 DEF PersistThrows, DrainRejectionCaught, mem, boot, remote
    <3> QED BY <2>2, <3>1, Unseen DEF Recovered
  <2>4. CASE w = Drain /\ DrainRejectionUnhandled
    <3>1. Reboot
      BY <2>4 DEF DrainRejectionUnhandled
    <3>2. ~Recovered'
      BY <3>1 DEF Reboot, Recovered
    <3> QED BY <2>1, <2>2, <3>1, <3>2, RebootImplements
  <2> QED BY <2>1, <2>3, <2>4 DEF PersistThrows, DrainRejects
<1> QED BY <1>1, <1>2 DEF Persist

LEMMA DeadLetterFaultSteps ==
  ASSUME QueueInv, DeadLetterFault
  PROVE  QueueInv' /\ [Promised!Next]_(Promised!outbox)
<1>1. /\ DrainRejects /\ UNCHANGED <<files, raced, remote>>
      /\ faults' \in Nat /\ crashes' \in Nat
  BY DEF DeadLetterFault, QueueInv, TypeOK
<1>2. QueueInv' /\ Offered' = Offered
  BY <1>1, DrainRejectsKeeps
<1>3. CASE DrainRejectionCaught
  <2>1. rpc' = rpc /\ queue' = queue /\ rows' = rows /\ dead' = dead
    BY <1>1, <1>3 DEF DrainRejectionCaught, mem, boot, remote
  <2> QED BY <1>2, <2>1, Unseen DEF Recovered
<1>4. CASE DrainRejectionUnhandled
  <2>1. Reboot
    BY <1>4 DEF DrainRejectionUnhandled
  <2>2. ~Recovered'
    BY <2>1 DEF Reboot, Recovered
  <2> QED BY <1>1, <1>2, <2>1, <2>2, RebootImplements
<1> QED BY <1>1, <1>3, <1>4 DEF DrainRejects

LEMMA CrashSteps ==
  ASSUME QueueInv, Crash
  PROVE  QueueInv' /\ [Promised!Next]_(Promised!outbox)
<1>1. /\ Reboot /\ UNCHANGED <<files, raced, remote>>
      /\ faults' \in Nat /\ crashes' \in Nat /\ exits' \in Nat
  BY DEF Crash, QueueInv, TypeOK
<1>2. QueueInv' /\ Offered' = Offered /\ ~Recovered'
  BY <1>1, RebootKeeps
<1> QED BY <1>1, <1>2, RebootImplements

\* Boot recovery brings back only what was offered.
LEMMA RecoverSteps ==
  ASSUME QueueInv, Recover \/ RecoverFault
  PROVE  QueueInv' /\ [Promised!Next]_(Promised!outbox)
<1>0. TypeOK /\ OpenFiles /\ Indexes /\ Known
  BY DEF QueueInv
<1>1. /\ rpc \in {"read", "set"} /\ ~Recovered
      /\ UNCHANGED <<main, tmp, wpc, snap, fd, raced, dpc, batch, gone, rows, dead,
                     lost, crashes, exits>>
      /\ faults' \in Nat
  BY <1>0 DEF Recover, RecoverRead, RecoverSet, RecoverFault, files, writer, drain, remote,
              budget, Recovered, TypeOK
<1>2. dpc = "idle" /\ gone = {} /\ batch = {}
  BY <1>0, <1>1 DEF Indexes
<1>3. Offered' = Offered
  BY <1>1, OfferedStays
<1>4. /\ queue' \in Seq(Item) /\ due' \subseteq Entries /\ rbuf' \in Seq(Item)
      /\ rpc' \in {"set", "done", "failed"}
      /\ Ids(queue') \cup Ids(rbuf') \subseteq Offered
      /\ ~Recovered' => queue' = queue
  <2>1. /\ queue \in Seq(Item) /\ due \subseteq Entries /\ rbuf \in Seq(Item)
        /\ main \in Seq(Item) \cup {NoFile}
        /\ <<>> \in Seq(Item) /\ Ids(<<>>) = {}
        /\ Ids(queue) \cup Ids(rbuf) \subseteq Offered
        /\ main # NoFile => Ids(main) \subseteq Offered
        /\ Ids(rbuf) \subseteq Entries
    BY <1>0, EmptySeq, IdsEmpty, IdsType DEF TypeOK, Known, Lines
  <2>2. CASE RecoverRead
    <3>1. /\ queue' = queue /\ due' = due
          /\ rpc' = IF main = NoFile THEN "done" ELSE "set"
          /\ rbuf' = IF main = NoFile THEN <<>> ELSE main
      BY <2>2 DEF RecoverRead, mem
    <3>2. CASE main = NoFile
      BY <2>1, <3>1, <3>2
    <3>3. CASE main # NoFile
      BY <2>1, <3>1, <3>3
    <3> QED BY <3>2, <3>3
  <2>3. CASE RecoverSet
    BY <2>1, <2>3 DEF RecoverSet, Recovered
  <2>4. CASE RecoverFault
    BY <2>1, <2>4 DEF RecoverFault, mem
  <2> QED BY <2>2, <2>3, <2>4 DEF Recover
<1>5. TypeOK'
  BY <1>0, <1>1, <1>4 DEF TypeOK
<1>6. OpenFiles'
  BY <1>0, <1>1 DEF OpenFiles
<1>7. Indexes'
  BY <1>0, <1>1, <1>2 DEF Indexes, Writing
<1>8. Known'
  BY <1>0, <1>1, <1>3, <1>4 DEF Known
<1>9. CASE Recovered'
  <2>1. Promised!Recover
    BY <1>1, <1>3, <1>4, <1>9 DEF Promised!Recover, Offered
  <2> QED BY <1>5, <1>6, <1>7, <1>8, <2>1 DEF QueueInv, Promised!Next
<1>10. CASE ~Recovered'
  <2>1. UNCHANGED Promised!outbox
    BY <1>1, <1>3, <1>4, <1>10, Unseen
  <2> QED BY <1>5, <1>6, <1>7, <1>8, <2>1 DEF QueueInv
<1> QED BY <1>9, <1>10

\* The drain starts, a backoff elapses, or nothing happens.
LEMMA WaitingSteps ==
  ASSUME QueueInv,
         DrainStart \/ (\E e \in Entries : BackoffElapses(e)) \/ UNCHANGED vars
  PROVE  QueueInv' /\ [Promised!Next]_(Promised!outbox)
<1>0. TypeOK /\ OpenFiles /\ Indexes /\ Known
  BY DEF QueueInv
<1>1. /\ UNCHANGED <<queue, main, tmp, wpc, snap, fd, raced, rpc, rbuf, rows, dead,
                     lost, faults, crashes, exits>>
      /\ due' \subseteq Entries
  BY <1>0 DEF DrainStart, BackoffElapses, mem, files, writer, drain, boot, remote,
              budget, vars, TypeOK
<1>2. \/ dpc' = dpc /\ batch' = batch /\ gone' = gone
      \/ /\ dpc = "idle" /\ dpc' = "post" /\ batch' = DueIndexes /\ batch' # {} /\ gone' = {}
         /\ Recovered
  BY DEF DrainStart, BackoffElapses, drain, vars
<1>3. DueIndexes \subseteq DOMAIN queue /\ DOMAIN queue \subseteq Nat
  BY <1>0, LenProperties DEF DueIndexes, TypeOK
<1>4. TypeOK'
  BY <1>0, <1>1, <1>2, <1>3 DEF TypeOK
<1>5. Offered' = Offered
  BY <1>1, OfferedStays
<1>6. OpenFiles' /\ Known'
  BY <1>0, <1>1, <1>5 DEF OpenFiles, Known
<1>7. Indexes'
  BY <1>0, <1>1, <1>2, <1>3 DEF Indexes, Recovered, Writing, Settled
<1>8. UNCHANGED Promised!outbox
  BY <1>1, <1>5, Unseen DEF Recovered
<1> QED BY <1>4, <1>6, <1>7, <1>8 DEF QueueInv

---------------------------------------------------------------------------
(* Settled once.                                                           *)

LEMMA AppendDistinct ==
  ASSUME NEW q \in Seq(Item), Distinct(q), NEW x \in Item, x.id \notin Ids(q)
  PROVE  Distinct(Append(q, x))
<1> DEFINE a == Append(q, x)
<1>1. /\ Len(q) \in Nat /\ DOMAIN q = 1 .. Len(q) /\ DOMAIN a = 1 .. Len(q) + 1
      /\ \A i \in 1 .. Len(q) : a[i] = q[i]
      /\ a[Len(q) + 1] = x
  BY AppendProperties, LenProperties
<1> HIDE DEF a
<1>2. \A i \in DOMAIN a : i \in DOMAIN q \/ i = Len(q) + 1
  BY <1>1
<1>3. \A i \in DOMAIN q : q[i].id # x.id
  BY DEF Ids
<1>4. Distinct(a)
  BY <1>1, <1>2, <1>3 DEF Distinct
<1> QED BY <1>4 DEF a

\* The queue grows at its end.
LEMMA GrownQueue ==
  ASSUME NEW q \in Seq(Item), NEW x \in Item, NEW s
  PROVE  /\ Starts(s, q) => Starts(s, Append(q, x))
         /\ Starts(q, Append(q, x)) /\ Starts(q, q)
         /\ Trails(s, q) => Trails(s, Append(q, x))
<1>1. /\ DOMAIN q \subseteq DOMAIN Append(q, x)
      /\ \A i \in DOMAIN q : Append(q, x)[i] = q[i]
  BY AppendProperties, LenProperties
<1> QED BY <1>1 DEF Starts, Trails

LEMMA TrailsEmpty == \A q : Trails(<<>>, q) /\ Starts(<<>>, q)
BY DEF Trails, Starts, Distinct

\* New lines are the first of the queue, the older ones after them come later.
LEMMA OverwriteTrails ==
  ASSUME NEW q \in Seq(Item), Distinct(q), NEW old \in Seq(Item), Trails(old, q),
         NEW new \in Seq(Item), Starts(new, q), NEW file \in Overwrite(old, new)
  PROVE  Trails(file, q)
<1>1. /\ file \in Seq(Item)
      /\ \A i \in DOMAIN new : i \in DOMAIN file /\ file[i] = new[i]
  BY OverwriteIs
<1>2. PICK d \in {0, 1} : \A i \in DOMAIN file :
        \/ i \in DOMAIN new
        \/ i > Len(new) /\ i + d \in DOMAIN old /\ file[i] = old[i + d]
  BY OverwriteIs
<1>3. /\ DOMAIN file \subseteq Nat /\ DOMAIN q \subseteq Nat /\ DOMAIN new = 1 .. Len(new)
      /\ Len(new) \in Nat
  BY <1>1, LenProperties
<1>4. ASSUME NEW i \in DOMAIN file
      PROVE  \E j \in DOMAIN q : i <= j /\ file[i].id = q[j].id
  <2>1. CASE i \in DOMAIN new
    <3>1. i <= i /\ i \in DOMAIN q /\ file[i].id = q[i].id
      BY <1>1, <1>3, <2>1 DEF Starts
    <3> QED BY <3>1
  <2>2. CASE i \notin DOMAIN new
    <3>1. i + d \in DOMAIN old /\ file[i] = old[i + d]
      BY <1>2, <2>2
    <3>2. PICK j \in DOMAIN q : i + d <= j /\ old[i + d].id = q[j].id
      BY <3>1 DEF Trails
    <3>3. i <= j
      BY <1>3, <3>2
    <3> QED BY <2>2, <3>1, <3>2, <3>3
  <2> QED BY <2>1, <2>2
<1>5. ASSUME NEW i \in DOMAIN file, NEW k \in DOMAIN file, file[i].id = file[k].id,
             i \in DOMAIN new, k \notin DOMAIN new
      PROVE  FALSE
  <2>1. i <= Len(new) /\ k > Len(new) /\ i \in Nat /\ k \in Nat
    BY <1>2, <1>3, <1>5
  <2>2. PICK j \in DOMAIN q : k <= j /\ file[k].id = q[j].id
    BY <1>4
  <2>3. i \in DOMAIN q /\ file[i].id = q[i].id
    BY <1>1, <1>5 DEF Starts
  <2>4. i = j
    BY <1>5, <2>2, <2>3 DEF Distinct
  <2> QED BY <1>3, <2>1, <2>2, <2>4
<1>6. ASSUME NEW i \in DOMAIN file, NEW k \in DOMAIN file, file[i].id = file[k].id
      PROVE  i = k
  <2>1. CASE i \in DOMAIN new /\ k \in DOMAIN new
    BY <1>1, <1>6, <2>1 DEF Starts, Distinct
  <2>2. CASE i \notin DOMAIN new /\ k \notin DOMAIN new
    <3>1. i + d \in DOMAIN old /\ k + d \in DOMAIN old /\ old[i + d].id = old[k + d].id
      BY <1>2, <1>6, <2>2
    <3>2. i + d = k + d
      BY <3>1 DEF Trails, Distinct
    <3> QED BY <1>3, <3>2
  <2> QED BY <1>5, <1>6, <2>1, <2>2
<1>7. \A i \in DOMAIN file : \E j \in DOMAIN q : i <= j /\ file[i].id = q[j].id
  BY <1>4
<1>8. Distinct(file)
  BY <1>6 DEF Distinct
<1> QED BY <1>7, <1>8 DEF Trails

\* Mishaps are not forgotten.
LEMMA CalmBefore == QueueInv /\ [Next]_vars /\ Calm' => Calm /\ UNCHANGED budget
<1> SUFFICES ASSUME QueueInv, [Next]_vars, Calm' PROVE Calm /\ UNCHANGED budget
  OBVIOUS
<1>1. faults \in Nat /\ crashes \in Nat /\ exits \in Nat
  BY DEF QueueInv, TypeOK
<1>2. /\ faults' = faults \/ faults' = faults + 1
      /\ crashes' = crashes \/ crashes' = crashes + 1
      /\ exits' = exits \/ exits' = exits + 1
  BY DEF Next, Enqueue, BackoffElapses, Persist, OpenTmp, WriteTmp, Rename, RenameMissing,
         PersistFault, PersistThrows, DrainRejects, DrainRejectionCaught,
         DrainRejectionUnhandled, DrainStart, Post, PostOk, PostRetryable, PostPoison,
         DeadLetter, DeadLetterFault, Recover, RecoverRead, RecoverSet, RecoverFault, Crash,
         vars, budget
<1> QED BY <1>1, <1>2 DEF Calm, budget

\* A step that settles nothing and leaves the queue and the indexes put aside.
LEMMA SameAccounts ==
  ASSUME Accounted, UNCHANGED <<queue, gone, rows, dead, lost>>, rpc' # "failed",
         batch' \cap gone' = {}, \A e \in Entries : wpc'[e] = "new" => wpc[e] = "new",
         ~Recovered' => Recovering'
  PROVE  Accounted'
BY DEF Accounted

LEMMA EnqueueAccounts ==
  ASSUME QueueInv, Accounted, NEW e \in Entries, Enqueue(e)
  PROVE  Accounted'
<1> DEFINE item == [id |-> e, n |-> 0]
<1>0. /\ TypeOK /\ Indexes /\ Known /\ queue \in Seq(Item) /\ DOMAIN queue \subseteq DOMAIN queue
      /\ gone \subseteq DOMAIN queue
  BY DEF QueueInv, TypeOK, Indexes
<1>1. /\ wpc[e] = "new" /\ queue' = Append(queue, item)
      /\ wpc' = [wpc EXCEPT ![e] = "open"] /\ snap' = [snap EXCEPT ![e] = queue']
      /\ UNCHANGED <<main, tmp, batch, gone, rpc, rbuf, rows, dead, lost>>
  BY DEF Enqueue, Serialize, files, drain, boot, remote
<1>2. item \in Item /\ item.id = e /\ e \notin Ids(queue)
  BY <1>0, <1>1 DEF Item, Known, Offered
<1> HIDE DEF item
<1>3. /\ queue' \in Seq(Item) /\ DOMAIN queue' = 1 .. Len(queue) + 1 /\ DOMAIN queue = 1 .. Len(queue)
      /\ Len(queue) \in Nat
      /\ \A i \in DOMAIN queue : queue'[i] = queue[i]
      /\ queue'[Len(queue) + 1] = item
  BY <1>0, <1>1, <1>2, AppendProperties, LenProperties
<1>4. Distinct(queue')
  BY <1>0, <1>1, <1>2, AppendDistinct DEF Accounted
<1>5. ASSUME NEW i \in DOMAIN queue' \ gone', queue'[i].id \notin lost'
      PROVE  rows'[queue'[i].id] + dead'[queue'[i].id] = 0
  <2>1. CASE i \in DOMAIN queue
    BY <1>1, <1>3, <1>5, <2>1 DEF Accounted
  <2>2. CASE i = Len(queue) + 1
    BY <1>1, <1>2, <1>3, <2>2 DEF Accounted
  <2> QED BY <1>3, <2>1, <2>2
<1>6. ASSUME ~Recovered PROVE Recovering'
  <2>1. Recovering
    BY <1>6 DEF Accounted
  <2>2. \A w \in Writers : Starts(snap'[w], queue')
    <3>1. ASSUME NEW w \in Writers \ {e} PROVE snap'[w] = snap[w]
      BY <1>0, <1>1 DEF TypeOK
    <3>2. snap'[e] = queue'
      BY <1>0, <1>1 DEF TypeOK, Writers
    <3>3. Starts(queue', queue')
      BY DEF Starts
    <3> QED BY <1>0, <1>1, <1>2, <2>1, <3>1, <3>2, <3>3, GrownQueue DEF Recovering
  <2>3. \A s : Trails(s, queue) => Trails(s, queue')
    BY <1>0, <1>1, <1>2, GrownQueue
  <2> QED BY <1>1, <2>1, <2>2, <2>3 DEF Recovering
<1>7. \A d \in Entries : wpc'[d] = "new" => wpc[d] = "new"
  BY <1>0, <1>1 DEF TypeOK
<1> QED BY <1>1, <1>4, <1>5, <1>6, <1>7 DEF Accounted, Recovered

\* Persists bring lines of the queue to the files, in its order.
LEMMA PersistAccounts ==
  ASSUME QueueInv, Accounted, UNCHANGED budget, NEW w \in Writers, Persist(w)
  PROVE  Accounted'
<1>0. TypeOK /\ OpenFiles /\ Indexes /\ snap \in [Writers -> Seq(Item)] /\ queue \in Seq(Item)
  BY DEF QueueInv, TypeOK
<1>1. CASE OpenTmp(w)
  <2>1. /\ UNCHANGED <<queue, main, snap, batch, gone, rpc, rbuf, rows, dead, lost>>
        /\ tmp' = <<>> /\ wpc' = [wpc EXCEPT ![w] = "write"]
    BY <1>1 DEF OpenTmp, mem, drain, boot, remote
  <2>2. Recovering => Recovering'
    BY <2>1, TrailsEmpty DEF Recovering
  <2>3. \A e \in Entries : wpc'[e] = "new" => wpc[e] = "new"
    BY <1>0, <2>1 DEF TypeOK
  <2> QED BY <2>1, <2>2, <2>3, SameAccounts DEF Accounted, Recovered
<1>2. CASE WriteTmp(w)
  <2>1. /\ UNCHANGED <<queue, batch, gone, rpc, rbuf, rows, dead, lost>>
        /\ wpc' = [wpc EXCEPT ![w] = "rename"] /\ snap' = [snap EXCEPT ![w] = <<>>]
    BY <1>2 DEF WriteTmp, mem, drain, boot, remote
  <2>2. \/ fd[w] = "tmp"  /\ tmp' \in Overwrite(tmp, snap[w]) /\ main' = main
        \/ fd[w] = "main" /\ main' \in Overwrite(main, snap[w]) /\ tmp' = tmp
        \/ main' = main /\ tmp' = tmp
    BY <1>2 DEF WriteTmp, files
  <2>3. ASSUME Recovering PROVE Recovering'
    <3>1. \A v \in Writers : Starts(snap'[v], queue')
      BY <1>0, <2>1, <2>3, TrailsEmpty DEF Recovering
    <3>2. ASSUME NEW old \in {main, tmp}, old \in Seq(Item),
                 NEW new \in Overwrite(old, snap[w])
          PROVE  Trails(new, queue)
      <4>1. old # NoFile
        BY <3>2, NoFileIsNoContent
      <4>2. Trails(old, queue) /\ Starts(snap[w], queue) /\ Distinct(queue)
        BY <2>3, <4>1 DEF Recovering, Accounted
      <4> QED BY <1>0, <3>2, <4>2, OverwriteTrails
    <3>3. \A file \in {main', tmp'} : file # NoFile => Trails(file, queue)
      BY <1>0, <2>2, <2>3, <3>2 DEF OpenFiles, Recovering
    <3> QED BY <2>1, <2>3, <3>1, <3>3 DEF Recovering
  <2>4. \A e \in Entries : wpc'[e] = "new" => wpc[e] = "new"
    BY <1>0, <2>1 DEF TypeOK
  <2> QED BY <2>1, <2>3, <2>4, SameAccounts DEF Accounted, Recovered
<1>3. CASE Rename(w)
  <2>1. /\ UNCHANGED <<queue, snap, batch, gone, rpc, rbuf, rows, dead, lost>>
        /\ main' = tmp /\ tmp' = NoFile
        /\ \E x \in {"idle", "ok"} : wpc' = [wpc EXCEPT ![w] = x]
    BY <1>3 DEF Rename, mem, drain, boot, remote
  <2>2. Recovering => Recovering'
    BY <2>1 DEF Recovering
  <2>3. \A e \in Entries : wpc'[e] = "new" => wpc[e] = "new"
    BY <1>0, <2>1 DEF TypeOK
  <2> QED BY <2>1, <2>2, <2>3, SameAccounts DEF Accounted, Recovered
<1>4. CASE RenameMissing(w)
  <2>1. PersistThrows(w) /\ Writing(w) /\ exits' = exits
        /\ UNCHANGED <<main, tmp, rows, dead, lost>>
    BY <1>4 DEF RenameMissing, budget, Writing, files, remote
  <2>2. /\ UNCHANGED <<queue, rpc, rbuf>> /\ snap' = [snap EXCEPT ![w] = <<>>]
        /\ \E x \in {"idle", "err"} : wpc' = [wpc EXCEPT ![w] = x]
        /\ UNCHANGED <<batch, gone>> \/ (w = Drain /\ batch' = {} /\ gone' = {})
    <3>1. CASE w = Drain
      <4>1. ~DrainRejectionUnhandled
        BY <1>0, <2>1 DEF DrainRejectionUnhandled, TypeOK
      <4> QED BY <2>1, <3>1, <4>1 DEF PersistThrows, DrainRejects, DrainRejectionCaught, mem, boot
    <3>2. CASE w # Drain
      BY <2>1, <3>2 DEF PersistThrows, mem, boot, drain
    <3> QED BY <3>1, <3>2
  <2>3. gone' = gone /\ batch' \cap gone' = {}
    <3>1. w = Drain => gone = {}
      BY <1>0, <2>1 DEF Indexes
    <3> QED BY <2>2, <3>1 DEF Accounted
  <2>4. Recovering => Recovering'
    BY <1>0, <2>1, <2>2, TrailsEmpty DEF Recovering
  <2>5. \A e \in Entries : wpc'[e] = "new" => wpc[e] = "new"
    BY <1>0, <2>2 DEF TypeOK
  <2> QED BY <2>1, <2>2, <2>3, <2>4, <2>5, SameAccounts DEF Accounted, Recovered
<1> QED BY <1>1, <1>2, <1>3, <1>4 DEF Persist

\* An attempt settles the entry it is at, and no other, for the first time.
LEMMA NextIndexAccounts ==
  ASSUME QueueInv, Accounted, dpc \in {"post", "dead"}, NEW q \in Seq(Item),
         DOMAIN q = DOMAIN queue, \A i \in DOMAIN queue : q[i].id = queue[i].id,
         NEW ready, NEW removed, removed = gone \/ removed = gone \cup {Current},
         NextIndex(q, ready, removed), rpc' = rpc, lost \subseteq lost',
         \A e \in Entries \ {queue[Current].id} : rows'[e] = rows[e] /\ dead'[e] = dead[e],
         queue[Current].id \notin lost' =>
           LET n == rows'[queue[Current].id] + dead'[queue[Current].id]
           IN  n <= 1 /\ (Current \in removed \/ n = 0)
  PROVE  Accounted'
<1> DEFINE c == queue[Current].id
<1>0. TypeOK /\ Indexes /\ Known /\ queue \in Seq(Item) /\ Recovered /\ Recovered'
  BY DEF QueueInv, TypeOK, Indexes, Recovered
<1>1. /\ Current \in batch /\ Current \in DOMAIN queue /\ c \in Entries /\ c \in Ids(queue)
      /\ Current \notin gone
  BY CurrentIs DEF Accounted
<1>2. \A i \in DOMAIN queue : queue[i].id \in Entries
  BY <1>0, IdsType DEF Item
<1>3. wpc[c] # "new"
  BY <1>0, <1>1 DEF Known, Offered
<1>4. batch' = batch \ {Current} /\ batch' \cap removed = {}
  BY DEF NextIndex, Accounted
<1>5. Distinct(q)
  BY DEF Accounted, Distinct
<1>6. ASSUME NEW e \in Entries
      PROVE  /\ wpc'[e] = "new" => wpc[e] = "new"
             /\ wpc'[e] = "new" => rows'[e] + dead'[e] = 0
             /\ e \notin lost' => rows'[e] + dead'[e] <= 1
  <2>1. wpc'[e] = "new" => wpc[e] = "new"
    BY <1>0 DEF NextIndex, Serialize, TypeOK, Writers
  <2>2. CASE e = c
    BY <1>3, <2>1, <2>2
  <2>3. CASE e # c
    BY <2>1, <2>3 DEF Accounted
  <2> QED BY <2>1, <2>2, <2>3
<1>7. ASSUME NEW i \in DOMAIN q, i \notin removed, q[i].id \notin lost'
      PROVE  rows'[q[i].id] + dead'[q[i].id] = 0
  <2>1. CASE i = Current
    BY <1>1, <1>7, <2>1
  <2>2. CASE i # Current
    <3>1. q[i].id = queue[i].id /\ q[i].id # c /\ q[i].id \in Entries
      BY <1>1, <1>2, <2>2 DEF Accounted, Distinct
    <3>2. i \notin gone /\ q[i].id \notin lost
      BY <1>7
    <3> QED BY <3>1, <3>2 DEF Accounted
  <2> QED BY <2>1, <2>2
<1> HIDE DEF c, Current
<1>8. CASE batch' # {}
  <2>1. queue' = q /\ gone' = removed
    BY <1>8 DEF NextIndex
  <2> QED BY <1>0, <1>4, <1>5, <1>6, <1>7, <2>1 DEF Accounted
<1>9. CASE batch' = {}
  <2>1. queue' = Without(q, removed) /\ gone' = {}
    BY <1>9 DEF NextIndex
  <2>2. /\ Distinct(queue')
        /\ \A k \in DOMAIN queue' : \E i \in DOMAIN q : i \notin removed /\ queue'[k] = q[i]
    BY <1>5, <2>1, WithoutKeeps
  <2>3. \A k \in DOMAIN queue' : queue'[k].id \notin lost' =>
          rows'[queue'[k].id] + dead'[queue'[k].id] = 0
    BY <1>7, <2>2
  <2> QED BY <1>0, <1>6, <1>9, <2>1, <2>2, <2>3 DEF Accounted
<1> QED BY <1>8, <1>9

LEMMA PostAccounts ==
  ASSUME QueueInv, Accounted, Post
  PROVE  Accounted'
<1> DEFINE c == queue[Current].id
<1>0. /\ TypeOK /\ Indexes /\ dpc \in {"post", "dead"} /\ rpc' = rpc /\ dead' = dead
      /\ rows \in [Entries -> Nat] /\ dead \in [Entries -> Nat] /\ queue \in Seq(Item)
  BY DEF QueueInv, TypeOK, Post, PostOk, PostRetryable, PostPoison, boot, remote
<1>1. /\ Current \in DOMAIN queue /\ c \in Entries /\ Current \notin gone
      /\ Attempted \in Seq(Item) /\ DOMAIN Attempted = DOMAIN queue
      /\ \A i \in DOMAIN queue : Attempted[i].id = queue[i].id
  BY <1>0, CurrentIs, AttemptedIs DEF Accounted
<1>2. c \notin lost => rows[c] + dead[c] = 0
  BY <1>1 DEF Accounted
<1> HIDE DEF Current, Attempted
<1>3. CASE PostOk
  <2>1. /\ rows' = [rows EXCEPT ![c] = rows[c] + 1] /\ lost' = lost
        /\ NextIndex(queue, due, gone \cup {Current})
    BY <1>3 DEF PostOk, Posted
  <2>2. /\ \A e \in Entries \ {c} : rows'[e] = rows[e] /\ dead'[e] = dead[e]
        /\ rows'[c] = rows[c] + 1
    BY <1>0, <1>1, <2>1
  <2>3. c \notin lost' => rows'[c] + dead'[c] <= 1
    BY <1>0, <1>1, <1>2, <2>1, <2>2
  <2> QED BY <1>0, <2>1, <2>2, <2>3, NextIndexAccounts
<1>4. CASE PostRetryable
  <2>1. \/ rows' = rows /\ lost' = lost
        \/ rows' = [rows EXCEPT ![c] = rows[c] + 1] /\ lost' = lost \cup {c}
    BY <1>4 DEF PostRetryable, Posted
  <2>2. /\ \A e \in Entries \ {c} : rows'[e] = rows[e] /\ dead'[e] = dead[e]
        /\ lost \subseteq lost'
    BY <1>0, <2>1
  <2>3. c \notin lost' => rows'[c] + dead'[c] = 0
    BY <1>0, <1>2, <2>1
  <2>4. CASE Attempted[Current].n >= MaxAttempts
    <3>1. queue' = Attempted /\ UNCHANGED <<wpc, batch, gone>>
      BY <1>4, <2>4 DEF PostRetryable, writer
    <3>2. Distinct(queue') /\ Recovered'
      BY <1>0, <1>1, <3>1 DEF Accounted, Distinct, Indexes, Recovered
    <3>3. ASSUME NEW e \in Entries
          PROVE  /\ wpc'[e] = "new" => rows'[e] + dead'[e] = 0
                 /\ e \notin lost' => rows'[e] + dead'[e] <= 1
      <4>1. CASE e = c
        <5>1. c \in Ids(queue)
          BY <1>1 DEF Ids
        <5>2. wpc[c] # "new"
          BY <5>1, <1>1 DEF QueueInv, Known, Offered
        <5> QED BY <2>3, <3>1, <4>1, <5>2
      <4>2. CASE e # c
        BY <2>2, <3>1, <4>2 DEF Accounted
      <4> QED BY <4>1, <4>2
    <3>4. ASSUME NEW i \in DOMAIN queue' \ gone', queue'[i].id \notin lost'
          PROVE  rows'[queue'[i].id] + dead'[queue'[i].id] = 0
      <4>1. i \in DOMAIN queue \ gone /\ queue'[i].id = queue[i].id /\ queue[i].id \in Entries
        BY <1>0, <1>1, <3>1, <3>4, IdsType DEF Item
      <4>2. CASE queue[i].id = c
        BY <2>3, <3>4, <4>1, <4>2
      <4>3. CASE queue[i].id # c
        BY <2>2, <3>4, <4>1, <4>3 DEF Accounted
      <4> QED BY <4>2, <4>3
    <3> QED BY <1>0, <3>1, <3>2, <3>3, <3>4 DEF Accounted
  <2>5. CASE ~(Attempted[Current].n >= MaxAttempts)
    <3>1. NextIndex(Attempted, due \ {c}, gone)
      BY <1>4, <2>5 DEF PostRetryable
    <3> QED BY <1>0, <1>1, <2>2, <2>3, <3>1, NextIndexAccounts
  <2> QED BY <2>4, <2>5
<1>5. CASE PostPoison
  <2>1. queue' = Attempted /\ UNCHANGED <<wpc, batch, gone, rows, lost>>
    BY <1>5 DEF PostPoison, writer, remote
  <2>2. Distinct(queue') /\ Recovered'
    BY <1>0, <1>1, <2>1 DEF Accounted, Distinct, Indexes, Recovered
  <2>3. \A i \in DOMAIN queue' : i \in DOMAIN queue /\ queue'[i].id = queue[i].id
    BY <1>1, <2>1
  <2> QED BY <1>0, <2>1, <2>2, <2>3 DEF Accounted
<1> QED BY <1>3, <1>4, <1>5 DEF Post

LEMMA DeadLetterAccounts ==
  ASSUME QueueInv, Accounted, DeadLetter
  PROVE  Accounted'
<1> DEFINE c == queue[Current].id
<1>0. /\ TypeOK /\ dpc \in {"post", "dead"} /\ UNCHANGED <<rpc, rows, lost>>
      /\ rows \in [Entries -> Nat] /\ dead \in [Entries -> Nat] /\ queue \in Seq(Item)
  BY DEF QueueInv, TypeOK, DeadLetter, boot
<1>1. c \in Entries /\ Current \in DOMAIN queue /\ Current \notin gone
  BY <1>0, CurrentIs DEF Accounted
<1>2. c \notin lost => rows[c] + dead[c] = 0
  BY <1>1 DEF Accounted
<1> HIDE DEF Current
<1>3. /\ dead' = [dead EXCEPT ![c] = dead[c] + 1]
      /\ NextIndex(queue, due, gone \cup {Current})
  BY DEF DeadLetter
<1>4. /\ \A e \in Entries \ {c} : rows'[e] = rows[e] /\ dead'[e] = dead[e]
      /\ dead'[c] = dead[c] + 1
  BY <1>0, <1>1, <1>3
<1>5. c \notin lost' => rows'[c] + dead'[c] <= 1
  BY <1>0, <1>1, <1>2, <1>4
<1> QED BY <1>0, <1>3, <1>4, <1>5, NextIndexAccounts

\* Boot recovery puts distinct, untried entries in the queue.
LEMMA RecoverAccounts ==
  ASSUME QueueInv, Accounted, Recover
  PROVE  Accounted'
<1>0. /\ Indexes /\ UNCHANGED <<main, tmp, wpc, snap, batch, gone, rows, dead, lost>>
      /\ rpc \in {"read", "set"} /\ ~Recovered /\ rows \in [Entries -> Nat]
      /\ dead \in [Entries -> Nat] /\ rbuf \in Seq(Item)
  BY DEF QueueInv, TypeOK, Recover, RecoverRead, RecoverSet, files, writer, drain, remote,
         Recovered
<1>1. Recovering /\ gone = {} /\ batch = {}
  BY <1>0 DEF Accounted, Indexes
<1>2. CASE RecoverRead
  <2>1. /\ queue' = queue
        /\ rpc' = IF main = NoFile THEN "done" ELSE "set"
        /\ rbuf' = IF main = NoFile THEN <<>> ELSE main
    BY <1>2 DEF RecoverRead, mem
  <2>2. Trails(rbuf', queue)
    BY <1>1, <2>1, TrailsEmpty DEF Recovering
  <2>3. Recovering'
    BY <1>0, <1>1, <2>1, <2>2 DEF Recovering
  <2>4. rpc' # "failed" /\ batch' \cap gone' = {}
    BY <1>0, <1>1, <2>1
  <2> QED BY <1>0, <2>1, <2>3, <2>4, SameAccounts
<1>3. CASE RecoverSet
  <2>1. queue' = rbuf /\ rpc' = "done"
    BY <1>3 DEF RecoverSet
  <2>2. Distinct(queue') /\ Recovered'
    BY <1>1, <2>1 DEF Recovering, Trails, Recovered
  <2>3. \A i \in DOMAIN queue' : queue'[i].id \in Entries
    BY <1>0, <2>1, IdsType DEF Item
  <2>4. \A i \in DOMAIN queue' : rows'[queue'[i].id] + dead'[queue'[i].id] = 0
    BY <1>0, <1>1, <2>3 DEF Recovering
  <2> QED BY <1>0, <1>1, <2>1, <2>2, <2>4 DEF Accounted
<1> QED BY <1>2, <1>3 DEF Recover

\* The drain starts, a backoff elapses, or nothing happens.
LEMMA WaitingAccounts ==
  ASSUME QueueInv, Accounted,
         DrainStart \/ (\E e \in Entries : BackoffElapses(e)) \/ UNCHANGED vars
  PROVE  Accounted'
<1>1. UNCHANGED <<queue, main, tmp, wpc, snap, rpc, rbuf, rows, dead, lost>>
  BY DEF DrainStart, BackoffElapses, mem, files, writer, boot, remote, vars
<1>2. gone' = gone /\ batch' \cap gone' = {}
  BY DEF DrainStart, BackoffElapses, drain, vars, Accounted, QueueInv, Indexes
<1>3. Recovering => Recovering'
  BY <1>1 DEF Recovering
<1> QED BY <1>1, <1>2, <1>3, SameAccounts DEF Accounted, Recovered

---------------------------------------------------------------------------
(* Accepted writes and the queue file.                                     *)

\* A persist that begins without a race is alone, and after boot recovery.
LEMMA SerializeAlone ==
  ASSUME NEW w, NEW q, Serialize(w, q), ~raced'
  PROVE  ~raced /\ rpc = "done" /\ \A v \in Writers \ {w} : ~Writing(v)
BY DEF Serialize

\* A step that leaves files, writers and recovery alone, and the same entries
\* in the queue.
LEMMA SameDurable ==
  ASSUME LoneWriter, Kept, UNCHANGED <<wpc, snap, fd, main, tmp, rpc, rbuf>>,
         Ids(queue') = Ids(queue), \A e \in Entries : Settled(e) => Settled(e)'
  PROVE  LoneWriter' /\ Kept'
<1>1. LoneWriter'
  BY DEF LoneWriter, Writing
<1>2. Kept'
  BY DEF Kept
<1> QED BY <1>1, <1>2

\* A writer leaves while it is the only one, or all do.
LEMMA WritersGone ==
  ASSUME Kept, \A v \in Writers : ~Writing(v)', main' = main,
         rpc' = "set" => rpc = "set" /\ rbuf' = rbuf,
         rpc' = "done" => rpc = "done" /\ queue' = queue,
         \A e \in Entries : wpc'[e] = "ok" => wpc[e] = "ok",
         UNCHANGED <<rows, dead>>
  PROVE  LoneWriter' /\ Kept'
<1>1. LoneWriter'
  BY DEF LoneWriter, Writing
<1>2. Kept'
  BY DEF Kept, Settled
<1> QED BY <1>1, <1>2

LEMMA RebootDurable ==
  ASSUME QueueInv, Kept, Reboot, UNCHANGED <<files, remote>>
  PROVE  LoneWriter' /\ Kept'
<1>1. /\ main' = main /\ rpc' = "read" /\ UNCHANGED <<rows, dead>>
      /\ wpc' = [w \in Writers |->
                   IF w = Drain THEN "idle"
                   ELSE IF wpc[w] \in {"open", "write", "rename"} THEN "err" ELSE wpc[w]]
  BY DEF Reboot, files, remote
<1>2. \A v \in Writers : ~Writing(v)'
  BY <1>1 DEF Writing
<1>3. \A e \in Entries : wpc'[e] = "ok" => wpc[e] = "ok"
  BY <1>1, DrainIsNoEntry DEF Writers
<1> QED BY <1>1, <1>2, <1>3, WritersGone

LEMMA EnqueueDurable ==
  ASSUME QueueInv, LoneWriter, Kept, NEW e \in Entries, Enqueue(e), ~raced'
  PROVE  LoneWriter' /\ Kept'
<1>0. TypeOK /\ queue \in Seq(Item)
  BY DEF QueueInv, TypeOK
<1>1. /\ wpc' = [wpc EXCEPT ![e] = "open"] /\ snap' = [snap EXCEPT ![e] = queue']
      /\ UNCHANGED <<main, tmp, fd, rpc, rbuf, rows, dead>> /\ wpc[e] = "new"
  BY DEF Enqueue, Serialize, files, boot, remote
<1>2. rpc = "done" /\ \A v \in Writers \ {e} : ~Writing(v)
  BY SerializeAlone DEF Enqueue
<1>3. Ids(queue') = Ids(queue) \cup {e}
  BY EnqueueKeeps
<1>4. \A v \in Writers : Writing(v)' => v = e
  BY <1>0, <1>1, <1>2 DEF Writing, TypeOK
<1>5. wpc'[e] = "open" /\ snap'[e] = queue' /\ e \in Writers
  BY <1>0, <1>1 DEF TypeOK, Writers
<1>6. LoneWriter'
  BY <1>1, <1>2, <1>3, <1>4, <1>5 DEF LoneWriter, Writing
<1>7. Kept'
  BY <1>0, <1>1, <1>3 DEF Kept, Settled, TypeOK
<1> QED BY <1>6, <1>7

LEMMA PersistDurable ==
  ASSUME QueueInv, LoneWriter, Kept, NEW w \in Writers, OpenTmp(w) \/ WriteTmp(w) \/ Rename(w)
  PROVE  LoneWriter' /\ Kept'
<1>0. /\ TypeOK /\ snap \in [Writers -> Seq(Item)] /\ <<>> \in Seq(Item) /\ Ids(<<>>) = {}
      /\ wpc \in [Writers -> {"idle", "new", "open", "write", "rename", "ok", "err"}]
  BY EmptySeq, IdsEmpty DEF QueueInv, TypeOK
<1>1. Writing(w) /\ UNCHANGED <<queue, rpc, rbuf, rows, dead>>
  BY DEF OpenTmp, WriteTmp, Rename, Writing, mem, boot, remote
<1>2. \A v \in Writers \ {w} : ~Writing(v)
  BY <1>1 DEF LoneWriter
<1>3. rpc = "done" /\ (w \in Entries => w \in Ids(queue))
  BY <1>1 DEF LoneWriter
<1>4. CASE OpenTmp(w)
  <2>1. /\ wpc[w] = "open" /\ tmp' = <<>> /\ wpc' = [wpc EXCEPT ![w] = "write"]
        /\ fd' = [fd EXCEPT ![w] = "tmp"] /\ main' = main /\ snap' = snap
    BY <1>4 DEF OpenTmp
  <2>2. \A v \in Writers : Writing(v)' => v = w
    BY <1>0, <1>2, <2>1 DEF Writing
  <2>3. wpc'[w] = "write" /\ fd'[w] = "tmp" /\ Ids(snap'[w]) = Ids(queue)
    BY <1>0, <2>1 DEF LoneWriter, TypeOK
  <2>4. LoneWriter'
    BY <1>1, <1>3, <2>1, <2>2, <2>3 DEF LoneWriter, Writing
  <2>5. Kept'
    BY <1>0, <1>1, <2>1 DEF Kept, Settled
  <2> QED BY <2>4, <2>5
<1>5. CASE WriteTmp(w)
  <2>1. /\ wpc[w] = "write" /\ wpc' = [wpc EXCEPT ![w] = "rename"]
        /\ snap' = [snap EXCEPT ![w] = <<>>]
    BY <1>5 DEF WriteTmp
  <2>2. fd[w] = "tmp" /\ tmp = <<>> /\ Ids(snap[w]) = Ids(queue)
    BY <2>1 DEF LoneWriter
  <2>3. tmp' \in Overwrite(tmp, snap[w]) /\ main' = main
    BY <1>5, <2>2 DEF WriteTmp
  <2>4. tmp' \in Seq(Item) /\ Ids(tmp') = Ids(queue)
    <3> DEFINE was == <<>>
               now == snap[w]
    <3>1. was \in Seq(Item) /\ now \in Seq(Item) /\ tmp' \in Overwrite(was, now)
      BY <1>0, <2>2, <2>3
    <3>2. Ids(was) = {} /\ Ids(now) = Ids(queue)
      BY <1>0, <2>2
    <3> HIDE DEF was, now
    <3>3. /\ tmp' \in Seq(Item) /\ Ids(tmp') \subseteq Ids(was) \cup Ids(now)
          /\ Ids(now) \subseteq Ids(tmp')
      BY <3>1, OverwriteIds, ZenonT(30)
    <3> QED BY <3>2, <3>3
  <2>5. tmp' # NoFile
    BY <2>4, NoFileIsNoContent
  <2>6. (\A v \in Writers : Writing(v)' => v = w) /\ wpc'[w] = "rename"
    BY <1>0, <1>2, <2>1 DEF Writing
  <2>7. LoneWriter'
    BY <1>1, <1>3, <2>4, <2>5, <2>6 DEF LoneWriter, Writing
  <2>8. Kept'
    BY <1>0, <1>1, <2>1, <2>3 DEF Kept, Settled
  <2> QED BY <2>7, <2>8
<1>6. CASE Rename(w)
  <2>1. wpc[w] = "rename" /\ main' = tmp
    BY <1>6 DEF Rename
  <2>2. PICK x \in {"idle", "ok"} : wpc' = [wpc EXCEPT ![w] = x]
    BY <1>6 DEF Rename
  <2>3. tmp # NoFile /\ Ids(tmp) = Ids(queue)
    BY <2>1 DEF LoneWriter
  <2>4. \A v \in Writers : ~Writing(v)'
    BY <1>0, <1>2, <2>2 DEF Writing
  <2>5. LoneWriter'
    BY <2>4 DEF LoneWriter, Writing
  <2>6. ASSUME NEW e \in Entries, wpc'[e] = "ok", ~Settled(e) PROVE e \in Ids(queue)
    BY <1>0, <1>3, <2>2, <2>6 DEF Kept, Writers
  <2>7. Kept'
    BY <1>1, <1>3, <2>1, <2>3, <2>6 DEF Kept, Settled
  <2> QED BY <2>5, <2>7
<1> QED BY <1>4, <1>5, <1>6

\* A writer gives up.
LEMMA ThrowsDurable ==
  ASSUME QueueInv, LoneWriter, Kept, NEW w \in Writers, Writing(w), PersistThrows(w),
         UNCHANGED <<files, remote>>
  PROVE  LoneWriter' /\ Kept'
<1>0. wpc \in [Writers -> {"idle", "new", "open", "write", "rename", "ok", "err"}]
  BY DEF QueueInv, TypeOK
<1>1. CASE w = Drain /\ DrainRejectionUnhandled
  BY <1>1, RebootDurable DEF DrainRejectionUnhandled
<1>2. CASE ~(w = Drain /\ DrainRejectionUnhandled)
  <2>1. /\ UNCHANGED <<queue, rpc, rbuf>>
        /\ \E x \in {"idle", "err"} : wpc' = [wpc EXCEPT ![w] = x]
    BY <1>2 DEF PersistThrows, DrainRejects, DrainRejectionCaught, mem, boot
  <2>2. \A v \in Writers : ~Writing(v)'
    BY <1>0, <2>1 DEF LoneWriter, Writing
  <2>3. \A e \in Entries : wpc'[e] = "ok" => wpc[e] = "ok"
    BY <1>0, <2>1 DEF Writers
  <2> QED BY <2>1, <2>2, <2>3, WritersGone DEF files, remote
<1> QED BY <1>1, <1>2

\* The drain rejects while it is not writing.
LEMMA RejectsDurable ==
  ASSUME QueueInv, LoneWriter, Kept, DrainRejects, ~Writing(Drain), UNCHANGED <<files, remote>>
  PROVE  LoneWriter' /\ Kept'
<1>0. /\ wpc \in [Writers -> {"idle", "new", "open", "write", "rename", "ok", "err"}]
      /\ snap \in [Writers -> Seq(Item)]
      /\ fd \in [Writers -> {"closed", "tmp", "main", "replaced"}]
  BY DEF QueueInv, TypeOK
<1>1. CASE DrainRejectionUnhandled
  BY <1>1, RebootDurable DEF DrainRejectionUnhandled
<1>2. CASE DrainRejectionCaught
  <2>1. /\ wpc' = [wpc EXCEPT ![Drain] = "idle"] /\ snap' = [snap EXCEPT ![Drain] = <<>>]
        /\ fd' = [fd EXCEPT ![Drain] = "closed"]
        /\ UNCHANGED <<queue, rpc, rbuf, main, tmp, rows, dead>>
    BY <1>2 DEF DrainRejectionCaught, mem, boot, files, remote
  <2>2. ASSUME NEW v \in Writers, Writing(v)'
        PROVE  v # Drain /\ wpc'[v] = wpc[v] /\ snap'[v] = snap[v] /\ fd'[v] = fd[v]
    BY <1>0, <2>1, <2>2 DEF Writing
  <2>3. LoneWriter'
    BY <2>1, <2>2 DEF LoneWriter, Writing
  <2>4. \A e \in Entries : wpc'[e] = wpc[e]
    BY <1>0, <2>1, DrainIsNoEntry DEF Writers
  <2>5. Kept'
    BY <2>1, <2>4 DEF Kept, Settled
  <2> QED BY <2>3, <2>5
<1> QED BY <1>1, <1>2 DEF DrainRejects

\* The drain moves on, and at its end persists what it has not settled.
LEMMA NextIndexDurable ==
  ASSUME QueueInv, LoneWriter, Kept, dpc \in {"post", "dead"}, NEW q \in Seq(Item),
         DOMAIN q = DOMAIN queue, \A i \in DOMAIN queue : q[i].id = queue[i].id,
         NEW ready \in SUBSET Entries, NEW removed,
         NextIndex(q, ready, removed), UNCHANGED <<files, boot>>, ~raced',
         \A e \in Entries : Settled(e) => Settled(e)',
         \A e \in Ids(queue) \ Ids(queue') : Settled(e)'
  PROVE  LoneWriter' /\ Kept'
<1>0. /\ wpc \in [Writers -> {"idle", "new", "open", "write", "rename", "ok", "err"}]
      /\ snap \in [Writers -> Seq(Item)] /\ ~Writing(Drain) /\ queue \in Seq(Item)
  BY DEF QueueInv, TypeOK, Indexes
<1>1. UNCHANGED <<main, tmp, rpc, rbuf, fd>> /\ Ids(q) = Ids(queue)
  BY <1>0, IdsSame DEF NextIndex, files, boot
<1>2. CASE batch' # {}
  <2>1. queue' = q /\ UNCHANGED <<wpc, snap>>
    BY <1>2 DEF NextIndex
  <2> QED BY <1>1, <2>1, SameDurable
<1>3. CASE batch' = {}
  <2>1. Serialize(Drain, queue')
    BY <1>3 DEF NextIndex
  <2>2. rpc = "done" /\ \A v \in Writers \ {Drain} : ~Writing(v)
    BY <2>1, SerializeAlone
  <2>3. wpc' = [wpc EXCEPT ![Drain] = "open"] /\ snap' = [snap EXCEPT ![Drain] = queue']
    BY <2>1 DEF Serialize
  <2>4. /\ \A v \in Writers : Writing(v)' => v = Drain
        /\ wpc'[Drain] = "open" /\ snap'[Drain] = queue'
        /\ \A e \in Entries : wpc'[e] = wpc[e]
    BY <1>0, <2>2, <2>3, DrainIsNoEntry DEF Writing, Writers
  <2>5. LoneWriter'
    BY <1>1, <2>2, <2>4, DrainIsNoEntry DEF LoneWriter, Writing
  <2>6. Kept'
    BY <1>1, <2>2, <2>4 DEF Kept
  <2> QED BY <2>5, <2>6
<1> QED BY <1>2, <1>3

LEMMA AttemptDurable ==
  ASSUME QueueInv, LoneWriter, Kept, Post \/ DeadLetter, ~raced',
         \A e \in Entries : Settled(e) => Settled(e)',
         \A e \in Ids(queue) \ Ids(queue') : Settled(e)'
  PROVE  LoneWriter' /\ Kept'
<1>0. /\ dpc \in {"post", "dead"} /\ UNCHANGED <<files, boot>> /\ queue \in Seq(Item)
      /\ due \in SUBSET Entries
  BY DEF Post, PostOk, PostRetryable, PostPoison, DeadLetter, QueueInv, TypeOK
<1>1. /\ Attempted \in Seq(Item) /\ DOMAIN Attempted = DOMAIN queue
      /\ \A i \in DOMAIN queue : Attempted[i].id = queue[i].id
  BY <1>0, AttemptedIs
<1>2. Ids(Attempted) = Ids(queue)
  BY <1>0, <1>1, IdsSame
<1> HIDE DEF Current, Attempted
<1>3. CASE PostOk \/ DeadLetter
  BY <1>0, <1>3, NextIndexDurable DEF PostOk, DeadLetter
<1>4. CASE PostRetryable /\ ~(Attempted[Current].n >= MaxAttempts)
  <2>1. NextIndex(Attempted, due \ {queue[Current].id}, gone)
    BY <1>4 DEF PostRetryable
  <2> QED BY <1>0, <1>1, <2>1, NextIndexDurable
<1>5. CASE PostPoison \/ (PostRetryable /\ Attempted[Current].n >= MaxAttempts)
  <2>1. queue' = Attempted /\ UNCHANGED <<wpc, snap, fd>>
    BY <1>5 DEF PostPoison, PostRetryable, writer
  <2> QED BY <1>0, <1>2, <2>1, SameDurable DEF files, boot
<1> QED BY <1>3, <1>4, <1>5 DEF Post

\* Counts only grow.
LEMMA SettledStays ==
  ASSUME QueueInv, Post \/ DeadLetter
  PROVE  \A e \in Entries : Settled(e) => Settled(e)'
<1> DEFINE c == queue[Current].id
<1>0. rows \in [Entries -> Nat] /\ dead \in [Entries -> Nat]
  BY DEF QueueInv, TypeOK
<1>1. /\ rows' = rows \/ rows' = [rows EXCEPT ![c] = rows[c] + 1]
      /\ dead' = dead \/ dead' = [dead EXCEPT ![c] = dead[c] + 1]
  BY DEF Post, PostOk, PostRetryable, PostPoison, Posted, DeadLetter, remote
<1>2. c \in Entries
  BY CurrentIs DEF Post, PostOk, PostRetryable, PostPoison, DeadLetter
<1> HIDE DEF c
<1> QED BY <1>0, <1>1, <1>2 DEF Settled

LEMMA RecoverDurable ==
  ASSUME QueueInv, LoneWriter, Kept, Recover \/ RecoverFault
  PROVE  LoneWriter' /\ Kept'
<1>1. /\ rpc \in {"read", "set"} /\ UNCHANGED <<main, wpc, rows, dead>>
  BY DEF Recover, RecoverRead, RecoverSet, RecoverFault, files, writer, remote
<1>2. \A v \in Writers : ~Writing(v)'
  BY <1>1 DEF LoneWriter, Writing
<1>3. LoneWriter'
  BY <1>2 DEF LoneWriter, Writing
<1>4. Kept'
  BY <1>1 DEF Kept, Settled, Recover, RecoverRead, RecoverSet, RecoverFault
<1> QED BY <1>3, <1>4

---------------------------------------------------------------------------
(* The theorems.                                                           *)

LEMMA InitQueue == Init => QueueInv /\ Promised!Init
<1> SUFFICES ASSUME Init PROVE QueueInv /\ Promised!Init
  OBVIOUS
<1>1. <<>> \in Seq(Item) /\ Ids(<<>>) = {}
  BY EmptySeq, IdsEmpty
<1>2. Drain \notin Entries
  BY DrainIsNoEntry
<1>3. TypeOK
  BY <1>1 DEF Init, TypeOK, Lines, Writers
<1>4. OpenFiles /\ Indexes
  BY DEF Init, OpenFiles, Indexes, Writing, Writers
<1>5. Known
  BY <1>1 DEF Init, Known
<1>6. Promised!Init
  BY <1>2 DEF Init, Promised!Init, Recovered, Writers
<1> QED BY <1>3, <1>4, <1>5, <1>6 DEF QueueInv

LEMMA StepQueue == QueueInv /\ [Next]_vars => QueueInv' /\ [Promised!Next]_(Promised!outbox)
<1> SUFFICES ASSUME QueueInv, [Next]_vars
             PROVE  QueueInv' /\ [Promised!Next]_(Promised!outbox)
  OBVIOUS
<1>1. ASSUME NEW e \in Entries, Enqueue(e)
      PROVE  QueueInv' /\ [Promised!Next]_(Promised!outbox)
  BY <1>1, EnqueueKeeps, EnqueueImplements
<1>2. ASSUME NEW w \in Writers, Persist(w) \/ PersistFault(w)
      PROVE  QueueInv' /\ [Promised!Next]_(Promised!outbox)
  BY <1>2, PersistSteps
<1>3. CASE Post \/ DeadLetter \/ DeadLetterFault
  BY <1>3, PostKeeps, DeadLetterKeeps, DeadLetterFaultSteps
<1>4. CASE Recover \/ RecoverFault \/ Crash
  BY <1>4, RecoverSteps, CrashSteps
<1>5. CASE DrainStart \/ (\E e \in Entries : BackoffElapses(e)) \/ UNCHANGED vars
  BY <1>5, WaitingSteps
<1> QED BY <1>1, <1>2, <1>3, <1>4, <1>5 DEF Next

LEMMA InitOnce == Init => OnceInv
<1> SUFFICES ASSUME Init PROVE Accounted
  BY InitQueue DEF OnceInv
<1>1. queue = <<>> /\ rbuf = <<>> /\ main = NoFile /\ tmp = NoFile
      /\ \A w \in Writers : snap[w] = <<>>
  BY DEF Init
<1>2. Recovering
  BY <1>1, TrailsEmpty DEF Init, Recovering
<1>3. Distinct(queue) /\ DOMAIN queue = {}
  BY <1>1 DEF Distinct
<1> QED BY <1>2, <1>3 DEF Init, Accounted

LEMMA StepOnce == OnceInv /\ [Next]_vars => OnceInv'
<1> SUFFICES ASSUME OnceInv, [Next]_vars, QueueInv', Calm' PROVE Accounted'
  BY StepQueue DEF OnceInv
<1>1. QueueInv /\ Accounted /\ UNCHANGED budget
  BY CalmBefore DEF OnceInv
<1>2. ~(DeadLetterFault \/ RecoverFault \/ Crash \/ \E w \in Writers : PersistFault(w))
  BY <1>1 DEF DeadLetterFault, RecoverFault, Crash, PersistFault, budget, QueueInv, TypeOK
<1>3. ASSUME NEW e \in Entries, Enqueue(e) PROVE Accounted'
  BY <1>1, <1>3, EnqueueAccounts
<1>4. ASSUME NEW w \in Writers, Persist(w) PROVE Accounted'
  BY <1>1, <1>4, PersistAccounts
<1>5. CASE Post \/ DeadLetter \/ Recover
  BY <1>1, <1>5, PostAccounts, DeadLetterAccounts, RecoverAccounts
<1>6. CASE DrainStart \/ (\E e \in Entries : BackoffElapses(e)) \/ UNCHANGED vars
  BY <1>1, <1>6, WaitingAccounts
<1> QED BY <1>2, <1>3, <1>4, <1>5, <1>6 DEF Next

\* What leaves the queue in an attempt is settled: Outbox says so.
LEMMA LeavingSettled ==
  ASSUME QueueInv, Post \/ DeadLetter
  PROVE  \A e \in Ids(queue) \ Ids(queue') : Settled(e)'
<1>1. Recovered /\ Recovered' /\ Promised!Recover = FALSE
  BY DEF QueueInv, Indexes, Post, PostOk, PostRetryable, PostPoison, DeadLetter,
         Recovered, boot, Promised!Recover
<1>2. [Promised!Next]_(Promised!outbox)
  BY PostKeeps, DeadLetterKeeps
<1>3. CASE UNCHANGED Promised!outbox
  BY <1>1, <1>3 DEF Promised!outbox
<1>4. ASSUME NEW w \in Entries, Promised!Offer(w) PROVE Ids(queue) \subseteq Ids(queue')
  BY <1>1, <1>4 DEF Promised!Offer
<1>5. ASSUME NEW w \in Entries, Promised!Attempt(w)
      PROVE  \A e \in Ids(queue) \ Ids(queue') : Settled(e)'
  BY <1>1, <1>5 DEF Promised!Attempt, Promised!Leave, Promised!Settled, Settled
<1>6. ~Promised!Restart
  BY <1>1 DEF Promised!Restart
<1> QED BY <1>1, <1>2, <1>3, <1>4, <1>5, <1>6 DEF Promised!Next

LEMMA InitDurable == Init => DurableInv
<1> SUFFICES ASSUME Init PROVE LoneWriter /\ Kept
  BY InitQueue DEF DurableInv
<1>1. \A w \in Writers : wpc[w] \in {"idle", "new"}
  BY DEF Init
<1> QED BY <1>1 DEF LoneWriter, Kept, Writing, Writers

LEMMA StepDurable == DurableInv /\ [Next]_vars => DurableInv'
<1> SUFFICES ASSUME DurableInv, [Next]_vars, ~raced' PROVE LoneWriter' /\ Kept'
  BY StepQueue DEF DurableInv
<1>0. QueueInv /\ raced \in BOOLEAN
  BY DEF DurableInv, QueueInv, TypeOK
<1>1. ASSUME NEW e \in Entries, Enqueue(e) PROVE LoneWriter' /\ Kept'
  <2>1. ~raced
    BY <1>1, SerializeAlone DEF Enqueue
  <2> QED BY <1>0, <1>1, <2>1, EnqueueDurable DEF DurableInv
<1>2. ASSUME NEW w \in Writers, Persist(w) \/ PersistFault(w) PROVE LoneWriter' /\ Kept'
  <2>1. ~raced /\ LoneWriter /\ Kept
    <3>1. raced' = raced
      BY <1>2 DEF Persist, OpenTmp, WriteTmp, Rename, RenameMissing, PersistFault
    <3> QED BY <3>1 DEF DurableInv
  <2>2. CASE OpenTmp(w) \/ WriteTmp(w) \/ Rename(w)
    BY <1>0, <2>1, <2>2, PersistDurable
  <2>3. ~RenameMissing(w)
    BY <2>1 DEF RenameMissing, LoneWriter
  <2>4. CASE PersistFault(w)
    BY <1>0, <2>1, <2>4, ThrowsDurable DEF PersistFault
  <2> QED BY <1>2, <2>2, <2>3, <2>4 DEF Persist
<1>3. CASE Post \/ DeadLetter
  <2>1. ~raced
    BY <1>3, SerializeAlone DEF Post, PostOk, PostRetryable, PostPoison, DeadLetter,
                                NextIndex, writer
  <2> QED BY <1>0, <1>3, <2>1, AttemptDurable, SettledStays, LeavingSettled DEF DurableInv
<1>4. CASE DeadLetterFault
  <2>1. raced' = raced /\ dpc = "dead" /\ DrainRejects /\ UNCHANGED <<files, remote>>
    BY <1>4 DEF DeadLetterFault
  <2>2. ~Writing(Drain)
    BY <1>0, <2>1 DEF QueueInv, Indexes
  <2> QED BY <1>0, <2>1, <2>2, RejectsDurable DEF DurableInv
<1>5. CASE Crash
  BY <1>0, <1>5, RebootDurable DEF Crash, DurableInv
<1>6. CASE Recover \/ RecoverFault
  <2>1. raced' = raced
    BY <1>6 DEF Recover, RecoverRead, RecoverSet, RecoverFault, writer
  <2> QED BY <1>0, <1>6, <2>1, RecoverDurable DEF DurableInv
<1>7. CASE DrainStart \/ (\E e \in Entries : BackoffElapses(e)) \/ UNCHANGED vars
  <2>1. UNCHANGED <<queue, wpc, snap, fd, raced, main, tmp, rpc, rbuf, rows, dead>>
    BY <1>7 DEF DrainStart, BackoffElapses, vars, mem, files, writer, boot, remote
  <2>2. Ids(queue') = Ids(queue) /\ \A e \in Entries : Settled(e) => Settled(e)'
    BY <2>1 DEF Settled
  <2> QED BY <2>1, <2>2, SameDurable DEF DurableInv
<1> QED BY <1>1, <1>2, <1>3, <1>4, <1>5, <1>6, <1>7 DEF Next

\* Queue, files, drain and recovery keep their types through overlapping
\* persists, failures and restarts (write-queue.ts keeps all of them in plain
\* variables and files).
THEOREM QueueTypes == Spec => []TypeOK
<1>1. QueueInv => TypeOK
  BY DEF QueueInv
<1> QED BY <1>1, InitQueue, StepQueue, PTL DEF Spec

\* The write queue implements Outbox: each of its steps, persists, partial
\* drains and crashes included, is a step of Outbox or shows it nothing.  So
\* nothing is written that was not queued, and up to a restart an entry
\* leaves the queue only once it is in the catalog or the dead-letter file.
THEOREM QueueImplementsOutbox == Spec => ImplementsOutbox
<1> QED BY InitQueue, StepQueue, PTL DEF Spec, ImplementsOutbox, Promised!Spec

\* Without a restart, a failed file operation or an unreported success, an
\* entry ends with at most one catalog row or dead letter, whatever enqueues,
\* persists and boot recovery do around the drain (the removal by index in
\* drainOnce, and queue = recovered in initializeWriteQueue).
THEOREM NeverSettledTwice == Spec => []SettledOnce
<1>1. OnceInv => SettledOnce
  BY DEF OnceInv, SettledOnce, Calm, Accounted
<1> QED BY <1>1, InitOnce, StepOnce, PTL DEF Spec

\* A write whose enqueue has resolved is settled or in the queue file, through
\* crashes, failing file operations and failing drains, as long as no persist
\* overlaps another one or boot recovery (persistQueue in
\* src/neurocore/write-queue.ts; its overlaps are what loses writes).
THEOREM AcceptedWritesKept == Spec => []DurableUnlessRaced
<1>1. DurableInv => DurableUnlessRaced
  BY DEF DurableInv, DurableUnlessRaced, AcceptedIsDurable, Kept
<1> QED BY <1>1, InitDurable, StepDurable, PTL DEF Spec
==============================================================================
