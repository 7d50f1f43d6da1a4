---------------------------- MODULE Scenes_proofs ---------------------------
(***************************************************************************)
(* Theorems about Scenes, for every set of requests and every bound on     *)
(* scenes, failures and crashes.                                           *)
(***************************************************************************)
EXTENDS Scenes, FunctionTheorems, FiniteSetTheorems, TLAPS

LEMMA WritesInit == ScenesInit => WritesTouched
BY DEF ScenesInit, WritesTouched, Idle

\* A batch that has read what it touches brings back nothing that is gone.
LEMMA UpdateAddsNothing ==
  ASSUME NEW touch, NEW order, DOMAIN order \subseteq touch, Updated(touch, order)
  PROVE  DOMAIN scenes' \subseteq DOMAIN scenes
<1> QED BY DEF Updated, With

\* Every step keeps the invariant.
LEMMA WritesStep ==
  ASSUME WritesTouched, [ScenesNext]_sceneVars
  PROVE  WritesTouched'
<1> USE SceneBounds DEF WritesTouched, Begins, Continues, Ends, Idle
<1>1. ASSUME NEW r \in Edits, AddCounts(r) PROVE WritesTouched'
  BY <1>1 DEF AddCounts
<1>2. ASSUME NEW r \in Edits, AddWrites(r) PROVE WritesTouched'
  BY <1>2 DEF AddWrites
<1>3. ASSUME NEW r \in Edits, MoveLists(r) PROVE WritesTouched'
  BY <1>3 DEF MoveLists
<1>4. ASSUME NEW r \in Edits, PatchReads(r) PROVE WritesTouched'
  BY <1>4 DEF PatchReads
<1>5. ASSUME NEW r \in Edits, FillLists(r) PROVE WritesTouched'
  BY <1>5 DEF FillLists
<1>6. ASSUME NEW r \in Edits, Update(r) PROVE WritesTouched'
  BY <1>6 DEF Update
<1>7. ASSUME NEW r \in Edits, DeleteRemoves(r) PROVE WritesTouched'
  BY <1>7 DEF DeleteRemoves
<1>8. ASSUME NEW r \in Edits, DeleteLists(r) PROVE WritesTouched'
  BY <1>8 DEF DeleteLists, Listings
<1>9. ASSUME NEW r \in Edits, DeleteRenumbers(r) PROVE WritesTouched'
  BY <1>9 DEF DeleteRenumbers
<1>10. ASSUME NEW r \in Edits, ReplaceLists(r) PROVE WritesTouched'
  BY <1>10 DEF ReplaceLists
<1>11. ASSUME NEW r \in Edits, ReplaceCommits(r) PROVE WritesTouched'
  BY <1>11 DEF ReplaceCommits
<1>12. ASSUME NEW r \in Edits, StoreFails(r) PROVE WritesTouched'
  BY <1>12 DEF StoreFails
<1>13. CASE ScenesCrash
  BY <1>13 DEF ScenesCrash
<1>14. CASE UNCHANGED sceneVars
  BY <1>14 DEF sceneVars
<1> QED BY <1>1, <1>2, <1>3, <1>4, <1>5, <1>6, <1>7, <1>8, <1>9, <1>10, <1>11, <1>12, <1>13, <1>14 DEF ScenesNext

\* No step brings a deleted scene back.
LEMMA StepDeleted ==
  ASSUME WritesTouched, ScenesNext
  PROVE  \A s \in 1..made : s \notin DOMAIN scenes => s \notin DOMAIN scenes'
<1> DEFINE Goal == \A s \in 1..made : s \notin DOMAIN scenes => s \notin DOMAIN scenes'
<1> USE DEF WritesTouched
<1>1. ASSUME NEW r \in Edits, AddCounts(r) \/ MoveLists(r) \/ PatchReads(r) \/ FillLists(r) \/ DeleteLists(r)
                              \/ ReplaceLists(r) \/ StoreFails(r)
      PROVE  Goal
  BY <1>1 DEF AddCounts, MoveLists, PatchReads, FillLists, DeleteLists, ReplaceLists, StoreFails
<1>2. ASSUME NEW r \in Edits, AddWrites(r) PROVE Goal
  BY <1>2 DEF AddWrites, With
<1>3. ASSUME NEW r \in Edits, Update(r) PROVE Goal
  BY <1>3, UpdateAddsNothing DEF Update
<1>4. ASSUME NEW r \in Edits, DeleteRemoves(r) PROVE Goal
  BY <1>4 DEF DeleteRemoves
<1>5. ASSUME NEW r \in Edits, DeleteRenumbers(r) PROVE Goal
  BY <1>5, UpdateAddsNothing DEF DeleteRenumbers
<1>6. ASSUME NEW r \in Edits, ReplaceCommits(r) PROVE Goal
  BY <1>6 DEF ReplaceCommits
<1>7. CASE ScenesCrash
  BY <1>7 DEF ScenesCrash
<1> QED BY <1>1, <1>2, <1>3, <1>4, <1>5, <1>6, <1>7 DEF ScenesNext

\* A deleted scene never comes back, whatever was prepared before it was
\* deleted (Firestore's batch.update, which patchScene, the swaps, the
\* renumbering and the pipeline's batches use).
THEOREM DeletedForGood == ScenesSpec => DeletedStaysDeleted
<1>1. WritesTouched /\ [ScenesNext]_sceneVars
        => [\A s \in 1..made : s \notin DOMAIN scenes => s \notin DOMAIN scenes']_sceneVars
  BY StepDeleted
<1> QED BY WritesInit, WritesStep, <1>1, PTL DEF ScenesSpec, DeletedStaysDeleted

---------------------------------------------------------------------------
(* What lines scenes up                                                    *)

LEMMA ScenesFinite ==
  ASSUME ScenesTypeOK
  PROVE  /\ IsFiniteSet(DOMAIN scenes)
         /\ Cardinality(DOMAIN scenes) \in 0..made
         /\ made \in Nat
<1>1. made \in Nat /\ 1..made = 1..made BY SceneBounds DEF ScenesTypeOK
<1>2. IsFiniteSet(1..made) /\ Cardinality(1..made) = IF 1 > made THEN 0 ELSE made - 1 + 1
  BY <1>1, FS_Interval
<1>3. DOMAIN scenes \in SUBSET (1..made) BY DEF ScenesTypeOK
<1>4. IsFiniteSet(DOMAIN scenes) /\ Cardinality(DOMAIN scenes) <= Cardinality(1..made)
  BY <1>2, <1>3, FS_Subset
<1>5. Cardinality(DOMAIN scenes) \in Nat BY <1>4, FS_CardinalityType
<1> QED BY <1>1, <1>2, <1>4, <1>5

\* Only the domain and the values count.
LEMMA LinedSame ==
  ASSUME NEW f, NEW g, DOMAIN f = DOMAIN g, \A x \in DOMAIN f : f[x] = g[x], Lined(f)
  PROVE  Lined(g)
<1> QED BY DEF Lined

\* A listing numbers all there is: one scene for each of 1 .. n.
LEMMA ListingLines ==
  ASSUME IsFiniteSet(DOMAIN scenes), NEW l \in Listings
  PROVE  Lined(l) /\ DOMAIN l = DOMAIN scenes
<1> DEFINE S == DOMAIN scenes
           n == Cardinality(S)
<1>1. l \in [S -> 1..n] /\ \A s, t \in S : s # t => l[s] # l[t]
  BY DEF Listings
<1>2. n \in Nat BY FS_CardinalityType
<1>3. IsFiniteSet(1..n) /\ Cardinality(1..n) = n
  <2>1. IsFiniteSet(1..n) /\ Cardinality(1..n) = IF 1 > n THEN 0 ELSE n - 1 + 1
    BY <1>2, FS_Interval
  <2> QED BY <2>1, <1>2
<1>4. l \in Injection(S, 1..n)
  BY <1>1, Fun_IsInj DEF Injection, IsInjective
<1>5. l \in Surjection(S, 1..n)
  BY <1>3, <1>4, FS_Injection
<1>6. \A k \in 1..n : \E s \in S : l[s] = k
  BY <1>5 DEF Surjection
<1> QED BY <1>1, <1>6 DEF Lined

\* Swapping the orders of two scenes.
LEMMA SwapLines ==
  ASSUME Lined(scenes), NEW s \in DOMAIN scenes, NEW t \in DOMAIN scenes
  PROVE  Lined(With([x \in {s, t} |-> IF x = s THEN scenes[t] ELSE scenes[s]]))
<1> DEFINE order == [x \in {s, t} |-> IF x = s THEN scenes[t] ELSE scenes[s]]
           w == With(order)
           n == Cardinality(DOMAIN scenes)
<1>1. DOMAIN w = DOMAIN scenes BY DEF With
<1>2. w[s] = scenes[t] /\ w[t] = scenes[s] /\ \A x \in DOMAIN scenes \ {s, t} : w[x] = scenes[x]
  BY DEF With
<1>3. /\ \A x \in DOMAIN scenes : scenes[x] \in 1..n
      /\ \A x, y \in DOMAIN scenes : scenes[x] = scenes[y] => x = y
      /\ \A k \in 1..n : \E x \in DOMAIN scenes : scenes[x] = k
  BY DEF Lined
<1> HIDE DEF w, n
<1>4. \A x \in DOMAIN scenes : w[x] \in 1..n BY <1>2, <1>3
<1>5. \A x, y \in DOMAIN scenes : w[x] = w[y] => x = y BY <1>2, <1>3
<1>6. \A k \in 1..n : \E x \in DOMAIN scenes : w[x] = k BY <1>2, <1>3
<1>7. n = Cardinality(DOMAIN w) BY <1>1 DEF n
<1>8. Lined(w) BY <1>1, <1>4, <1>5, <1>6, <1>7 DEF Lined
<1> QED BY <1>8 DEF w

\* A new scene behind the last.
LEMMA AddLines ==
  ASSUME IsFiniteSet(DOMAIN scenes), Lined(scenes), NEW i, i \notin DOMAIN scenes
  PROVE  Lined(With([s \in {i} |-> Cardinality(DOMAIN scenes) + 1]))
<1> DEFINE n == Cardinality(DOMAIN scenes)
           w == With([s \in {i} |-> n + 1])
<1>1. n \in Nat BY FS_CardinalityType
<1>2. DOMAIN w = DOMAIN scenes \cup {i} BY DEF With
<1>3. w[i] = n + 1 /\ \A x \in DOMAIN scenes : w[x] = scenes[x] BY DEF With
<1>4. Cardinality(DOMAIN scenes \cup {i}) = n + 1 BY FS_AddElement
<1>5. /\ \A x \in DOMAIN scenes : scenes[x] \in 1..n
      /\ \A x, y \in DOMAIN scenes : scenes[x] = scenes[y] => x = y
      /\ \A k \in 1..n : \E x \in DOMAIN scenes : scenes[x] = k
  BY DEF Lined
<1> HIDE DEF w, n
<1>6. \A x \in DOMAIN w : w[x] \in 1..(n + 1) BY <1>1, <1>2, <1>3, <1>5
<1>7. \A x, y \in DOMAIN w : w[x] = w[y] => x = y
  <2>1. \A x \in DOMAIN scenes : w[x] # n + 1 BY <1>1, <1>3, <1>5
  <2> QED BY <2>1, <1>2, <1>3, <1>5
<1>8. \A k \in 1..(n + 1) : \E x \in DOMAIN w : w[x] = k
  <2> SUFFICES ASSUME NEW k \in 1..(n + 1) PROVE \E x \in DOMAIN w : w[x] = k
    OBVIOUS
  <2>1. CASE k = n + 1 BY <2>1, <1>2, <1>3
  <2>2. CASE k # n + 1
    <3>1. k \in 1..n BY <1>1, <2>2
    <3>2. PICK x \in DOMAIN scenes : scenes[x] = k BY <3>1, <1>5
    <3> QED BY <3>2, <1>2, <1>3
  <2> QED BY <2>1, <2>2
<1>9. Lined(w) BY <1>2, <1>4, <1>6, <1>7, <1>8 DEF Lined
<1> QED BY <1>9 DEF w, n

\* All scenes replaced by new ones.
LEMMA ReplaceLines ==
  ASSUME NEW m \in Nat, NEW n \in Nat, NEW f, DOMAIN f = (m + 1)..(m + n),
         \A s \in DOMAIN f : f[s] = s - m
  PROVE  Lined(f)
<1>1. Cardinality((m + 1)..(m + n)) = n
  <2>1. m + 1 \in Int /\ m + n \in Int OBVIOUS
  <2>2. Cardinality((m + 1)..(m + n)) = IF m + 1 > m + n THEN 0 ELSE (m + n) - (m + 1) + 1
    BY <2>1, FS_Interval
  <2> QED BY <2>2
<1>2. \A s \in DOMAIN f : f[s] \in 1..n OBVIOUS
<1>3. \A s, t \in DOMAIN f : f[s] = f[t] => s = t OBVIOUS
<1>4. \A k \in 1..n : \E s \in DOMAIN f : f[s] = k
  <2> SUFFICES ASSUME NEW k \in 1..n PROVE \E s \in DOMAIN f : f[s] = k
    OBVIOUS
  <2>1. m + k \in DOMAIN f /\ (m + k) - m = k OBVIOUS
  <2> QED BY <2>1
<1> QED BY <1>1, <1>2, <1>3, <1>4 DEF Lined

---------------------------------------------------------------------------
(* Requests begin, go on and end                                           *)

LEMMA ScenesInvInit == ScenesInit => ScenesInv
<1> SUFFICES ASSUME ScenesInit PROVE ScenesInv
  OBVIOUS
<1> USE SceneBounds DEF ScenesInit, Idle
<1>1. Busy = {} BY DEF Busy
<1>2. DOMAIN scenes = {} OBVIOUS
<1>3. Cardinality({}) = 0 BY FS_EmptySet
<1>4. ScenesTypeOK
  <2>1. made \in 0..MaxScenes /\ upsets \in 0..MaxUpsets OBVIOUS
  <2>2. \A r \in Edits : edit[r].touch \subseteq SceneIds OBVIOUS
  <2>3. tangled \in BOOLEAN OBVIOUS
  <2> HIDE DEF ScenesInit
  <2>4. writer \subseteq Busy /\ (\A q, r \in writer : q = r) /\ overlap \subseteq Busy
    BY DEF ScenesInit
  <2> QED BY <1>2, <2>1, <2>2, <2>3, <2>4 DEF ScenesTypeOK
<1>5. AllHeld BY DEF AllHeld, Held
<1>6. Unshared /\ Current BY <1>1 DEF Unshared, Current
<1>7. Lined(scenes) BY <1>2, <1>3 DEF Lined
<1>8. Straight BY <1>1, <1>7 DEF Straight
<1> QED BY <1>4, <1>5, <1>6, <1>8 DEF ScenesInv

\* Who is not in overlap is alone.
LEMMA OnlyOne ==
  ASSUME Unshared, NEW r \in Busy, r \notin overlap
  PROVE  Busy = {r}
<1> QED BY DEF Unshared

LEMMA BeginsKeeps ==
  ASSUME ScenesInv, NEW r \in Edits, NEW e, e.pc # "idle", Begins(r, e)
  PROVE  /\ Busy' = Busy \cup {r}
         /\ edit'[r] = e
         /\ \A q \in Edits : q # r => edit'[q] = edit[q]
         /\ edit' = [q \in Edits |-> edit'[q]]
         /\ Unshared'
         /\ overlap' \subseteq Busy'
         /\ tangled' \in BOOLEAN
         /\ Busy' \ overlap' \subseteq {r}
         /\ ~tangled' => ~tangled /\ Busy = {} /\ Busy' = {r}
<1> USE DEF Begins
<1>1. edit = [q \in Edits |-> edit[q]] BY DEF ScenesInv, AllHeld
<1>2. /\ edit'[r] = e
      /\ \A q \in Edits : q # r => edit'[q] = edit[q]
      /\ edit' = [q \in Edits |-> edit'[q]]
  BY <1>1
<1>3. Busy' = Busy \cup {r} BY <1>2 DEF Busy
<1>4. /\ overlap \subseteq Busy /\ tangled \in BOOLEAN
      /\ (~tangled => overlap = {})
      /\ \A x, y \in Busy : x # y => x \in overlap
  BY DEF ScenesInv, Unshared, ScenesTypeOK
<1>5. tangled' = (tangled \/ Busy # {}) OBVIOUS
<1>6. CASE Busy = {}
  <2>1. overlap' = {} /\ Busy' = {r} BY <1>3, <1>4, <1>6
  <2>2. Unshared' BY <2>1 DEF Unshared
  <2> QED BY <1>2, <1>3, <1>4, <1>5, <1>6, <2>1, <2>2
<1>7. CASE Busy # {}
  <2>1. overlap' = overlap \cup Busy \cup {r} BY <1>7
  <2>2. overlap' = Busy' BY <1>3, <1>4, <2>1
  <2>3. tangled' = TRUE BY <1>5, <1>7
  <2>4. Unshared' BY <2>2, <2>3 DEF Unshared
  <2> QED BY <1>2, <1>3, <2>2, <2>3, <2>4
<1> QED BY <1>6, <1>7

LEMMA EndsKeeps ==
  ASSUME ScenesInv, NEW r \in Busy, NEW b \in BOOLEAN, Ends(r, b)
  PROVE  /\ Busy' = Busy \ {r}
         /\ edit'[r] = Idle
         /\ \A q \in Edits : q # r => edit'[q] = edit[q]
         /\ edit' = [q \in Edits |-> edit'[q]]
         /\ Unshared'
         /\ tangled' \in BOOLEAN
         /\ Busy' \ overlap' = {}
         /\ ~tangled' => /\ Busy = {r} /\ Busy' = {} /\ r \notin overlap
                         /\ b \/ ~tangled
<1> USE DEF Ends
<1>1. edit = [q \in Edits |-> edit[q]] /\ r \in Edits BY DEF ScenesInv, AllHeld, Busy
<1>2. /\ edit'[r] = Idle
      /\ \A q \in Edits : q # r => edit'[q] = edit[q]
      /\ edit' = [q \in Edits |-> edit'[q]]
  BY <1>1
<1>3. Busy' = Busy \ {r} BY <1>2 DEF Busy, Idle
<1>4. Unshared /\ tangled \in BOOLEAN BY DEF ScenesInv, ScenesTypeOK
<1>5. /\ overlap \subseteq Busy
      /\ (~tangled => overlap = {})
      /\ \A x, y \in Busy : x # y => x \in overlap
  BY <1>4 DEF Unshared
<1>6. overlap' = overlap \ {r} OBVIOUS
<1>7. tangled' = (tangled /\ ~(b /\ r \notin overlap)) OBVIOUS
<1>8. tangled' \in BOOLEAN BY <1>7
<1>9. Busy' \ overlap' = {} BY <1>3, <1>5, <1>6
<1>10. ~tangled' => r \notin overlap /\ (b \/ ~tangled) BY <1>5, <1>7
<1>11. r \notin overlap => Busy = {r} BY <1>4, OnlyOne
<1>12. ~tangled' => Busy = {r} /\ Busy' = {} BY <1>3, <1>10, <1>11
<1>13. Unshared'
  <2>1. overlap' \subseteq Busy' BY <1>3, <1>5, <1>6
  <2>2. \A x, y \in Busy' : x # y => x \in overlap' BY <1>3, <1>5, <1>6
  <2>3. ~tangled' => overlap' = {} BY <2>1, <1>12
  <2> QED BY <2>1, <2>2, <2>3 DEF Unshared
<1> QED BY <1>2, <1>3, <1>8, <1>9, <1>10, <1>12, <1>13


\* The scenes stay ids of their own with orders in bounds.
Stored == /\ DOMAIN scenes \subseteq 1..made
          /\ \A s \in DOMAIN scenes : scenes[s] \in 1..MaxScenes

\* A request that holds only what it may disturbs nothing of the others.
LEMMA BoundsKept ==
  ASSUME ScenesInv, NEW r \in Edits,
         edit' = [q \in Edits |-> edit'[q]],
         \A q \in Edits : q # r => edit'[q] = edit[q],
         edit'[r].touch \subseteq SceneIds, Held(edit[r])',
         made' \in 0..MaxScenes, made <= made'
  PROVE  AllHeld' /\ \A q \in Edits : edit'[q].touch \subseteq SceneIds
<1>1. /\ made \in Nat /\ made' \in Nat /\ made <= made'
      /\ \A q \in Edits : Held(edit[q]) /\ edit[q].touch \subseteq SceneIds
  BY SceneBounds DEF ScenesInv, AllHeld, ScenesTypeOK
<1>2. \A q \in Edits : Held(edit[q])'
  <2> SUFFICES ASSUME NEW q \in Edits, q # r PROVE Held(edit[q])'
    OBVIOUS
  <2>1. edit'[q] = edit[q] /\ Held(edit[q]) BY <1>1
  <2>2. 1..(made + 1) \subseteq 1..(made' + 1) BY <1>1
  <2> QED BY <2>1, <2>2 DEF Held
<1>3. \A q \in Edits : edit'[q].touch \subseteq SceneIds BY <1>1
<1> QED BY <1>2, <1>3 DEF AllHeld

\* A request that begins well.
LEMMA BeginsWell ==
  ASSUME ScenesInv, NEW r \in Edits, NEW e, Begins(r, e),
         e.pc \notin {"idle", "renumber"}, e.touch \subseteq SceneIds, Held(e),
         made' = made, Stored',
         writer' = writer \/ (writer = {} /\ writer' = {r}),
         e.pc = "replace" => e.touch = DOMAIN scenes',
         Lined(scenes) => /\ e.pc # "list" => Lined(scenes')
                          /\ e.pc = "add" => e.order = Cardinality(DOMAIN scenes') + 1
                          /\ e.pc = "update" => Lined(With(e.order)) /\ scenes' = scenes
  PROVE  ScenesInv'
<1>1. /\ Busy' = Busy \cup {r}
      /\ edit'[r] = e
      /\ \A q \in Edits : q # r => edit'[q] = edit[q]
      /\ edit' = [q \in Edits |-> edit'[q]]
      /\ Unshared'
      /\ overlap' \subseteq Busy'
      /\ tangled' \in BOOLEAN
      /\ Busy' \ overlap' \subseteq {r}
      /\ ~tangled' => ~tangled /\ Busy = {} /\ Busy' = {r}
  BY BeginsKeeps
<1>2. made \in 0..MaxScenes /\ made <= made' BY SceneBounds DEF ScenesInv, ScenesTypeOK
<1>3. Held(edit[r])' BY <1>1 DEF Held
<1>4. AllHeld' /\ \A q \in Edits : edit'[q].touch \subseteq SceneIds
  BY <1>1, <1>2, <1>3, BoundsKept
<1>5. ScenesTypeOK'
  <2>1. writer' \subseteq Busy' /\ \A q, x \in writer' : q = x
    BY <1>1 DEF ScenesInv, ScenesTypeOK
  <2>2. upsets' \in 0..MaxUpsets BY DEF Begins, ScenesInv, ScenesTypeOK
  <2> QED BY <1>1, <1>2, <1>4, <2>1, <2>2 DEF ScenesTypeOK, Stored
<1>6. Current'
  <2>1. \A q \in (Busy \ overlap)' : edit'[q] = e BY <1>1
  <2> QED BY <2>1 DEF Current
<1>7. Straight'
  <2> SUFFICES ASSUME ~tangled' PROVE
         /\ e.pc # "list" => Lined(scenes')
         /\ e.pc = "add" => e.order = Cardinality(DOMAIN scenes') + 1
         /\ e.pc = "update" => Lined(With(e.order))'
    BY <1>1 DEF Straight
  <2>1. Lined(scenes) BY <1>1 DEF ScenesInv, Straight
  <2>2. scenes' = scenes => With(e.order)' = With(e.order) BY DEF With
  <2>3. ASSUME e.pc = "update" PROVE Lined(With(e.order))'
    <3>1. Lined(With(e.order)) /\ With(e.order)' = With(e.order) BY <2>1, <2>2, <2>3
    <3> QED BY <3>1 DEF Lined
  <2> QED BY <2>1, <2>3
<1> QED BY <1>1, <1>4, <1>5, <1>6, <1>7 DEF ScenesInv

\* A request that ends well.
LEMMA EndsWell ==
  ASSUME ScenesInv, NEW r \in Busy, NEW b \in BOOLEAN, Ends(r, b),
         made' \in 0..MaxScenes, made <= made', Stored',
         Busy = {r} /\ r \notin overlap /\ (b \/ ~tangled) => Lined(scenes')
  PROVE  ScenesInv'
<1>1. /\ Busy' = Busy \ {r}
      /\ edit'[r] = Idle
      /\ \A q \in Edits : q # r => edit'[q] = edit[q]
      /\ edit' = [q \in Edits |-> edit'[q]]
      /\ Unshared'
      /\ tangled' \in BOOLEAN
      /\ Busy' \ overlap' = {}
      /\ ~tangled' => /\ Busy = {r} /\ Busy' = {} /\ r \notin overlap
                      /\ b \/ ~tangled
  BY EndsKeeps
<1>2. r \in Edits BY DEF Busy
<1>3. Held(edit[r])' /\ edit'[r].touch \subseteq SceneIds BY <1>1 DEF Held, Idle
<1>4. AllHeld' /\ \A q \in Edits : edit'[q].touch \subseteq SceneIds
  BY <1>1, <1>2, <1>3, BoundsKept
<1>5. ScenesTypeOK'
  <2>1. writer' = writer \ {r} BY DEF Ends
  <2>2. writer \subseteq Busy /\ \A q, x \in writer : q = x BY DEF ScenesInv, ScenesTypeOK
  <2>3. writer' \subseteq Busy' /\ \A q, x \in writer' : q = x BY <1>1, <2>1, <2>2
  <2>4. upsets' \in 0..MaxUpsets BY DEF Ends, ScenesInv, ScenesTypeOK
  <2>5. overlap' \subseteq Busy' BY <1>1 DEF Unshared
  <2> QED BY <1>1, <1>4, <2>3, <2>4, <2>5 DEF ScenesTypeOK, Stored
<1>6. Current' BY <1>1 DEF Current
<1>7. Straight' BY <1>1 DEF Straight
<1> QED BY <1>1, <1>4, <1>5, <1>6, <1>7 DEF ScenesInv

---------------------------------------------------------------------------
(* The steps                                                               *)

LEMMA StoredNow == ASSUME ScenesInv PROVE Stored
<1> QED BY DEF ScenesInv, ScenesTypeOK, Stored

LEMMA AddCountsLine ==
  ASSUME ScenesInv, NEW r \in Edits, AddCounts(r) PROVE ScenesInv'
<1> DEFINE e == [pc |-> "add", touch |-> {}, order |-> Cardinality(DOMAIN scenes) + 1]
<1>1. Begins(r, e) /\ UNCHANGED <<scenes, made, writer>> BY DEF AddCounts
<1>2. Cardinality(DOMAIN scenes) \in 0..made /\ made \in Nat
  BY ScenesFinite DEF ScenesInv
<1>3. e.order \in 1..(made + 1) BY <1>2
<1>4. Held(e) BY <1>3 DEF Held
<1>5. Stored' BY <1>1, StoredNow DEF Stored
<1>6. e.pc = "add" /\ e.touch = {} /\ e.order = Cardinality(DOMAIN scenes') + 1 BY <1>1
<1> HIDE DEF e
<1> QED BY <1>1, <1>4, <1>5, <1>6, BeginsWell

LEMMA AddWritesLine ==
  ASSUME ScenesInv, NEW r \in Edits, AddWrites(r) PROVE ScenesInv'
<1>1. /\ edit[r].pc = "add" /\ made < MaxScenes /\ made' = made + 1
      /\ scenes' = With([s \in {made + 1} |-> edit[r].order])
      /\ Ends(r, FALSE)
  BY DEF AddWrites
<1>2. r \in Busy BY <1>1 DEF Busy
<1>3. IsFiniteSet(DOMAIN scenes) /\ made \in Nat BY ScenesFinite DEF ScenesInv
<1>4. made' \in 0..MaxScenes /\ made <= made' BY <1>1, <1>3, SceneBounds
<1>5. Held(edit[r]) BY DEF ScenesInv, AllHeld
<1>6. edit[r].order \in 1..MaxScenes BY <1>1, <1>3, <1>5, SceneBounds DEF Held
<1>7. made + 1 \notin DOMAIN scenes BY <1>3, StoredNow DEF Stored
<1>8. /\ DOMAIN scenes' = DOMAIN scenes \cup {made + 1}
      /\ scenes'[made + 1] = edit[r].order
      /\ \A s \in DOMAIN scenes : scenes'[s] = scenes[s]
  BY <1>1, <1>7 DEF With
<1>9. Stored' BY <1>1, <1>3, <1>6, <1>8, StoredNow DEF Stored
<1>10. ASSUME Busy = {r}, ~tangled PROVE Lined(scenes')
  <2>1. Lined(scenes) /\ edit[r].order = Cardinality(DOMAIN scenes) + 1
    BY <1>1, <1>10 DEF ScenesInv, Straight
  <2> QED BY <1>1, <1>3, <1>7, <2>1, AddLines
<1> QED BY <1>1, <1>2, <1>4, <1>9, <1>10, EndsWell

LEMMA MoveListsLine ==
  ASSUME ScenesInv, NEW r \in Edits, MoveLists(r) PROVE ScenesInv'
<1>1. PICK s \in DOMAIN scenes, t \in DOMAIN scenes :
         Begins(r, [pc |-> "update", touch |-> {s, t},
                    order |-> [x \in {s, t} |-> IF x = s THEN scenes[t] ELSE scenes[s]]])
  BY DEF MoveLists
<1> DEFINE order == [x \in {s, t} |-> IF x = s THEN scenes[t] ELSE scenes[s]]
           e == [pc |-> "update", touch |-> {s, t}, order |-> order]
<1>2. UNCHANGED <<scenes, made, writer>> BY DEF MoveLists
<1>3. Stored /\ Stored' BY <1>2, StoredNow DEF Stored
<1>4. Begins(r, e) BY <1>1
<1>5. DOMAIN order = {s, t} /\ \A x \in {s, t} : order[x] \in 1..MaxScenes
  BY <1>3 DEF Stored
<1>6. Lined(scenes) => Lined(With(order)) BY SwapLines
<1>7. made \in 0..MaxScenes BY DEF ScenesInv, ScenesTypeOK
<1>8. {s, t} \subseteq SceneIds BY <1>3, <1>7, SceneBounds DEF Stored, SceneIds
<1>9. e.pc = "update" /\ e.touch = {s, t} /\ e.order = order OBVIOUS
<1> HIDE DEF e, order
<1>10. Held(e) BY <1>5, <1>9 DEF Held
<1> QED BY <1>2, <1>3, <1>4, <1>6, <1>8, <1>9, <1>10, BeginsWell

\* A request that reads scenes to change something else in them.
LEMMA ReadsLine ==
  ASSUME ScenesInv, NEW r \in Edits, NEW touch, touch \subseteq DOMAIN scenes,
         Begins(r, [pc |-> "update", touch |-> touch, order |-> <<>>]),
         UNCHANGED <<scenes, made>>,
         writer' = writer \/ (writer = {} /\ writer' = {r})
  PROVE  ScenesInv'
<1> DEFINE e == [pc |-> "update", touch |-> touch, order |-> <<>>]
<1>1. Begins(r, e) OBVIOUS
<1>2. Stored /\ Stored' BY StoredNow DEF Stored
<1>3. made \in 0..MaxScenes BY DEF ScenesInv, ScenesTypeOK
<1>4. touch \subseteq SceneIds BY <1>2, <1>3, SceneBounds DEF Stored, SceneIds
<1>5. e.pc = "update" /\ e.touch = touch /\ e.order = <<>> /\ DOMAIN e.order = {} OBVIOUS
<1> HIDE DEF e
<1>6. Held(e) BY <1>5 DEF Held
<1>7. DOMAIN With(e.order) = DOMAIN scenes /\ \A s \in DOMAIN scenes : With(e.order)[s] = scenes[s]
  BY <1>5 DEF With
<1>8. Lined(scenes) => Lined(With(e.order)) BY <1>7, LinedSame
<1> QED BY <1>1, <1>2, <1>4, <1>5, <1>6, <1>8, BeginsWell

LEMMA PatchReadsLine ==
  ASSUME ScenesInv, NEW r \in Edits, PatchReads(r) PROVE ScenesInv'
<1>1. PICK s \in DOMAIN scenes : Begins(r, [pc |-> "update", touch |-> {s}, order |-> <<>>])
  BY DEF PatchReads
<1>2. UNCHANGED <<scenes, made, writer>> BY DEF PatchReads
<1>3. {s} \subseteq DOMAIN scenes OBVIOUS
<1> QED BY <1>1, <1>2, <1>3, ReadsLine

LEMMA FillListsLine ==
  ASSUME ScenesInv, NEW r \in Edits, FillLists(r) PROVE ScenesInv'
<1>1. /\ Begins(r, [pc |-> "update", touch |-> DOMAIN scenes, order |-> <<>>])
      /\ UNCHANGED <<scenes, made>> /\ writer = {} /\ writer' = {r}
  BY DEF FillLists
<1> QED BY <1>1, ReadsLine

\* What a batch leaves stored.
LEMMA UpdatedStored ==
  ASSUME ScenesInv, NEW r \in Edits, edit[r].pc \in {"update", "renumber"},
         Updated(edit[r].touch, edit[r].order), made' = made
  PROVE  Stored'
<1>1. Held(edit[r]) BY DEF ScenesInv, AllHeld
<1> DEFINE order == edit[r].order
           touch == edit[r].touch
<1>2. DOMAIN order \subseteq touch /\ \A s \in DOMAIN order : order[s] \in 1..MaxScenes
  BY <1>1 DEF Held
<1>3. scenes' = IF touch \subseteq DOMAIN scenes THEN With(order) ELSE scenes BY DEF Updated
<1>4. Stored BY StoredNow
<1> HIDE DEF order, touch
<1>5. CASE touch \subseteq DOMAIN scenes
  <2>1. scenes' = With(order) /\ DOMAIN order \subseteq DOMAIN scenes BY <1>2, <1>3, <1>5
  <2>2. DOMAIN scenes' = DOMAIN scenes BY <2>1 DEF With
  <2>3. \A s \in DOMAIN scenes' : scenes'[s] \in 1..MaxScenes
    BY <1>2, <1>4, <2>1, <2>2 DEF With, Stored
  <2> QED BY <1>4, <2>2, <2>3 DEF Stored
<1>6. CASE ~(touch \subseteq DOMAIN scenes) BY <1>3, <1>4, <1>6 DEF Stored
<1> QED BY <1>5, <1>6

LEMMA UpdateLine ==
  ASSUME ScenesInv, NEW r \in Edits, Update(r) PROVE ScenesInv'
<1>1. /\ edit[r].pc = "update" /\ Updated(edit[r].touch, edit[r].order)
      /\ Ends(r, FALSE) /\ made' = made
  BY DEF Update
<1>2. r \in Busy BY <1>1 DEF Busy
<1>3. Stored' BY <1>1, UpdatedStored
<1>4. made' \in 0..MaxScenes /\ made <= made'
  BY <1>1, SceneBounds DEF ScenesInv, ScenesTypeOK
<1>5. ASSUME Busy = {r}, ~tangled PROVE Lined(scenes')
  <2>1. Lined(scenes) /\ Lined(With(edit[r].order)) BY <1>1, <1>5 DEF ScenesInv, Straight
  <2> QED BY <1>1, <2>1 DEF Updated
<1> QED BY <1>1, <1>2, <1>3, <1>4, <1>5, EndsWell

LEMMA DeleteRemovesLine ==
  ASSUME ScenesInv, NEW r \in Edits, DeleteRemoves(r) PROVE ScenesInv'
<1> DEFINE e == [pc |-> "list", touch |-> {}, order |-> <<>>]
<1>1. PICK s \in 1..made : scenes' = [t \in DOMAIN scenes \ {s} |-> scenes[t]]
  BY DEF DeleteRemoves
<1>2. Begins(r, e) /\ UNCHANGED <<made, writer>> BY DEF DeleteRemoves
<1>3. Stored' BY <1>1, <1>2, StoredNow DEF Stored
<1>4. e.pc = "list" /\ e.touch = {} OBVIOUS
<1> HIDE DEF e
<1>5. Held(e) BY <1>4 DEF Held
<1> QED BY <1>2, <1>3, <1>4, <1>5, BeginsWell

LEMMA DeleteRenumbersLine ==
  ASSUME ScenesInv, NEW r \in Edits, DeleteRenumbers(r) PROVE ScenesInv'
<1>1. /\ edit[r].pc = "renumber" /\ Updated(edit[r].touch, edit[r].order)
      /\ Ends(r, TRUE) /\ made' = made
  BY DEF DeleteRenumbers
<1>2. r \in Busy BY <1>1 DEF Busy
<1>3. Stored' BY <1>1, UpdatedStored
<1>4. made' \in 0..MaxScenes /\ made <= made'
  BY <1>1, SceneBounds DEF ScenesInv, ScenesTypeOK
<1>5. ASSUME r \notin overlap PROVE Lined(scenes')
  <2>1. edit[r].touch = DOMAIN scenes /\ edit[r].order \in Listings
    BY <1>1, <1>2, <1>5 DEF ScenesInv, Current
  <2>2. Lined(edit[r].order) /\ DOMAIN edit[r].order = DOMAIN scenes
    BY <2>1, ListingLines, ScenesFinite DEF ScenesInv
  <2>3. scenes' = With(edit[r].order) BY <1>1, <2>1 DEF Updated
  <2>4. /\ DOMAIN scenes' = DOMAIN edit[r].order
        /\ \A s \in DOMAIN edit[r].order : edit[r].order[s] = scenes'[s]
    BY <2>2, <2>3 DEF With
  <2> QED BY <2>2, <2>4, LinedSame
<1> QED BY <1>1, <1>2, <1>3, <1>4, <1>5, EndsWell

LEMMA ReplaceListsLine ==
  ASSUME ScenesInv, NEW r \in Edits, ReplaceLists(r) PROVE ScenesInv'
<1> DEFINE e == [pc |-> "replace", touch |-> DOMAIN scenes, order |-> <<>>]
<1>1. /\ Begins(r, e) /\ UNCHANGED <<scenes, made>> /\ writer = {} /\ writer' = {r}
  BY DEF ReplaceLists
<1>2. Stored /\ Stored' BY <1>1, StoredNow DEF Stored
<1>3. made \in 0..MaxScenes BY DEF ScenesInv, ScenesTypeOK
<1>4. DOMAIN scenes \subseteq SceneIds BY <1>2, <1>3, SceneBounds DEF Stored, SceneIds
<1>5. e.pc = "replace" /\ e.touch = DOMAIN scenes OBVIOUS
<1> HIDE DEF e
<1>6. Held(e) BY <1>5 DEF Held
<1> QED BY <1>1, <1>2, <1>4, <1>5, <1>6, BeginsWell

LEMMA ReplaceCommitsLine ==
  ASSUME ScenesInv, NEW r \in Edits, ReplaceCommits(r) PROVE ScenesInv'
<1>1. edit[r].pc = "replace" /\ Ends(r, TRUE) BY DEF ReplaceCommits
<1>2. PICK n \in 0..(MaxScenes - made) :
        /\ made' = made + n
        /\ scenes' = [s \in (DOMAIN scenes \ edit[r].touch) \cup (made + 1)..(made + n) |->
                        IF s > made THEN s - made ELSE scenes[s]]
  BY DEF ReplaceCommits
<1>3. r \in Busy BY <1>1 DEF Busy
<1>4. made \in 0..MaxScenes /\ made \in Nat /\ n \in Nat
  BY SceneBounds DEF ScenesInv, ScenesTypeOK
<1>5. made' \in 0..MaxScenes /\ made <= made' BY <1>2, <1>4, SceneBounds
<1>6. Stored'
  <2>1. Stored BY StoredNow
  <2>2. DOMAIN scenes' \subseteq 1..made' BY <1>2, <1>4, <2>1 DEF Stored
  <2>3. \A s \in DOMAIN scenes' : scenes'[s] \in 1..MaxScenes
    BY <1>2, <1>4, <2>1, SceneBounds DEF Stored
  <2> QED BY <2>2, <2>3 DEF Stored
<1>7. ASSUME r \notin overlap PROVE Lined(scenes')
  <2>1. edit[r].touch = DOMAIN scenes BY <1>1, <1>3, <1>7 DEF ScenesInv, Current
  <2>2. DOMAIN scenes' = (made + 1)..(made + n) BY <1>2, <2>1
  <2>3. \A s \in DOMAIN scenes' : scenes'[s] = s - made BY <1>2, <1>4, <2>1
  <2> QED BY <1>4, <2>2, <2>3, ReplaceLines
<1> QED BY <1>1, <1>3, <1>5, <1>6, <1>7, EndsWell

LEMMA DeleteListsLine ==
  ASSUME ScenesInv, NEW r \in Edits, DeleteLists(r) PROVE ScenesInv'
<1>1. PICK l \in Listings :
        Continues(r, [pc |-> "renumber", touch |-> DOMAIN scenes, order |-> l])
  BY DEF DeleteLists
<1>2. edit[r].pc = "list" /\ UNCHANGED <<scenes, made, writer, overlap, tangled, upsets>>
  BY <1>1 DEF DeleteLists, Continues
<1>3. /\ edit' = [q \in Edits |-> edit'[q]]
      /\ edit'[r] = [pc |-> "renumber", touch |-> DOMAIN scenes, order |-> l]
      /\ \A q \in Edits : q # r => edit'[q] = edit[q]
  BY <1>1 DEF Continues, ScenesInv, AllHeld
<1>4. /\ edit'[r].pc = "renumber" /\ edit'[r].touch = DOMAIN scenes /\ edit'[r].order = l
  BY <1>3
<1>5. Busy' = Busy /\ r \in Busy BY <1>2, <1>3, <1>4 DEF Busy
<1>6. made \in Nat /\ made' \in 0..MaxScenes /\ made <= made' /\ DOMAIN scenes \subseteq SceneIds
  BY <1>2, SceneBounds, StoredNow DEF ScenesInv, ScenesTypeOK, Stored, SceneIds
<1>7. DOMAIN l = DOMAIN scenes /\ \A s \in DOMAIN l : l[s] \in 1..MaxScenes
  <2>1. l \in [DOMAIN scenes -> 1..Cardinality(DOMAIN scenes)] BY DEF Listings
  <2>2. Cardinality(DOMAIN scenes) \in 0..made BY ScenesFinite DEF ScenesInv
  <2>3. 1..Cardinality(DOMAIN scenes) \subseteq 1..MaxScenes
    BY <1>2, <1>6, <2>2, SceneBounds
  <2> QED BY <2>1, <2>3
<1>8. Held(edit[r])' BY <1>2, <1>4, <1>7 DEF Held
<1>9. AllHeld' /\ \A q \in Edits : edit'[q].touch \subseteq SceneIds
  BY <1>3, <1>4, <1>6, <1>8, BoundsKept
<1>10. ScenesTypeOK'
  BY <1>2, <1>5, <1>9 DEF ScenesInv, ScenesTypeOK
<1>11. Unshared' BY <1>2, <1>5 DEF ScenesInv, Unshared
<1>12. Current'
  <2> SUFFICES ASSUME NEW q \in Busy, q \notin overlap
               PROVE  /\ edit'[q].pc = "renumber" =>
                           edit'[q].touch = DOMAIN scenes' /\ edit'[q].order \in Listings'
                      /\ edit'[q].pc = "replace" => edit'[q].touch = DOMAIN scenes'
    BY <1>2, <1>5 DEF Current
  <2>1. q = r BY <1>5 DEF ScenesInv, Unshared
  <2>2. Listings' = Listings BY <1>2 DEF Listings
  <2> QED BY <1>2, <1>4, <2>1, <2>2
<1>13. Straight'
  <2> SUFFICES ASSUME ~tangled' PROVE \A q \in Busy' :
         /\ edit'[q].pc = "add" => edit'[q].order = Cardinality(DOMAIN scenes') + 1
         /\ edit'[q].pc = "update" => Lined(With(edit[q].order))'
    BY <1>4, <1>5 DEF Straight
  <2>1. Busy' = {r} BY <1>2, <1>5 DEF ScenesInv, Unshared
  <2> QED BY <1>4, <2>1
<1> QED BY <1>9, <1>10, <1>11, <1>12, <1>13 DEF ScenesInv

LEMMA StoreFailsLine ==
  ASSUME ScenesInv, NEW r \in Edits, StoreFails(r) PROVE ScenesInv'
<1>1. /\ r \in Busy /\ edit' = [edit EXCEPT ![r] = Idle]
      /\ overlap' = overlap \ {r} /\ writer' = writer \ {r}
      /\ tangled' = (tangled \/ edit[r].pc \in {"list", "renumber"})
      /\ UNCHANGED <<scenes, made>>
  BY DEF StoreFails
<1>2. upsets' \in 0..MaxUpsets
  BY SceneBounds DEF StoreFails, ScenesInv, ScenesTypeOK
<1>3. /\ edit' = [q \in Edits |-> edit'[q]] /\ edit'[r] = Idle
      /\ \A q \in Edits : q # r => edit'[q] = edit[q]
  BY <1>1 DEF ScenesInv, AllHeld
<1>4. Busy' = Busy \ {r} BY <1>3 DEF Busy, Idle
<1>5. made' \in 0..MaxScenes /\ made <= made'
  BY <1>1, SceneBounds DEF ScenesInv, ScenesTypeOK
<1>6. Held(edit[r])' /\ edit'[r].touch \subseteq SceneIds BY <1>3 DEF Held, Idle
<1>7. AllHeld' /\ \A q \in Edits : edit'[q].touch \subseteq SceneIds
  BY <1>3, <1>5, <1>6, BoundsKept
<1>8. /\ overlap \subseteq Busy /\ tangled \in BOOLEAN
      /\ (~tangled => overlap = {})
      /\ \A x, y \in Busy : x # y => x \in overlap
  BY DEF ScenesInv, Unshared, ScenesTypeOK
<1>9. tangled' \in BOOLEAN BY <1>1
<1>10. ScenesTypeOK'
  <2>1. writer' \subseteq Busy' /\ \A q, x \in writer' : q = x
    BY <1>1, <1>4 DEF ScenesInv, ScenesTypeOK
  <2>2. overlap' \subseteq Busy' BY <1>1, <1>4, <1>8
  <2>3. DOMAIN scenes' \subseteq 1..made' /\ \A s \in DOMAIN scenes' : scenes'[s] \in 1..MaxScenes
    BY <1>1 DEF ScenesInv, ScenesTypeOK
  <2> QED BY <1>2, <1>5, <1>7, <1>9, <2>1, <2>2, <2>3 DEF ScenesTypeOK
<1>11. Unshared'
  <2>1. overlap' \subseteq Busy' /\ \A x, y \in Busy' : x # y => x \in overlap'
    BY <1>1, <1>4, <1>8
  <2>2. ~tangled' => overlap' = {} BY <1>1, <1>8
  <2> QED BY <2>1, <2>2 DEF Unshared
<1>12. Busy' \ overlap' = {} BY <1>1, <1>4, <1>8
<1>13. Current' BY <1>12 DEF Current
<1>14. ~tangled' => Busy' = {} /\ Lined(scenes')
  <2> SUFFICES ASSUME ~tangled' PROVE Busy' = {} /\ Lined(scenes')
    OBVIOUS
  <2>1. ~tangled /\ edit[r].pc \notin {"list", "renumber"} BY <1>1
  <2>2. Busy = {r} BY <1>1, <1>8, <2>1
  <2>3. Lined(scenes) BY <2>1, <2>2 DEF ScenesInv, Straight
  <2> QED BY <1>1, <1>4, <2>2, <2>3
<1>15. Straight' BY <1>14 DEF Straight
<1> QED BY <1>7, <1>10, <1>11, <1>13, <1>15 DEF ScenesInv

LEMMA CrashLine ==
  ASSUME ScenesInv, ScenesCrash PROVE ScenesInv'
<1>1. /\ edit' = [r \in Edits |-> Idle] /\ overlap' = {} /\ writer' = {}
      /\ tangled' = (tangled \/ \E r \in Busy : edit[r].pc \in {"list", "renumber"})
      /\ UNCHANGED <<scenes, made>>
  BY DEF ScenesCrash
<1>2. upsets' \in 0..MaxUpsets
  BY SceneBounds DEF ScenesCrash, ScenesInv, ScenesTypeOK
<1>3. Busy' = {} BY <1>1 DEF Busy, Idle
<1>4. AllHeld' /\ \A q \in Edits : edit'[q].touch \subseteq SceneIds
  BY <1>1 DEF AllHeld, Held, Idle
<1>5. tangled' \in BOOLEAN BY <1>1 DEF ScenesInv, ScenesTypeOK
<1>6. ScenesTypeOK'
  <2>1. writer' \subseteq Busy' /\ (\A q, x \in writer' : q = x) /\ overlap' \subseteq Busy'
    BY <1>1
  <2>2. /\ made' \in 0..MaxScenes /\ DOMAIN scenes' \subseteq 1..made'
        /\ \A s \in DOMAIN scenes' : scenes'[s] \in 1..MaxScenes
    BY <1>1 DEF ScenesInv, ScenesTypeOK
  <2> QED BY <1>2, <1>4, <1>5, <2>1, <2>2 DEF ScenesTypeOK
<1>7. Unshared' /\ Current' BY <1>1, <1>3 DEF Unshared, Current
<1>8. ~tangled' => Lined(scenes')
  <2> SUFFICES ASSUME ~tangled' PROVE Lined(scenes')
    OBVIOUS
  <2>1. ~tangled /\ \A r \in Busy : edit[r].pc \notin {"list", "renumber"} BY <1>1
  <2>2. Lined(scenes) BY <2>1 DEF ScenesInv, Straight
  <2> QED BY <1>1, <2>2
<1>9. Straight' BY <1>3, <1>8 DEF Straight
<1> QED BY <1>4, <1>6, <1>7, <1>9 DEF ScenesInv

LEMMA ScenesInvStep ==
  ASSUME ScenesInv, [ScenesNext]_sceneVars PROVE ScenesInv'
<1>1. ASSUME NEW r \in Edits, AddCounts(r) PROVE ScenesInv' BY <1>1, AddCountsLine
<1>2. ASSUME NEW r \in Edits, AddWrites(r) PROVE ScenesInv' BY <1>2, AddWritesLine
<1>3. ASSUME NEW r \in Edits, MoveLists(r) PROVE ScenesInv' BY <1>3, MoveListsLine
<1>4. ASSUME NEW r \in Edits, PatchReads(r) PROVE ScenesInv' BY <1>4, PatchReadsLine
<1>5. ASSUME NEW r \in Edits, FillLists(r) PROVE ScenesInv' BY <1>5, FillListsLine
<1>6. ASSUME NEW r \in Edits, Update(r) PROVE ScenesInv' BY <1>6, UpdateLine
<1>7. ASSUME NEW r \in Edits, DeleteRemoves(r) PROVE ScenesInv' BY <1>7, DeleteRemovesLine
<1>8. ASSUME NEW r \in Edits, DeleteLists(r) PROVE ScenesInv' BY <1>8, DeleteListsLine
<1>9. ASSUME NEW r \in Edits, DeleteRenumbers(r) PROVE ScenesInv' BY <1>9, DeleteRenumbersLine
<1>10. ASSUME NEW r \in Edits, ReplaceLists(r) PROVE ScenesInv' BY <1>10, ReplaceListsLine
<1>11. ASSUME NEW r \in Edits, ReplaceCommits(r) PROVE ScenesInv' BY <1>11, ReplaceCommitsLine
<1>12. ASSUME NEW r \in Edits, StoreFails(r) PROVE ScenesInv' BY <1>12, StoreFailsLine
<1>13. CASE ScenesCrash BY <1>13, CrashLine
<1>14. CASE UNCHANGED sceneVars
  <2>1. UNCHANGED <<scenes, made, edit, writer, tangled, overlap, upsets>> BY <1>14 DEF sceneVars
  <2>2. Busy' = Busy /\ Listings' = Listings BY <2>1 DEF Busy, Listings
  <2>3. ScenesTypeOK' BY <2>1, <2>2 DEF ScenesInv, ScenesTypeOK
  <2>4. AllHeld' BY <2>1 DEF ScenesInv, AllHeld, Held
  <2>5. Unshared' BY <2>1, <2>2 DEF ScenesInv, Unshared
  <2>6. Current' BY <2>1, <2>2 DEF ScenesInv, Current
  <2>7. Straight'
    <3>1. Lined(scenes)' = Lined(scenes) BY <2>1 DEF Lined
    <3>2. \A q \in Edits : With(edit[q].order)' = With(edit[q].order) BY <2>1 DEF With
    <3>3. \A q \in Edits : Lined(With(edit[q].order))' = Lined(With(edit[q].order))
      BY <3>2 DEF Lined
    <3>4. Busy \subseteq Edits BY DEF Busy
    <3> QED BY <2>1, <2>2, <3>1, <3>3, <3>4 DEF ScenesInv, Straight
  <2> QED BY <2>3, <2>4, <2>5, <2>6, <2>7 DEF ScenesInv
<1> QED BY <1>1, <1>2, <1>3, <1>4, <1>5, <1>6, <1>7, <1>8, <1>9, <1>10, <1>11, <1>12, <1>13, <1>14
        DEF ScenesNext

\* The scenes and the requests keep their types.
THEOREM ScenesTypes == ScenesSpec => []ScenesTypeOK
<1>1. ScenesInv => ScenesTypeOK BY DEF ScenesInv
<1> QED BY ScenesInvInit, ScenesInvStep, <1>1, PTL DEF ScenesSpec

\* With nothing under way, and nothing tangled since the last undisturbed
\* renumbering, the orders are 1 .. n: adding, swapping, deleting and
\* replacing keep the scenes in line, and a delete that runs undisturbed to
\* its end puts tangled scenes back in line (src/routes/scenes.tsx).
THEOREM OrdersStayInLine == ScenesSpec => []OrdersInLine
<1>1. ScenesInv => OrdersInLine
  BY DEF ScenesInv, OrdersInLine, Straight, Lined, Contiguous
<1> QED BY ScenesInvInit, ScenesInvStep, <1>1, PTL DEF ScenesSpec
=============================================================================
