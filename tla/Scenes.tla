------------------------------- MODULE Scenes -------------------------------
(***************************************************************************)
(* The scenes of one plan and the requests that change them                *)
(* (src/db/scenes.ts, src/routes/scenes.tsx).  Editing requests take no    *)
(* lock: each is a read, an await and a write.  The pipeline's own writes  *)
(* hold the plan lock, which the editing requests do not ask for.          *)
(***************************************************************************)
EXTENDS Naturals, FiniteSets

CONSTANTS
  Edits,      \* requests that may run at the same time
  MaxScenes,  \* bound: scenes ever created
  MaxUpsets   \* bound: store calls that fail, and crashes, together

ASSUME SceneBounds == MaxScenes \in Nat /\ MaxUpsets \in Nat

SceneIds == 1..MaxScenes

VARIABLES
  scenes,     \* the stored scenes: id -> order
  made,       \* scenes created so far; ids are never reused
  edit,       \* per request: what it is doing and what it will write
  writer,     \* the edits that hold the plan lock, at most one
  tangled,    \* history: since the last undisturbed renumbering, requests
              \* overlapped or a delete broke off half way
  overlap,    \* requests under way that are not alone
  upsets

sceneVars == <<scenes, made, edit, writer, tangled, overlap, upsets>>

Idle == [pc |-> "idle", touch |-> {}, order |-> <<>>]
Busy == {r \in Edits : edit[r].pc # "idle"}

ScenesInit ==
  /\ scenes = <<>> /\ made = 0
  /\ edit = [r \in Edits |-> Idle]
  /\ writer = {} /\ tangled = FALSE /\ overlap = {} /\ upsets = 0

---------------------------------------------------------------------------
\* A request starts with its first read, and ends.  Two that overlap can
\* both have seen what the other then changes.
Begins(r, e) ==
  /\ edit[r].pc = "idle"
  /\ edit' = [edit EXCEPT ![r] = e]
  /\ overlap' = IF Busy = {} THEN overlap ELSE overlap \cup Busy \cup {r}
  /\ tangled' = (tangled \/ Busy # {})
  /\ UNCHANGED upsets

Continues(r, e) == edit' = [edit EXCEPT ![r] = e] /\ UNCHANGED <<overlap, tangled, upsets>>

Ends(r, renumbered) ==
  /\ edit' = [edit EXCEPT ![r] = Idle]
  /\ overlap' = overlap \ {r}
  /\ tangled' = (tangled /\ ~(renumbered /\ r \notin overlap))
  /\ writer' = writer \ {r}
  /\ UNCHANGED upsets

\* orderBy('order'): scenes of equal order come in any order.  A listing
\* numbers the stored scenes by position.
Listings ==
  LET Stored == DOMAIN scenes
  IN  {l \in [Stored -> 1..Cardinality(Stored)] :
         \A s, t \in Stored : s # t => l[s] # l[t] /\ (scenes[s] < scenes[t] => l[s] < l[t])}

\* The stored scenes with the orders of some replaced.
With(order) ==
  [s \in DOMAIN order \cup DOMAIN scenes |-> IF s \in DOMAIN order THEN order[s] ELSE scenes[s]]

\* Mutant: a set with merge writes the missing document back.
Merged(touch, order) ==
  scenes' = [s \in touch \cup DOMAIN scenes |->
               IF s \in DOMAIN With(order) THEN With(order)[s] ELSE 0]

\* batch.update fails as a whole when one of the documents is gone.
Updated(touch, order) ==
  scenes' = IF touch \subseteq DOMAIN scenes THEN With(order) ELSE scenes

---------------------------------------------------------------------------
\* createScene: count, then write at the end.
AddCounts(r) ==
  /\ Begins(r, [pc |-> "add", touch |-> {}, order |-> Cardinality(DOMAIN scenes) + 1])
  /\ UNCHANGED <<scenes, made, writer>>

AddWrites(r) ==
  /\ edit[r].pc = "add" /\ made < MaxScenes
  /\ made' = made + 1
  /\ scenes' = With([s \in {made + 1} |-> edit[r].order])
  /\ Ends(r, FALSE)

\* move-up and move-down: swap the orders of two neighbours as listed.
MoveLists(r) ==
  /\ \E l \in Listings : \E s, t \in DOMAIN scenes :
       /\ l[t] = l[s] + 1
       /\ Begins(r, [pc |-> "update", touch |-> {s, t},
                     order |-> [x \in {s, t} |-> IF x = s THEN scenes[t] ELSE scenes[s]]])
  /\ UNCHANGED <<scenes, made, writer>>

\* patchScene: an edit of one scene's text, shots or b-roll leaves the orders.
PatchReads(r) ==
  /\ \E s \in DOMAIN scenes :
       Begins(r, [pc |-> "update", touch |-> {s}, order |-> <<>>])
  /\ UNCHANGED <<scenes, made, writer>>

\* patchScenesBatch: generated scripts and shot lists, written to the scenes
\* listed before the LLM was asked.
FillLists(r) ==
  /\ writer = {} /\ writer' = {r}
  /\ scenes # <<>>
  /\ Begins(r, [pc |-> "update", touch |-> DOMAIN scenes, order |-> <<>>])
  /\ UNCHANGED <<scenes, made>>

Update(r) ==
  /\ edit[r].pc = "update"
  /\ Updated(edit[r].touch, edit[r].order)
  /\ Ends(r, FALSE)
  /\ UNCHANGED made

\* DELETE: remove (or find nothing to remove), list what is left, renumber
\* that in one batch.
DeleteRemoves(r) ==
  /\ \E s \in 1..made : scenes' = [t \in DOMAIN scenes \ {s} |-> scenes[t]]
  /\ Begins(r, [pc |-> "list", touch |-> {}, order |-> <<>>])
  /\ UNCHANGED <<made, writer>>

DeleteLists(r) ==
  /\ edit[r].pc = "list"
  /\ \E l \in Listings :
       Continues(r, [pc |-> "renumber", touch |-> DOMAIN scenes, order |-> l])
  /\ UNCHANGED <<scenes, made, writer>>

\* Mutant: what is left keeps its orders.
DeleteKeepsOrders(r) ==
  /\ edit[r].pc = "renumber"
  /\ Ends(r, TRUE)
  /\ UNCHANGED <<scenes, made>>

DeleteRenumbers(r) ==
  /\ edit[r].pc = "renumber"
  /\ Updated(edit[r].touch, edit[r].order)
  /\ Ends(r, TRUE)
  /\ UNCHANGED made

\* replaceAllScenes: list the old, then delete them and create the new ones
\* in one batch.  The first answer has scenes; the one asked for because of
\* unknown beats is not counted again and may have none.
ReplaceLists(r) ==
  /\ writer = {} /\ writer' = {r}
  /\ Begins(r, [pc |-> "replace", touch |-> DOMAIN scenes, order |-> <<>>])
  /\ UNCHANGED <<scenes, made>>

ReplaceCommits(r) ==
  /\ edit[r].pc = "replace"
  /\ \E n \in 0..(MaxScenes - made) :
       /\ made' = made + n
       /\ scenes' = [s \in (DOMAIN scenes \ edit[r].touch) \cup (made + 1)..(made + n) |->
                       IF s > made THEN s - made ELSE scenes[s]]
  /\ Ends(r, TRUE)

---------------------------------------------------------------------------
\* A store call fails: the request ends with what it has done so far.
StoreFails(r) ==
  /\ r \in Busy
  /\ upsets < MaxUpsets /\ upsets' = upsets + 1
  /\ edit' = [edit EXCEPT ![r] = Idle]
  /\ overlap' = overlap \ {r} /\ writer' = writer \ {r}
  /\ tangled' = (tangled \/ edit[r].pc \in {"list", "renumber"})
  /\ UNCHANGED <<scenes, made>>

\* The process dies with everything under way.
ScenesCrash ==
  /\ Busy # {}
  /\ upsets < MaxUpsets /\ upsets' = upsets + 1
  /\ edit' = [r \in Edits |-> Idle] /\ overlap' = {} /\ writer' = {}
  /\ tangled' = (tangled \/ \E r \in Busy : edit[r].pc \in {"list", "renumber"})
  /\ UNCHANGED <<scenes, made>>

ScenesNext ==
  \/ \E r \in Edits :
       \/ AddCounts(r) \/ AddWrites(r)
       \/ MoveLists(r) \/ PatchReads(r) \/ FillLists(r) \/ Update(r)
       \/ DeleteRemoves(r) \/ DeleteLists(r) \/ DeleteRenumbers(r)
       \/ ReplaceLists(r) \/ ReplaceCommits(r)
       \/ StoreFails(r)
  \/ ScenesCrash

ScenesSpec == ScenesInit /\ [][ScenesNext]_sceneVars

---------------------------------------------------------------------------
(* Properties *)

\* Every variable keeps its type.
ScenesTypeOK ==
  /\ made \in 0..MaxScenes
  /\ DOMAIN scenes \subseteq 1..made
  /\ \A s \in DOMAIN scenes : scenes[s] \in 1..MaxScenes
  /\ \A r \in Edits : edit[r].touch \subseteq SceneIds
  /\ writer \subseteq Busy /\ \A q, r \in writer : q = r
  /\ overlap \subseteq Busy
  /\ tangled \in BOOLEAN /\ upsets \in 0..MaxUpsets

\* The stored orders are 1, 2, 3, ... without a gap or a tie.
Contiguous ==
  \A k \in 1..Cardinality(DOMAIN scenes) : \E s \in DOMAIN scenes : scenes[s] = k

\* "Renumbers the remaining scenes contiguously so order gaps don't
\* accumulate": requests that do not overlap keep the scenes numbered 1..n,
\* and after overlapping requests or a broken delete the first undisturbed
\* delete or replacement puts them in line again.
OrdersInLine == Busy = {} /\ ~tangled => Contiguous

\* A scene once deleted never comes back: no batch, swap or edit that was
\* prepared before the deletion writes its document again.
DeletedStaysDeleted ==
  [][\A s \in 1..made : s \notin DOMAIN scenes => s \notin DOMAIN scenes']_sceneVars

\* The inductive invariant behind it: a prepared batch writes no document it
\* has not read.
WritesTouched ==
  /\ made \in Nat
  /\ \A r \in Edits : edit[r].pc \in {"update", "renumber"} =>
                        DOMAIN edit[r].order \subseteq edit[r].touch

---------------------------------------------------------------------------
(* The inductive invariant behind OrdersInLine                             *)

\* The orders are 1 .. n, each of them once.
Lined(order) ==
  LET n == Cardinality(DOMAIN order)
  IN  /\ \A s \in DOMAIN order : order[s] \in 1..n
      /\ \A s, t \in DOMAIN order : order[s] = order[t] => s = t
      /\ \A k \in 1..n : \E s \in DOMAIN order : order[s] = k

\* A request is alone unless overlap says otherwise, and before anything is
\* tangled there is no overlap.
Unshared ==
  /\ overlap \subseteq Busy
  /\ \A r, q \in Busy : r # q => r \in overlap
  /\ ~tangled => overlap = {}

\* What a request alone has read is what is stored: what it writes is in line
\* whatever was stored, if it renumbers or replaces all, ...
Current ==
  \A r \in Busy \ overlap :
    /\ edit[r].pc = "renumber" => edit[r].touch = DOMAIN scenes /\ edit[r].order \in Listings
    /\ edit[r].pc = "replace" => edit[r].touch = DOMAIN scenes

\* ... and otherwise as long as the scenes are.
Straight ==
  ~tangled =>
    /\ (\A r \in Busy : edit[r].pc \notin {"list", "renumber"}) => Lined(scenes)
    /\ \A r \in Busy :
         /\ edit[r].pc = "add" => edit[r].order = Cardinality(DOMAIN scenes) + 1
         /\ edit[r].pc = "update" => Lined(With(edit[r].order))

\* What a request holds is in bounds, and is not more than it has read.
Held(e) ==
  /\ e.pc \in {"idle", "add", "update", "list", "renumber", "replace"}
  /\ e.pc = "add" => e.order \in 1..(made + 1)
  /\ e.pc \in {"update", "renumber"} =>
       /\ DOMAIN e.order \subseteq e.touch
       /\ \A s \in DOMAIN e.order : e.order[s] \in 1..MaxScenes

AllHeld == edit = [r \in Edits |-> edit[r]] /\ \A r \in Edits : Held(edit[r])

ScenesInv == ScenesTypeOK /\ AllHeld /\ Unshared /\ Current /\ Straight
=============================================================================
