--------------------------- MODULE Polling_proofs ---------------------------
(***************************************************************************)
(* Theorems about Polling, for every set of signals, listings, cycles and  *)
(* form submissions, and every bound on failures and crashes.              *)
(***************************************************************************)
EXTENDS Polling, TLAPS

\* The facts that hold before the first cycle.
LEMMA InitInv == Init => IInv
<1> SUFFICES ASSUME Init PROVE IInv
  OBVIOUS
<1>1. TypeOK
  BY ListingOfType DEF Init, TypeOK
<1>2. OneCycle /\ CreateIsNeeded /\ AckIsPlanned
  BY DEF Init, OneCycle, CreateIsNeeded, AckIsPlanned, Busy
<1>3. ListedIsPlanned /\ PolledOnce /\ AckedIsPlanned
  BY DEF Init, ListedIsPlanned, PolledOnce, AckedIsPlanned
<1> QED BY <1>1, <1>2, <1>3 DEF IInv

\* Every action keeps the types.
LEMMA StepTypeOK ==
  ASSUME TypeOK, [Next]_vars
  PROVE  TypeOK'
<1> USE ListingOfType DEF TypeOK, Goto, About, Mishap
<1>1. ASSUME NEW c \in Cycles, CycleStart(c) PROVE TypeOK'
  BY <1>1 DEF CycleStart, store, form
<1>2. ASSUME NEW c \in Cycles, ReadConfig(c) PROVE TypeOK'
  BY <1>2 DEF ReadConfig, store, form
<1>3. ASSUME NEW c \in Cycles, Fetch(c) PROVE TypeOK'
  BY <1>3 DEF Fetch, store, form
<1>4. ASSUME NEW c \in Cycles, NextSignal(c) PROVE TypeOK'
  BY <1>4 DEF NextSignal, store, form
<1>5. ASSUME NEW c \in Cycles, LastSignal(c) PROVE TypeOK'
  BY <1>5 DEF LastSignal, store, form
<1>6. ASSUME NEW c \in Cycles, Dedup(c) PROVE TypeOK'
  BY <1>6 DEF Dedup, store, form
<1>7. ASSUME NEW c \in Cycles, CreatePlan(c) PROVE TypeOK'
  BY <1>7 DEF CreatePlan, form
<1>8. ASSUME NEW c \in Cycles, UpsertListing(c) PROVE TypeOK'
  BY <1>8 DEF UpsertListing, form
<1>9. ASSUME NEW c \in Cycles, Handover(c) PROVE TypeOK'
  BY <1>9 DEF Handover, store, form
<1>10. ASSUME NEW c \in Cycles, Ack(c) PROVE TypeOK'
  BY <1>10 DEF Ack, store, form
<1>11. ASSUME NEW c \in Cycles, Finish(c) PROVE TypeOK'
  BY <1>11 DEF Finish, store, form
<1>12. ASSUME NEW c \in Cycles, ListingFault(c) PROVE TypeOK'
  BY <1>12 DEF ListingFault, form
<1>13. ASSUME NEW c \in Cycles, CycleFault(c) PROVE TypeOK'
  <2>1. mishaps' \in Nat
    BY <1>13 DEF CycleFault
  <2>2. cpc' = [cpc EXCEPT ![c] = "idle"] /\ inFlight' = FALSE
    BY <1>13 DEF CycleFault
  <2>3. UNCHANGED <<pending, polled, manual, listed, selected, settings, handed, seen,
                    batch, cur, fpc, ffor>>
    BY <1>13 DEF CycleFault, store, form
  <2> QED BY <2>1, <2>2, <2>3
<1>14. ASSUME NEW f \in Forms, NEW l \in Listings, FormSubmit(f, l) PROVE TypeOK'
  BY <1>14 DEF FormSubmit, store, cycle
<1>15. ASSUME NEW f \in Forms, FormCreate(f) PROVE TypeOK'
  BY <1>15 DEF FormCreate, cycle
<1>16. ASSUME NEW f \in Forms, FormMark(f) PROVE TypeOK'
  BY <1>16 DEF FormMark, cycle
<1>17. ASSUME NEW f \in Forms, FormFault(f) PROVE TypeOK'
  BY <1>17 DEF FormFault, store, cycle
<1>18. ASSUME PatchSettings PROVE TypeOK'
  BY <1>18 DEF PatchSettings, store, cycle, form
<1>19. ASSUME Crash PROVE TypeOK'
  <2>1. mishaps' \in Nat /\ inFlight' = FALSE
    BY <1>19 DEF Crash
  <2>2. /\ cpc' = [c \in Cycles |-> "idle"] /\ batch' = [c \in Cycles |-> {}]
        /\ fpc' = [f \in Forms |-> "idle"]
    BY <1>19 DEF Crash
  <2>3. UNCHANGED <<pending, polled, manual, listed, selected, settings, handed, seen,
                    cur, ffor>>
    BY <1>19 DEF Crash, store
  <2>4. cpc' \in [Cycles -> {"idle", "config", "fetch", "next", "dedup", "create",
                             "upsert", "enqueue", "ack", "record"}]
    BY <2>2
  <2>5. batch' \in [Cycles -> SUBSET Signals]
    BY <2>2
  <2>6. fpc' \in [Forms -> {"idle", "create", "mark"}]
    BY <2>2
  <2> QED BY <2>1, <2>3, <2>4, <2>5, <2>6
<1>20. CASE UNCHANGED vars
  BY <1>20 DEF vars
<1> QED BY <1>1, <1>2, <1>3, <1>4, <1>5, <1>6, <1>7, <1>8, <1>9, <1>10, <1>11, <1>12, <1>13, <1>14, <1>15, <1>16, <1>17, <1>18, <1>19, <1>20 DEF Next, Step

\* The mutex admits one cycle: a new one starts only when none is running.
LEMMA StepOneCycle ==
  ASSUME TypeOK, OneCycle, [Next]_vars
  PROVE  OneCycle'
<1> USE DEF TypeOK, OneCycle, Busy, Goto
<1>1. ASSUME NEW c \in Cycles, CycleStart(c) PROVE OneCycle'
  BY <1>1 DEF CycleStart, store, form
<1>2. ASSUME NEW c \in Cycles, ReadConfig(c) PROVE OneCycle'
  BY <1>2 DEF ReadConfig, store, form
<1>3. ASSUME NEW c \in Cycles, Fetch(c) PROVE OneCycle'
  BY <1>3 DEF Fetch, store, form
<1>4. ASSUME NEW c \in Cycles, NextSignal(c) PROVE OneCycle'
  BY <1>4 DEF NextSignal, store, form
<1>5. ASSUME NEW c \in Cycles, LastSignal(c) PROVE OneCycle'
  BY <1>5 DEF LastSignal, store, form
<1>6. ASSUME NEW c \in Cycles, Dedup(c) PROVE OneCycle'
  BY <1>6 DEF Dedup, store, form
<1>7. ASSUME NEW c \in Cycles, CreatePlan(c) PROVE OneCycle'
  BY <1>7 DEF CreatePlan, form
<1>8. ASSUME NEW c \in Cycles, UpsertListing(c) PROVE OneCycle'
  BY <1>8 DEF UpsertListing, form
<1>9. ASSUME NEW c \in Cycles, Handover(c) PROVE OneCycle'
  BY <1>9 DEF Handover, store, form
<1>10. ASSUME NEW c \in Cycles, Ack(c) PROVE OneCycle'
  BY <1>10 DEF Ack, store, form
<1>11. ASSUME NEW c \in Cycles, Finish(c) PROVE OneCycle'
  BY <1>11 DEF Finish, store, form
<1>12. ASSUME NEW c \in Cycles, ListingFault(c) PROVE OneCycle'
  BY <1>12 DEF ListingFault, form
<1>13. ASSUME NEW c \in Cycles, CycleFault(c) PROVE OneCycle'
  BY <1>13 DEF CycleFault, store, form
<1>14. ASSUME NEW f \in Forms, NEW l \in Listings, FormSubmit(f, l) PROVE OneCycle'
  BY <1>14 DEF FormSubmit, store, cycle
<1>15. ASSUME NEW f \in Forms, FormCreate(f) PROVE OneCycle'
  BY <1>15 DEF FormCreate, cycle
<1>16. ASSUME NEW f \in Forms, FormMark(f) PROVE OneCycle'
  BY <1>16 DEF FormMark, cycle
<1>17. ASSUME NEW f \in Forms, FormFault(f) PROVE OneCycle'
  BY <1>17 DEF FormFault, store, cycle
<1>18. ASSUME PatchSettings PROVE OneCycle'
  BY <1>18 DEF PatchSettings, store, cycle, form
<1>19. ASSUME Crash PROVE OneCycle'
  BY <1>19 DEF Crash, store
<1>20. CASE UNCHANGED vars
  BY <1>20 DEF vars
<1> QED BY <1>1, <1>2, <1>3, <1>4, <1>5, <1>6, <1>7, <1>8, <1>9, <1>10, <1>11, <1>12, <1>13, <1>14, <1>15, <1>16, <1>17, <1>18, <1>19, <1>20 DEF Next, Step

\* Only the running cycle creates plans, so what it found stays true.
LEMMA StepCreateIsNeeded ==
  ASSUME TypeOK, OneCycle, CreateIsNeeded, [Next]_vars
  PROVE  CreateIsNeeded'
<1> USE ListingOfType DEF TypeOK, OneCycle, CreateIsNeeded, Busy, Goto, About, Planned
<1>1. ASSUME NEW c \in Cycles, CycleStart(c) PROVE CreateIsNeeded'
  BY <1>1 DEF CycleStart, store, form
<1>2. ASSUME NEW c \in Cycles, ReadConfig(c) PROVE CreateIsNeeded'
  BY <1>2 DEF ReadConfig, store, form
<1>3. ASSUME NEW c \in Cycles, Fetch(c) PROVE CreateIsNeeded'
  BY <1>3 DEF Fetch, store, form
<1>4. ASSUME NEW c \in Cycles, NextSignal(c) PROVE CreateIsNeeded'
  BY <1>4 DEF NextSignal, store, form
<1>5. ASSUME NEW c \in Cycles, LastSignal(c) PROVE CreateIsNeeded'
  BY <1>5 DEF LastSignal, store, form
<1>6. ASSUME NEW c \in Cycles, Dedup(c) PROVE CreateIsNeeded'
  BY <1>6 DEF Dedup, store, form
<1>7. ASSUME NEW c \in Cycles, CreatePlan(c) PROVE CreateIsNeeded'
  BY <1>7 DEF CreatePlan, form
<1>8. ASSUME NEW c \in Cycles, UpsertListing(c) PROVE CreateIsNeeded'
  BY <1>8 DEF UpsertListing, form
<1>9. ASSUME NEW c \in Cycles, Handover(c) PROVE CreateIsNeeded'
  BY <1>9 DEF Handover, store, form
<1>10. ASSUME NEW c \in Cycles, Ack(c) PROVE CreateIsNeeded'
  BY <1>10 DEF Ack, store, form
<1>11. ASSUME NEW c \in Cycles, Finish(c) PROVE CreateIsNeeded'
  BY <1>11 DEF Finish, store, form
<1>12. ASSUME NEW c \in Cycles, ListingFault(c) PROVE CreateIsNeeded'
  BY <1>12 DEF ListingFault, form
<1>13. ASSUME NEW c \in Cycles, CycleFault(c) PROVE CreateIsNeeded'
  BY <1>13 DEF CycleFault, store, form
<1>14. ASSUME NEW f \in Forms, NEW l \in Listings, FormSubmit(f, l) PROVE CreateIsNeeded'
  BY <1>14 DEF FormSubmit, store, cycle
<1>15. ASSUME NEW f \in Forms, FormCreate(f) PROVE CreateIsNeeded'
  BY <1>15 DEF FormCreate, cycle
<1>16. ASSUME NEW f \in Forms, FormMark(f) PROVE CreateIsNeeded'
  BY <1>16 DEF FormMark, cycle
<1>17. ASSUME NEW f \in Forms, FormFault(f) PROVE CreateIsNeeded'
  BY <1>17 DEF FormFault, store, cycle
<1>18. ASSUME PatchSettings PROVE CreateIsNeeded'
  BY <1>18 DEF PatchSettings, store, cycle, form
<1>19. ASSUME Crash PROVE CreateIsNeeded'
  BY <1>19 DEF Crash, store
<1>20. CASE UNCHANGED vars
  BY <1>20 DEF vars
<1> QED BY <1>1, <1>2, <1>3, <1>4, <1>5, <1>6, <1>7, <1>8, <1>9, <1>10, <1>11, <1>12, <1>13, <1>14, <1>15, <1>16, <1>17, <1>18, <1>19, <1>20 DEF Next, Step

\* A cycle past the creation has its plan.
LEMMA StepAckIsPlanned ==
  ASSUME TypeOK, AckIsPlanned, [Next]_vars
  PROVE  AckIsPlanned'
<1> USE ListingOfType DEF TypeOK, AckIsPlanned, Goto, About, Planned
<1>1. ASSUME NEW c \in Cycles, CycleStart(c) PROVE AckIsPlanned'
  BY <1>1 DEF CycleStart, store, form
<1>2. ASSUME NEW c \in Cycles, ReadConfig(c) PROVE AckIsPlanned'
  BY <1>2 DEF ReadConfig, store, form
<1>3. ASSUME NEW c \in Cycles, Fetch(c) PROVE AckIsPlanned'
  BY <1>3 DEF Fetch, store, form
<1>4. ASSUME NEW c \in Cycles, NextSignal(c) PROVE AckIsPlanned'
  BY <1>4 DEF NextSignal, store, form
<1>5. ASSUME NEW c \in Cycles, LastSignal(c) PROVE AckIsPlanned'
  BY <1>5 DEF LastSignal, store, form
<1>6. ASSUME NEW c \in Cycles, Dedup(c) PROVE AckIsPlanned'
  BY <1>6 DEF Dedup, store, form
<1>7. ASSUME NEW c \in Cycles, CreatePlan(c) PROVE AckIsPlanned'
  BY <1>7 DEF CreatePlan, form
<1>8. ASSUME NEW c \in Cycles, UpsertListing(c) PROVE AckIsPlanned'
  BY <1>8 DEF UpsertListing, form
<1>9. ASSUME NEW c \in Cycles, Handover(c) PROVE AckIsPlanned'
  BY <1>9 DEF Handover, store, form
<1>10. ASSUME NEW c \in Cycles, Ack(c) PROVE AckIsPlanned'
  BY <1>10 DEF Ack, store, form
<1>11. ASSUME NEW c \in Cycles, Finish(c) PROVE AckIsPlanned'
  BY <1>11 DEF Finish, store, form
<1>12. ASSUME NEW c \in Cycles, ListingFault(c) PROVE AckIsPlanned'
  BY <1>12 DEF ListingFault, form
<1>13. ASSUME NEW c \in Cycles, CycleFault(c) PROVE AckIsPlanned'
  BY <1>13 DEF CycleFault, store, form
<1>14. ASSUME NEW f \in Forms, NEW l \in Listings, FormSubmit(f, l) PROVE AckIsPlanned'
  BY <1>14 DEF FormSubmit, store, cycle
<1>15. ASSUME NEW f \in Forms, FormCreate(f) PROVE AckIsPlanned'
  BY <1>15 DEF FormCreate, cycle
<1>16. ASSUME NEW f \in Forms, FormMark(f) PROVE AckIsPlanned'
  BY <1>16 DEF FormMark, cycle
<1>17. ASSUME NEW f \in Forms, FormFault(f) PROVE AckIsPlanned'
  BY <1>17 DEF FormFault, store, cycle
<1>18. ASSUME PatchSettings PROVE AckIsPlanned'
  BY <1>18 DEF PatchSettings, store, cycle, form
<1>19. ASSUME Crash PROVE AckIsPlanned'
  BY <1>19 DEF Crash, store
<1>20. CASE UNCHANGED vars
  BY <1>20 DEF vars
<1> QED BY <1>1, <1>2, <1>3, <1>4, <1>5, <1>6, <1>7, <1>8, <1>9, <1>10, <1>11, <1>12, <1>13, <1>14, <1>15, <1>16, <1>17, <1>18, <1>19, <1>20 DEF Next, Step

\* A listing is written once, after its plan.
LEMMA StepListedIsPlanned ==
  ASSUME TypeOK, OneCycle, CreateIsNeeded, ListedIsPlanned, [Next]_vars
  PROVE  ListedIsPlanned'
<1> USE ListingOfType DEF TypeOK, OneCycle, CreateIsNeeded, ListedIsPlanned, Busy, Goto, About
<1>1. ASSUME NEW c \in Cycles, CycleStart(c) PROVE ListedIsPlanned'
  BY <1>1 DEF CycleStart, store, form
<1>2. ASSUME NEW c \in Cycles, ReadConfig(c) PROVE ListedIsPlanned'
  BY <1>2 DEF ReadConfig, store, form
<1>3. ASSUME NEW c \in Cycles, Fetch(c) PROVE ListedIsPlanned'
  BY <1>3 DEF Fetch, store, form
<1>4. ASSUME NEW c \in Cycles, NextSignal(c) PROVE ListedIsPlanned'
  BY <1>4 DEF NextSignal, store, form
<1>5. ASSUME NEW c \in Cycles, LastSignal(c) PROVE ListedIsPlanned'
  BY <1>5 DEF LastSignal, store, form
<1>6. ASSUME NEW c \in Cycles, Dedup(c) PROVE ListedIsPlanned'
  BY <1>6 DEF Dedup, store, form
<1>7. ASSUME NEW c \in Cycles, CreatePlan(c) PROVE ListedIsPlanned'
  BY <1>7 DEF CreatePlan, form
<1>8. ASSUME NEW c \in Cycles, UpsertListing(c) PROVE ListedIsPlanned'
  <2>1. /\ listed' = listed \cup {About(c)} /\ selected' = selected \ {About(c)}
        /\ polled' = polled /\ cur' = cur /\ cpc[c] = "upsert"
        /\ cpc' = [cpc EXCEPT ![c] = IF seen[c] THEN "enqueue" ELSE "ack"]
    BY <1>8 DEF UpsertListing
  <2>2. \A d \in Cycles : cpc'[d] # "upsert"
    BY <2>1
  <2>3. polled[About(c)] > 0 /\ selected' \subseteq listed'
    BY <2>1
  <2> QED BY <2>1, <2>2, <2>3
<1>9. ASSUME NEW c \in Cycles, Handover(c) PROVE ListedIsPlanned'
  BY <1>9 DEF Handover, store, form
<1>10. ASSUME NEW c \in Cycles, Ack(c) PROVE ListedIsPlanned'
  BY <1>10 DEF Ack, store, form
<1>11. ASSUME NEW c \in Cycles, Finish(c) PROVE ListedIsPlanned'
  BY <1>11 DEF Finish, store, form
<1>12. ASSUME NEW c \in Cycles, ListingFault(c) PROVE ListedIsPlanned'
  BY <1>12 DEF ListingFault, form
<1>13. ASSUME NEW c \in Cycles, CycleFault(c) PROVE ListedIsPlanned'
  BY <1>13 DEF CycleFault, store, form
<1>14. ASSUME NEW f \in Forms, NEW l \in Listings, FormSubmit(f, l) PROVE ListedIsPlanned'
  BY <1>14 DEF FormSubmit, store, cycle
<1>15. ASSUME NEW f \in Forms, FormCreate(f) PROVE ListedIsPlanned'
  BY <1>15 DEF FormCreate, cycle
<1>16. ASSUME NEW f \in Forms, FormMark(f) PROVE ListedIsPlanned'
  BY <1>16 DEF FormMark, cycle
<1>17. ASSUME NEW f \in Forms, FormFault(f) PROVE ListedIsPlanned'
  BY <1>17 DEF FormFault, store, cycle
<1>18. ASSUME PatchSettings PROVE ListedIsPlanned'
  BY <1>18 DEF PatchSettings, store, cycle, form
<1>19. ASSUME Crash PROVE ListedIsPlanned'
  BY <1>19 DEF Crash, store
<1>20. CASE UNCHANGED vars
  BY <1>20 DEF vars
<1> QED BY <1>1, <1>2, <1>3, <1>4, <1>5, <1>6, <1>7, <1>8, <1>9, <1>10, <1>11, <1>12, <1>13, <1>14, <1>15, <1>16, <1>17, <1>18, <1>19, <1>20 DEF Next, Step

\* A plan is created only for a listing without one.
LEMMA StepPolledOnce ==
  ASSUME TypeOK, CreateIsNeeded, PolledOnce, [Next]_vars
  PROVE  PolledOnce'
<1> USE ListingOfType DEF TypeOK, CreateIsNeeded, PolledOnce, Goto, About
<1>1. ASSUME NEW c \in Cycles, CycleStart(c) PROVE PolledOnce'
  BY <1>1 DEF CycleStart, store, form
<1>2. ASSUME NEW c \in Cycles, ReadConfig(c) PROVE PolledOnce'
  BY <1>2 DEF ReadConfig, store, form
<1>3. ASSUME NEW c \in Cycles, Fetch(c) PROVE PolledOnce'
  BY <1>3 DEF Fetch, store, form
<1>4. ASSUME NEW c \in Cycles, NextSignal(c) PROVE PolledOnce'
  BY <1>4 DEF NextSignal, store, form
<1>5. ASSUME NEW c \in Cycles, LastSignal(c) PROVE PolledOnce'
  BY <1>5 DEF LastSignal, store, form
<1>6. ASSUME NEW c \in Cycles, Dedup(c) PROVE PolledOnce'
  BY <1>6 DEF Dedup, store, form
<1>7. ASSUME NEW c \in Cycles, CreatePlan(c) PROVE PolledOnce'
  BY <1>7 DEF CreatePlan, form
<1>8. ASSUME NEW c \in Cycles, UpsertListing(c) PROVE PolledOnce'
  BY <1>8 DEF UpsertListing, form
<1>9. ASSUME NEW c \in Cycles, Handover(c) PROVE PolledOnce'
  BY <1>9 DEF Handover, store, form
<1>10. ASSUME NEW c \in Cycles, Ack(c) PROVE PolledOnce'
  BY <1>10 DEF Ack, store, form
<1>11. ASSUME NEW c \in Cycles, Finish(c) PROVE PolledOnce'
  BY <1>11 DEF Finish, store, form
<1>12. ASSUME NEW c \in Cycles, ListingFault(c) PROVE PolledOnce'
  BY <1>12 DEF ListingFault, form
<1>13. ASSUME NEW c \in Cycles, CycleFault(c) PROVE PolledOnce'
  BY <1>13 DEF CycleFault, store, form
<1>14. ASSUME NEW f \in Forms, NEW l \in Listings, FormSubmit(f, l) PROVE PolledOnce'
  BY <1>14 DEF FormSubmit, store, cycle
<1>15. ASSUME NEW f \in Forms, FormCreate(f) PROVE PolledOnce'
  BY <1>15 DEF FormCreate, cycle
<1>16. ASSUME NEW f \in Forms, FormMark(f) PROVE PolledOnce'
  BY <1>16 DEF FormMark, cycle
<1>17. ASSUME NEW f \in Forms, FormFault(f) PROVE PolledOnce'
  BY <1>17 DEF FormFault, store, cycle
<1>18. ASSUME PatchSettings PROVE PolledOnce'
  BY <1>18 DEF PatchSettings, store, cycle, form
<1>19. ASSUME Crash PROVE PolledOnce'
  BY <1>19 DEF Crash, store
<1>20. CASE UNCHANGED vars
  BY <1>20 DEF vars
<1> QED BY <1>1, <1>2, <1>3, <1>4, <1>5, <1>6, <1>7, <1>8, <1>9, <1>10, <1>11, <1>12, <1>13, <1>14, <1>15, <1>16, <1>17, <1>18, <1>19, <1>20 DEF Next, Step

\* The ack follows the plan.
LEMMA StepAckedIsPlanned ==
  ASSUME TypeOK, AckIsPlanned, AckedIsPlanned, [Next]_vars
  PROVE  AckedIsPlanned'
<1> USE ListingOfType DEF TypeOK, AckIsPlanned, AckedIsPlanned, Goto, About, Planned
<1>1. ASSUME NEW c \in Cycles, CycleStart(c) PROVE AckedIsPlanned'
  BY <1>1 DEF CycleStart, store, form
<1>2. ASSUME NEW c \in Cycles, ReadConfig(c) PROVE AckedIsPlanned'
  BY <1>2 DEF ReadConfig, store, form
<1>3. ASSUME NEW c \in Cycles, Fetch(c) PROVE AckedIsPlanned'
  BY <1>3 DEF Fetch, store, form
<1>4. ASSUME NEW c \in Cycles, NextSignal(c) PROVE AckedIsPlanned'
  BY <1>4 DEF NextSignal, store, form
<1>5. ASSUME NEW c \in Cycles, LastSignal(c) PROVE AckedIsPlanned'
  BY <1>5 DEF LastSignal, store, form
<1>6. ASSUME NEW c \in Cycles, Dedup(c) PROVE AckedIsPlanned'
  BY <1>6 DEF Dedup, store, form
<1>7. ASSUME NEW c \in Cycles, CreatePlan(c) PROVE AckedIsPlanned'
  BY <1>7 DEF CreatePlan, form
<1>8. ASSUME NEW c \in Cycles, UpsertListing(c) PROVE AckedIsPlanned'
  BY <1>8 DEF UpsertListing, form
<1>9. ASSUME NEW c \in Cycles, Handover(c) PROVE AckedIsPlanned'
  BY <1>9 DEF Handover, store, form
<1>10. ASSUME NEW c \in Cycles, Ack(c) PROVE AckedIsPlanned'
  BY <1>10 DEF Ack, store, form
<1>11. ASSUME NEW c \in Cycles, Finish(c) PROVE AckedIsPlanned'
  BY <1>11 DEF Finish, store, form
<1>12. ASSUME NEW c \in Cycles, ListingFault(c) PROVE AckedIsPlanned'
  BY <1>12 DEF ListingFault, form
<1>13. ASSUME NEW c \in Cycles, CycleFault(c) PROVE AckedIsPlanned'
  BY <1>13 DEF CycleFault, store, form
<1>14. ASSUME NEW f \in Forms, NEW l \in Listings, FormSubmit(f, l) PROVE AckedIsPlanned'
  BY <1>14 DEF FormSubmit, store, cycle
<1>15. ASSUME NEW f \in Forms, FormCreate(f) PROVE AckedIsPlanned'
  BY <1>15 DEF FormCreate, cycle
<1>16. ASSUME NEW f \in Forms, FormMark(f) PROVE AckedIsPlanned'
  BY <1>16 DEF FormMark, cycle
<1>17. ASSUME NEW f \in Forms, FormFault(f) PROVE AckedIsPlanned'
  BY <1>17 DEF FormFault, store, cycle
<1>18. ASSUME PatchSettings PROVE AckedIsPlanned'
  BY <1>18 DEF PatchSettings, store, cycle, form
<1>19. ASSUME Crash PROVE AckedIsPlanned'
  BY <1>19 DEF Crash, store
<1>20. CASE UNCHANGED vars
  BY <1>20 DEF vars
<1> QED BY <1>1, <1>2, <1>3, <1>4, <1>5, <1>6, <1>7, <1>8, <1>9, <1>10, <1>11, <1>12, <1>13, <1>14, <1>15, <1>16, <1>17, <1>18, <1>19, <1>20 DEF Next, Step

\* The inductive invariant, and what it is for.
THEOREM Invariance == Spec => []IInv
<1>1. IInv /\ [Next]_vars => IInv'
  <2> SUFFICES ASSUME IInv, [Next]_vars PROVE IInv'
    OBVIOUS
  <2> USE DEF IInv
  <2>1. TypeOK' /\ OneCycle'
    BY StepTypeOK, StepOneCycle
  <2>2. CreateIsNeeded' /\ AckIsPlanned'
    BY StepCreateIsNeeded, StepAckIsPlanned
  <2>3. ListedIsPlanned' /\ PolledOnce' /\ AckedIsPlanned'
    BY StepListedIsPlanned, StepPolledOnce, StepAckedIsPlanned
  <2> QED BY <2>1, <2>2, <2>3
<1> QED BY InitInv, <1>1, PTL DEF Spec

\* Signals, listings, plans and what every cycle and form has read keep their
\* types (runPollCycle and the cover-letter form).
THEOREM PollingTypes == Spec => []TypeOK
<1>1. IInv => TypeOK
  BY DEF IInv
<1> QED BY Invariance, <1>1, PTL

\* Whatever is redelivered, fails or crashes, the poll makes at most one plan
\* for a listing (runPollCycle is idempotent on the listing axis).
THEOREM OnePlanPerListing == Spec => []PolledOnce
<1>1. IInv => PolledOnce
  BY DEF IInv
<1> QED BY Invariance, <1>1, PTL

\* A signal is acked only when its listing has a plan (the ack in runPollCycle
\* comes after processListing).
THEOREM AckNeverOvertakes == Spec => []AckedIsPlanned
<1>1. IInv => AckedIsPlanned
  BY DEF IInv
<1> QED BY Invariance, <1>1, PTL

\* The overwriting upsert only meets listings that are not there yet.
LEMMA StepSelection ==
  ASSUME TypeOK, ListedIsPlanned, [Next]_vars
  PROVE  selected \subseteq selected'
<1> USE DEF TypeOK, ListedIsPlanned, About, Goto
<1>1. ASSUME NEW c \in Cycles, CycleStart(c) PROVE selected \subseteq selected'
  BY <1>1 DEF CycleStart, store, form
<1>2. ASSUME NEW c \in Cycles, ReadConfig(c) PROVE selected \subseteq selected'
  BY <1>2 DEF ReadConfig, store, form
<1>3. ASSUME NEW c \in Cycles, Fetch(c) PROVE selected \subseteq selected'
  BY <1>3 DEF Fetch, store, form
<1>4. ASSUME NEW c \in Cycles, NextSignal(c) PROVE selected \subseteq selected'
  BY <1>4 DEF NextSignal, store, form
<1>5. ASSUME NEW c \in Cycles, LastSignal(c) PROVE selected \subseteq selected'
  BY <1>5 DEF LastSignal, store, form
<1>6. ASSUME NEW c \in Cycles, Dedup(c) PROVE selected \subseteq selected'
  BY <1>6 DEF Dedup, store, form
<1>7. ASSUME NEW c \in Cycles, CreatePlan(c) PROVE selected \subseteq selected'
  BY <1>7 DEF CreatePlan, form
<1>8. ASSUME NEW c \in Cycles, UpsertListing(c) PROVE selected \subseteq selected'
  BY <1>8 DEF UpsertListing, form
<1>9. ASSUME NEW c \in Cycles, Handover(c) PROVE selected \subseteq selected'
  BY <1>9 DEF Handover, store, form
<1>10. ASSUME NEW c \in Cycles, Ack(c) PROVE selected \subseteq selected'
  BY <1>10 DEF Ack, store, form
<1>11. ASSUME NEW c \in Cycles, Finish(c) PROVE selected \subseteq selected'
  BY <1>11 DEF Finish, store, form
<1>12. ASSUME NEW c \in Cycles, ListingFault(c) PROVE selected \subseteq selected'
  BY <1>12 DEF ListingFault, form
<1>13. ASSUME NEW c \in Cycles, CycleFault(c) PROVE selected \subseteq selected'
  BY <1>13 DEF CycleFault, store, form
<1>14. ASSUME NEW f \in Forms, NEW l \in Listings, FormSubmit(f, l) PROVE selected \subseteq selected'
  BY <1>14 DEF FormSubmit, store, cycle
<1>15. ASSUME NEW f \in Forms, FormCreate(f) PROVE selected \subseteq selected'
  BY <1>15 DEF FormCreate, cycle
<1>16. ASSUME NEW f \in Forms, FormMark(f) PROVE selected \subseteq selected'
  BY <1>16 DEF FormMark, cycle
<1>17. ASSUME NEW f \in Forms, FormFault(f) PROVE selected \subseteq selected'
  BY <1>17 DEF FormFault, store, cycle
<1>18. ASSUME PatchSettings PROVE selected \subseteq selected'
  BY <1>18 DEF PatchSettings, store, cycle, form
<1>19. ASSUME Crash PROVE selected \subseteq selected'
  BY <1>19 DEF Crash, store
<1>20. CASE UNCHANGED vars
  BY <1>20 DEF vars
<1> QED BY <1>1, <1>2, <1>3, <1>4, <1>5, <1>6, <1>7, <1>8, <1>9, <1>10, <1>11, <1>12, <1>13, <1>14, <1>15, <1>16, <1>17, <1>18, <1>19, <1>20 DEF Next, Step

\* upsertListing's overwrite never erases a selection made by hand.
THEOREM SelectionIsKept == Spec => SelectionSurvives
<1>1. IInv /\ [Next]_vars => [selected \subseteq selected']_vars
  BY StepSelection DEF IInv
<1> QED BY Invariance, <1>1, PTL DEF Spec, SelectionSurvives
=============================================================================
