------------------------- MODULE EsimOverviewProofs -------------------------
(***************************************************************************)
(* Theorems about EsimOverview for any number of loads, listings and card  *)
(* operations and any number of invalidations: what the cache holds, and   *)
(* what a load is answered with, is not what an invalidation had made      *)
(* obsolete, unless a RefreshProfiles was overtaken by the invalidation    *)
(* between its scan and its store; and the reload flag stands for a        *)
(* goroutine.                                                              *)
(***************************************************************************)
EXTENDS EsimOverview, TLAPS

\* What a flight has in hand is as new as the generation it reads for.  A flight is
\* joined by loads that began later than it, so it must be new enough for those who
\* have read the same generation and have not joined yet, too.
FreshFor(c, l) == ~snap[c].late => snap[c].version >= floor[l]

FlightFresh ==
    \A c \in Loaders : pc[c] \in {"store", "finish"} =>
        /\ snap[c] # None
        /\ ~snap[c].late /\ gen[c] = generation => snap[c].version >= dropped
        /\ FreshFor(c, c)
        /\ \A l \in Loaders : pc[l] \in {"do", "joined"} /\ gen[l] = gen[c] => FreshFor(c, l)

\* A listing that is about to store has read the card, and unless an invalidation
\* has overtaken it, what it has read is new enough.
ListingHasRead ==
    \A c \in Listings : pc[c] = "store" =>
        snap[c] # None /\ (scanned[c] = generation => snap[c].version >= dropped)

\* The answer of a load.
AnswerFresh == \A c \in Loaders : pc[c] = "returned" => snap[c] # None /\ FreshFor(c, c)

\* TypeOK in parts.
CardOK ==
    /\ card \in Snapshot
    /\ cache \in Snapshot \cup {None}
    /\ generation \in Nat
    /\ reloading \in BOOLEAN
    /\ dropped \in 0..card.version
PlacesOK ==
    /\ opMu \in {w \in Writers : pc[w] \in Working} \cup {None}
    /\ pc \in [Calls -> Places]
    /\ op \in [Writers -> Kinds \cup {"none"}]
    /\ target \in [Writers -> Profiles \cup {NoProfile}]
LoadsOK ==
    /\ gen \in [Loaders -> 0..generation]
    /\ snap \in [Loaders \cup Listings -> Snapshot \cup {None}]
    /\ pending \subseteq Refreshers
    /\ scanned \in [Listings -> 0..generation]
    /\ floor \in [Loaders -> 0..dropped]

IInv ==
    /\ CardOK /\ PlacesOK /\ LoadsOK
    /\ CacheNotOlderThanInvalidation /\ FlightFresh /\ ListingHasRead /\ AnswerFresh
    /\ ReloadFlagHasGoroutine

\* Who is what, from the assumption on the constants.
LEMMA CallSets ==
    /\ Getters \subseteq Loaders /\ Refreshers \subseteq Loaders /\ Reload \in Loaders
    /\ Loaders \subseteq Calls /\ Listings \subseteq Calls /\ Writers \subseteq Calls
    /\ Reload \notin Getters \cup Refreshers \cup Listings \cup Writers
    /\ \A c \in Loaders : c \notin Listings /\ c \notin Writers
    /\ \A c \in Listings : c \notin Writers
    /\ None \notin Calls /\ None \notin Snapshot
BY CallsAssumption DEF Loaders, Calls

\* Nothing has been read and nothing dropped at the start.
LEMMA InitIInv == Init => IInv
<1> SUFFICES ASSUME Init PROVE IInv
  OBVIOUS
<1>1. CardOK
  <2>1. card \in [version : {0}, active : Profiles, late : {FALSE}]  BY DEF Init
  <2>2. card \in Snapshot
    <3>1. PICK a \in Profiles : card = [version |-> 0, active |-> a, late |-> FALSE]  BY <2>1
    <3>2. QED  BY <3>1 DEF Snapshot
  <2>3. card.version = 0  BY <2>1
  <2>4. cache = None /\ generation = 0 /\ dropped = 0  BY DEF Init
  <2>5. reloading \in BOOLEAN  BY DEF Init
  <2>6. cache \in Snapshot \cup {None}  BY <2>4
  <2>7. generation \in Nat /\ dropped \in 0..card.version  BY <2>3, <2>4
  <2>8. QED  BY <2>2, <2>5, <2>6, <2>7 DEF CardOK
<1>2. PlacesOK  BY CallSets DEF Init, PlacesOK, Places
<1>3. LoadsOK  BY DEF Init, LoadsOK
<1>4. \A c \in Calls : pc[c] = "idle"  BY DEF Init
<1>5. QED
  BY <1>1, <1>2, <1>3, <1>4, CallSets
     DEF Init, IInv, CacheNotOlderThanInvalidation, FlightFresh, ListingHasRead, AnswerFresh,
         ReloadFlagHasGoroutine

\* The card's version never falls behind what has been dropped.
LEMMA CardStep ==
    CardOK /\ PlacesOK /\ LoadsOK /\ ListingHasRead /\ [Next]_vars => CardOK'
<1> SUFFICES ASSUME CardOK, PlacesOK, LoadsOK, ListingHasRead, [Next]_vars PROVE CardOK'
  OBVIOUS
<1> USE DEF CardOK
<1>1. CASE UNCHANGED vars  BY <1>1 DEF vars
<1>2. ASSUME NEW c \in Getters, Get(c) PROVE CardOK'
  BY <1>2 DEF Get
<1>3. ASSUME NEW c \in Refreshers, Refresh(c) PROVE CardOK'
  BY <1>3 DEF Refresh
<1>4. ASSUME NEW c \in Loaders,
             \/ RefreshDecide(c) \/ LoadBegin(c) \/ ReadGeneration(c) \/ JoinOrLead(c)
             \/ Recheck(c) \/ AwaitCard(c) \/ Scan(c) \/ FinishFlight(c)
      PROVE  CardOK'
  BY <1>4 DEF RefreshDecide, LoadBegin, ReadGeneration, JoinOrLead, Recheck, AwaitCard, Scan,
     FinishFlight
<1>5. ASSUME NEW c \in Loaders, RefreshDrop(c) PROVE CardOK'
  BY <1>5 DEF RefreshDrop, Invalidate, Snapshot
<1>6. ASSUME NEW c \in Loaders, Store(c) PROVE CardOK'
  BY <1>6 DEF Store, LoadsOK
<1>7. ASSUME NEW c \in Loaders, StoreError(c) PROVE CardOK'
  BY <1>7 DEF StoreError
<1>8. ASSUME NEW c \in Listings,
             \/ RefreshProfiles(c) \/ AwaitCard(c) \/ Scan(c)
      PROVE  CardOK'
  BY <1>8 DEF RefreshProfiles, AwaitCard, Scan
<1>9. ASSUME NEW c \in Listings, StoreProfiles(c) PROVE CardOK'
  <2>1. snap[c] \in Snapshot  BY <1>9 DEF StoreProfiles, LoadsOK, ListingHasRead
  <2>2. /\ cache' = [snap[c] EXCEPT !.late = scanned[c] # generation]
        /\ UNCHANGED <<card, generation, reloading, dropped>>
    BY <1>9 DEF StoreProfiles
  <2>3. (scanned[c] # generation) \in BOOLEAN  OBVIOUS
  <2>4. cache' \in Snapshot  BY <2>1, <2>2, <2>3 DEF Snapshot
  <2>5. QED  BY <2>2, <2>4
<1>10. ASSUME NEW w \in Writers, NEW kind \in Kinds, NEW p \in Profiles \cup {NoProfile},
             LockOp(w, kind, p)
      PROVE  CardOK'
  BY <1>10 DEF LockOp
<1>11. ASSUME NEW w \in Writers, DeleteCheck(w) PROVE CardOK'
  BY <1>11 DEF DeleteCheck
<1>12. ASSUME NEW w \in Writers, CardWrite(w) PROVE CardOK'
  BY <1>12 DEF CardWrite, PlacesOK, Written, Snapshot
<1>12a. ASSUME NEW w \in Writers, DownloadFailed(w) PROVE CardOK'
  BY <1>12a DEF DownloadFailed, Invalidate, Snapshot
<1>12b. ASSUME NEW w \in Writers, ReleaseFailed(w) PROVE CardOK'
  BY <1>12b DEF ReleaseFailed, Forget
<1>13. ASSUME NEW w \in Writers, Publish(w) PROVE CardOK'
  BY <1>13 DEF Publish, PlacesOK, Invalidate, Snapshot
<1>14. ASSUME NEW w \in Writers, EndOp(w) PROVE CardOK'
  BY <1>14 DEF EndOp, TriggerReload
<1>15. ASSUME NEW w \in Writers, WarmOverviewAsync(w) PROVE CardOK'
  BY <1>15 DEF WarmOverviewAsync, TriggerReload
<1>16. CASE ReloadEnd
  BY <1>16 DEF ReloadEnd
<1>17. CASE ModemEvent
  <2>1. card.version \in Nat  BY DEF Snapshot
  <2>2. reloading' \in BOOLEAN  BY <1>17 DEF ModemEvent, TriggerReload
  <2>3. QED  BY <1>17, <2>1, <2>2 DEF ModemEvent, Invalidate
<1>18. QED
  BY <1>1, <1>2, <1>3, <1>4, <1>5, <1>6, <1>7, <1>8, <1>9, <1>10, <1>11, <1>12, <1>12a, <1>12b, <1>13, <1>14,
     <1>15, <1>16, <1>17
  DEF Next, LoadStep, WriteStep

\* opMu is held by an operation at work.
LEMMA PlacesStep == PlacesOK /\ [Next]_vars => PlacesOK'
<1> SUFFICES ASSUME PlacesOK, [Next]_vars PROVE PlacesOK'
  OBVIOUS
<1> USE DEF PlacesOK, Goto, Places, InFlight, Working
<1>1. CASE UNCHANGED vars  BY <1>1 DEF vars
<1>2. ASSUME NEW c \in Getters, Get(c) PROVE PlacesOK'
  BY <1>2, CallSets DEF Get
<1>3. ASSUME NEW c \in Refreshers, Refresh(c) PROVE PlacesOK'
  BY <1>3, CallSets DEF Refresh
<1>4. ASSUME NEW c \in Loaders, RefreshDecide(c) PROVE PlacesOK'
  BY <1>4, CallSets DEF RefreshDecide
<1>5. ASSUME NEW c \in Loaders, RefreshDrop(c) PROVE PlacesOK'
  BY <1>5, CallSets DEF RefreshDrop
<1>6. ASSUME NEW c \in Loaders, LoadBegin(c) PROVE PlacesOK'
  BY <1>6, CallSets DEF LoadBegin
<1>7. ASSUME NEW c \in Loaders, ReadGeneration(c) PROVE PlacesOK'
  BY <1>7, CallSets DEF ReadGeneration
<1>8. ASSUME NEW c \in Loaders, JoinOrLead(c) PROVE PlacesOK'
  BY <1>8, CallSets DEF JoinOrLead
<1>9. ASSUME NEW c \in Loaders, Recheck(c) PROVE PlacesOK'
  BY <1>9, CallSets DEF Recheck
<1>10. ASSUME NEW c \in Loaders, AwaitCard(c) PROVE PlacesOK'
  BY <1>10, CallSets DEF AwaitCard
<1>11. ASSUME NEW c \in Loaders, Scan(c) PROVE PlacesOK'
  BY <1>11, CallSets DEF Scan
<1>12. ASSUME NEW c \in Loaders, Store(c) PROVE PlacesOK'
  BY <1>12, CallSets DEF Store
<1>13. ASSUME NEW c \in Loaders, StoreError(c) PROVE PlacesOK'
  BY <1>13, CallSets DEF StoreError
<1>14. ASSUME NEW c \in Loaders, FinishFlight(c) PROVE PlacesOK'
  BY <1>14, CallSets DEF FinishFlight, Flight
<1>15. ASSUME NEW c \in Listings, RefreshProfiles(c) PROVE PlacesOK'
  BY <1>15, CallSets DEF RefreshProfiles
<1>16. ASSUME NEW c \in Listings, AwaitCard(c) PROVE PlacesOK'
  BY <1>16, CallSets DEF AwaitCard
<1>17. ASSUME NEW c \in Listings, Scan(c) PROVE PlacesOK'
  BY <1>17, CallSets DEF Scan
<1>18. ASSUME NEW c \in Listings, StoreProfiles(c) PROVE PlacesOK'
  BY <1>18, CallSets DEF StoreProfiles
<1>19. ASSUME NEW w \in Writers, NEW kind \in Kinds, NEW p \in Profiles \cup {NoProfile},
             LockOp(w, kind, p)
      PROVE  PlacesOK'
  BY <1>19, CallSets DEF LockOp
<1>20. ASSUME NEW w \in Writers, DeleteCheck(w) PROVE PlacesOK'
  BY <1>20, CallSets DEF DeleteCheck, Forget
<1>21. ASSUME NEW w \in Writers, CardWrite(w) PROVE PlacesOK'
  BY <1>21, CallSets DEF CardWrite, Forget
<1>21a. ASSUME NEW w \in Writers, DownloadFailed(w) PROVE PlacesOK'
  BY <1>21a, CallSets DEF DownloadFailed, Invalidate
<1>21b. ASSUME NEW w \in Writers, ReleaseFailed(w) PROVE PlacesOK'
  BY <1>21b, CallSets DEF ReleaseFailed, Forget
<1>22. ASSUME NEW w \in Writers, Publish(w) PROVE PlacesOK'
  BY <1>22, CallSets DEF Publish
<1>23. ASSUME NEW w \in Writers, EndOp(w) PROVE PlacesOK'
  BY <1>23, CallSets DEF EndOp, TriggerReload, Forget
<1>24. ASSUME NEW w \in Writers, WarmOverviewAsync(w) PROVE PlacesOK'
  BY <1>24, CallSets DEF WarmOverviewAsync, TriggerReload
<1>25. CASE ReloadEnd
  BY <1>25, CallSets DEF ReloadEnd
<1>26. CASE ModemEvent
  BY <1>26, CallSets DEF ModemEvent, TriggerReload
<1>27. QED
  BY <1>1, <1>2, <1>3, <1>4, <1>5, <1>6, <1>7, <1>8, <1>9, <1>10, <1>11, <1>12, <1>13, <1>14,
     <1>15, <1>16, <1>17, <1>18, <1>19, <1>20, <1>21, <1>21a, <1>21b, <1>22, <1>23, <1>24, <1>25, <1>26
  DEF Next, LoadStep, WriteStep

\* What a load has in hand keeps its type.
LEMMA LoadsStep == CardOK /\ LoadsOK /\ CardOK' /\ [Next]_vars => LoadsOK'
<1> SUFFICES ASSUME CardOK, LoadsOK, CardOK', [Next]_vars PROVE LoadsOK'
  OBVIOUS
<1> USE DEF LoadsOK, CardOK
<1>1. CASE UNCHANGED vars  BY <1>1 DEF vars, loading
<1>2. ASSUME NEW c \in Getters, Get(c) PROVE LoadsOK'
  BY <1>2, CallSets DEF Get, loading
<1>3. ASSUME NEW c \in Refreshers, Refresh(c) PROVE LoadsOK'
  BY <1>3, CallSets DEF Refresh, loading
<1>4. ASSUME NEW c \in Loaders,
             \/ JoinOrLead(c) \/ AwaitCard(c) \/ Store(c) \/ StoreError(c)
      PROVE  LoadsOK'
  BY <1>4 DEF JoinOrLead, AwaitCard, Store, StoreError, loading
<1>5. ASSUME NEW c \in Loaders, RefreshDecide(c) PROVE LoadsOK'
  BY <1>5 DEF RefreshDecide, loading
<1>6. ASSUME NEW c \in Loaders, RefreshDrop(c) PROVE LoadsOK'
  BY <1>6 DEF RefreshDrop, Invalidate, loading
<1>7. ASSUME NEW c \in Loaders, LoadBegin(c) PROVE LoadsOK'
  BY <1>7, CallSets DEF LoadBegin, loading
<1>8. ASSUME NEW c \in Loaders, ReadGeneration(c) PROVE LoadsOK'
  BY <1>8 DEF ReadGeneration, loading
<1>9. ASSUME NEW c \in Loaders, Recheck(c) PROVE LoadsOK'
  BY <1>9, CallSets DEF Recheck, loading
<1>10. ASSUME NEW c \in Loaders, Scan(c) PROVE LoadsOK'
  BY <1>10, CallSets DEF Scan, Snapshot, loading
<1>11. ASSUME NEW c \in Loaders, FinishFlight(c) PROVE LoadsOK'
  BY <1>11 DEF FinishFlight, loading
<1>12. ASSUME NEW c \in Listings,
             \/ RefreshProfiles(c) \/ AwaitCard(c)
      PROVE  LoadsOK'
  BY <1>12 DEF RefreshProfiles, AwaitCard, loading
<1>13. ASSUME NEW c \in Listings, Scan(c) PROVE LoadsOK'
  BY <1>13, CallSets DEF Scan, Snapshot, loading
<1>14. ASSUME NEW c \in Listings, StoreProfiles(c) PROVE LoadsOK'
  BY <1>14, CallSets DEF StoreProfiles, loading
<1>15. ASSUME NEW w \in Writers, NEW kind \in Kinds, NEW p \in Profiles \cup {NoProfile},
             LockOp(w, kind, p)
      PROVE  LoadsOK'
  BY <1>15 DEF LockOp, loading
<1>16. ASSUME NEW w \in Writers,
             \/ EndOp(w) \/ WarmOverviewAsync(w)
      PROVE  LoadsOK'
  BY <1>16 DEF EndOp, WarmOverviewAsync, loading
<1>17. ASSUME NEW w \in Writers, DeleteCheck(w) PROVE LoadsOK'
  BY <1>17 DEF DeleteCheck, loading
<1>18. ASSUME NEW w \in Writers, CardWrite(w) PROVE LoadsOK'
  BY <1>18 DEF CardWrite, loading
<1>18a. ASSUME NEW w \in Writers, DownloadFailed(w) PROVE LoadsOK'
  BY <1>18a DEF DownloadFailed, Invalidate, loading
<1>18b. ASSUME NEW w \in Writers, ReleaseFailed(w) PROVE LoadsOK'
  BY <1>18b DEF ReleaseFailed, Forget, loading
<1>19. ASSUME NEW w \in Writers, Publish(w) PROVE LoadsOK'
  BY <1>19 DEF Publish, Invalidate, loading
<1>20. CASE ReloadEnd
  BY <1>20, CallSets DEF ReloadEnd, loading
<1>21. CASE ModemEvent
  BY <1>21 DEF ModemEvent, Invalidate, loading
<1>22. QED
  BY <1>1, <1>2, <1>3, <1>4, <1>5, <1>6, <1>7, <1>8, <1>9, <1>10, <1>11, <1>12, <1>13, <1>14,
     <1>15, <1>16, <1>17, <1>18, <1>18a, <1>18b, <1>19, <1>20, <1>21
  DEF Next, LoadStep, WriteStep

\* Only a load of the current generation stores, and what it stores is new enough.
LEMMA CacheStep ==
    CardOK /\ PlacesOK /\ LoadsOK /\ CacheNotOlderThanInvalidation /\ FlightFresh /\ ListingHasRead
    /\ [Next]_vars => CacheNotOlderThanInvalidation'
<1> SUFFICES ASSUME CardOK, PlacesOK, LoadsOK, CacheNotOlderThanInvalidation, FlightFresh,
                    ListingHasRead, [Next]_vars
             PROVE  CacheNotOlderThanInvalidation'
  OBVIOUS
<1> USE DEF CacheNotOlderThanInvalidation
<1>1. CASE UNCHANGED vars  BY <1>1 DEF vars
<1>2. ASSUME NEW c \in Getters, Get(c) PROVE CacheNotOlderThanInvalidation'
  BY <1>2 DEF Get
<1>3. ASSUME NEW c \in Refreshers, Refresh(c) PROVE CacheNotOlderThanInvalidation'
  BY <1>3 DEF Refresh
<1>4. ASSUME NEW c \in Loaders,
             \/ RefreshDecide(c) \/ LoadBegin(c) \/ ReadGeneration(c) \/ JoinOrLead(c)
             \/ Recheck(c) \/ AwaitCard(c) \/ Scan(c) \/ FinishFlight(c)
      PROVE  CacheNotOlderThanInvalidation'
  BY <1>4 DEF RefreshDecide, LoadBegin, ReadGeneration, JoinOrLead, Recheck, AwaitCard, Scan,
     FinishFlight
<1>5. ASSUME NEW c \in Loaders, RefreshDrop(c) PROVE CacheNotOlderThanInvalidation'
  BY <1>5 DEF RefreshDrop, Invalidate
<1>6. ASSUME NEW c \in Loaders, Store(c) PROVE CacheNotOlderThanInvalidation'
  BY <1>6 DEF Store, FlightFresh, CardOK
<1>7. ASSUME NEW c \in Loaders, StoreError(c) PROVE CacheNotOlderThanInvalidation'
  BY <1>7 DEF StoreError
<1>8. ASSUME NEW c \in Listings,
             \/ RefreshProfiles(c) \/ AwaitCard(c) \/ Scan(c)
      PROVE  CacheNotOlderThanInvalidation'
  BY <1>8 DEF RefreshProfiles, AwaitCard, Scan
<1>9. ASSUME NEW c \in Listings, StoreProfiles(c) PROVE CacheNotOlderThanInvalidation'
  <2>1. /\ snap[c] \in Snapshot
        /\ scanned[c] = generation => snap[c].version >= dropped
    BY <1>9 DEF StoreProfiles, LoadsOK, ListingHasRead
  <2>2. cache' = [snap[c] EXCEPT !.late = scanned[c] # generation] /\ dropped' = dropped
    BY <1>9 DEF StoreProfiles
  <2>3. cache'.version = snap[c].version /\ (cache'.late <=> scanned[c] # generation)
    BY <2>1, <2>2 DEF Snapshot
  <2>4. QED  BY <2>1, <2>2, <2>3
<1>10. ASSUME NEW w \in Writers, NEW kind \in Kinds, NEW p \in Profiles \cup {NoProfile},
             LockOp(w, kind, p)
      PROVE  CacheNotOlderThanInvalidation'
  BY <1>10 DEF LockOp
<1>11. ASSUME NEW w \in Writers,
             \/ DeleteCheck(w) \/ CardWrite(w) \/ DownloadFailed(w) \/ ReleaseFailed(w)
             \/ EndOp(w) \/ WarmOverviewAsync(w)
      PROVE  CacheNotOlderThanInvalidation'
  BY <1>11 DEF DeleteCheck, CardWrite, DownloadFailed, ReleaseFailed, EndOp,
     WarmOverviewAsync, Invalidate
<1>12. ASSUME NEW w \in Writers, Publish(w) PROVE CacheNotOlderThanInvalidation'
  BY <1>12 DEF Publish, Invalidate, CardOK, Snapshot
<1>13. CASE ReloadEnd
  BY <1>13 DEF ReloadEnd
<1>14. CASE ModemEvent
  BY <1>14 DEF ModemEvent, Invalidate
<1>15. QED
  BY <1>1, <1>2, <1>3, <1>4, <1>5, <1>6, <1>7, <1>8, <1>9, <1>10, <1>11, <1>12, <1>13, <1>14
  DEF Next, LoadStep, WriteStep

\* A flight reads after its generation began, and so after all who share it began.
LEMMA FlightStep ==
    CardOK /\ PlacesOK /\ LoadsOK /\ CacheNotOlderThanInvalidation /\ FlightFresh
    /\ [Next]_vars => FlightFresh'
<1> SUFFICES ASSUME CardOK, PlacesOK, LoadsOK, CacheNotOlderThanInvalidation, FlightFresh,
                    [Next]_vars
             PROVE  FlightFresh'
  OBVIOUS
<1> USE DEF FlightFresh, FreshFor, PlacesOK, LoadsOK, Goto
<1>1. CASE UNCHANGED vars  BY <1>1 DEF vars, loading
<1>2. ASSUME NEW c \in Getters, Get(c) PROVE FlightFresh'
  BY <1>2, CallSets DEF Get, loading
<1>3. ASSUME NEW c \in Refreshers, Refresh(c) PROVE FlightFresh'
  BY <1>3, CallSets DEF Refresh, loading
<1>4. ASSUME NEW c \in Loaders, RefreshDecide(c) PROVE FlightFresh'
  BY <1>4, CallSets DEF RefreshDecide, loading
<1>5. ASSUME NEW c \in Loaders, RefreshDrop(c) PROVE FlightFresh'
  <2>1. \A l \in Loaders : gen[l] \in 0..generation /\ generation \in Nat  BY DEF CardOK
  <2>2. generation' = generation + 1 /\ snap' = snap /\ gen' = gen
    BY <1>5 DEF RefreshDrop, Invalidate
  <2>3. \A l \in Loaders : gen'[l] # generation'  BY <2>1, <2>2
  <2>4. pc'[c] = "begin" /\ \A l \in Loaders : l # c => pc'[l] = pc[l] /\ floor'[l] = floor[l]
    BY <1>5, CallSets DEF RefreshDrop
  <2>5. SUFFICES ASSUME NEW d \in Loaders, pc'[d] \in {"store", "finish"}, d # c
                 PROVE  /\ snap'[d] # None
                        /\ FreshFor(d, d)'
                        /\ \A l \in Loaders : pc'[l] \in {"do", "joined"} /\ gen'[l] = gen'[d]
                                              => FreshFor(d, l)'
    BY <2>3, <2>4
  <2>6. pc'[d] = pc[d] /\ floor'[d] = floor[d]  BY <2>4, <2>5
  <2>7. QED  BY <2>2, <2>4, <2>5, <2>6
<1>6. ASSUME NEW c \in Loaders, LoadBegin(c) PROVE FlightFresh'
  BY <1>6, CallSets DEF LoadBegin, loading
<1>7. ASSUME NEW c \in Loaders, ReadGeneration(c) PROVE FlightFresh'
  <2>1. /\ card.version \in Nat /\ dropped \in Nat /\ card.version >= dropped
        /\ \A l \in Loaders : floor[l] \in Nat /\ dropped >= floor[l]
    BY DEF CardOK, Snapshot
  <2>2. /\ snap' = snap /\ floor' = floor /\ generation' = generation /\ dropped' = dropped
        /\ \A l \in Loaders : l # c => gen'[l] = gen[l] /\ pc'[l] = pc[l]
        /\ gen'[c] = generation /\ pc'[c] = "do"
    BY <1>7, CallSets DEF ReadGeneration
  <2>3. SUFFICES ASSUME NEW d \in Loaders, pc'[d] \in {"store", "finish"}
                 PROVE  \A l \in Loaders : pc'[l] \in {"do", "joined"} /\ gen'[l] = gen'[d]
                                          => FreshFor(d, l)'
    BY <2>2
  <2>4. ASSUME NEW l \in Loaders, pc'[l] \in {"do", "joined"}, gen'[l] = gen'[d]
        PROVE  FreshFor(d, l)'
    <3>1. d # c /\ gen'[d] = gen[d] /\ pc'[d] = pc[d]  BY <2>2, <2>3
    <3>2. CASE l # c  BY <2>2, <2>3, <2>4, <3>1, <3>2
    <3>3. CASE l = c
      <4>1. gen[d] = generation  BY <2>2, <2>4, <3>1, <3>3
      <4>2. ~snap[d].late => snap[d].version >= dropped  BY <2>3, <3>1, <4>1
      <4>3. snap[d] \in Snapshot  BY <2>3, <3>1, CallSets
      <4>4. QED  BY <2>1, <2>2, <4>2, <4>3 DEF Snapshot
    <3>4. QED  BY <3>2, <3>3
  <2>5. QED  BY <2>4
<1>8. ASSUME NEW c \in Loaders, JoinOrLead(c) PROVE FlightFresh'
  BY <1>8, CallSets DEF JoinOrLead, loading
<1>9. ASSUME NEW c \in Loaders, Recheck(c) PROVE FlightFresh'
  <2>1. /\ card.version \in Nat /\ dropped \in Nat /\ card.version >= dropped
        /\ \A l \in Loaders : floor[l] \in Nat /\ dropped >= floor[l]
    BY DEF CardOK, Snapshot
  <2>2. /\ floor' = floor /\ generation' = generation /\ dropped' = dropped /\ gen' = gen
        /\ \A l \in Loaders : l # c => snap'[l] = snap[l] /\ pc'[l] = pc[l]
        /\ snap'[c] = cache /\ pc'[c] = IF cache = None THEN "waiting" ELSE "finish"
    BY <1>9, CallSets DEF Recheck
  <2>3. cache # None => cache \in Snapshot /\ (~cache.late => cache.version >= dropped)
    BY DEF CardOK, CacheNotOlderThanInvalidation
  <2>4. cache # None /\ ~cache.late => \A l \in Loaders : cache.version >= floor[l]
    BY <2>1, <2>3 DEF Snapshot
  <2>5. QED  BY <2>2, <2>3, <2>4
<1>10. ASSUME NEW c \in Loaders, AwaitCard(c) PROVE FlightFresh'
  BY <1>10, CallSets DEF AwaitCard, loading
<1>11. ASSUME NEW c \in Loaders, Scan(c) PROVE FlightFresh'
  <2>1. /\ card.version \in Nat /\ dropped \in Nat /\ card.version >= dropped
        /\ \A l \in Loaders : floor[l] \in Nat /\ dropped >= floor[l]
    BY DEF CardOK, Snapshot
  <2>2. /\ floor' = floor /\ generation' = generation /\ dropped' = dropped /\ gen' = gen
        /\ \A l \in Loaders : l # c => snap'[l] = snap[l] /\ pc'[l] = pc[l]
        /\ snap'[c] = card /\ pc'[c] = "store"
    BY <1>11, CallSets DEF Scan
  <2>3. snap'[c] \in Snapshot /\ snap'[c].version = card.version
    BY <2>2 DEF CardOK, Snapshot
  <2>4. snap'[c].version >= dropped /\ \A l \in Loaders : snap'[c].version >= floor[l]
    BY <2>1, <2>3
  <2>5. QED  BY <2>2, <2>3, <2>4, CallSets
<1>12. ASSUME NEW c \in Loaders, Store(c) PROVE FlightFresh'
  BY <1>12, CallSets DEF Store, loading
<1>13. ASSUME NEW c \in Loaders, StoreError(c) PROVE FlightFresh'
  BY <1>13, CallSets DEF StoreError, loading
<1>14. ASSUME NEW c \in Loaders, FinishFlight(c) PROVE FlightFresh'
  BY <1>14, CallSets DEF FinishFlight, loading
<1>15. ASSUME NEW c \in Listings, RefreshProfiles(c) PROVE FlightFresh'
  BY <1>15, CallSets DEF RefreshProfiles, loading
<1>16. ASSUME NEW c \in Listings, AwaitCard(c) PROVE FlightFresh'
  BY <1>16, CallSets DEF AwaitCard, loading
<1>17. ASSUME NEW c \in Listings, Scan(c) PROVE FlightFresh'
  BY <1>17, CallSets DEF Scan, loading
<1>18. ASSUME NEW c \in Listings, StoreProfiles(c) PROVE FlightFresh'
  BY <1>18, CallSets DEF StoreProfiles, loading
<1>19. ASSUME NEW w \in Writers, NEW kind \in Kinds, NEW p \in Profiles \cup {NoProfile},
             LockOp(w, kind, p)
      PROVE  FlightFresh'
  BY <1>19, CallSets DEF LockOp, loading
<1>20. ASSUME NEW w \in Writers, DeleteCheck(w) PROVE FlightFresh'
  BY <1>20, CallSets DEF DeleteCheck, loading
<1>21. ASSUME NEW w \in Writers, CardWrite(w) PROVE FlightFresh'
  BY <1>21, CallSets DEF CardWrite, loading
<1>21a. ASSUME NEW w \in Writers, DownloadFailed(w) PROVE FlightFresh'
  <2>1. \A l \in Loaders : gen[l] \in 0..generation /\ generation \in Nat  BY DEF CardOK
  <2>2. generation' = generation + 1 /\ snap' = snap /\ gen' = gen /\ floor' = floor
    BY <1>21a DEF DownloadFailed, Invalidate, loading
  <2>3. \A l \in Loaders : gen'[l] # generation'  BY <2>1, <2>2
  <2>4. \A l \in Loaders : pc'[l] = pc[l]  BY <1>21a, CallSets DEF DownloadFailed
  <2>5. QED  BY <2>2, <2>3, <2>4
<1>21b. ASSUME NEW w \in Writers, ReleaseFailed(w) PROVE FlightFresh'
  BY <1>21b, CallSets DEF ReleaseFailed, Forget, loading
<1>22. ASSUME NEW w \in Writers, Publish(w) PROVE FlightFresh'
  <2>1. CASE op[w] = "switch"  BY <1>22, <2>1, CallSets DEF Publish, loading
  <2>2. CASE op[w] # "switch"
    <3>1. \A l \in Loaders : gen[l] \in 0..generation /\ generation \in Nat  BY DEF CardOK
    <3>2. generation' = generation + 1 /\ snap' = snap /\ gen' = gen /\ floor' = floor
      BY <1>22, <2>2 DEF Publish, Invalidate, loading
    <3>3. \A l \in Loaders : gen'[l] # generation'  BY <3>1, <3>2
    <3>4. \A l \in Loaders : pc'[l] = pc[l]  BY <1>22, CallSets DEF Publish
    <3>5. QED  BY <3>2, <3>3, <3>4
  <2>3. QED  BY <2>1, <2>2
<1>23. ASSUME NEW w \in Writers, EndOp(w) PROVE FlightFresh'
  BY <1>23, CallSets DEF EndOp, TriggerReload, loading
<1>24. ASSUME NEW w \in Writers, WarmOverviewAsync(w) PROVE FlightFresh'
  BY <1>24, CallSets DEF WarmOverviewAsync, TriggerReload, loading
<1>25. CASE ReloadEnd
  BY <1>25, CallSets DEF ReloadEnd, loading
<1>26. CASE ModemEvent
  <2>1. \A l \in Loaders : gen[l] \in 0..generation /\ generation \in Nat  BY DEF CardOK
  <2>2. generation' = generation + 1 /\ snap' = snap /\ gen' = gen
    BY <1>26 DEF ModemEvent, Invalidate, loading
  <2>3. \A l \in Loaders : gen'[l] # generation'  BY <2>1, <2>2
  <2>4. \A l \in Loaders : /\ pc'[l] \in {"do", "joined", "store", "finish"} => pc'[l] = pc[l]
                            /\ floor'[l] = floor[l]
    BY <1>26, CallSets DEF ModemEvent, TriggerReload, loading
  <2>5. QED  BY <2>2, <2>3, <2>4
<1>27. QED
  BY <1>1, <1>2, <1>3, <1>4, <1>5, <1>6, <1>7, <1>8, <1>9, <1>10, <1>11, <1>12, <1>13, <1>14,
     <1>15, <1>16, <1>17, <1>18, <1>19, <1>20, <1>21, <1>21a, <1>21b, <1>22, <1>23, <1>24, <1>25, <1>26
  DEF Next, LoadStep, WriteStep

\* An invalidation overtakes every listing that has read the card.
LEMMA Overtakes ==
    ASSUME CardOK, LoadsOK, ListingHasRead, generation' = generation + 1,
           snap' = snap, scanned' = scanned,
           \A c \in Listings : pc'[c] = "store" => pc[c] = "store"
    PROVE  ListingHasRead'
<1>1. \A c \in Listings : scanned[c] \in 0..generation /\ generation \in Nat
  BY DEF CardOK, LoadsOK
<1>2. \A c \in Listings : scanned'[c] # generation'  BY <1>1
<1>3. QED  BY <1>2 DEF ListingHasRead

\* A listing stores what it has just read.
LEMMA ListingStep ==
    CardOK /\ PlacesOK /\ LoadsOK /\ ListingHasRead
    /\ [Next]_vars => ListingHasRead'
<1> SUFFICES ASSUME CardOK, PlacesOK, LoadsOK, ListingHasRead, [Next]_vars PROVE ListingHasRead'
  OBVIOUS
<1> USE DEF ListingHasRead, PlacesOK, LoadsOK, Goto
<1>1. CASE UNCHANGED vars  BY <1>1 DEF vars, loading
<1>2. ASSUME NEW c \in Getters, Get(c) PROVE ListingHasRead'
  BY <1>2, CallSets DEF Get, loading
<1>3. ASSUME NEW c \in Refreshers, Refresh(c) PROVE ListingHasRead'
  BY <1>3, CallSets DEF Refresh, loading
<1>4. ASSUME NEW c \in Loaders, RefreshDecide(c) PROVE ListingHasRead'
  BY <1>4, CallSets DEF RefreshDecide, loading
<1>5. ASSUME NEW c \in Loaders, RefreshDrop(c) PROVE ListingHasRead'
  <2>1. generation' = generation + 1 /\ snap' = snap /\ scanned' = scanned
    BY <1>5 DEF RefreshDrop, Invalidate
  <2>2. \A l \in Listings : pc'[l] = pc[l]  BY <1>5, CallSets DEF RefreshDrop
  <2>3. QED  BY <2>1, <2>2, Overtakes
<1>6. ASSUME NEW c \in Loaders, LoadBegin(c) PROVE ListingHasRead'
  BY <1>6, CallSets DEF LoadBegin, loading
<1>7. ASSUME NEW c \in Loaders, ReadGeneration(c) PROVE ListingHasRead'
  BY <1>7, CallSets DEF ReadGeneration, loading
<1>8. ASSUME NEW c \in Loaders, JoinOrLead(c) PROVE ListingHasRead'
  BY <1>8, CallSets DEF JoinOrLead, loading
<1>9. ASSUME NEW c \in Loaders, Recheck(c) PROVE ListingHasRead'
  BY <1>9, CallSets DEF Recheck, loading
<1>10. ASSUME NEW c \in Loaders, AwaitCard(c) PROVE ListingHasRead'
  BY <1>10, CallSets DEF AwaitCard, loading
<1>11. ASSUME NEW c \in Loaders, Scan(c) PROVE ListingHasRead'
  BY <1>11, CallSets DEF Scan, loading
<1>12. ASSUME NEW c \in Loaders, Store(c) PROVE ListingHasRead'
  BY <1>12, CallSets DEF Store, loading
<1>13. ASSUME NEW c \in Loaders, StoreError(c) PROVE ListingHasRead'
  BY <1>13, CallSets DEF StoreError, loading
<1>14. ASSUME NEW c \in Loaders, FinishFlight(c) PROVE ListingHasRead'
  BY <1>14, CallSets DEF FinishFlight, Flight, loading
<1>15. ASSUME NEW c \in Listings, RefreshProfiles(c) PROVE ListingHasRead'
  BY <1>15, CallSets DEF RefreshProfiles, loading
<1>16. ASSUME NEW c \in Listings, AwaitCard(c) PROVE ListingHasRead'
  BY <1>16, CallSets DEF AwaitCard, loading
<1>17. ASSUME NEW c \in Listings, Scan(c) PROVE ListingHasRead'
  BY <1>17, CallSets DEF Scan, CardOK, Snapshot, loading
<1>18. ASSUME NEW c \in Listings, StoreProfiles(c) PROVE ListingHasRead'
  BY <1>18, CallSets DEF StoreProfiles, loading
<1>19. ASSUME NEW w \in Writers, NEW kind \in Kinds, NEW p \in Profiles \cup {NoProfile},
             LockOp(w, kind, p)
      PROVE  ListingHasRead'
  BY <1>19, CallSets DEF LockOp, loading
<1>20. ASSUME NEW w \in Writers, DeleteCheck(w) PROVE ListingHasRead'
  BY <1>20, CallSets DEF DeleteCheck, loading
<1>21. ASSUME NEW w \in Writers, CardWrite(w) PROVE ListingHasRead'
  BY <1>21, CallSets DEF CardWrite, loading
<1>21a. ASSUME NEW w \in Writers, DownloadFailed(w) PROVE ListingHasRead'
  <2>1. generation' = generation + 1 /\ snap' = snap /\ scanned' = scanned
    BY <1>21a DEF DownloadFailed, Invalidate, loading
  <2>2. \A l \in Listings : pc'[l] = pc[l]  BY <1>21a, CallSets DEF DownloadFailed
  <2>3. QED  BY <2>1, <2>2, Overtakes
<1>21b. ASSUME NEW w \in Writers, ReleaseFailed(w) PROVE ListingHasRead'
  BY <1>21b, CallSets DEF ReleaseFailed, Forget, loading
<1>22. ASSUME NEW w \in Writers, Publish(w) PROVE ListingHasRead'
  <2>1. \A l \in Listings : pc'[l] = pc[l]  BY <1>22, CallSets DEF Publish
  <2>2. snap' = snap /\ scanned' = scanned  BY <1>22 DEF Publish, loading
  <2>3. CASE op[w] = "switch"  BY <1>22, <2>1, <2>2, <2>3 DEF Publish
  <2>4. CASE op[w] # "switch"
    <3>1. generation' = generation + 1  BY <1>22, <2>4 DEF Publish, Invalidate
    <3>2. QED  BY <2>1, <2>2, <3>1, Overtakes
  <2>5. QED  BY <2>3, <2>4
<1>23. ASSUME NEW w \in Writers, EndOp(w) PROVE ListingHasRead'
  BY <1>23, CallSets DEF EndOp, TriggerReload, loading
<1>24. ASSUME NEW w \in Writers, WarmOverviewAsync(w) PROVE ListingHasRead'
  BY <1>24, CallSets DEF WarmOverviewAsync, TriggerReload, loading
<1>25. CASE ReloadEnd
  BY <1>25, CallSets DEF ReloadEnd, loading
<1>26. CASE ModemEvent
  <2>1. generation' = generation + 1 /\ snap' = snap /\ scanned' = scanned
    BY <1>26 DEF ModemEvent, Invalidate, loading
  <2>2. \A l \in Listings : pc'[l] = pc[l]  BY <1>26, CallSets DEF ModemEvent, TriggerReload
  <2>3. QED  BY <2>1, <2>2, Overtakes
<1>27. QED
  BY <1>1, <1>2, <1>3, <1>4, <1>5, <1>6, <1>7, <1>8, <1>9, <1>10, <1>11, <1>12, <1>13, <1>14,
     <1>15, <1>16, <1>17, <1>18, <1>19, <1>20, <1>21, <1>21a, <1>21b, <1>22, <1>23, <1>24, <1>25, <1>26
  DEF Next, LoadStep, WriteStep

\* A load is answered with what its flight has in hand, or from a cache that is new enough.
LEMMA AnswerStep ==
    CardOK /\ PlacesOK /\ LoadsOK /\ CacheNotOlderThanInvalidation /\ FlightFresh /\ AnswerFresh
    /\ [Next]_vars => AnswerFresh'
<1> SUFFICES ASSUME CardOK, PlacesOK, LoadsOK, CacheNotOlderThanInvalidation, FlightFresh,
                    AnswerFresh, [Next]_vars
             PROVE  AnswerFresh'
  OBVIOUS
<1> USE DEF AnswerFresh, FreshFor, PlacesOK, LoadsOK, Goto
<1>1. CASE UNCHANGED vars  BY <1>1 DEF vars, loading
<1>2. ASSUME NEW c \in Getters, Get(c) PROVE AnswerFresh'
  BY <1>2, CallSets DEF Get, loading
<1>3. ASSUME NEW c \in Refreshers, Refresh(c) PROVE AnswerFresh'
  BY <1>3, CallSets DEF Refresh, loading
<1>4. ASSUME NEW c \in Loaders, RefreshDecide(c) PROVE AnswerFresh'
  BY <1>4, CallSets DEF RefreshDecide, loading
<1>5. ASSUME NEW c \in Loaders, RefreshDrop(c) PROVE AnswerFresh'
  BY <1>5, CallSets DEF RefreshDrop, loading
<1>6. ASSUME NEW c \in Loaders, LoadBegin(c) PROVE AnswerFresh'
  <2>1. /\ card.version \in Nat /\ dropped \in Nat /\ card.version >= dropped
        /\ \A l \in Loaders : floor[l] \in Nat /\ dropped >= floor[l]
    BY DEF CardOK, Snapshot
  <2>2. /\ floor' = floor
        /\ \A l \in Loaders : l # c => snap'[l] = snap[l] /\ pc'[l] = pc[l]
        /\ snap'[c] = cache /\ pc'[c] = IF cache = None THEN "keyed" ELSE "returned"
    BY <1>6, CallSets DEF LoadBegin
  <2>3. cache # None /\ ~cache.late => cache.version >= floor[c]
    BY <2>1 DEF CardOK, Snapshot, CacheNotOlderThanInvalidation
  <2>4. QED  BY <2>2, <2>3
<1>7. ASSUME NEW c \in Loaders, ReadGeneration(c) PROVE AnswerFresh'
  BY <1>7, CallSets DEF ReadGeneration, loading
<1>8. ASSUME NEW c \in Loaders, JoinOrLead(c) PROVE AnswerFresh'
  BY <1>8, CallSets DEF JoinOrLead, loading
<1>9. ASSUME NEW c \in Loaders, Recheck(c) PROVE AnswerFresh'
  BY <1>9, CallSets DEF Recheck, loading
<1>10. ASSUME NEW c \in Loaders, AwaitCard(c) PROVE AnswerFresh'
  BY <1>10, CallSets DEF AwaitCard, loading
<1>11. ASSUME NEW c \in Loaders, Scan(c) PROVE AnswerFresh'
  BY <1>11, CallSets DEF Scan, loading
<1>12. ASSUME NEW c \in Loaders, Store(c) PROVE AnswerFresh'
  BY <1>12, CallSets DEF Store, loading
<1>13. ASSUME NEW c \in Loaders, StoreError(c) PROVE AnswerFresh'
  BY <1>13, CallSets DEF StoreError, loading
<1>14. ASSUME NEW c \in Loaders, FinishFlight(c) PROVE AnswerFresh'
  BY <1>14, CallSets DEF FinishFlight, Flight, FlightFresh, loading
<1>15. ASSUME NEW c \in Listings, RefreshProfiles(c) PROVE AnswerFresh'
  BY <1>15, CallSets DEF RefreshProfiles, loading
<1>16. ASSUME NEW c \in Listings, AwaitCard(c) PROVE AnswerFresh'
  BY <1>16, CallSets DEF AwaitCard, loading
<1>17. ASSUME NEW c \in Listings, Scan(c) PROVE AnswerFresh'
  BY <1>17, CallSets DEF Scan, loading
<1>18. ASSUME NEW c \in Listings, StoreProfiles(c) PROVE AnswerFresh'
  BY <1>18, CallSets DEF StoreProfiles, loading
<1>19. ASSUME NEW w \in Writers, NEW kind \in Kinds, NEW p \in Profiles \cup {NoProfile},
             LockOp(w, kind, p)
      PROVE  AnswerFresh'
  BY <1>19, CallSets DEF LockOp, loading
<1>20. ASSUME NEW w \in Writers, DeleteCheck(w) PROVE AnswerFresh'
  BY <1>20, CallSets DEF DeleteCheck, loading
<1>21. ASSUME NEW w \in Writers, CardWrite(w) PROVE AnswerFresh'
  BY <1>21, CallSets DEF CardWrite, loading
<1>21a. ASSUME NEW w \in Writers, DownloadFailed(w) PROVE AnswerFresh'
  BY <1>21a, CallSets DEF DownloadFailed, Invalidate, loading
<1>21b. ASSUME NEW w \in Writers, ReleaseFailed(w) PROVE AnswerFresh'
  BY <1>21b, CallSets DEF ReleaseFailed, Forget, loading
<1>22. ASSUME NEW w \in Writers, Publish(w) PROVE AnswerFresh'
  BY <1>22, CallSets DEF Publish, loading
<1>23. ASSUME NEW w \in Writers, EndOp(w) PROVE AnswerFresh'
  BY <1>23, CallSets DEF EndOp, TriggerReload, loading
<1>24. ASSUME NEW w \in Writers, WarmOverviewAsync(w) PROVE AnswerFresh'
  BY <1>24, CallSets DEF WarmOverviewAsync, TriggerReload, loading
<1>25. CASE ReloadEnd
  BY <1>25, CallSets DEF ReloadEnd, loading
<1>26. CASE ModemEvent
  BY <1>26, CallSets DEF ModemEvent, TriggerReload, loading
<1>27. QED
  BY <1>1, <1>2, <1>3, <1>4, <1>5, <1>6, <1>7, <1>8, <1>9, <1>10, <1>11, <1>12, <1>13, <1>14,
     <1>15, <1>16, <1>17, <1>18, <1>19, <1>20, <1>21, <1>21a, <1>21b, <1>22, <1>23, <1>24, <1>25, <1>26
  DEF Next, LoadStep, WriteStep

\* The goroutine sets the flag when it starts and clears it when it ends.
LEMMA ReloadStep ==
    CardOK /\ PlacesOK /\ ReloadFlagHasGoroutine
    /\ [Next]_vars => ReloadFlagHasGoroutine'
<1> SUFFICES ASSUME CardOK, PlacesOK, ReloadFlagHasGoroutine, [Next]_vars
             PROVE  ReloadFlagHasGoroutine'
  OBVIOUS
<1> USE DEF ReloadFlagHasGoroutine, CardOK, PlacesOK, Goto
<1>1. CASE UNCHANGED vars  BY <1>1 DEF vars
<1>2. ASSUME NEW c \in Getters, Get(c) PROVE ReloadFlagHasGoroutine'
  BY <1>2, CallSets DEF Get
<1>3. ASSUME NEW c \in Refreshers, Refresh(c) PROVE ReloadFlagHasGoroutine'
  BY <1>3, CallSets DEF Refresh
<1>4. ASSUME NEW c \in Loaders, RefreshDecide(c) PROVE ReloadFlagHasGoroutine'
  BY <1>4, CallSets DEF RefreshDecide
<1>5. ASSUME NEW c \in Loaders, RefreshDrop(c) PROVE ReloadFlagHasGoroutine'
  BY <1>5, CallSets DEF RefreshDrop
<1>6. ASSUME NEW c \in Loaders, LoadBegin(c) PROVE ReloadFlagHasGoroutine'
  BY <1>6, CallSets DEF LoadBegin
<1>7. ASSUME NEW c \in Loaders, ReadGeneration(c) PROVE ReloadFlagHasGoroutine'
  BY <1>7, CallSets DEF ReadGeneration
<1>8. ASSUME NEW c \in Loaders, JoinOrLead(c) PROVE ReloadFlagHasGoroutine'
  BY <1>8, CallSets DEF JoinOrLead
<1>9. ASSUME NEW c \in Loaders, Recheck(c) PROVE ReloadFlagHasGoroutine'
  BY <1>9, CallSets DEF Recheck
<1>10. ASSUME NEW c \in Loaders, AwaitCard(c) PROVE ReloadFlagHasGoroutine'
  BY <1>10, CallSets DEF AwaitCard
<1>11. ASSUME NEW c \in Loaders, Scan(c) PROVE ReloadFlagHasGoroutine'
  BY <1>11, CallSets DEF Scan
<1>12. ASSUME NEW c \in Loaders, Store(c) PROVE ReloadFlagHasGoroutine'
  BY <1>12, CallSets DEF Store
<1>13. ASSUME NEW c \in Loaders, StoreError(c) PROVE ReloadFlagHasGoroutine'
  BY <1>13, CallSets DEF StoreError
<1>14. ASSUME NEW c \in Loaders, FinishFlight(c) PROVE ReloadFlagHasGoroutine'
  BY <1>14, CallSets DEF FinishFlight, Flight
<1>15. ASSUME NEW c \in Listings, RefreshProfiles(c) PROVE ReloadFlagHasGoroutine'
  BY <1>15, CallSets DEF RefreshProfiles
<1>16. ASSUME NEW c \in Listings, AwaitCard(c) PROVE ReloadFlagHasGoroutine'
  BY <1>16, CallSets DEF AwaitCard
<1>17. ASSUME NEW c \in Listings, Scan(c) PROVE ReloadFlagHasGoroutine'
  BY <1>17, CallSets DEF Scan
<1>18. ASSUME NEW c \in Listings, StoreProfiles(c) PROVE ReloadFlagHasGoroutine'
  BY <1>18, CallSets DEF StoreProfiles
<1>19. ASSUME NEW w \in Writers, NEW kind \in Kinds, NEW p \in Profiles \cup {NoProfile},
             LockOp(w, kind, p)
      PROVE  ReloadFlagHasGoroutine'
  BY <1>19, CallSets DEF LockOp
<1>20. ASSUME NEW w \in Writers, DeleteCheck(w) PROVE ReloadFlagHasGoroutine'
  BY <1>20, CallSets DEF DeleteCheck
<1>21. ASSUME NEW w \in Writers, CardWrite(w) PROVE ReloadFlagHasGoroutine'
  BY <1>21, CallSets DEF CardWrite
<1>21a. ASSUME NEW w \in Writers, DownloadFailed(w) PROVE ReloadFlagHasGoroutine'
  BY <1>21a, CallSets DEF DownloadFailed, Invalidate
<1>21b. ASSUME NEW w \in Writers, ReleaseFailed(w) PROVE ReloadFlagHasGoroutine'
  BY <1>21b, CallSets DEF ReleaseFailed, Forget
<1>22. ASSUME NEW w \in Writers, Publish(w) PROVE ReloadFlagHasGoroutine'
  BY <1>22, CallSets DEF Publish
<1>23. ASSUME NEW w \in Writers, EndOp(w) PROVE ReloadFlagHasGoroutine'
  BY <1>23, CallSets DEF EndOp, TriggerReload
<1>24. ASSUME NEW w \in Writers, WarmOverviewAsync(w) PROVE ReloadFlagHasGoroutine'
  BY <1>24, CallSets DEF WarmOverviewAsync, TriggerReload
<1>25. CASE ReloadEnd
  BY <1>25, CallSets DEF ReloadEnd
<1>26. CASE ModemEvent
  BY <1>26, CallSets DEF ModemEvent, TriggerReload
<1>27. QED
  BY <1>1, <1>2, <1>3, <1>4, <1>5, <1>6, <1>7, <1>8, <1>9, <1>10, <1>11, <1>12, <1>13, <1>14,
     <1>15, <1>16, <1>17, <1>18, <1>19, <1>20, <1>21, <1>21a, <1>21b, <1>22, <1>23, <1>24, <1>25, <1>26
  DEF Next, LoadStep, WriteStep

\* Every step keeps the invariant.
LEMMA NextIInv == IInv /\ [Next]_vars => IInv'
<1> SUFFICES ASSUME IInv, [Next]_vars PROVE IInv'
  OBVIOUS
<1> USE DEF IInv
<1>1. CardOK' /\ PlacesOK'  BY CardStep, PlacesStep
<1>2. LoadsOK'  BY <1>1, LoadsStep
<1>3. CacheNotOlderThanInvalidation' /\ FlightFresh' /\ ListingHasRead' /\ AnswerFresh'
  BY CacheStep, FlightStep, ListingStep, AnswerStep
<1>4. ReloadFlagHasGoroutine'  BY ReloadStep
<1>5. QED  BY <1>1, <1>2, <1>3, <1>4

-----------------------------------------------------------------------------
(* What the overview promises.                                             *)

\* The invariant holds of every behaviour.
THEOREM Inductive == Spec => []IInv
<1>1. QED  BY InitIInv, NextIInv, PTL DEF Spec

\* Type correctness, for any number of calls and generations.
THEOREM TypeCorrect == Spec => []TypeOK
<1>1. IInv => TypeOK  BY DEF IInv, CardOK, PlacesOK, LoadsOK, TypeOK
<1>2. QED  BY <1>1, Inductive, PTL

\* What the cache holds was read after the last invalidation, however late a load
\* stores it (setOverviewCache), unless RefreshProfiles stored it and the invalidation
\* came between its scan and its store.
THEOREM CacheIsFresh == Spec => []CacheNotOlderThanInvalidation
<1>1. IInv => CacheNotOlderThanInvalidation  BY DEF IInv
<1>2. QED  BY <1>1, Inductive, PTL

\* No load is answered with a scan from before an invalidation that it began after,
\* neither from the cache nor by joining a flight (loadOverview), unless it is the
\* scan of a RefreshProfiles that an invalidation overtook before its store.
THEOREM LoadIsFresh == Spec => []LoadNotOlderThanInvalidation
<1>1. IInv => LoadNotOlderThanInvalidation
  BY DEF IInv, AnswerFresh, FreshFor, LoadNotOlderThanInvalidation
<1>2. QED  BY <1>1, Inductive, PTL

\* overviewReloading is set exactly while its goroutine is there.
THEOREM ReloadFlagIsOwned == Spec => []ReloadFlagHasGoroutine
<1>1. IInv => ReloadFlagHasGoroutine  BY DEF IInv
<1>2. QED  BY <1>1, Inductive, PTL
=============================================================================
