---------------------------- MODULE EsimOverview ----------------------------
(***************************************************************************)
(* The profile overview of one eSIM manager and its cache:                 *)
(* internal/esim/manager.go.                                               *)
(*                                                                         *)
(* loadOverview answers from the cache or scans the card, once per         *)
(* generation at a time (singleflight keyed by overviewGeneration), and    *)
(* stores what it read if the generation has not moved.  Card operations   *)
(* run under opMu and end by dropping the cache (a new generation) or, for *)
(* a switch, by patching the enabled profile in it; RefreshProfiles stores *)
(* what it read whatever the generation.  Each step is one critical        *)
(* section of cacheMu, of the singleflight group, or one scan of the card. *)
(***************************************************************************)
EXTENDS Naturals

CONSTANTS
    Profiles,       \* the profiles on the eUICC
    NoProfile,      \* none of them is enabled
    Getters,        \* calls of GetEsimOverview and GetProfiles
    Refreshers,     \* calls of RefreshOverview
    Listings,       \* calls of RefreshProfiles
    Reload,         \* the goroutine of triggerOverviewReload
    Writers,        \* card operations
    Kinds,          \* what they do: "switch", "disable", "rename", "download" or "delete"
    None,
    MaxGeneration   \* bound: unsolicited invalidations stop at this generation

Loaders == Getters \cup Refreshers \cup {Reload}
Calls == Loaders \cup Listings \cup Writers

ASSUME KindsAssumption == Kinds \subseteq {"switch", "disable", "rename", "download", "delete"}

\* What a scan of the card finds: the enabled profile, and a version that counts
\* the downloads, renames and deletions so far.  "late" is history: it was put into
\* the cache by a RefreshProfiles that an invalidation had overtaken since its scan.
Snapshot == [version : Nat, active : Profiles \cup {NoProfile}, late : BOOLEAN]

\* A call is of one kind, and nil is neither a call nor an overview.
ASSUME CallsAssumption ==
    /\ Reload \notin Getters \cup Refreshers
    /\ Loaders \cap Listings = {} /\ Loaders \cap Writers = {} /\ Listings \cap Writers = {}
    /\ None \notin Calls /\ None \notin Snapshot

VARIABLES
    card,           \* what a scan would find now
    cache,          \* overviewCache, or None
    generation,     \* overviewGeneration
    reloading,      \* overviewReloading
    opMu,           \* the card operation that holds opMu, or None
    pc,             \* where each call stands
    op,             \* what each card operation does
    target,         \* and to which profile
    gen,            \* the generation a load has read
    snap,           \* what a load or listing has in hand, or None
    pending,        \* refreshes that found a reload under way when they began
    scanned,        \* history: the generation at a listing's scan
    dropped,        \* history: the card's version at the last invalidation
    floor           \* history: dropped as it stood when a load began

loading == <<gen, snap, pending, floor, scanned>>
vars == <<card, cache, generation, reloading, opMu, pc, op, target, dropped, loading>>

InFlight == {"lead", "waiting", "scan", "store", "storeError", "finish", "finishError"}
Places == InFlight \cup {"idle", "decide", "drop", "begin", "keyed", "do", "joined",
                         "returned", "failed", "check", "write", "publish", "end",
                         "spoilt", "release",
                         "after", "rejected", "done"}

Working == {"check", "write", "publish", "end", "spoilt", "release"}

Init ==
    /\ card \in [version : {0}, active : Profiles, late : {FALSE}]
    /\ cache = None
    /\ generation = 0
    /\ reloading = FALSE
    /\ opMu = None
    /\ pc = [c \in Calls |-> "idle"]
    /\ op = [w \in Writers |-> "none"]
    /\ target = [w \in Writers |-> NoProfile]
    /\ gen = [c \in Loaders |-> 0]
    /\ snap = [c \in Loaders \cup Listings |-> None]
    /\ pending = {}
    /\ scanned = [c \in Listings |-> 0]
    /\ dropped = 0
    /\ floor = [c \in Loaders |-> 0]

Goto(c, place) == pc' = [pc EXCEPT ![c] = place]

\* invalidateOverviewCache, and clearHardwareDiscoveryCachesLocked.
Invalidate ==
    /\ generation' = generation + 1
    /\ cache' = None
    /\ dropped' = card.version

\* triggerOverviewReload: nothing happens while a reload is under way.
TriggerReload(f) ==
    /\ reloading' = TRUE
    /\ pc' = IF reloading THEN f ELSE [f EXCEPT ![Reload] = "begin"]

-----------------------------------------------------------------------------
(* loadOverview.                                                           *)

Get(c) ==
    /\ c \in Getters
    /\ pc[c] = "idle"
    /\ Goto(c, "begin")
    /\ floor' = [floor EXCEPT ![c] = dropped]
    /\ UNCHANGED <<card, cache, generation, reloading, opMu, op, target, gen, snap, pending,
                   dropped, scanned>>

\* RefreshOverview: with a reload under way it only loads; otherwise it starts a
\* new generation.  Its wait for the suppression window is left to the scheduler.
Refresh(c) ==
    /\ c \in Refreshers
    /\ pc[c] = "idle"
    /\ pending' = IF reloading THEN pending \cup {c} ELSE pending
    /\ floor' = [floor EXCEPT ![c] = dropped]
    /\ Goto(c, "decide")
    /\ UNCHANGED <<card, cache, generation, reloading, opMu, op, target, gen, snap, dropped,
                   scanned>>

RefreshDecide(c) ==
    /\ pc[c] = "decide"
    /\ Goto(c, IF c \in pending \/ reloading THEN "begin" ELSE "drop")
    /\ pending' = pending \ {c}
    /\ UNCHANGED <<card, cache, generation, reloading, opMu, op, target, gen, snap, dropped,
                   floor, scanned>>

RefreshDrop(c) ==
    /\ pc[c] = "drop"
    /\ Invalidate
    /\ floor' = [floor EXCEPT ![c] = card.version]
    /\ Goto(c, "begin")
    /\ UNCHANGED <<card, reloading, opMu, op, target, gen, snap, pending, scanned>>

\* cachedOverview: a hit is the answer.
LoadBegin(c) ==
    /\ pc[c] = "begin"
    /\ Goto(c, IF cache = None THEN "keyed" ELSE "returned")
    /\ snap' = [snap EXCEPT ![c] = cache]
    /\ UNCHANGED <<card, cache, generation, reloading, opMu, op, target, gen, pending,
                   dropped, floor, scanned>>

ReadGeneration(c) ==
    /\ pc[c] = "keyed"
    /\ gen' = [gen EXCEPT ![c] = generation]
    /\ Goto(c, "do")
    /\ UNCHANGED <<card, cache, generation, reloading, opMu, op, target, snap, pending,
                   dropped, floor, scanned>>

\* Mutant: one flight for all generations.
SharedFlight(c) ==
    /\ pc[c] = "do"
    /\ \/ /\ \A l \in Loaders : pc[l] \notin InFlight
          /\ Goto(c, "lead")
          /\ UNCHANGED gen
       \/ \E l \in Loaders : /\ pc[l] \in InFlight
                              /\ Goto(c, "joined")
                              /\ gen' = [gen EXCEPT ![c] = gen[l]]
    /\ UNCHANGED <<card, cache, generation, reloading, opMu, op, target, snap, pending,
                   dropped, floor, scanned>>

\* sf.Do with the generation in its key.
JoinOrLead(c) ==
    /\ pc[c] = "do"
    /\ Goto(c, IF \E l \in Loaders : pc[l] \in InFlight /\ gen[l] = gen[c]
               THEN "joined" ELSE "lead")
    /\ UNCHANGED <<card, cache, generation, reloading, opMu, op, target, loading, dropped>>

\* The flight looks at the cache again.
Recheck(c) ==
    /\ pc[c] = "lead"
    /\ snap' = [snap EXCEPT ![c] = cache]
    /\ Goto(c, IF cache = None THEN "waiting" ELSE "finish")
    /\ UNCHANGED <<card, cache, generation, reloading, opMu, op, target, gen, pending,
                   dropped, floor, scanned>>

\* waitForNoWriteOperation and waitForAPDUIdleForRead, see EsimOps and Arbiter;
\* either may give up.
AwaitCard(c) ==
    /\ pc[c] = "waiting"
    /\ \/ opMu = None /\ Goto(c, "scan")
       \/ Goto(c, IF c \in Listings THEN "done" ELSE "storeError")
    /\ UNCHANGED <<card, cache, generation, reloading, opMu, op, target, loading, dropped>>

\* The moment at which the profile list is read off the card.
Scan(c) ==
    /\ pc[c] = "scan"
    /\ snap' = [snap EXCEPT ![c] = card]
    /\ scanned' = [l \in Listings |-> IF l = c THEN generation ELSE scanned[l]]
    /\ Goto(c, "store")
    /\ UNCHANGED <<card, cache, generation, reloading, opMu, op, target, gen, pending,
                   dropped, floor>>

\* Mutant: the result of an older generation is stored too.
StoreAnyway(c) ==
    /\ c \in Loaders
    /\ pc[c] = "store"
    /\ cache' = snap[c]
    /\ Goto(c, "finish")
    /\ UNCHANGED <<card, generation, reloading, opMu, op, target, loading, dropped>>

\* setOverviewCache.
Store(c) ==
    /\ c \in Loaders
    /\ pc[c] = "store"
    /\ cache' = IF gen[c] = generation THEN snap[c] ELSE cache
    /\ Goto(c, "finish")
    /\ UNCHANGED <<card, generation, reloading, opMu, op, target, loading, dropped>>

\* A failed load stores its error, and nothing in place of the overview.
StoreError(c) ==
    /\ pc[c] = "storeError"
    /\ cache' = IF gen[c] = generation THEN None ELSE cache
    /\ Goto(c, "finishError")
    /\ UNCHANGED <<card, generation, reloading, opMu, op, target, loading, dropped>>

Flight(c) == {c} \cup {l \in Loaders : pc[l] = "joined" /\ gen[l] = gen[c]}

\* The flight ends: the leader and all who joined it get its result.
FinishFlight(c) ==
    /\ pc[c] \in {"finish", "finishError"}
    /\ pc' = [l \in Calls |-> IF l \notin Flight(c) THEN pc[l]
                              ELSE IF pc[c] = "finish" THEN "returned" ELSE "failed"]
    /\ snap' = [l \in Loaders \cup Listings |-> IF l \in Flight(c) THEN snap[c] ELSE snap[l]]
    /\ gen' = [l \in Loaders |-> IF l \in Flight(c) THEN 0 ELSE gen[l]]
    /\ UNCHANGED <<card, cache, generation, reloading, opMu, op, target, pending, dropped,
                   floor, scanned>>

\* Mutant: a reload that failed leaves overviewReloading set.
ReloadEndIfOK ==
    /\ pc[Reload] \in {"returned", "failed"}
    /\ reloading' = (pc[Reload] = "failed")
    /\ Goto(Reload, "idle")
    /\ snap' = [snap EXCEPT ![Reload] = None]
    /\ UNCHANGED <<card, cache, generation, opMu, op, target, gen, pending, dropped, floor,
                   scanned>>

\* The deferred end of the reload goroutine, and of its locals.
ReloadEnd ==
    /\ pc[Reload] \in {"returned", "failed"}
    /\ reloading' = FALSE
    /\ Goto(Reload, "idle")
    /\ snap' = [snap EXCEPT ![Reload] = None]
    /\ UNCHANGED <<card, cache, generation, opMu, op, target, gen, pending, dropped, floor,
                   scanned>>

-----------------------------------------------------------------------------
(* RefreshProfiles.                                                        *)

RefreshProfiles(c) ==
    /\ c \in Listings
    /\ pc[c] = "idle"
    /\ Goto(c, "waiting")
    /\ UNCHANGED <<card, cache, generation, reloading, opMu, op, target, loading, dropped>>

\* What was read goes into the cache, into a new overview if there is none, and
\* whatever the generation.
StoreProfiles(c) ==
    /\ c \in Listings
    /\ pc[c] = "store"
    /\ cache' = [snap[c] EXCEPT !.late = scanned[c] # generation]
    /\ snap' = [snap EXCEPT ![c] = None]
    /\ scanned' = [scanned EXCEPT ![c] = 0]
    /\ Goto(c, "done")
    /\ UNCHANGED <<card, generation, reloading, opMu, op, target, gen, pending, dropped, floor>>

-----------------------------------------------------------------------------
(* Card operations.                                                        *)

\* A deletion first asks the cache whether the profile is the enabled one; a
\* download names no profile.
LockOp(w, kind, p) ==
    /\ pc[w] = "idle"
    /\ kind = "download" <=> p = NoProfile
    /\ opMu = None
    /\ opMu' = w
    /\ op' = [op EXCEPT ![w] = kind]
    /\ target' = [target EXCEPT ![w] = p]
    /\ Goto(w, IF kind = "delete" THEN "check" ELSE "write")
    /\ UNCHANGED <<card, cache, generation, reloading, loading, dropped>>

\* The operation's locals end with it.
Forget(w) == /\ op' = [op EXCEPT ![w] = "none"]
             /\ target' = [target EXCEPT ![w] = NoProfile]

\* The early return of DeleteProfile, which trusts the cached overview.
DeleteCheck(w) ==
    /\ pc[w] = "check"
    /\ IF cache # None /\ cache.active = target[w]
       THEN Goto(w, "rejected") /\ opMu' = None /\ Forget(w)
       ELSE Goto(w, "write") /\ UNCHANGED <<opMu, op, target>>
    /\ UNCHANGED <<card, cache, generation, reloading, loading, dropped>>

Written(w) ==
    CASE op[w] = "switch"  -> [card EXCEPT !.active = target[w]]
      [] op[w] = "disable" -> [card EXCEPT !.active = IF @ = target[w] THEN NoProfile ELSE @]
      [] OTHER             -> [card EXCEPT !.version = @ + 1]

\* The card executes the operation, or refuses it, as it does for the deletion of
\* the enabled profile.  A download may fail with the profile on the card.
CardWrite(w) ==
    /\ pc[w] = "write"
    /\ \/ /\ op[w] = "delete" => card.active # target[w]
          /\ card' = Written(w)
          /\ Goto(w, "publish")
          /\ UNCHANGED <<opMu, op, target>>
       \/ /\ Goto(w, "done")
          /\ opMu' = None
          /\ Forget(w)
          /\ UNCHANGED card
       \/ /\ op[w] = "download"
          /\ card' \in {card, Written(w)}
          /\ Goto(w, "spoilt")
          /\ UNCHANGED <<opMu, op, target>>
    /\ UNCHANGED <<cache, generation, reloading, loading, dropped>>

\* A download that failed on the card invalidates too, but starts no reload.
DownloadFailed(w) ==
    /\ pc[w] = "spoilt"
    /\ Invalidate
    /\ Goto(w, "release")
    /\ UNCHANGED <<card, reloading, opMu, op, target, loading>>

ReleaseFailed(w) ==
    /\ pc[w] = "release"
    /\ opMu' = None
    /\ Forget(w)
    /\ Goto(w, "done")
    /\ UNCHANGED <<card, cache, generation, reloading, loading, dropped>>

\* patchCachedActiveProfile leaves the generation alone; the others invalidate.
Publish(w) ==
    /\ pc[w] = "publish"
    /\ Goto(w, "end")
    /\ IF op[w] = "switch"
       THEN /\ cache' = IF cache = None THEN None ELSE [cache EXCEPT !.active = target[w]]
            /\ UNCHANGED <<generation, dropped>>
       ELSE Invalidate
    /\ UNCHANGED <<card, reloading, opMu, op, target, loading>>

EndOp(w) ==
    /\ pc[w] = "end"
    /\ opMu' = None
    /\ IF op[w] = "switch" THEN Goto(w, "after") /\ UNCHANGED reloading
       ELSE TriggerReload([pc EXCEPT ![w] = "done"])
    /\ Forget(w)
    /\ UNCHANGED <<card, cache, generation, loading, dropped>>

\* WarmOverviewAsync, at the end of the pool's After hook of the switch.
WarmOverviewAsync(w) ==
    /\ pc[w] = "after"
    /\ TriggerReload([pc EXCEPT ![w] = "done"])
    /\ UNCHANGED <<card, cache, generation, opMu, op, target, loading, dropped>>

\* NotifyUIMIndication and NotifyModemReset.  Within the suppression window the
\* first does nothing and the second does not reload.
ModemEvent ==
    /\ generation < MaxGeneration
    /\ Invalidate
    /\ \/ TriggerReload(pc)
       \/ UNCHANGED <<reloading, pc>>
    /\ UNCHANGED <<card, opMu, op, target, loading>>

LoadStep(c) == \/ RefreshDecide(c) \/ RefreshDrop(c) \/ LoadBegin(c) \/ ReadGeneration(c)
               \/ JoinOrLead(c) \/ Recheck(c) \/ AwaitCard(c) \/ Scan(c)
               \/ Store(c) \/ StoreError(c) \/ FinishFlight(c)
WriteStep(w) == \/ DeleteCheck(w) \/ CardWrite(w) \/ DownloadFailed(w) \/ ReleaseFailed(w)
                \/ Publish(w) \/ EndOp(w) \/ WarmOverviewAsync(w)

Next ==
    \/ \E c \in Getters : Get(c)
    \/ \E c \in Refreshers : Refresh(c)
    \/ \E c \in Loaders : LoadStep(c)
    \/ ReloadEnd
    \/ \E c \in Listings : RefreshProfiles(c) \/ AwaitCard(c) \/ Scan(c) \/ StoreProfiles(c)
    \/ \E w \in Writers, kind \in Kinds, p \in Profiles \cup {NoProfile} : LockOp(w, kind, p)
    \/ \E w \in Writers : WriteStep(w)
    \/ ModemEvent

Spec == Init /\ [][Next]_vars

-----------------------------------------------------------------------------
(* Properties.                                                             *)

\* Every variable has its type, and opMu is held by an operation at work.
TypeOK ==
    /\ card \in Snapshot
    /\ cache \in Snapshot \cup {None}
    /\ generation \in Nat
    /\ reloading \in BOOLEAN
    /\ opMu \in {w \in Writers : pc[w] \in Working} \cup {None}
    /\ pc \in [Calls -> Places]
    /\ op \in [Writers -> Kinds \cup {"none"}]
    /\ target \in [Writers -> Profiles \cup {NoProfile}]
    /\ gen \in [Loaders -> 0..generation]
    /\ snap \in [Loaders \cup Listings -> Snapshot \cup {None}]
    /\ pending \subseteq Refreshers
    /\ scanned \in [Listings -> 0..generation]
    /\ dropped \in 0..card.version
    /\ floor \in [Loaders -> 0..dropped]

\* TestInvalidateOverviewCacheDiscardsOlderReloadResult, for every interleaving:
\* what is in the cache was read after the last invalidation, with one exception.
\* RefreshProfiles does not compare generations (see FreshSnapshotPreserved), so a
\* listing that was overtaken by an invalidation between its scan and its store
\* leaves what is older; nothing else does, a listing not so overtaken included.
CacheNotOlderThanInvalidation ==
    cache # None /\ ~cache.late => cache.version >= dropped

\* A load that begins after an invalidation is not answered with an older scan,
\* from the cache, by joining a flight that began before it or by one that read the
\* cache again; except with what such an overtaken listing had put into the cache.
LoadNotOlderThanInvalidation ==
    \A c \in Loaders : pc[c] = "returned" /\ ~snap[c].late
                       => snap[c].version >= floor[c]

\* The test's "nil after invalidation racing old reload", of all that fills the cache
\* and not of loads alone: a fresh cache does not become one that is older than the
\* last invalidation.  The code breaks this: RefreshProfiles stores what it scanned
\* before the invalidation over nothing, or over what a reload has read since.
FreshSnapshotPreserved ==
    [][(cache = None \/ cache.version >= dropped) /\ cache' # None
       => cache'.version >= dropped']_vars

\* The reload flag is set exactly while the goroutine it stands for is there: one that
\* stayed set would mute every later reload.
ReloadFlagHasGoroutine == reloading <=> pc[Reload] # "idle"

\* DeleteProfile tells its caller that the enabled profile cannot be deleted: it says
\* so only of the enabled profile.  The code breaks this: a scan made before a
\* switch is stored after it, for the switch's patch starts no new generation.
RejectsOnlyTheEnabledProfile ==
    [][\A w \in Writers : pc[w] = "check" /\ pc'[w] = "rejected"
                          => card.active = target[w]]_vars
=============================================================================
