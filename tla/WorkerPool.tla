----------------------------- MODULE WorkerPool -----------------------------
(***************************************************************************)
(* How the device pool adds, removes, rebuilds and recovers the worker of  *)
(* one device: device/pool.go, pool_bootstrap.go, pool_reboot_recovery.go  *)
(* and transport_recovery_controller.go.                                   *)
(*                                                                         *)
(* A thread is a goroutine that runs one operation of the pool: an API     *)
(* handler, the health check, a rescan, a modem reboot recovery, a         *)
(* callback of a transport core, or the shutdown.  Operations call each    *)
(* other, so a thread remembers where AddWorkerFromConfig and RemoveWorker *)
(* return to.  A worker is known by its generation, which the pool never   *)
(* gives twice.                                                            *)
(***************************************************************************)
EXTENDS Naturals

CONSTANTS
    Threads,
    None,             \* no thread
    Backend,          \* of the device: "qmi", "mbim" or "at"
    Operations,       \* the operations threads may begin with
    MaxWorkers,       \* bound: workers ever created
    MaxRounds,        \* bound: scan rounds of a recovery (the code has 6 or 7)
    MaxRebuilds       \* rebuildMaxInWindow (the code has 5)

ASSUME PoolAssumption ==
    /\ None \notin Threads
    /\ Backend \in {"qmi", "mbim", "at"}
    /\ MaxWorkers \in Nat /\ MaxRounds \in Nat /\ MaxRebuilds \in Nat \ {0}

VARIABLES
    worker,           \* p.workers[id]: the generation of the registered worker, 0 for none
    rebuilding,       \* p.rebuilding[id]
    attempt,          \* p.rebuildAttempt[id]
    generation,       \* p.workerGenerations[id]
    recovering,       \* p.modemRebootRecovering[id]
    shutting,         \* p.shuttingDown
    trGeneration,     \* the controller's own workerGenerations[id]
    active,           \* the controller has an active event for the device
    rebuilds,         \* length of the controller's rebuildTimes[id]
    open,             \* workers whose modem, core or transport has not been stopped
    left,             \* history: those a bootstrap left open for good (Abandon, StartCore)
    fired,            \* attempts whose watchdog timer has run out
    pending,          \* workers Shutdown has yet to stop
    rescanMu,         \* holder of p.rescanMu
    th                \* the threads

slot == <<rebuilding, attempt>>
controller == <<trGeneration, active, rebuilds>>
held == <<open, left>>
vars == <<worker, slot, generation, recovering, shutting, controller, held, fired, pending,
          rescanMu, th>>

\* What a thread remembers: where it is and where the operation it called returns to, the
\* worker it bootstraps or stops, its attempt and whether the watchdog's timer runs, whether
\* RemoveWorker took the slot, and the options, the reporting worker and the round of its
\* recovery.
Idle == [pc |-> "idle", ret |-> "done", w |-> 0, att |-> 0, timer |-> FALSE, own |-> FALSE,
         ok |-> FALSE, observed |-> FALSE, remove |-> FALSE, event |-> 0, round |-> 0]

\* The pool as NewPool makes it, or with the device's first worker started.
Init ==
    /\ worker \in {0, 1}
    /\ attempt = worker /\ generation = worker /\ trGeneration = worker
    /\ open = {worker} \ {0} /\ left = {}
    /\ rebuilding = FALSE /\ recovering = FALSE /\ shutting = FALSE
    /\ active = FALSE /\ rebuilds = 0
    /\ fired = {} /\ pending = {}
    /\ rescanMu = None
    /\ th = [t \in Threads |-> Idle]

At(t, pc) == th[t].pc = pc
Goto(t, pc) == th' = [th EXCEPT ![t].pc = pc]
Call(t, pc, ret) == th' = [th EXCEPT ![t] = [@ EXCEPT !.pc = pc, !.ret = ret]]
Done(t) == th' = [th EXCEPT ![t] = [Idle EXCEPT !.pc = "done"]]

\* AddWorkerFromConfig and RemoveWorker return to their caller; a rescan that removed the
\* worker adds it again, after a changed path only if the removal succeeded.
Continuation(ret, ok) ==
    CASE ret = "readd" -> "add"
      [] ret = "readdIfRemoved" -> (IF ok THEN "add" ELSE "unlock")
      [] OTHER -> ret
Return(t, ok) ==
    LET next == Continuation(th[t].ret, ok)
    IN  IF next = "done" THEN Done(t)
        ELSE th' = [th EXCEPT ![t] = [@ EXCEPT !.pc = next,
                                               !.ret = IF next = "add" THEN "unlock" ELSE "done",
                                               !.w = 0, !.att = 0, !.timer = FALSE,
                                               !.own = FALSE, !.ok = FALSE]]

(***************************************************************************)
(* AddWorkerFromConfig                                                     *)
(***************************************************************************)

\* The slot is taken under p.mu, unless the pool shuts down, has a worker for the device,
\* initialises one, or is at its device limit (of all devices: any time).
AddBegin(t) ==
    /\ At(t, "add")
    /\ \E limitReached \in BOOLEAN :
          IF shutting \/ worker # 0 \/ rebuilding \/ limitReached
          THEN Return(t, FALSE) /\ UNCHANGED slot
          ELSE /\ rebuilding' = TRUE
               /\ attempt' = attempt + 1
               /\ th' = [th EXCEPT ![t] = [@ EXCEPT !.pc = "probe", !.att = attempt', !.timer = TRUE]]
    /\ UNCHANGED <<worker, generation, recovering, shutting, controller, held, fired, pending, rescanMu>>

\* Finding the hardware, creating modem, core, transport, backend and eSIM manager, and
\* assignWorkerGeneration's part under p.mu.
Probe(t) ==
    /\ At(t, "probe")
    /\ \/ Goto(t, "end") /\ UNCHANGED <<generation, open>>
       \/ /\ generation < MaxWorkers
          /\ generation' = generation + 1
          /\ open' = open \cup {generation'}
          /\ th' = [th EXCEPT ![t] = [@ EXCEPT !.pc = "generation", !.w = generation']]
    /\ UNCHANGED <<worker, slot, recovering, shutting, controller, left, fired, pending, rescanMu>>

\* TransportRecoveryController.SetWorkerGeneration
SetWorkerGeneration(t) ==
    /\ At(t, "generation")
    /\ rebuilds' = IF trGeneration # th[t].w THEN 0 ELSE rebuilds
    /\ trGeneration' = th[t].w
    /\ Goto(t, "modem")
    /\ UNCHANGED <<worker, slot, generation, recovering, shutting, active, held, fired, pending, rescanMu>>

StartModem(t) ==
    /\ At(t, "modem")
    /\ \E pc \in {"current", "discard"} : Goto(t, pc)
    /\ UNCHANGED <<worker, slot, generation, recovering, shutting, controller, held, fired, pending, rescanMu>>

isRebuildAttemptCurrent(t) == attempt = th[t].att

CheckAttempt(t) ==
    /\ At(t, "current")
    /\ Goto(t, IF isRebuildAttemptCurrent(t) THEN "register" ELSE "abandon")
    /\ UNCHANGED <<worker, slot, generation, recovering, shutting, controller, held, fired, pending, rescanMu>>

\* An attempt that was overtaken stops the eSIM transport, the QMI core and the modem of its
\* worker.  It does not close the MBIM core, and nobody else knows the worker.
Abandon(t) ==
    /\ At(t, "abandon")
    /\ IF Backend = "mbim" THEN left' = left \cup {th[t].w} /\ UNCHANGED open
       ELSE open' = open \ {th[t].w} /\ UNCHANGED left
    /\ Goto(t, "end")
    /\ UNCHANGED <<worker, slot, generation, recovering, shutting, controller, fired, pending, rescanMu>>

\* Mutant of registerWorkerStarting: a worker that may not register is forgotten, open.
RegisterForgets(t) ==
    /\ At(t, "register")
    /\ IF shutting \/ worker # 0
       THEN Goto(t, "end") /\ UNCHANGED worker
       ELSE /\ worker' = th[t].w
            /\ Goto(t, IF Backend = "qmi" THEN "start" ELSE "verify")
    /\ UNCHANGED <<slot, generation, recovering, shutting, controller, held, fired, pending, rescanMu>>

registerWorkerStarting(t) ==
    /\ At(t, "register")
    /\ IF shutting \/ worker # 0
       THEN Goto(t, "discard") /\ UNCHANGED worker
       ELSE /\ worker' = th[t].w
            /\ Goto(t, IF Backend = "qmi" THEN "start" ELSE "verify")
    /\ UNCHANGED <<slot, generation, recovering, shutting, controller, held, fired, pending, rescanMu>>

\* startQMICoreWithStartupBudget: the core starts, is left to the retry loop, or is given up
\* with removeWorkerRegistrationIfCurrent.  StartCoreContext does not ask whether the worker
\* has been removed and its core stopped meanwhile: whether the QMI library starts a stopped
\* core again is not known here, so both may happen, and a core that does has nobody left to
\* stop it.
StartCore(t) ==
    /\ At(t, "start")
    /\ \/ /\ \E restarts \in BOOLEAN :
                IF restarts /\ th[t].w \notin open
                THEN open' = open \cup {th[t].w} /\ left' = left \cup {th[t].w}
                ELSE UNCHANGED held
          /\ Goto(t, "verify")
          /\ UNCHANGED worker
       \/ /\ worker' = IF worker = th[t].w THEN 0 ELSE worker
          /\ Goto(t, "discard")
          /\ UNCHANGED held
    /\ UNCHANGED <<slot, generation, recovering, shutting, controller, fired, pending, rescanMu>>

\* A bootstrap that fails, or whose worker may not register, stops what it opened.
Discard(t) ==
    /\ At(t, "discard")
    /\ open' = open \ {th[t].w}
    /\ Goto(t, "end")
    /\ UNCHANGED <<worker, slot, generation, recovering, shutting, controller, left, fired, pending, rescanMu>>

\* A worker removed while it started is left to the one who removed it.
VerifyRegistration(t) ==
    /\ At(t, "verify")
    /\ th' = [th EXCEPT ![t] = [@ EXCEPT !.pc = "end", !.ok = ~shutting /\ worker = th[t].w]]
    /\ UNCHANGED <<worker, slot, generation, recovering, shutting, controller, held, fired, pending, rescanMu>>

endRebuildAttemptIfCurrent(t) ==
    /\ At(t, "end")
    /\ rebuilding' = (rebuilding /\ ~isRebuildAttemptCurrent(t))
    /\ Return(t, th[t].ok)
    /\ UNCHANGED <<worker, attempt, generation, recovering, shutting, controller, held, fired, pending, rescanMu>>

Bootstrapping ==
    {"probe", "generation", "modem", "current", "abandon", "register", "start", "discard",
     "verify", "end"}

\* The bootstrap watchdog: its timer runs out while the bootstrap runs; it takes p.mu later.
WatchdogTimer(t) ==
    /\ th[t].timer
    /\ ~shutting
    /\ fired' = fired \cup {th[t].att}
    /\ th' = [th EXCEPT ![t].timer = FALSE]
    /\ UNCHANGED <<worker, slot, generation, recovering, shutting, controller, held, pending, rescanMu>>

\* Mutant of WatchdogRelease: it only logs its warning.
WatchdogOnlyWarns ==
    /\ \E a \in fired : fired' = fired \ {a}
    /\ UNCHANGED <<worker, slot, generation, recovering, shutting, controller, held, pending, rescanMu, th>>

WatchdogRelease ==
    /\ \E a \in fired :
          /\ fired' = fired \ {a}
          /\ rebuilding' = (rebuilding /\ attempt # a)
    /\ UNCHANGED <<worker, attempt, generation, recovering, shutting, controller, held, pending, rescanMu, th>>

(***************************************************************************)
(* RemoveWorker, RebuildWorker and Shutdown                                *)
(***************************************************************************)

Remove(t) ==
    /\ At(t, "remove")
    /\ \/ /\ worker # 0
          /\ worker' = 0
          /\ rebuilding' = TRUE
          /\ th' = [th EXCEPT ![t] = [@ EXCEPT !.pc = "stop", !.w = worker, !.own = ~rebuilding]]
       \/ /\ worker = 0 /\ rebuilding
          /\ Goto(t, "settle")
          /\ UNCHANGED <<worker, rebuilding>>
       \/ /\ worker = 0 /\ ~rebuilding
          /\ Return(t, FALSE)
          /\ UNCHANGED <<worker, rebuilding>>
    /\ UNCHANGED <<attempt, generation, recovering, shutting, controller, held, fired, pending, rescanMu>>

\* waitWorkerInitSettled: settled, or timed out after ten seconds (or cancelled).
Settle(t) ==
    /\ At(t, "settle")
    /\ \/ (worker # 0 \/ ~rebuilding) /\ Goto(t, "remove")
       \/ Return(t, FALSE)
    /\ UNCHANGED <<worker, slot, generation, recovering, shutting, controller, held, fired, pending, rescanMu>>

\* stopWorkerResources; what fails to close is reported to the caller only.
Stop(t) ==
    /\ At(t, "stop")
    /\ open' = open \ {th[t].w}
    /\ \E cleanup \in BOOLEAN :
          IF th[t].own THEN th' = [th EXCEPT ![t] = [@ EXCEPT !.pc = "release", !.ok = cleanup]]
          ELSE Return(t, cleanup)
    /\ UNCHANGED <<worker, slot, generation, recovering, shutting, controller, left, fired, pending, rescanMu>>

ReleaseSlot(t) ==
    /\ At(t, "release")
    /\ rebuilding' = FALSE
    /\ Return(t, th[t].ok)
    /\ UNCHANGED <<worker, attempt, generation, recovering, shutting, controller, held, fired, pending, rescanMu>>

\* Mutant of RebuildBegin: the error return keeps the flag.
RebuildKeepsFlag(t) ==
    /\ At(t, "rebuild")
    /\ rebuilding' = TRUE
    /\ Call(t, "remove", "handover") \/ Done(t)
    /\ UNCHANGED <<worker, attempt, generation, recovering, shutting, controller, held, fired, pending, rescanMu>>

\* The flag is set whatever it was; without a configuration it is only taken back.
RebuildBegin(t) ==
    /\ At(t, "rebuild")
    /\ rebuilding' = TRUE
    /\ \/ Call(t, "remove", "handover")
       \/ Goto(t, "release")
    /\ UNCHANGED <<worker, attempt, generation, recovering, shutting, controller, held, fired, pending, rescanMu>>

Handover(t) ==
    /\ At(t, "handover")
    /\ rebuilding' = FALSE
    /\ Goto(t, "add")
    /\ UNCHANGED <<worker, attempt, generation, recovering, shutting, controller, held, fired, pending, rescanMu>>

Shutdown ==
    /\ ~shutting
    /\ shutting' = TRUE
    /\ worker' = 0
    /\ pending' = {worker} \ {0}
    /\ UNCHANGED <<slot, generation, recovering, controller, held, fired, rescanMu, th>>

\* A worker is stopped once its bootstrap has returned (bootstrapDone).
ShutdownStops ==
    /\ \E w \in pending :
          /\ \A t \in Threads : th[t].pc \in Bootstrapping => th[t].w # w
          /\ pending' = pending \ {w}
          /\ open' = open \ {w}
    /\ UNCHANGED <<worker, slot, generation, recovering, shutting, controller, left, fired, rescanMu, th>>

(***************************************************************************)
(* rescanAndReconnect                                                      *)
(***************************************************************************)

\* What the scan finds decides: nothing to do, start, reinitialise or change of the AT port,
\* change of the QMI path, or offline.
Rescan(t) ==
    /\ At(t, "rescan")
    /\ rescanMu = None
    /\ rescanMu' = t
    /\ \/ Goto(t, "unlock")
       \/ worker = 0 /\ Call(t, "add", "unlock")
       \/ worker # 0 /\ Call(t, "remove", "readd")
       \/ worker # 0 /\ Call(t, "remove", "readdIfRemoved")
       \/ worker # 0 /\ Call(t, "remove", "unlock")
    /\ UNCHANGED <<worker, slot, generation, recovering, shutting, controller, held, fired, pending>>

RescanUnlock(t) ==
    /\ At(t, "unlock")
    /\ rescanMu' = None
    /\ IF th[t].round > 0 THEN Goto(t, "refresh") ELSE Done(t)
    /\ UNCHANGED <<worker, slot, generation, recovering, shutting, controller, held, fired, pending>>

(***************************************************************************)
(* Reports of the transport cores and of the health check                  *)
(***************************************************************************)

\* AllowRebuild: the sliding-window guard of maybeScheduleTransportRebuild.
AllowRebuild(t) ==
    /\ At(t, "exhausted")
    /\ IF rebuilds < MaxRebuilds
       THEN rebuilds' = rebuilds + 1 /\ Goto(t, "reporter")
       ELSE Done(t) /\ UNCHANGED rebuilds
    /\ UNCHANGED <<worker, slot, generation, recovering, shutting, trGeneration, active, held, fired, pending, rescanMu>>

\* rebuildWindow passes.
WindowPasses ==
    /\ rebuilds > 0
    /\ rebuilds' = rebuilds - 1
    /\ UNCHANGED <<worker, slot, generation, recovering, shutting, trGeneration, active, held, fired, pending, rescanMu, th>>

\* handleTransportRecoveryExhausted: only the registered worker is heard.
ReporterRegistered(t) ==
    /\ At(t, "reporter")
    /\ IF worker = th[t].event THEN Goto(t, "observe") ELSE Done(t)
    /\ UNCHANGED <<worker, slot, generation, recovering, shutting, controller, held, fired, pending, rescanMu>>

\* scheduleWorkerRecoveryWithTransportEvent and TransportRecoveryController.Observe
Observe(t) ==
    /\ At(t, "observe")
    /\ IF (trGeneration # 0 /\ th[t].event # trGeneration) \/ active
       THEN Done(t) /\ UNCHANGED active
       ELSE /\ active' = TRUE
            /\ th' = [th EXCEPT ![t] = [@ EXCEPT !.pc = "begin", !.observed = TRUE, !.remove = TRUE]]
    /\ UNCHANGED <<worker, slot, generation, recovering, shutting, trGeneration, rebuilds, held, fired, pending, rescanMu>>

(***************************************************************************)
(* runModemRebootRecovery                                                  *)
(***************************************************************************)

RecoveryBegin(t) ==
    /\ At(t, "begin")
    /\ IF recovering
       THEN /\ active' = (active /\ ~th[t].observed)
            /\ Done(t)
            /\ UNCHANGED recovering
       ELSE /\ recovering' = TRUE
            /\ IF th[t].remove THEN Call(t, "remove", "round") ELSE Goto(t, "round")
            /\ UNCHANGED active
    /\ UNCHANGED <<worker, slot, generation, shutting, trGeneration, rebuilds, held, fired, pending, rescanMu>>

\* A round waits for its delay or a wake-up; the device may not be ready for a scan yet.
Round(t) ==
    /\ At(t, "round")
    /\ IF shutting \/ th[t].round = MaxRounds
       THEN Goto(t, "finish")
       ELSE \E scan \in BOOLEAN :
               th' = [th EXCEPT ![t] = [@ EXCEPT !.round = th[t].round + 1,
                                                 !.pc = IF scan THEN "rescan" ELSE "round"]]
    /\ UNCHANGED <<worker, slot, generation, recovering, shutting, controller, held, fired, pending, rescanMu>>

\* refreshModemRebootRecoveredIdentity: recovered or left to convergence in the background;
\* not ready, next round; transport down or half ready, removed first.
RefreshRecovered(t) ==
    /\ At(t, "refresh")
    /\ \/ worker # 0 /\ Goto(t, "finish")
       \/ Goto(t, "round")
       \/ worker # 0 /\ Call(t, "remove", "round")
    /\ UNCHANGED <<worker, slot, generation, recovering, shutting, controller, held, fired, pending, rescanMu>>

finishModemRebootRecovery(t) ==
    /\ At(t, "finish")
    /\ recovering' = FALSE
    /\ Goto(t, "transport")
    /\ UNCHANGED <<worker, slot, generation, shutting, controller, held, fired, pending, rescanMu>>

\* Mutant of FinishTransport: an event of a worker that has been replaced is not finished.
FinishSameGeneration(t) ==
    /\ At(t, "transport")
    /\ active' = (active /\ th[t].event # trGeneration)
    /\ Done(t)
    /\ UNCHANGED <<worker, slot, generation, recovering, shutting, trGeneration, rebuilds, held, fired, pending, rescanMu>>

\* TransportRecoveryController.Finish, whoever's event is active.
FinishTransport(t) ==
    /\ At(t, "transport")
    /\ active' = FALSE
    /\ Done(t)
    /\ UNCHANGED <<worker, slot, generation, recovering, shutting, trGeneration, rebuilds, held, fired, pending, rescanMu>>

(***************************************************************************)
(* What threads begin with                                                 *)
(***************************************************************************)

\* AddWorkerFromConfig, RemoveWorker, RebuildWorker and RescanAndReconnect, from the API, the
\* start of the pool or the health check.
Begin(t) ==
    /\ At(t, "idle")
    /\ \E op \in Operations \cap {"add", "remove", "rebuild", "rescan"} : Goto(t, op)
    /\ UNCHANGED <<worker, slot, generation, recovering, shutting, controller, held, fired, pending, rescanMu>>

\* ScheduleModemRebootRecovery (a reboot by hand) and scheduleATDisconnectRecovery.
BeginRecovery(t) ==
    /\ At(t, "idle")
    /\ "reboot" \in Operations
    /\ \E remove \in BOOLEAN : th' = [th EXCEPT ![t] = [@ EXCEPT !.pc = "begin", !.remove = remove]]
    /\ UNCHANGED <<worker, slot, generation, recovering, shutting, controller, held, fired, pending, rescanMu>>

\* The core of a worker reports that its own recovery is exhausted.
BeginExhausted(t) ==
    /\ At(t, "idle")
    /\ "exhausted" \in Operations
    /\ \E w \in open : th' = [th EXCEPT ![t] = [@ EXCEPT !.pc = "exhausted", !.event = w]]
    /\ UNCHANGED <<worker, slot, generation, recovering, shutting, controller, held, fired, pending, rescanMu>>

\* The health check has the worker of its snapshot for dead.
BeginSuspect(t) ==
    /\ At(t, "idle")
    /\ "suspect" \in Operations
    /\ worker # 0
    /\ th' = [th EXCEPT ![t] = [@ EXCEPT !.pc = "observe", !.event = worker]]
    /\ UNCHANGED <<worker, slot, generation, recovering, shutting, controller, held, fired, pending, rescanMu>>

Add(t) ==
    \/ AddBegin(t) \/ SetWorkerGeneration(t) \/ CheckAttempt(t) \/ Abandon(t)
    \/ registerWorkerStarting(t) \/ Discard(t) \/ VerifyRegistration(t) \/ endRebuildAttemptIfCurrent(t)
\* The calls that may hang: the comments at startBootstrapWatchdog are about them.
MayHang(t) == Probe(t) \/ StartModem(t) \/ StartCore(t)
RemoveOrRebuild(t) ==
    Remove(t) \/ Settle(t) \/ Stop(t) \/ ReleaseSlot(t) \/ RebuildBegin(t) \/ Handover(t)
Recover(t) ==
    \/ AllowRebuild(t) \/ ReporterRegistered(t) \/ Observe(t) \/ RecoveryBegin(t) \/ Round(t)
    \/ RefreshRecovered(t) \/ finishModemRebootRecovery(t) \/ FinishTransport(t)
Runs(t) == Add(t) \/ RemoveOrRebuild(t) \/ Rescan(t) \/ RescanUnlock(t) \/ Recover(t)

Next ==
    \/ \E t \in Threads :
          \/ Begin(t) \/ BeginRecovery(t) \/ BeginExhausted(t) \/ BeginSuspect(t)
          \/ Runs(t) \/ MayHang(t) \/ WatchdogTimer(t)
    \/ WatchdogRelease \/ WindowPasses \/ Shutdown \/ ShutdownStops

\* A thread goes on unless it is in a call that may hang; the watchdog's timer runs out.
Fairness ==
    /\ \A t \in Threads : WF_vars(Runs(t)) /\ WF_vars(WatchdogTimer(t))
    /\ WF_vars(WatchdogRelease)

Spec == Init /\ [][Next]_vars /\ Fairness

(***************************************************************************)
(* Properties                                                              *)
(***************************************************************************)

Calling == {"add", "remove", "settle", "stop", "release"} \cup Bootstrapping
Pcs == Calling \cup {"idle", "done", "rebuild", "handover", "rescan", "unlock", "exhausted", "reporter",
                    "observe", "begin", "round", "refresh", "finish", "transport"}
Rets == {"done", "handover", "readd", "readdIfRemoved", "unlock", "round"}
Thread == [pc : Pcs, ret : Rets, w : Nat, att : Nat, timer : BOOLEAN, own : BOOLEAN, ok : BOOLEAN,
           observed : BOOLEAN, remove : BOOLEAN, event : Nat, round : Nat]
TypeOK ==
    /\ worker \in Nat /\ attempt \in Nat /\ generation \in Nat /\ trGeneration \in Nat
    /\ rebuilds \in Nat
    /\ {rebuilding, recovering, shutting, active} \subseteq BOOLEAN
    /\ open \subseteq Nat \ {0} /\ left \subseteq Nat /\ fired \subseteq Nat /\ pending \subseteq Nat
    /\ rescanMu \in Threads \cup {None}
    /\ th \in [Threads -> Thread]

\* The slot of a device is never taken for ever: while p.rebuilding is set there is a
\* bootstrap of the latest attempt, a RemoveWorker that took the flag, or a RebuildWorker
\* before its handover, and each of these clears it when it returns.
WillFree(t) ==
    \/ th[t].pc \in Bootstrapping /\ th[t].att = attempt
    \/ At(t, "stop") /\ th[t].own
    \/ At(t, "release") \/ At(t, "handover")
    \/ th[t].ret = "handover"
SlotHasOwner == rebuilding => \E t \in Threads : WillFree(t)

\* No worker is lost with its modem, core or transport open: it is registered, some thread
\* bootstraps it or is about to stop it, or the shutdown will.  The code has two exceptions,
\* and no more: the MBIM core of an attempt its watchdog let be overtaken, which no path
\* closes, and a QMI core that starts again after the removal of its worker has stopped it.
Charge == {"generation", "modem", "current", "abandon", "register", "discard", "stop"}
InCharge(t, w) == th[t].w = w /\ th[t].pc \in Charge
NoLeak == \A w \in open \ left :
    worker = w \/ w \in pending \/ \E t \in Threads : InCharge(t, w)

\* What docs/production-readiness-acceptance.md says of the shutdown, that it releases the
\* resources of all workers, QMI and MBIM, completely: once it has stopped what was pending
\* and no bootstrap or removal is under way, nothing is open.
ShutdownReleasesAll ==
    shutting /\ pending = {} /\ (\A t \in Threads : th[t].pc \notin Bootstrapping \cup {"stop"})
        => open = {}

\* Where a recovery stands that has yet to call Finish.
WillFinish(t) ==
    \/ At(t, "begin") /\ th[t].observed
    \/ th[t].round > 0 \/ At(t, "round") \/ At(t, "finish") \/ At(t, "transport")
    \/ th[t].ret = "round"
\* An active transport event always has a recovery that will finish it; otherwise every later
\* report of the device would be refused as a duplicate.
ActiveHasRecovery == active => \E t \in Threads : WillFinish(t)

\* The watchdog's promise: whatever hangs in a bootstrap, the slot becomes free again, so the
\* device can be tried again or removed (until the pool shuts down).  What RemoveWorker calls
\* to stop a worker is taken to return: no watchdog covers it.
SlotFreed == []<>(~rebuilding \/ shutting)

\* What the comment at Pool.workerGenerations says: a recovery that a worker's report began
\* removes no newer worker than the one that reported.
StaleReportSpares ==
    [][\A t \in Threads :
          (At(t, "remove") /\ th'[t].pc = "stop" /\ th[t].event # 0 /\ th[t].round = 0)
          => worker = th[t].event]_vars
=============================================================================
