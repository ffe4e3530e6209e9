------------------------------ MODULE VoWiFiHost ------------------------------
(***************************************************************************)
(* The VoWiFi runtime of one device: internal/vowifihost, with the eSIM    *)
(* switch flag of internal/device/pool_esim_switch.go.                     *)
(*                                                                         *)
(* Lifecycle commands come from the HTTP API, the policy, the reconcile    *)
(* loop and the eSIM switch.  LifecycleController.Submit runs most of them *)
(* one at a time under runMu; Restart and SwitchBegin do not wait, they    *)
(* cancel the context of the run under way.  A start takes the slot's      *)
(* epoch (BeginStart), brings the session up, and takes the slot only if   *)
(* the epoch has not moved (ClaimStarted); whatever ends VoWiFi moves it   *)
(* (Invalidate).  The store deletes slots it finds empty, and a new slot   *)
(* begins at epoch 0 again.                                                *)
(*                                                                         *)
(* A command starts at most one session, which bears the command's name.   *)
(* Each action is one critical section of the store, of the controller or  *)
(* of the switch flag, or one call of the session library.                 *)
(***************************************************************************)
EXTENDS Naturals, FiniteSets

CONSTANTS
    Commands,   \* the lifecycle commands
    Kinds,      \* what they may be
    None

AllKinds == {"enable", "disable", "restart", "recover", "reconnect", "switch", "restore"}

ASSUME KindsAssumption == Kinds \subseteq AllKinds \ {"restore"}
ASSUME NoneAssumption == None \notin Commands

VARIABLES
    slot,       \* the device's runtimeSlot
    generation, \* deviceLifecycle.generation
    runMu,      \* who holds deviceLifecycle.runMu, or None
    runCancel,  \* whose context runCancel cancels, or None
    cancelled,  \* commands whose run context has been cancelled
    retries,    \* generations with a recovery scheduled after "apdu busy"
    switching,  \* the switch whose token is current, or None
    smsMode,    \* Worker.smsMode: "native" or "vowifi"
    live,       \* the sessions that are up
    pc,         \* where each command stands
    kind,       \* what each command does
    gen,        \* LifecycleCommand.Generation, 0 before it is given
    epoch,      \* the epoch a start has been given
    held,       \* the instance a teardown is stopping, or None
    disabled    \* history: the generation of the last Disable that has returned

control == <<generation, runMu, runCancel, cancelled>>
local == <<kind, gen, epoch, held>>
vars == <<slot, control, retries, switching, smsMode, live, pc, local, disabled>>

NoSlot == [epoch |-> 0, starting |-> FALSE, instance |-> None,
           hasState |-> FALSE, lastErr |-> FALSE]

Starts == {"prepare", "before", "connect", "claim", "error", "fail"}
Places == Starts \cup
    {"idle", "invalidateFirst", "lock", "preempt", "cancel", "bind", "check",
     "invalidate", "read", "stop", "delete", "restoreSMS", "ready", "enable", "begin",
     "stale", "clearStale", "started", "mark", "end", "switched", "unflag", "done"}

Init ==
    /\ slot = NoSlot
    /\ generation = 0
    /\ runMu = None
    /\ runCancel = None
    /\ cancelled = {}
    /\ retries = {}
    /\ switching = None
    /\ smsMode = "native"
    /\ live = {}
    /\ pc = [c \in Commands |-> "idle"]
    /\ kind = [c \in Commands |-> "none"]
    /\ gen = [c \in Commands |-> 0]
    /\ epoch = [c \in Commands |-> 0]
    /\ held = [c \in Commands |-> None]
    /\ disabled = 0

Goto(c, place) == pc' = [pc EXCEPT ![c] = place]
At(c, place) == pc[c] = place

-----------------------------------------------------------------------------
(* The store.                                                              *)

Invalidate ==
    slot' = [slot EXCEPT !.epoch = @ + 1, !.starting = FALSE,
                         !.hasState = FALSE, !.lastErr = FALSE]

\* RecordStartupState: refused while there is an instance.
Recorded == IF slot.instance = None THEN [slot EXCEPT !.hasState = TRUE] ELSE slot

\* ClearStartupState: a slot with nothing left in it is deleted.
Cleared ==
    IF ~slot.hasState THEN slot
    ELSE IF slot.instance = None /\ ~slot.starting /\ ~slot.lastErr THEN NoSlot
    ELSE [slot EXCEPT !.hasState = FALSE]

\* The observer of an instance that the slot does not hold records what it hears.
Observed == slot' \in {slot, Recorded}

-----------------------------------------------------------------------------
(* Submission.                                                             *)

\* Manager.Enable, Disable, Restart, Recover, TeardownForReconnect and, with the
\* flag of the switch raised before it, SwitchBegin.  The pool refuses to enable
\* and to disable during a switch; a recovery may bear the generation of the
\* start that met a busy card, and is not asked for when VoWiFi is up by then.
Submit(c, k) ==
    /\ At(c, "idle")
    /\ kind' = [kind EXCEPT ![c] = k]
    /\ \/ k = "enable" /\ switching = None /\ Goto(c, "lock") /\ UNCHANGED <<gen, switching>>
       \/ k = "disable" /\ switching = None /\ Goto(c, "invalidateFirst") /\ UNCHANGED <<gen, switching>>
       \/ k = "restart" /\ Goto(c, "invalidateFirst") /\ UNCHANGED <<gen, switching>>
       \/ /\ k = "recover" /\ Goto(c, "lock") /\ UNCHANGED switching
          /\ \E g \in (IF slot.instance = None THEN retries ELSE {}) \cup {0} :
                 gen' = [gen EXCEPT ![c] = g]
       \/ k = "reconnect" /\ Goto(c, "invalidate") /\ UNCHANGED <<gen, switching>>
       \/ k = "switch" /\ Goto(c, "preempt") /\ switching' = c /\ UNCHANGED gen
    /\ UNCHANGED <<slot, control, retries, smsMode, live, epoch, held, disabled>>

\* Disable and Restart invalidate before they submit.
InvalidateFirst(c) ==
    /\ At(c, "invalidateFirst")
    /\ Invalidate
    /\ Goto(c, IF kind[c] = "restart" THEN "preempt" ELSE "lock")
    /\ UNCHANGED <<control, retries, switching, smsMode, live, local, disabled>>

Stale(c) == gen[c] # 0 /\ generation # 0 /\ gen[c] # generation
Duplicate(c) == kind[c] = "enable" /\ gen[c] = 0 /\ slot.instance # None

\* Mutant of Lock: a command is not asked for its generation.
LockTakesStale(c) ==
    /\ At(c, "lock")
    /\ runMu = None
    /\ \/ /\ Duplicate(c)
          /\ Goto(c, "done")
          /\ gen' = [gen EXCEPT ![c] = 0]
          /\ UNCHANGED <<generation, runMu>>
       \/ /\ ~Duplicate(c)
          /\ runMu' = c
          /\ generation' = IF gen[c] = 0 THEN generation + 1 ELSE generation
          /\ gen' = [gen EXCEPT ![c] = IF gen[c] = 0 THEN generation + 1 ELSE gen[c]]
          /\ Goto(c, "bind")
    /\ UNCHANGED <<slot, runCancel, cancelled, retries, switching, smsMode, live, kind, epoch, held, disabled>>

\* Submit under runMu: stale and duplicate commands are dropped.
Lock(c) ==
    /\ At(c, "lock")
    /\ runMu = None
    /\ \/ /\ Stale(c) \/ Duplicate(c)
          /\ Goto(c, "done")
          /\ gen' = [gen EXCEPT ![c] = 0]
          /\ UNCHANGED <<generation, runMu>>
       \/ /\ ~(Stale(c) \/ Duplicate(c))
          /\ runMu' = c
          /\ generation' = IF gen[c] = 0 THEN generation + 1 ELSE generation
          /\ gen' = [gen EXCEPT ![c] = generation']
          /\ Goto(c, "bind")
    /\ UNCHANGED <<slot, runCancel, cancelled, retries, switching, smsMode, live, kind, epoch, held, disabled>>

\* submitPreempting.
Preempt(c) ==
    /\ At(c, "preempt")
    /\ generation' = generation + 1
    /\ gen' = [gen EXCEPT ![c] = generation + 1]
    /\ Goto(c, "cancel")
    /\ UNCHANGED <<slot, runMu, runCancel, cancelled, retries, switching, smsMode, live, kind, epoch, held, disabled>>

CancelActiveRun(c) ==
    /\ At(c, "cancel")
    /\ cancelled' = cancelled \cup ({runCancel} \ {None})
    /\ Goto(c, "bind")
    /\ UNCHANGED <<slot, generation, runMu, runCancel, retries, switching, smsMode, live, local, disabled>>

\* runLifecycleCommand.
First(k) ==
    CASE k = "disable" -> "read"
      [] k \in {"restart", "switch"} -> "invalidate"
      [] k = "recover" -> "check"
      [] k = "enable" -> "enable"
      [] k = "restore" -> "begin"

\* bindRunContext: the latest run is the one that can be cancelled.
BindRunContext(c) ==
    /\ At(c, "bind")
    /\ runCancel' = c
    /\ Goto(c, First(kind[c]))
    /\ UNCHANGED <<slot, generation, runMu, cancelled, retries, switching, smsMode, live, local, disabled>>

-----------------------------------------------------------------------------
(* disableRuntime, TeardownSession and what follows it.                    *)

RecoverCheck(c) ==
    /\ At(c, "check")
    /\ Goto(c, IF slot.instance # None \/ slot.starting THEN "end" ELSE "invalidate")
    /\ UNCHANGED <<slot, control, retries, switching, smsMode, live, local, disabled>>

TeardownInvalidate(c) ==
    /\ At(c, "invalidate")
    /\ Invalidate
    /\ Goto(c, "read")
    /\ UNCHANGED <<control, retries, switching, smsMode, live, local, disabled>>

AfterTeardown(k) == IF k \in {"restart", "recover"} THEN "ready" ELSE "end"

\* Without an instance a disable restores the SMS mode all the same.
ReadInstance(c) ==
    /\ At(c, "read")
    /\ held' = [held EXCEPT ![c] = slot.instance]
    /\ Goto(c, IF slot.instance # None THEN "stop"
               ELSE IF kind[c] \in {"disable", "restart"} THEN "restoreSMS"
               ELSE AfterTeardown(kind[c]))
    /\ UNCHANGED <<slot, control, retries, switching, smsMode, live, kind, gen, epoch, disabled>>

StopInstance(c) ==
    /\ At(c, "stop")
    /\ live' = live \ {held[c]}
    /\ Observed
    /\ Goto(c, "delete")
    /\ UNCHANGED <<control, retries, switching, smsMode, local, disabled>>

\* Mutant of DeleteInstance: only a slot of epoch 0, the one that goes, is emptied.
DeleteAtEpochZero(c) ==
    /\ At(c, "delete")
    /\ slot' = IF slot.instance = held[c] /\ slot.epoch = 0 THEN NoSlot ELSE slot
    /\ Goto(c, "restoreSMS")
    /\ UNCHANGED <<control, retries, switching, smsMode, live, local, disabled>>

\* Mutant of DeleteInstance: the slot is emptied whatever instance it has by now.
DeleteWhatever(c) ==
    /\ At(c, "delete")
    /\ slot' = [NoSlot EXCEPT !.epoch = slot.epoch]
    /\ Goto(c, "restoreSMS")
    /\ UNCHANGED <<control, retries, switching, smsMode, live, local, disabled>>

\* Only the instance that was stopped is taken out of the slot.
DeleteInstance(c) ==
    /\ At(c, "delete")
    /\ slot' = IF slot.instance = held[c]
               THEN [NoSlot EXCEPT !.epoch = slot.epoch] ELSE slot
    /\ Goto(c, "restoreSMS")
    /\ UNCHANGED <<control, retries, switching, smsMode, live, local, disabled>>

RestoreSMSMode(c) ==
    /\ At(c, "restoreSMS")
    /\ smsMode' = "native"
    /\ Goto(c, AfterTeardown(kind[c]))
    /\ UNCHANGED <<slot, control, retries, switching, live, local, disabled>>

-----------------------------------------------------------------------------
(* enableWhenReady and enableRuntime.                                      *)

\* WaitQMICoreReady and WaitWorkerReady, which do not look at the run's context.
WaitReady(c) ==
    /\ At(c, "ready")
    /\ Goto(c, "enable") \/ Goto(c, "end")
    /\ UNCHANGED <<slot, control, retries, switching, smsMode, live, local, disabled>>

CheckSwitching(c) ==
    /\ At(c, "enable")
    /\ Goto(c, IF switching = None THEN "begin" ELSE "end")
    /\ UNCHANGED <<slot, control, retries, switching, smsMode, live, local, disabled>>

BeginStart(c) ==
    /\ At(c, "begin")
    /\ \/ /\ slot.instance = None /\ ~slot.starting
          /\ slot' = [slot EXCEPT !.starting = TRUE, !.lastErr = FALSE]
          /\ epoch' = [epoch EXCEPT ![c] = slot.epoch]
          /\ Goto(c, "prepare")
       \/ /\ slot.instance # None \/ slot.starting
          /\ Goto(c, "end")
          /\ UNCHANGED <<slot, epoch>>
    /\ UNCHANGED <<control, retries, switching, smsMode, live, kind, gen, held, disabled>>

\* PrepareStart records the startup state when it succeeds.
PrepareStart(c) ==
    /\ At(c, "prepare")
    /\ \/ slot' = Recorded /\ Goto(c, "before")
       \/ UNCHANGED slot /\ Goto(c, "fail")
    /\ UNCHANGED <<control, retries, switching, smsMode, live, local, disabled>>

BeforeStart(c) ==
    /\ At(c, "before")
    /\ slot' = Recorded
    /\ Goto(c, "connect") \/ Goto(c, "error")
    /\ UNCHANGED <<control, retries, switching, smsMode, live, local, disabled>>

ShouldRun(c) == c \notin cancelled /\ slot.epoch = epoch[c]

\* runtimehost.Start: it may fail at any time, and it asks ShouldRun.
Connect(c) ==
    /\ At(c, "connect")
    /\ \/ ShouldRun(c) /\ live' = live \cup {c} /\ Goto(c, "claim")
       \/ UNCHANGED live /\ Goto(c, "error")
    /\ UNCHANGED <<slot, control, retries, switching, smsMode, local, disabled>>

ClaimStarted(c) ==
    /\ At(c, "claim")
    /\ \/ /\ slot.epoch = epoch[c] /\ slot.instance = None
          /\ slot' = [NoSlot EXCEPT !.epoch = slot.epoch, !.instance = c]
          /\ Goto(c, "started")
       \/ /\ slot.epoch # epoch[c] \/ slot.instance # None
          /\ Goto(c, "stale")
          /\ UNCHANGED slot
    /\ UNCHANGED <<control, retries, switching, smsMode, live, local, disabled>>

\* Mutant of StopStale: the instance of a stale start is dropped, not stopped.
DropStale(c) ==
    /\ At(c, "stale")
    /\ Goto(c, "clearStale")
    /\ UNCHANGED <<slot, control, retries, switching, smsMode, live, local, disabled>>

StopStale(c) ==
    /\ At(c, "stale")
    /\ live' = live \ {c}
    /\ Observed
    /\ Goto(c, "clearStale")
    /\ UNCHANGED <<control, retries, switching, smsMode, local, disabled>>

\* ClearStartupStateAndBroadcast, after a stale start and after a good one.
ClearStartupState(c) ==
    /\ pc[c] \in {"clearStale", "started"}
    /\ slot' = Cleared
    /\ Goto(c, IF pc[c] = "started" THEN "mark" ELSE "end")
    /\ UNCHANGED <<control, retries, switching, smsMode, live, local, disabled>>

MarkRuntimeStarted(c) ==
    /\ At(c, "mark")
    /\ smsMode' = "vowifi"
    /\ Goto(c, "end")
    /\ UNCHANGED <<slot, control, retries, switching, live, local, disabled>>

\* HandleStartupError: a busy card schedules recoveries of this generation.
HandleStartupError(c) ==
    /\ At(c, "error")
    /\ slot' = Cleared
    /\ retries' = retries \/ retries' = retries \cup {gen[c]}
    /\ Goto(c, "fail")
    /\ UNCHANGED <<control, switching, smsMode, live, local, disabled>>

\* Mutant of FailStart: a start that failed still counts as starting.
FailKeepsStarting(c) ==
    /\ At(c, "fail")
    /\ slot' = IF slot.epoch = epoch[c]
               THEN [slot EXCEPT !.hasState = TRUE, !.lastErr = TRUE] ELSE slot
    /\ Goto(c, "end")
    /\ UNCHANGED <<control, retries, switching, smsMode, live, local, disabled>>

FailStart(c) ==
    /\ At(c, "fail")
    /\ slot' = IF slot.epoch = epoch[c]
               THEN [slot EXCEPT !.starting = FALSE, !.hasState = TRUE, !.lastErr = TRUE]
               ELSE slot
    /\ Goto(c, "end")
    /\ UNCHANGED <<control, retries, switching, smsMode, live, local, disabled>>

-----------------------------------------------------------------------------
(* The end of a run, and of a switch.                                      *)

\* clearRun, the deferred Unlock of runMu, and the end of the run's locals.
Finish(c) ==
    /\ At(c, "end")
    /\ runCancel' = IF runCancel = c THEN None ELSE runCancel
    /\ runMu' = IF runMu = c THEN None ELSE runMu
    /\ cancelled' = cancelled \ {c}
    /\ gen' = [gen EXCEPT ![c] = 0]
    /\ epoch' = [epoch EXCEPT ![c] = 0]
    /\ held' = [held EXCEPT ![c] = None]
    /\ disabled' = IF kind[c] = "disable" THEN gen[c] ELSE disabled
    /\ \/ kind[c] = "switch" /\ Goto(c, "switched") /\ UNCHANGED kind
       \/ kind[c] = "restore" /\ Goto(c, "unflag") /\ UNCHANGED kind
       \/ kind[c] \notin {"switch", "restore"} /\ Goto(c, "done") /\ kind' = [kind EXCEPT ![c] = "none"]
    /\ UNCHANGED <<slot, generation, retries, switching, smsMode, live>>

\* handleESIMSwitchAfter: with its token still current, the switch submits
\* SwitchEnd; the switch of a card without VoWiFi, and one that failed, do not.
EndSwitch(c) ==
    /\ At(c, "switched")
    /\ \/ /\ switching = c
          /\ kind' = [kind EXCEPT ![c] = "restore"]
          /\ Goto(c, "lock")
       \/ Goto(c, "unflag") /\ UNCHANGED kind
    /\ UNCHANGED <<slot, control, retries, switching, smsMode, live, gen, epoch, held, disabled>>

\* clearESIMSwitchIfToken.
ClearSwitch(c) ==
    /\ At(c, "unflag")
    /\ switching' = IF switching = c THEN None ELSE switching
    /\ Goto(c, "done")
    /\ UNCHANGED <<slot, control, retries, smsMode, live, local, disabled>>

\* The two minutes of beginESIMSwitch's guard are over: whoever is under way by
\* then waits for the mutex, the session library or the switched modem.
SwitchGuard(c) ==
    /\ switching = c
    /\ \A d \in Commands : pc[d] \in {"idle", "lock", "connect", "switched", "done"}
    /\ switching' = None
    /\ UNCHANGED <<slot, control, retries, smsMode, live, pc, local, disabled>>

Next == \E c \in Commands :
    \/ \E k \in Kinds : Submit(c, k)
    \/ InvalidateFirst(c) \/ Lock(c) \/ Preempt(c) \/ CancelActiveRun(c) \/ BindRunContext(c)
    \/ RecoverCheck(c) \/ TeardownInvalidate(c) \/ ReadInstance(c) \/ StopInstance(c)
    \/ DeleteInstance(c) \/ RestoreSMSMode(c)
    \/ WaitReady(c) \/ CheckSwitching(c) \/ BeginStart(c) \/ PrepareStart(c) \/ BeforeStart(c)
    \/ Connect(c) \/ ClaimStarted(c) \/ StopStale(c) \/ ClearStartupState(c)
    \/ MarkRuntimeStarted(c) \/ HandleStartupError(c) \/ FailStart(c)
    \/ Finish(c) \/ EndSwitch(c) \/ ClearSwitch(c) \/ SwitchGuard(c)

Spec == Init /\ [][Next]_vars

-----------------------------------------------------------------------------
(* Properties.                                                             *)

\* The types, and who may hold runMu: a command between its Lock and its end.
TypeOK ==
    /\ slot \in [epoch : Nat, starting : BOOLEAN, instance : Commands \cup {None},
                 hasState : BOOLEAN, lastErr : BOOLEAN]
    /\ generation \in Nat
    /\ runMu \in {c \in Commands : pc[c] \notin {"idle", "lock", "switched", "unflag", "done"}} \cup {None}
    /\ runCancel \in Commands \cup {None}
    /\ cancelled \subseteq Commands
    /\ retries \subseteq 1..generation
    /\ switching \in Commands \cup {None}
    /\ smsMode \in {"native", "vowifi"}
    /\ live \subseteq Commands
    /\ pc \in [Commands -> Places]
    /\ kind \in [Commands -> AllKinds \cup {"none"}]
    /\ gen \in [Commands -> 0..generation]
    /\ epoch \in [Commands -> Nat]
    /\ held \in [Commands -> Commands \cup {None}]
    /\ disabled \in 0..generation

\* Every session that is up belongs to someone who will end it: it is the slot's
\* instance, or its start has yet to claim or to stop it, or a teardown is about to.
\* A session that nobody knows keeps its tunnel and its registration for ever
\* (StartRuntime's stale branch, StopInstanceForTeardown).
SessionsAccounted ==
    \A i \in live : \/ slot.instance = i
                    \/ pc[i] \in {"claim", "stale"}
                    \/ \E c \in Commands : At(c, "stop") /\ held[c] = i

\* The slot never shows a session that has been stopped, except to the teardown
\* that stopped it and is about to take it out (DeleteInstance).
InstanceIsUp ==
    slot.instance # None => \/ slot.instance \in live
                            \/ \E c \in Commands : At(c, "delete") /\ held[c] = slot.instance

\* A slot that says "starting" has a start of its epoch under way, which will clear
\* the flag: otherwise BeginStart refuses every later start (FailStart, Invalidate).
StartingHasOwner ==
    slot.starting => \E c \in Commands : pc[c] \in Starts /\ epoch[c] = slot.epoch

\* A start takes the slot, so that VoWiFi is on.
Claims(c) == At(c, "claim") /\ pc'[c] = "started"

\* Once Disable has returned, no command numbered before it turns VoWiFi on again:
\* neither one that waited for runMu nor a recovery scheduled for a busy card.
\* Restart is left out, see DisableSticks.
QueuedDisableSticks ==
    [][\A c \in Commands : Claims(c) /\ kind[c] # "restart" => disabled < gen[c]]_vars

\* The same of every command, as the answer to the HTTP request and the log line of
\* disableRuntime say ("VoWiFi is disabled").  A Restart does not hold runMu and does
\* not look at the generation again while it waits for the modem (enableWhenReady).
DisableSticks == [][\A c \in Commands : Claims(c) => disabled < gen[c]]_vars

\* With no command under way, the worker leaves SMS to IMS only while VoWiFi is up
\* (docs/architecture.md, the table of SMS modes).
SMSModeFollows ==
    (\A c \in Commands : pc[c] \in {"idle", "done"}) /\ smsMode = "vowifi"
    => slot.instance # None

\* How far a command's session is.  It is over when it was stopped, and also when the
\* command is past every place from which it could still bring one up.
Past(c) ==
    \/ pc[c] \in {"clearStale", "started", "mark", "unflag", "done"}
    \/ At(c, "end") /\ kind[c] # "switch"
Session ==
    [c \in Commands |-> IF c \in live THEN "up" ELSE IF Past(c) THEN "over" ELSE "none"]
Slot == INSTANCE SessionSlot WITH Sessions <- Commands, session <- Session, shown <- slot.instance

\* Every step of the host is a step, or a stutter, of SessionSlot: whatever commands overlap,
\* the slot passes from one session to the next only through being empty, shows none that is
\* not up, and loses none that still is (ClaimStarted, DeleteInstance).
ImplementsSessionSlot == Slot!Spec
=============================================================================
