# A TLA+ model of VoDoge

VoDoge manages a fleet of cellular modems: it drives them over QMI, MBIM and AT,
switches the profiles of their eSIMs, sends and receives SMS, and runs a VoWiFi
session per SIM. What makes it hard is that many goroutines share one SIM card:
USIM authentication for VoWiFi, eSIM profile operations, the SMSC query and the
modem's own recovery all want the card, any of them can time out, and switching a
profile pulls the card away from under the others.

This directory specifies the parts where that sharing is decided, checks them with
TLC and proves their safety with TLAPS. Sources are cited below relative to
`src/internal/`.

## 1. Inventory

| Part | State it keeps | Operations | Talks to | Status |
|---|---|---|---|---|
| APDU arbiter (`apduarbiter/arbiter.go`) | queue of tickets, active leases by kind, barriers, the notify channel, a watchdog per lease | AcquireTransport, AcquireSession, AcquireOneShot, BeginBarrier, Touch, Release, WaitIdle | every user of the card | modelled: `Arbiter`, `CardAccess` |
| SIMAuth gate (`apduarbiter/simauth_ready.go`) | generation, ready, probing, waiters | WaitSIMAuthReady, InvalidateSIMAuthReady | VoWiFi start, switch | modelled: `SimAuthGate`, composed in `EsimSwitch` |
| eSIM operation lock (`esim/manager.go`) | opMu, opDone | the card operations, notification lists, reads, WriteInProgress | arbiter, SMS path | modelled: `EsimOps` |
| eSIM overview cache (`esim/manager.go`) | overviewCache, overviewGeneration, overviewReloading, flights | GetEsimOverview, RefreshOverview, RefreshProfiles, reload, modem events, card operations | operation lock, API | modelled: `EsimOverview` |
| VoWiFi runtime host (`vowifihost/`) | per device: slot (epoch, starting, instance, startup state), generation, runMu, runCancel | Enable, Disable, Restart, Recover, SwitchBegin, SwitchEnd, scheduled recoveries | session library, worker, eSIM switch | mostly: `VoWiFiHost`, `SessionSlot` |
| eSIM switch (`device/pool_esim_switch.go`, `post_switch_convergence.go`) | switching flag, snapshot, token, guard | before and after hooks, convergence, restoration | runtime host, eSIM manager, QMI manager | modelled: `EsimSwitch`; its meeting with the host's commands in `VoWiFiHost` |
| Desired-state recovery of VoWiFi (`vowifihost/recover_state.go`, `reconcile.go`) | attempt count, next time, in progress | reconcile, backoff | runtime host | not modelled |
| AT manager (`modem/manager.go`) | two command queues, the lines received, pooled requests, timeout count, stop signal | ExecuteAT, SendSMS, the run and read loops, Stop | serial port, pool | command engine: `AtPort` |
| QMI and MBIM managers (`qmi`, `mbim`) | core state, logical channels | open, transmit and close a channel; SMS; network | arbiter | not modelled; the arbiter's callers among them give `MCArbiter` its requests |
| Worker lifecycle, transport recovery, pool (`device/`) | workers, generations, active recovery, rebuild times | add, rebuild, remove, rescan, observe, recover, shut down | all of the above | lifecycle and recovery of one device: `WorkerPool` |
| SMS lanes and delivery (`api/sms_transport.go`, `device/pool_sms.go`, `db/sms_*.go`) | parts and reports, hourly count | send, fall back, apply a report | modem, VoWiFi | not modelled |
| Calls (`cscall`) | call state, dialog, current call, audio bridge | dial, answer, hang up, stop | modem, SIP gateway | the manager of one device: `CsCall`, `ClientCall` |
| SIP gateway (`sipgw`) | registrations, transactions | register, invite, end | SIP clients, calls | not modelled |
| Proxy, notifications, database, HTTP and web, entitlement, configuration, update, probes | mostly external | | | not modelled: I/O with little shared state |

How the parts meet. An API request or the reconciler submits a *command* to the
runtime host. A start authenticates with the SIM, which opens a logical channel
through the QMI manager, which asks the arbiter for a lease. An eSIM switch takes
`opMu`, submits SwitchBegin to the host (which ends the session), raises a barrier in
the arbiter, enables the profile, and afterwards patches the overview cache, submits
SwitchEnd and warms the overview. Reads of the card only check `opMu` and the
arbiter's idleness and then scan.

What makes each part correct:

* *Arbiter*: leases on the card are pairwise compatible and within their limits;
  barriers hold; nobody who could go sleeps; every request is served; a late timer or
  a stale handle takes nothing away from anyone.
* *Operation lock*: one card operation at a time; everyone who waits goes on; "busy"
  means that a write really is under way.
* *Overview cache*: nothing read before an invalidation is served after it (the code
  keeps this for loads, not for `RefreshProfiles`); a reload that fails does not stop
  later ones.
* *Runtime host*: every session has exactly one owner who will end it; a failed or
  superseded start leaves no mark; disabled stays disabled; no start during a switch.
* *SIMAuth gate*: "ready" is the answer of a probe of the present card (the code says
  so only of probes since the last invalidation); who waits for a probe is woken by it.
* *eSIM switch*: the switching flag is cleared by its own switch, on whichever path it
  ends; the identity a worker shows after a switch is that of the target; radio and data
  come back.
* *Worker pool*: a worker is either registered or somebody is about to stop it; the slot
  of a device is not taken for ever by a bootstrap that hangs; a transport event always
  has a recovery that finishes it.
* *Calls*: running audio belongs to the current call; a call in set-up has a goroutine
  that will bring it to an end; a client that was answered is told of the end; Stop does
  not hang and leaves nothing running.
* *AT manager*: a call gets the answer to its own command; every call returns; a port that
  died is noticed.

The hard behaviours, each at its line, are the `hazards` of `PROJECT.json`.

## 2. Modules

| Module | Models | Notes |
|---|---|---|
| `CardAccess` | what the arbiter promises | abstract: who may share the card, no queue or timer |
| `Arbiter` | `apduarbiter/arbiter.go` | refines `CardAccess` (`Card!Spec`) |
| `MCArbiter` | instances | the requests are those the callers in `qmi`, `modem` and `esim` write |
| `ArbiterProofs` | theorems | section 5 |
| `EsimOps` | `esim/manager.go`: opMu and opDone | each atomic step of a check or a notification is an action |
| `EsimOpsProofs` | theorems | section 5 |
| `EsimOverview`, `MCEsimOverview` | `esim/manager.go`: overview cache | each critical section of cacheMu is an action |
| `EsimOverviewProofs` | theorems | section 5 |
| `SessionSlot` | what the host promises to whoever reads the slot | abstract: no epoch, generation, mutex or switch flag |
| `VoWiFiHost`, `MCVoWiFiHost` | `vowifihost`, its callbacks in `device` | one device; each critical section of the store or controller is an action; refines `SessionSlot` (`Slot!Spec`) |
| `VoWiFiHostProofs` | theorems | section 5 |
| `SimAuthGate` | `apduarbiter/simauth_ready.go` | a specification of its own (`GateSpec`) and part of `EsimSwitch` |
| `EsimSwitch`, `MCEsimSwitch` | `device/pool_esim_switch.go`, `post_switch_convergence.go`, `switch_reinit.go` | extends `SimAuthGate`: the switches are the gate's callers |
| `EsimSwitchProofs` | theorems about both | section 5 |
| `WorkerPool`, `MCWorkerPool` | `device/pool.go`, `pool_bootstrap.go`, `pool_reboot_recovery.go`, `transport_recovery_controller.go`, `pool_health_ip.go` | one device; each critical section of `p.mu` or of the controller is an action |
| `WorkerPoolProofs` | theorems | section 5 |
| `ClientCall` | what the call manager promises the SIP client of each call | abstract: no workflow, event or modem |
| `CsCall`, `MCCsCall` | `cscall/manager.go`, `audio.go`, the controllers | one device; each critical section of `m.mu` is an action; refines `ClientCall` (`Client!Spec`) |
| `CsCallProofs` | theorems | section 5 |
| `AtPort` | `modem/manager.go`: runLoop, handleCommand, readLoop, executeAT, SendSMSWithOptions, Stop | one port; each receive, send or select is an action |
| `AtPortProofs` | theorems | section 5 |

### Arbiter

A *call* is one execution of `acquire` or `BeginBarrier` together with the handle it
returns, and its identity stands for the ticket id. `NewTicket` is the part before the
mutex (normalisation of class, scope and blocked classes; the ticket takes its id and
enqueue time). `Enqueue` and `Retry` are one turn of the loop under the mutex;
`Timeout` is the `ctx.Done` branch; `Release`, `Touch`, `ReleaseExpired` are the
methods of the same name; `Lapse` is the moment a lease's timer fires, and is apart
from `ReleaseExpired` because the callback still has to get the mutex. `Age` is the
passing of `transportPriorityAging` for one ticket, older tickets first.
`activeSessions`, `activeOneshot` and `activeTransports` are the one set `active`,
told apart by the type of the ticket. A waiter is `parked` when it sleeps on a channel
that is still open and `woken` once the channel has been closed. Statistics and
logging are left out.

### EsimOps

`Writers` block on `opMu.Lock`; `Listers` use `lockOperation`; `Readers` go through
`waitForNoWriteOperation`, the arbiter's idle wait and the scan; `Observers` call
`WriteInProgress`. A check is `TryLock` and then `PeekUnlock`, so it holds the lock for
an instant. `TakeOld`, `MakeNew`, `CloseOld` are the three statements of
`notifyWriteDone`. Channels are numbered as they are made. A timeout is seconds long
and an instant between a TryLock and its Unlock is not: `Expire` therefore waits until
no check is in that instant.

### EsimOverview

The card is a version (downloads, renames and deletions so far) and an enabled
profile. `Store` compares generations as `setOverviewCache` does, `StoreProfiles`
does not, as `RefreshProfiles` does not. `Flight` is the singleflight group keyed by
generation. `ModemEvent` is an unsolicited UIM indication or reset. A download may fail
with or without the profile on the card, and invalidates all the same (`DownloadFailed`).
The length of the suppression window, chip information and EID caches are left out; within
the window an event may or may not reload, which is a choice of the action. The history
variables `dropped` and `floor` record versions for the properties only; `scanned` is the
generation at a listing's scan, and a snapshot is `late` when it was stored by a listing
that an invalidation had overtaken since.

### VoWiFiHost

A *command* goes through `Submit`, `Lock` (stale and duplicate commands are dropped)
or `Preempt` and `CancelActiveRun`, `BindRunContext`, then the steps of its kind:
teardown (`TeardownInvalidate` to `RestoreSMSMode`), start (`CheckSwitching` to
`MarkRuntimeStarted` or `FailStart`), and `Finish`. Names are those of the Go
functions. The *slot* is the store's record of the device. A session is named by the
command that started it; `live` is the set of sessions that are up. A recovery that
`HandleStartupError` schedules carries the generation of the run that failed, and is a
later command of kind "recover" that may carry it. `SwitchGuard` is the two-minute
guard of `beginESIMSwitch`; by that time every other command is at a place where it can
really wait that long.

The session library is external and modelled from its use: `runtimehost.Start` may fail
at any time and asks `ShouldRun` before it succeeds; `Stop` ends the session even when
it returns an error. `disabled` is a history variable.

`SessionSlot` is the host as a reader of the slot sees it. A session is up while its command
is in `live`; it is over when it has been stopped, and when its command is past the last
place from which it could bring one up (`Past`); the slot shows `slot.instance`. A session
comes up once, is shown only while it is up and only in a slot that shows none, and is taken
out only when it is over.

### SimAuthGate and EsimSwitch

The gate has one action per critical section of the arbiter's mutex; the probe runs
between `CheckGate` and `Probed`. A probe's channel bears the name of the caller that made
it. `proven` is a history variable: the generation at which the probe of a ready gate began.
The gate knows invalidations and not cards. A switch invalidates in `Teardown`, before
`SendAPDU` changes the card, and nothing in it invalidates again; a reset that the modem
reports (`EventModemReset`, QMI only) would, and is left out.

A switch goes through the hook before the APDU (`Capture` to `Teardown`), the APDU
(`SendAPDU`, which frees `opMu`), and, in a goroutine of its own, either
`handleESIMSwitchFailed` (`Failed`, `FailedRestores`) or `handleESIMSwitchAfter` (`After`
to `Clear`): readiness of the core, the wait for a reinitialisation, the convergence loop
with its stalls, reload and last attempt, radio, identity, the SIMAuth gate, SwitchEnd.
The next switch may begin as soon as `opMu` is free, so two of them overlap from there on.
The token of a switch is its name. A place that compares the token is a guard on
`current`; a place that does not has none. ICCID and IMSI are read and written together
and are one identity; of the three delayed retries one is kept; the phases of a switch,
which are only displayed, are left out. The modem is external: it answers with an old
profile until it notices the change (`ModemFollows`), a reload or a power cycle makes it
look. `Configs` are the devices' configurations.

### WorkerPool

A *thread* is a goroutine that runs one operation. `AddWorkerFromConfig` and
`RemoveWorker` are called from several places and return to `ret`; their locals are fields
of the thread. A worker is its generation. `open` says which workers still have a modem,
core or transport that nobody stopped. A bootstrap gives up in one of two ways: `Abandon` is
the return of an attempt that its watchdog has overtaken, which leaves an MBIM core open;
`Discard` is every other. The bootstrap watchdog is two actions: its timer
(`WatchdogTimer`) and its critical section (`WatchdogRelease`), between which the bootstrap
may end and another begin. `WindowPasses` lets a timestamp fall out of the rebuild window.
What a scan finds is a choice of `Rescan`. `Backend` says whether the device has a QMI core,
an MBIM core or neither. `StartCoreContext` does not ask whether its core has been stopped,
and the library behind it is not in the repository, so `StartCore` of a worker that was removed
meanwhile may bring its core up again or not. `left` is a history variable: the workers that
`Abandon` or such a start left open for good. The loop that retries a failed start of the core
(`startQMICoreRetryLoop`) has the same window, and is left out.

### CsCall

The goroutine of events (`Monitor`), the call workflows, the handlers of the client's BYE
and CANCEL (`Clients`) and `Stop` (`Stopper`) are threads. A step is one critical section of
`m.mu` with the work of the goroutine's own around it. `endCallAndHangup` is two steps
any of them can be in, `TakeCall` (what it takes from the manager) and `Cleanup` (what it
does with it). The modem and the network are external: a call rings, is answered or hung
up at any time, and the channel of events is bounded and drops what does not fit, as the
controllers do. `waitClientResponse` is split by who moves: `ClientResponds` is the client,
`ResponseCancelled` the goroutine itself. `Monitor` remembers the dialog that
`beginIncomingCall` returned (`ToLaunch`) and starts its goroutine for that one
(`LaunchWorkflow`); when a ring changed nothing it returned none, and the timer is started
for the dialog there is by then. Ports, SDP, codecs and RTP are left out.

`ClientCall` is the manager as the SIP client of each call sees it: what it was answered,
whether it got BYE, and what its audio does. `Seen` is that part of a call's record, and
`View` has a place for the calls not made yet. A call the client made gets at most one final
response and none after its end, BYE only with the end of a call that got 200, and audio
from a bridge that was never stopped.

### AtPort

A *caller* is a goroutine with at most one command under way: of normal priority, of high
priority, or the AT+CMGS of a message, whose request waits for a prompt and whose caller
has a timer of its own. The `Poller` is the pool's status poll, which calls again and
again. A request's two channels are a *slot*; `Pool` are those of `reqPool`, and a new one
or a sender's own bears the caller's name. `run` is the place of runLoop and handleCommand,
`read` that of readLoop. `GetRequest` is apart from `Begin`, which checks that the manager
runs, because Stop may come between. `Write`, `CommandTimeout` and `Line` put the answer
into the slot and then `Fail` or `Trip` decides about the manager; if the slot is full they
block, as the code does. `m.healthy` is left out: it becomes false only together with the
stop. The modem is external: it answers commands in order, at any time or never, and a line
does not say which command it answers (the field `of` is for the properties only). It also
says things of its own, at any time: handleCommand takes a line with ERROR or `>` anywhere in
its text for the end of the command before it looks whether the line is a URC, so such a line
(`of` is None) may be of kind "final" or "prompt". What else commands and answers contain, and
what a URC sets off, is left out, and so is a panic in handleCommand that runLoop recovers.
`slip` is a history variable: "late" once somebody has given up on a command or the manager
has stopped, "misread" once a line that answers nothing has been taken for an answer.

## 3. What the runs show

Passing runs:

| Run | Instance | Shows |
|---|---|---|
| ArbiterMix | 3 calls, every kind of request the callers make, limits 2 and 2 (with two channels the limit of QMI transports cannot be exceeded: `LimitsHold` covers it), waits age, watchdogs | exclusive use, limits and barriers (through `CardAccess`), the queue is the waiters, leases end rightly, priorities and order, and that the arbiter implements `CardAccess` |
| ArbiterLive | 3 calls (AKA and the switch barrier), one WaitIdle | no lost wakeup; every request served; WaitIdle returns |
| EsimOps | 2 writers, a lister, a reader, an observer | one operation at a time; all of them return |
| EsimOverview | getter, refresher, listing, reload goroutine, a switch, deletion or download, one modem event, 2 profiles | what is in the cache, and what answers a load, is not older than the last invalidation, except for what a `RefreshProfiles` overtaken by it stored; the reload flag has its goroutine |
| VoWiFi | 3 commands of every kind, one other at most beside a restart | sessions have owners, the slot shows what is up, no orphaned "starting"; a disable is final for what was numbered before it, a restart excepted; and the host implements `SessionSlot` |
| EsimSwitch | 2 switches, 2 profiles, a QMI device with everything switched on and an AT device in flight mode | the flag has an owner and only that owner clears it; the transition of the newest switch ends at its target; the SIMAuth gate is ready only by a probe since its last invalidation, and its waiters have a prober |
| WorkerPool | 2 threads of any operation, a QMI device, 2 workers, one scan round, one rebuild per window | no worker lost while open, but for a core that starts again after its stop; the slot and the active event have their owner; the slot becomes free again although bootstraps hang |
| CsCall | 2 workflows, a BYE, the monitor and Stop; 2 dialogs, 2 calls, one call of the modem | running audio has an owner, a call in set-up has a goroutine, an answered client gets BYE, Stop does not hang, and the manager implements `ClientCall` |
| AtPort | the poll and one more call of any kind, one pooled request, queues of 1, watchdog at 1 timeout of the poll, 2 commands pending in the modem | while the manager runs a call gets the answer to its own request and, until somebody gives up on a command or a line that answers none is taken for an answer, the line that answers its own command; a call that waits has its answer or a request still to be answered; every call returns; a dead port is noticed |

Runs that end in a counterexample, each against a statement of the repository:

| Run | Statement | What happens |
|---|---|---|
| ArbiterStall | the aging test of `arbiter_test.go:162` | reaching the aging mark signals nobody: a write that evaluated just before it and an AKA that evaluates just after it both leave the turn to the other and park |
| EsimNotify | the comment in `notifyWriteDone` | two operations that finish together read the same channel, and close it twice |
| VoWiFiDisable | the answer "VoWiFi 已禁用" | a restart waits for the modem outside `runMu`; a disable comes and goes, and then the restart starts VoWiFi |

Ten more statements are written down in the modules and TLC refutes them in seconds; each is
kept as a definition, with no run of its own:

| Definition | Statement | What happens |
|---|---|---|
| `EsimOps!BusyMeansWriteInProgress` | the comment on `ErrOperationInProgress` | two checks meet, the second sleeps for a notification that only a write sends, and answers "busy" with no write anywhere |
| `EsimOverview!RejectsOnlyTheEnabledProfile` | the refusal of `DeleteProfile` | a scan from before a switch is stored after the switch patched the cache, and the profile that is no longer enabled cannot be deleted |
| `EsimOverview!FreshSnapshotPreserved` | `esim/manager_test.go:1515` and `:1793` | a listing scans the card, an operation changes it and invalidates, and `RefreshProfiles` (1963) stores what it scanned, over nothing or over what a reload has read since: loads are answered with it until the next invalidation |
| `VoWiFiHost!SMSModeFollows` | `docs/architecture.md:161` | a switch tears the session down between `ClaimStarted` and `MarkRuntimeStarted`: SMS is left to IMS with no session |
| `EsimSwitch!RadioRestored` | the comment on `RadioCycle` in the configuration | a convergence that ends degraded counts the radio as already cycled, and leaves it in LowPower |
| `EsimSwitch!GateClosedAfterSwitch` | the log line after the wait on the gate, `device/pool_esim_switch.go:844` | a second switch invalidates the gate (355), the tail of the first probes the old card with the new generation, then the second sends its APDU: the gate is ready for a card nobody has probed, and VoWiFi is restored without asking it (`Configs <- VoWiFiOnly` is enough) |
| `WorkerPool!ShutdownReleasesAll` | `docs/production-readiness-acceptance.md:37` | the watchdog releases the slot of a slow bootstrap; the bootstrap notices (`device/pool_bootstrap.go:643`) and returns without closing its MBIM core, which no list of workers knows: it outlives the shutdown (`Backend = "mbim"`) |
| `WorkerPool!StaleReportSpares` | the comment at `Pool.workerGenerations` | the report of a worker is checked against the registered one, another operation replaces that worker, and the recovery removes the new one |
| `AtPort!UrcKeepsStep` | the comments at `modem/manager.go:730` and `:732` | a URC with ERROR in it ends the poll's command (697); the modem's OK to it answers the command of the next call |
| `CsCall!StopReleasesAudio` | the comment in `Stop` (`cscall/manager.go:162`) and `TestManagerStopEndsActiveCallAndReleasesAudio` | a call that rings without a number is started by its timer; the number comes and starts it again, the second call replaces the first as current, and nobody stops the first one's bridge |

**Why these bounds.** The arbiter's rules relate at most a holder, a waiter and one that was
ahead of it, so three calls reach every rule; the requests cover each type, both scopes,
both sides of the sessions' limit, and blocked and unblocked classes. The eSIM races need two that
finish or check together and one that waits. The cache needs one load from before and one
from after a change; `MaxGeneration` stops unsolicited events only (everything else is
bounded by the number of calls). The run's writer switches, deletes or downloads: a rename
is a download that names a profile and does not invalidate when it fails, and a disable
invalidates as they do. Host commands interact through one slot, one mutex and one cancel
function; two of any kind meet at every pair of steps, and three are needed for one to wait
while another overtakes. A command is used once, so generation and epoch are bounded by
their number. A restart runs outside `runMu`, and with two others beside it the states are
too many: the constraint of the run lets it meet one. Switches overlap in pairs, since only
one can hold `opMu`; `Attempts`, `ReloadAfter` and `StallThreshold` are small enough for
every branch of the convergence to come up twice and `TwoAtATime` keeps the retries and the
live refresh from multiplying. In the pool two threads give every pair of operations, and
the safety theorems hold for any number, and for MBIM and AT devices as well. `MaxWorkers` 2
is an old worker and its successor. In the calls two workflows are an old call's and a new
one's; two dialogs let the second begin before the first has been cleaned up. On the AT port
two callers are the command under way and the one behind it; one pooled request makes the
second use what the first gave back, and two commands in the modem let an answer be late by
one command. The watchdog trips at the poll's first timeout; those of other commands do not
count, so the manager outlives them and meets their late answers. With a threshold of 2 and
one command in the modem TLC finds no violation either, in some 550,000 states, and the
safety theorems hold for any threshold.

**Symmetry** is used only for safety properties, over calls, commands or profiles
that no definition tells apart.

**Deadlock** checking is off: once each call or command has ended the system stops, as
the program does when no request comes.

**Fairness** (`FairSpec` of `Arbiter` and `EsimOps`). Weak fairness of each goroutine's own
steps: the Go scheduler runs what is runnable. Holders release: every caller defers it. A
goroutine blocked in `opMu.Lock` gets a strong fairness, which is what the starvation mode
of Go's mutex gives. Nothing is assumed of new requests, cancelled contexts, aging,
watchdogs or modem events. `WorkerPool` has weak fairness of a thread's own steps except the
calls into hardware that may hang (`MayHang`), of the watchdog's timer and of its callback:
`SlotFreed` is what the watchdog is for. It is about bootstraps: what `RemoveWorker` calls
to stop a worker is taken to return, and a hang there would keep the slot, for no watchdog
covers it. `CsCall` states with ENABLED, without fairness, that whoever Stop waits for can
go on; its calls into the modem are taken to return, as the timeouts of the AT commands (60,
5 and 3 s) and the contexts make them. `AtPort` has weak fairness of the loops, the callers,
the timers and the poll, which a ticker starts every minute; strong fairness of taking a
command in runLoop's second select, because Go picks among the ready cases at random;
nothing is assumed of the modem. ArbiterLive sets `WaitsMayAge` to FALSE because the stall
of ArbiterStall refutes the property otherwise: up to the aging time nobody starves, and
past it they can.

## 4. What is not modelled

* `RebuildWorker` also calls `InvalidateRuntime` by itself, and the worker may vanish
  during a start: `VoWiFiHost` assumes the worker stays, `WorkerPool` leaves VoWiFi out.
* Observer callbacks are modelled by their effect on the slot's startup state; the
  state subscription of the API is not.
* `QueuedDisableSticks` is about numbers, not about when a request was made. A command that
  waits its turn is given its number under `runMu`: an Enable that was submitted first and is
  overtaken there by a Disable gets the later number, and turns VoWiFi on.
* `ClientCall` is checked with a QMI controller (`ByID`) and one call of the modem;
  `ClientRefinement` covers the rest.
* Whether `ShutdownReleasesAll` holds of a QMI device depends on whether the library starts a
  stopped core again; for MBIM, where TLC refutes it, that does not matter.
* Inside a core or a modem manager (QMI transactions, MBIM, AT commands by content), SMS, the SIP
  registrar and its transactions, and the desired-state recovery of VoWiFi.
* Of the pool: traffic, IP rotation, identity refresh and metrics, which touch no slot.
* Encodings, SQL and network I/O, as listed in the inventory.

Seen while exploring larger instances and not part of the runs: with an enable and two restarts,
`ClearStartupState` removes an empty slot and the new one counts its epoch from 0
again, so a start that took epoch 0 earlier can still claim the slot; and with two
switches the second cannot cancel the start that the first one preempted, because
`runCancel` names the latest run only, so that start may claim the slot during the
second switch. Both are listed as hazards.

Noticed while the modules were written, in the code and in the model alike:

* `WorkerPool`. The rebuild cap is per generation and each rebuild makes a new one, so the
  sliding window never fills (a test asserts the reset). `RebuildWorker` takes the flag
  whatever it was and its handover clears it, so a bootstrap of another thread can be
  joined by a second one; with no worker registered it waits ten seconds for its own flag.
  `Finish` removes the active event whoever observed it. A bootstrap that hangs inside a
  rescan keeps `rescanMu`; the watchdog frees the slot but not that. If the library starts
  a stopped core again, a worker removed between its registration and `StartCore` comes up
  with nobody to stop it.
* `EsimOps`. Two finishers can take the same old channel of `opDone` and each make a new one.
  A check that went to sleep on the first of the two has a channel that nobody will close, and
  sleeps until its own timeout, however many operations end meanwhile.
* `EsimSwitch`. A failed switch leaves the identity in transition. A second switch captures
  flight mode from the LowPower of the first and afterwards restores that. A late identity
  write looks at neither token nor generation, which is why `TransitionEndsAtTarget` has
  to except it.
* `CsCall`. The workflow of an incoming call ends the current call, whichever it is; the
  network's hang-up event ignores the number of its call; a CANCEL is refused while
  dialing; the handlers of BYE and CANCEL are not waited for by Stop.
* `AtPort`. After Stop a request goes back to the pool while handleCommand may still write to
  it, so a call that had passed its checks can be given another call's answer, and a second
  error for a full channel blocks runLoop for ever (`AnswerFromOwnRequest` is therefore about a
  running manager). After a timeout the late answer of one command is taken for the answer
  of the next. A sender gives up after twenty seconds while its request stays queued, and
  the message may go out after the error was reported. The error of thirty ends of file is
  not among the fatal ones: if a command is under way it takes the error, and only the
  timeouts of the poll stop the manager.

## 5. What is proved

`ArbiterProofs` proves, for every set of calls, every set of legal requests, and every
positive limit:

| Theorem | Statement |
|---|---|
| `TypeCorrect` | `Spec => []TypeOK` |
| `CardIsExclusive` | `Spec => []CardExclusive` |
| `LimitsHold` | `Spec => []WithinLimits` |
| `BarriersHold` | `Spec => []BarrierHolds` |
| `QueueCorrect` | `Spec => []QueueIsWaiters` |
| `LeaseEnds` | `Spec => LeaseEndsByOwnerOrWatchdog` |
| `BarrierIsNotPassed` | `Spec => NothingPassesBarrier` |
| `AKAGoesFirst` | `Spec => AKABeforeFreshWrites` |
| `ClassIsFIFO` | `Spec => ClassFIFO` |
| `SleepersCannotGo` | `Spec => []NobodySleepsAdmissible`, assuming `~WaitsMayAge` |
| `Refinement` | `Spec => ImplementsCardAccess` |

`WithinLimits` and `BarrierHolds` are invariants of `CardAccess`, so the run that checks
`ImplementsCardAccess` checks them too. The assumptions are those named in `Arbiter`: requests are legal, limits are positive,
`WaitsMayAge` is Boolean. TLC evaluates them in every run.

The inductive invariant is `IInv == TypeOK /\ QueueInv /\ HoldersHeld /\ TicketsTyped /\
CardInv`. Exclusiveness is not inductive alone: that an admission keeps it rests on
holders being leases and barriers being barriers (`HoldersTyped`), that a request does
not change under a holder rests on holders having an unreleased handle (`HoldersHeld`),
that a ticket is of some type once its call has begun is `TicketsTyped`, and counting
needs the active set finite. For the queue, each waiting call is there once
(`QueueInv`), which makes the removal of a ticket by its identity remove the right
one (`WithoutElements`). `AdmissionSound` says that `CanAcquireLease` implies all that
`CardAccess` asks of an admission; it serves both the invariant and the refinement.
`LeavingKeepsCard` and `AcquireKeepsCard` cover departures and admissions, and
`NextIInv` has one step per action.

The order of admission rests on `AdmittedFrom`: a lease that appears was admitted by an
evaluation on the queue, or on the queue with its ticket appended. That a class is served in
order also needs that tickets age in their order (`AgedInOrder`): the scan prefers aged
tickets, and would otherwise prefer the younger of two. `SleepersCannotGo` needs that an
evaluation depends only on what the signalling steps change (`SameAdmission`). It is about an
arbiter in which no wait reaches the aging time, and false without that assumption:
`ArbiterStall` is the counterexample.

`EsimOpsProofs` proves `TypeCorrect` (`Spec => []TypeOK`) and `OneOperation`
(`Spec => []OneOperationAtATime`) for any disjoint sets of writers, listers, readers and
observers. The two are inductive together: an unlock frees nobody else's lock only
because whoever works holds it, and the holder is a working or peeking call. Three
lemmas cover a step that leaves the mutex alone, one that takes it and one that gives it
back; `NextIInv` has one step per action.

`EsimSwitchProofs` is about `SimAuthGate` alone and about the switches that use it, for any
number of callers and profiles and any legal configurations:

| Theorem | Statement |
|---|---|
| `GateFresh` | `GateSpec => []GateReadyIsFresh` |
| `TypeCorrect` | `Spec => []TypeOK` |
| `UsesTheGate` | `Spec => GateSpec` |
| `ReadyIsFresh` | `Spec => []GateReadyIsFresh`, from the two above |
| `NoWaiterLeftBehind` | `Spec => []WaiterHasProber` |
| `FlagIsOwned`, `FlagIsClearedByOwner` | `Spec => []FlagHasOwner`, `Spec => OnlyOwnerClears` |
| `TransitionReachesTarget` | `Spec => TransitionEndsAtTarget` |

That a waiter has a prober is inductive only with `OneProbe`: there is one probe at a time,
its channel is named for it, and whoever sleeps does so on that channel. A ready gate is
fresh because `Probed` compares generations; that is a statement about invalidations, and
`GateClosedAfterSwitch`, the one about the card, is false. The flag's owner is between `Begin`
and the step that clears it (`FlagInFlight`), which is stronger than what the run checks. The
end of a transition needs that a refresh which is about to write for a switch with a known
target has read that target (`WritesTarget`). The gate's steps are a lemma of their own,
`StepsAreGateSteps`: every step of `EsimSwitch` is one of `SimAuthGate` or leaves it alone.

`EsimOverviewProofs` proves, for any disjoint sets of calls and any number of invalidations,
`TypeCorrect` and

| Theorem | Statement |
|---|---|
| `CacheIsFresh` | `Spec => []CacheNotOlderThanInvalidation` |
| `LoadIsFresh` | `Spec => []LoadNotOlderThanInvalidation` |
| `ReloadFlagIsOwned` | `Spec => []ReloadFlagHasGoroutine` |

The inductive part is `FlightFresh`: what a flight has in hand is new enough for its own
load, for those that have joined it, and for those that have read the same generation and
may yet join it, although they began later; and as long as the generation has not moved, it
is not older than the last invalidation. The exception for `late` snapshots is not an
assumption on the code: `FreshSnapshotPreserved` says what holds without it, and TLC refutes
that. What is proved is that a `RefreshProfiles` overtaken between its scan and its store is
the only way in: the listing's own part is the lemma `Overtakes`, a listing that no
invalidation has overtaken holds what is as new as the cache must be.

`WorkerPoolProofs` proves, for any threads, operations, rounds and rebuilds,

| Theorem | Statement |
|---|---|
| `TypeCorrect` | `Spec => []TypeOK` |
| `SlotIsOwned` | `Spec => []SlotHasOwner` |
| `EventIsOwned` | `Spec => []ActiveHasRecovery` |
| `NoWorkerLost` | `Spec => []NoLeak` |
| `ShutdownLeavesOnly` | `Spec => [](... => open \subseteq left)` once a shutdown is over |

`StackOK` says from which places a nested call returns where, without which a thread that
will free the slot could simply end. Each operation is shown to keep a `Promise`: it leaves
the other threads alone, and the slot and the event have somebody if they had somebody or the
thread itself will see to them. `NoWorkerLost` holds for every backend and assumes nothing of
the QMI library; `left` names the two ways in which a worker is lost all the same, the MBIM
core of an overtaken bootstrap and a core that starts again after its stop,
and the theorem says that there is no third. `ShutdownLeavesOnly` draws the conclusion: what
a finished shutdown leaves open is in `left`.

`VoWiFiHostProofs` proves, for any commands of any kinds,

| Theorem | Statement |
|---|---|
| `TypeCorrect` | `Spec => []TypeOK` |
| `NoSessionLost` | `Spec => []SessionsAccounted` |
| `SlotShowsWhatIsUp` | `Spec => []InstanceIsUp` |
| `StartingIsOwned` | `Spec => []StartingHasOwner` |
| `DisableOutlastsQueue` | `Spec => QueuedDisableSticks` |
| `SlotRefinement` | `Spec => ImplementsSessionSlot` |

`Routes` says where a command of each kind can be; `SerialHoldsRunMu` that what runs in turn
holds `runMu`. A disable outlasts the queue because its number is its own
(`DisableNumberIsOwn`: nobody bears it and no recovery is scheduled with it) and whatever
runs under `runMu` after it has a later one (`RunsAfterDisabled`). The proofs do not use that
an epoch is used once, which is false (section 4): a session is never lost because a command
starts one session at most and claims the slot once (`InstanceIsClaimed`, `ConnectedIsUp`,
`HeldIsClaimed`).

The refinement follows from the same invariant. The initial states correspond; `QuietStep`
covers the steps that neither bring a session up nor end one, `EndingStep` those that stop
one, and `SlotImplementation` adds `Connect`, `ClaimStarted` and `DeleteInstance`. That
`ClaimStarted` shows a session only in an empty slot is its own comparison; that the session
it shows is still up is `ConnectedIsUp`, and that what `DeleteInstance`
removes is over is `HeldIsClaimed`. So a session is never replaced in the slot by another,
although an epoch may come twice.

`AtPortProofs` proves, for any callers, any pool of requests and any lengths of the queues
and of the modem's own (`PortAssumption`: they are positive, a caller is not a request of the
pool, and nil is neither),

| Theorem | Statement |
|---|---|
| `TypeCorrect` | `Spec => []TypeOK` |
| `AnswerIsOwn` | `Spec => []AnswerFromOwnRequest` |
| `NobodyIsForgotten` | `Spec => []WaitingHasRequest` |
| `AnswersStayInStep` | `Spec => []AnswersInStep` |

The set `Open` holds the requests in the two queues and the one handleCommand works on.
While the manager runs each of them belongs to a call that waits for it with the same slot,
or to a sender that gave up and does not come back (`RequestsOwned`); a call has one at most
(`RequestsOnce`), no two calls share a slot (`SlotsApart`), and a slot that has been
answered has no request left (`AnsweredOnce`), so what goes back to the pool is empty
(`FreeSlotsEmpty`). Conversely a call that waits has such a request unless its slot has been
answered (`AllAsk`): this is the safety part of `EveryCallReturns`, for executeAT waits for
nothing but the answer and Stop. The emptiness of what is given back is why a late answer of
the manager cannot reach the next user of a pooled request before Stop, and why it can after
it. For the modem's answers `LinesInStep` and `ModemInStep` say that, until somebody gives
up or a line that answers nothing ends a command, there is one command outstanding, it is handleCommand's, and either the modem or one
line in the buffer has its answer. The steps are of two sorts, each with one lemma per
conjunct: those of a caller (`Moves`), and the turns of the run loop, which answer a request
or pass it on (`Turns`).

`CsCallProofs` proves, for any workflows, handlers, dialogs, calls and queue
(`CallAssumption`: the goroutines are distinct),

| Theorem | Statement |
|---|---|
| `TypeCorrect` | `Spec => []TypeOK` |
| `AudioHasOwner` | `Spec => []RunningAudioHasOwner` |
| `SetupIsWorkedOn` | `Spec => []SetupHasWorkflow` |
| `AnsweredIsTold` | `Spec => []AnsweredGetsBye` |
| `ClientRefinement` | `Spec => ImplementsClientCall` |

The hard one is `SetupIsWorkedOn`: a second workflow of the same dialog may overwrite the
current call (a hazard of the list), so a workflow leaves although the call still rings.
`RingingHasWorkflow` and `RingingHasInviter` together say why that is safe: a workflow leaves
only when somebody is about to end the call (`Ending`) or the current call is no longer its
own, and then the one that overwrote it is still there. A call is the work of one workflow
(`CallsApart`) and a dialog's number is new when it begins, so the second workflow cannot
belong to another dialog. `CurrentIsUntouched` says that the current call has not been taken from the
manager, and `StopEnds` that Stop is about to end the call it found. A step that leaves the
manager as it is satisfies `Steps(t, x)`, and `StepInv` shows once that such a step keeps the
invariant; the steps that change the manager (a ring, a launch, a new call, a connection,
`TakeCall`, `Cleanup`, `Stop`) have a lemma each.

The refinement needs a second invariant on top of that one, `ClientInv`: a call that one
goroutine has taken to clean it up is taken by no other and has not been cleaned up
(`TakenOnce`); a call that was cleaned up has its audio stopped or never had any
(`EndedIsSilent`); a workflow that opens audio in a call of the client has answered it with
200, one that dials has a call without audio, and one that rings the client has a call the
client did not make (`OwnCalls`). Without `TakenOnce` a client could get two BYEs or a 503 after a BYE.
Since a step changes the record of one call at most, there is one lemma for each thing it can
do to it (`QuietTurns`, `TakeTurns`, `OpenTurns`, `StartAudioTurns`, `StopAudioTurns`,
`RespondTurns`, `CleanTurns`, `NewCallTurns`), and `EveryTurn` sorts the actions among them.

In all of these TLC checked the inductive invariant as an invariant of the instance of
section 3 before it was proved.

Only model-checked:

* liveness and everything under fairness (`ArbiterLive`, the returns of `EsimOps` and
  `AtPort`, `DisconnectNoticed`, `SlotFreed`), and `StopDoesNotHang`, which is about ENABLED:
  the prover has no rules for either;
* what TLC refutes, the second and third tables of section 3.

## 6. Plan

Every invariant and action property that a passing run checks is a theorem, but for
`StopDoesNotHang`; three abstract specifications (`CardAccess`, `SessionSlot`, `ClientCall`)
and the SIMAuth gate are shown to be implemented. To come:

1. The abstract specification of the operation lock (who may work on the card when), with
   `EsimOps` shown to implement it.
2. The safety part of `SlotFreed`, which TLC checks as liveness, from the watchdog's attempt
   number.

Modules to come: logical channels of the QMI and AT managers over `Arbiter`; SMS lanes and
reports; desired-state recovery over `VoWiFiHost`; the SIP registrar.

## 7. Running

    tlc -config ArbiterMix.cfg MCArbiter
    tlapm ArbiterProofs.tla
    tlapm EsimOpsProofs.tla

and in the same way `EsimOverviewProofs`, `EsimSwitchProofs`, `WorkerPoolProofs`,
`VoWiFiHostProofs`, `AtPortProofs` and `CsCallProofs`, each a few seconds to a few minutes.

Each run's module and configuration are in `PROJECT.json`, with the line map from
definitions to sources, the mutations that show each property can fail, the findings
and the hazards.
