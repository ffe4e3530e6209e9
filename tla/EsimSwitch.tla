----------------------------- MODULE EsimSwitch -----------------------------
(***************************************************************************)
(* The switch of an eSIM profile as internal/device/pool_esim_switch.go    *)
(* and post_switch_convergence.go run it around esim.Manager's             *)
(* SwitchProfile and DisableProfile: the switching flag and its token, the *)
(* two-minute guard, the identity the worker shows, the radio, and the     *)
(* SIMAuth gate before VoWiFi is restored (SimAuthGate).                   *)
(*                                                                         *)
(* A switch holds opMu until its APDU is sent; what follows runs in a      *)
(* goroutine of its own, so the end of one switch meets the beginning of   *)
(* the next, the retries of the identity (Retry) and RefreshIdentityLive.  *)
(* The token of a switch is its name: every switch begins once.            *)
(*                                                                         *)
(* ICCID and IMSI are read and written together and count as one identity; *)
(* phases of a switch, which are only shown, are left out; of the three    *)
(* delayed retries one is kept.                                            *)
(***************************************************************************)
EXTENDS SimAuthGate

CONSTANTS
    Profiles,       \* ICCIDs of the profiles on the card
    Configs,        \* the device configurations: backend, radioCycle, vowifi,
                    \* eventGated, and whether it is in flight mode
    RadioFails,     \* the modem may refuse to read or to set its operating mode
    Operations,     \* what a switch may do: "enable", "disable"
    Attempts,       \* IdentityAttempts of convergePostSwitch (20 in the code)
    ReloadAfter,    \* ReloadAfterAttempts (6)
    StallThreshold  \* CoreStallThreshold (2)

Switches == Callers
Roles == {"after", "retry"}

ASSUME NoProfile == None \notin Profiles
ASSUME ConfigsAssumption ==
    /\ Configs \subseteq [backend : {"qmi", "mbim", "at"}, radioCycle : BOOLEAN,
                          vowifi : BOOLEAN, eventGated : BOOLEAN, flight : BOOLEAN]
    /\ RadioFails \in BOOLEAN
ASSUME OperationsAssumption == Operations \subseteq {"enable", "disable"}
ASSUME AttemptsAssumption ==
    Attempts \in Nat \ {0} /\ ReloadAfter \in Nat \ {0} /\ StallThreshold \in Nat \ {0}

VARIABLES
    config,     \* the device's configuration
    card,       \* the profile enabled on the card, or None
    modem,      \* the ICCID the modem answers with; it may lag behind the card
    radio,      \* "online", "low" (LowPower) or "off" (RFOff)
    vowifi,     \* the VoWiFi session is up
    identity,   \* Worker.state.Identity
    opMu,       \* the switch that holds esim.Manager.opMu, or None
    current,    \* switchTokens, switchContexts and switchingDevices: a switch or None
    latest,     \* history: the switch that began last
    pc,         \* where each switch stands
    snap,       \* esimSwitchContext of each switch
    conv,       \* attempt and consecutive stalls of convergePostSwitch
    idpc,       \* where an identity refresh stands, per switch and role
    got,        \* the ICCID that refresh has read
    live        \* RefreshIdentityLive: reading or about to write, and what it read

world == <<card, modem, radio, vowifi>>
switchVars == <<opMu, current, latest>>
idVars == <<identity, idpc, got>>
vars == <<config, world, switchVars, pc, snap, conv, idVars, live, gateVars>>

NoSnap == [op |-> "none", target |-> None, old |-> None, flight |-> FALSE, gen |-> 0]

Places ==
    {"idle", "capture", "begin", "transition", "vowifiBegin", "radioLow", "teardown",
     "apdu", "failed", "after", "ensure", "core", "reinit", "converge", "radioOn", "attach",
     "identity", "simauth", "switchEnd", "restoreRadio", "failRadio", "clear", "done"}
IdPlaces == {"none", "timer", "ensure", "read", "write", "degrade", "ok", "bad"}

Init ==
    /\ GateInit
    /\ config \in Configs
    /\ card \in Profiles
    /\ modem = card
    /\ radio = IF config.flight THEN "off" ELSE "online"
    /\ vowifi = config.vowifi
    /\ identity = [iccid |-> card, ready |-> TRUE, phase |-> "ready", target |-> None, gen |-> 0]
    /\ opMu = None /\ current = None /\ latest = None
    /\ pc = [s \in Switches |-> "idle"]
    /\ snap = [s \in Switches |-> NoSnap]
    /\ conv = [s \in Switches |-> [attempt |-> 1, stalls |-> 0]]
    /\ idpc = [p \in Switches \X Roles |-> "none"]
    /\ got = [p \in Switches \X Roles |-> None]
    /\ live = [write |-> FALSE, got |-> None]

\* What a radio call leaves: the new value, or the old one when the modem refuses.
Set(old, new) == IF RadioFails THEN {old, new} ELSE {new}

At(s, place) == pc[s] = place
Goto(s, place) == pc' = [pc EXCEPT ![s] = place]

-----------------------------------------------------------------------------
(* The identity of the worker.                                             *)

\* beginSIMIdentityTransitionLocked.
Transition(t) ==
    [iccid |-> None, ready |-> FALSE, phase |-> "transitioning", target |-> t,
     gen |-> identity.gen + 1]

\* EnsureSIMIdentityTransition keeps a transition to the same target.
Ensured(t) == IF identity.phase # "ready" /\ identity.target = t THEN identity ELSE Transition(t)

\* MarkSIMIdentityDegraded.
Degraded == [identity EXCEPT !.ready = FALSE, !.phase = "degraded"]

\* SIMIdentityConvergenceMatches.
Matches(t, gen) == identity.gen = gen /\ identity.phase # "ready" /\ identity.target = t

-----------------------------------------------------------------------------
(* Before the APDU: SwitchProfileWithResult and DisableProfile up to       *)
(* onBeforeSwitch, and handleESIMSwitchBefore.                             *)

\* opMu is taken; the request may end before the hook: a bad ICCID, no such AID, no LPA client.
Start(s, op, t) ==
    /\ At(s, "idle") /\ opMu = None
    /\ \/ /\ opMu' = s
          /\ snap' = [snap EXCEPT ![s] = [NoSnap EXCEPT !.op = op, !.target = IF op = "enable" THEN t ELSE None]]
          /\ Goto(s, "capture")
       \/ Goto(s, "done") /\ UNCHANGED <<opMu, snap>>
    /\ UNCHANGED <<config, world, current, latest, conv, idVars, live, gateVars>>

\* captureESIMSwitchContext, outside switchMu.  Reading the operating mode may fail.
Capture(s) ==
    /\ At(s, "capture")
    /\ \E flight \in Set(FALSE, radio # "online") :
         snap' = [snap EXCEPT ![s].old = identity.iccid, ![s].flight = flight]
    /\ Goto(s, "begin")
    /\ UNCHANGED <<config, world, switchVars, conv, idVars, live, gateVars>>

\* beginESIMSwitch: the newest switch owns the flag.
Begin(s) ==
    /\ At(s, "begin")
    /\ current' = s /\ latest' = s
    /\ Goto(s, "transition")
    /\ UNCHANGED <<config, world, opMu, snap, conv, idVars, live, gateVars>>

\* BeginSIMIdentityTransition; without a QMI core the gate is invalidated here.
BeginTransition(s) ==
    /\ At(s, "transition")
    /\ identity' = Transition(snap[s].target)
    /\ IF config.backend = "qmi" THEN UNCHANGED gateVars ELSE InvalidateSIMAuthReady
    /\ Goto(s, "vowifiBegin")
    /\ UNCHANGED <<config, world, switchVars, snap, conv, idpc, got, live>>

\* SwitchBegin of the VoWiFi host ends the session.
SwitchBegin(s) ==
    /\ At(s, "vowifiBegin")
    /\ vowifi' = FALSE
    /\ Goto(s, "radioLow")
    /\ UNCHANGED <<config, card, modem, radio, switchVars, snap, conv, idVars, live, gateVars>>

\* releaseRadioBeforeSwitch, which may fail.
ReleaseRadio(s) ==
    /\ At(s, "radioLow")
    /\ radio' \in IF config.radioCycle THEN Set(radio, "low") ELSE {radio}
    /\ Goto(s, "teardown")
    /\ UNCHANGED <<config, card, modem, vowifi, switchVars, snap, conv, idVars, live, gateVars>>

\* ReleaseAPDULeasesForSwitchTeardown of a QMI core invalidates the gate.
Teardown(s) ==
    /\ At(s, "teardown")
    /\ IF config.backend = "qmi" THEN InvalidateSIMAuthReady ELSE UNCHANGED gateVars
    /\ Goto(s, "apdu")
    /\ UNCHANGED <<config, world, switchVars, snap, conv, idVars, live>>

\* The barrier, EnableProfile or DisableProfile with its retries, the end of the
\* operation: opMu is free, and the rest is a goroutine (or onSwitchFailed).
SendAPDU(s) ==
    /\ At(s, "apdu")
    /\ opMu' = None
    /\ \/ card' = snap[s].target /\ Goto(s, "after")
       \/ UNCHANGED card /\ Goto(s, "failed")
    /\ UNCHANGED <<config, modem, radio, vowifi, current, latest, snap, conv, idVars, live, gateVars>>

-----------------------------------------------------------------------------
(* handleESIMSwitchFailed.                                                 *)

\* Mutant of Failed: the flag is cleared whoever owns it.
FailedClearsAny(s) ==
    /\ At(s, "failed")
    /\ current' = None
    /\ Goto(s, "failRadio")
    /\ UNCHANGED <<config, world, opMu, latest, snap, conv, idVars, live, gateVars>>

\* finishESIMSwitchForFailure: only while the token is current.
Failed(s) ==
    /\ At(s, "failed")
    /\ \/ current = s /\ current' = None /\ Goto(s, "failRadio")
       \/ current # s /\ Goto(s, "done") /\ UNCHANGED current
    /\ UNCHANGED <<config, world, opMu, latest, snap, conv, idVars, live, gateVars>>

\* restoreRadioDataForSwitchSnapshot; its errors are only logged.
RestoreRadio(s, alreadyDone) ==
    /\ radio' \in IF snap[s].flight THEN Set(radio, "off")
                  ELSE IF alreadyDone THEN {radio} ELSE Set(radio, "online")
    /\ UNCHANGED <<card, modem, vowifi>>

FailedRestores(s) ==
    /\ At(s, "failRadio")
    /\ RestoreRadio(s, FALSE)
    /\ Goto(s, "done")
    /\ UNCHANGED <<config, switchVars, snap, conv, idVars, live, gateVars>>

-----------------------------------------------------------------------------
(* handleESIMSwitchAfter, in the switch's own goroutine.                   *)

\* switchTokenStillCurrent: a switch that has been overtaken, or timed out, stops.
IfCurrent(s, place) == Goto(s, IF current = s THEN place ELSE "clear")

\* resolvePostSwitchSnapshotIfToken.
After(s) ==
    /\ At(s, "after")
    /\ Goto(s, IF current = s THEN "ensure" ELSE "done")
    /\ UNCHANGED <<config, world, switchVars, snap, conv, idVars, live, gateVars>>

\* The worker may be gone, which ends the switch.
EnsureTransition(s) ==
    /\ At(s, "ensure")
    /\ \/ /\ identity' = Ensured(snap[s].target)
          /\ snap' = [snap EXCEPT ![s].gen = identity'.gen]
          /\ Goto(s, "core")
       \/ Goto(s, "clear") /\ UNCHANGED <<identity, snap>>
    /\ UNCHANGED <<config, world, switchVars, conv, idpc, got, live, gateVars>>

\* waitPostSwitchCoreReady; its error is only logged.
WaitCore(s) ==
    /\ At(s, "core")
    /\ IfCurrent(s, IF config.backend = "at" THEN "converge"
                    ELSE IF config.eventGated THEN "reinit" ELSE "converge")
    /\ UNCHANGED <<config, world, switchVars, snap, conv, idVars, live, gateVars>>

\* classifyPostSwitchReadiness answers restore_runtime, with what the modem reads.
RestoreRuntime(s) == modem # None /\ snap[s].target \in {None, modem}

Converged(s) == Goto(s, IF config.radioCycle THEN "radioOn" ELSE "identity")

\* schedulePostSwitchIdentityRefreshes.
Schedule(s) == idpc' = [idpc EXCEPT ![<<s, "retry">>] = "timer"]

\* awaitReinitConverged: an indication with the card ready, or the end of the window
\* and a power cycle of the card, after which the modem may have read it again.
AwaitReinit(s) ==
    /\ At(s, "reinit")
    /\ \/ RestoreRuntime(s) /\ Converged(s) /\ UNCHANGED modem
       \/ modem' \in {modem, card} /\ Goto(s, "converge")
    /\ UNCHANGED <<config, card, radio, vowifi, switchVars, snap, conv, idVars, live, gateVars>>

\* convergePostSwitch ends without the card: retries are scheduled, VoWiFi is left out.
ConvergeDegraded(s) ==
    /\ Schedule(s)
    /\ Goto(s, "restoreRadio")
    /\ conv' = [conv EXCEPT ![s] = [attempt |-> 1, stalls |-> 0]]

\* One attempt of convergePostSwitch: the card is ready; or the services stall, and the
\* second stall in a row asks for a recovery of the core; or, at one attempt, the SIM is
\* reloaded.  The AT backend has no readiness to ask for.
Converge(s) ==
    /\ At(s, "converge")
    /\ \/ /\ config.backend # "at" /\ RestoreRuntime(s)
          /\ Converged(s)
          /\ conv' = [conv EXCEPT ![s] = [attempt |-> 1, stalls |-> 0]]
          /\ UNCHANGED <<modem, idpc>>
       \/ /\ config.backend = "at" \/ conv[s].attempt = Attempts
          /\ ConvergeDegraded(s)
          /\ UNCHANGED modem
       \/ /\ config.backend # "at" /\ conv[s].attempt < Attempts
          /\ \E stall, control \in BOOLEAN :
               LET stalls == IF stall THEN conv[s].stalls + 1 ELSE 0
                   recover == stalls >= StallThreshold
                   next == [conv EXCEPT ![s] = [attempt |-> @.attempt + 1,
                                                stalls |-> IF recover THEN 0 ELSE stalls]]
               IN  \/ /\ ~recover /\ control /\ conv[s].attempt = ReloadAfter
                      /\ \/ ConvergeDegraded(s) /\ UNCHANGED modem
                         \/ conv' = next /\ modem' = card /\ UNCHANGED <<pc, idpc>>
                   \/ /\ recover \/ ~control \/ conv[s].attempt # ReloadAfter
                      /\ conv' = next
                      /\ UNCHANGED <<modem, pc, idpc>>
    /\ UNCHANGED <<config, card, radio, vowifi, switchVars, snap, identity, got, live, gateVars>>

\* bringRadioOnlineAfterSwitch, and the wait for the network.
BringRadioOnline(s) ==
    /\ At(s, "radioOn")
    /\ radio' \in Set(radio, "online")
    /\ Goto(s, "attach")
    /\ UNCHANGED <<config, card, modem, vowifi, switchVars, snap, conv, idVars, live, gateVars>>

Attached(s) ==
    /\ At(s, "attach")
    /\ IfCurrent(s, "identity")
    /\ UNCHANGED <<config, world, switchVars, snap, conv, idVars, live, gateVars>>

\* refreshPostSwitchIdentity is called, and has returned: after refreshPostSwitchRuntime
\* the token is looked at again, retries are scheduled and the ways part.
RefreshIdentity(s) ==
    /\ At(s, "identity")
    /\ LET p == <<s, "after">> IN
        \/ idpc[p] = "none" /\ idpc' = [idpc EXCEPT ![p] = "ensure"] /\ UNCHANGED pc
        \/ /\ idpc[p] \in {"ok", "bad"} /\ current = s
           /\ Schedule(s)
           /\ Goto(s, IF config.vowifi /\ idpc[p] = "ok" THEN "simauth" ELSE "restoreRadio")
        \/ idpc[p] \in {"ok", "bad"} /\ current # s /\ Goto(s, "clear") /\ UNCHANGED idpc
    /\ UNCHANGED <<config, world, switchVars, snap, conv, identity, got, live, gateVars>>

\* waitPostSwitchSIMAuthReady: WaitSIMAuthReady, then the last look at the token.
WaitSIMAuth(s) ==
    /\ At(s, "simauth")
    /\ \/ GateStep(s) /\ UNCHANGED pc
       \/ at[s] = "ready" /\ IfCurrent(s, "switchEnd") /\ UNCHANGED gateVars
       \/ at[s] = "failed" /\ IfCurrent(s, "restoreRadio") /\ UNCHANGED gateVars
    /\ UNCHANGED <<config, world, switchVars, snap, conv, idVars, live>>

\* SwitchEnd of the VoWiFi host; when it fails the radio is restored instead.
SwitchEnd(s) ==
    /\ At(s, "switchEnd")
    /\ \/ vowifi' = TRUE /\ Goto(s, "clear")
       \/ UNCHANGED vowifi /\ Goto(s, "restoreRadio")
    /\ UNCHANGED <<config, card, modem, radio, switchVars, snap, conv, idVars, live, gateVars>>

AfterRestores(s) ==
    /\ At(s, "restoreRadio")
    /\ RestoreRadio(s, config.radioCycle)
    /\ Goto(s, "clear")
    /\ UNCHANGED <<config, switchVars, snap, conv, idVars, live, gateVars>>

\* Mutant of Clear: a switch that was stopped for its token forgets the flag it owns.
ClearNever(s) ==
    /\ At(s, "clear")
    /\ Goto(s, "done")
    /\ IF at[s] = "out" THEN UNCHANGED gateVars ELSE LeaveGate(s)
    /\ UNCHANGED <<config, world, switchVars, snap, conv, idVars, live>>

\* clearESIMSwitchIfToken, deferred.
Clear(s) ==
    /\ At(s, "clear")
    /\ current' = IF current = s THEN None ELSE current
    /\ Goto(s, "done")
    /\ IF at[s] = "out" THEN UNCHANGED gateVars ELSE LeaveGate(s)
    /\ UNCHANGED <<config, world, opMu, latest, snap, conv, idVars, live>>

\* beginESIMSwitch's guard, two minutes later: CapturedAt names the switch, which by
\* then waits for the card or the modem.
SwitchGuard(s) ==
    /\ current = s
    /\ pc[s] \in {"apdu", "core", "reinit", "converge", "identity", "simauth"}
    /\ current' = None
    /\ UNCHANGED <<config, world, opMu, latest, pc, snap, conv, idVars, live, gateVars>>

-----------------------------------------------------------------------------
(* The identity is read again: refreshPostSwitchIdentityWithPolling, for   *)
(* the switch itself and for its delayed retry, and RefreshIdentityLive.   *)

IdGoto(p, place) == idpc' = [idpc EXCEPT ![p] = place]

\* A delayed retry looks whether the identity is still that of its switch.
RetryCheck(p) ==
    /\ idpc[p] = "timer"
    /\ IdGoto(p, IF Matches(snap[p[1]].target, snap[p[1]].gen) THEN "ensure" ELSE "bad")
    /\ UNCHANGED <<config, world, switchVars, pc, snap, conv, identity, got, live, gateVars>>

IdEnsure(p) ==
    /\ idpc[p] = "ensure"
    /\ identity' = Ensured(snap[p[1]].target)
    /\ IdGoto(p, "read")
    /\ UNCHANGED <<config, world, switchVars, pc, snap, conv, got, live, gateVars>>

\* The polling loop ends with an ICCID it accepts, or at its deadline.
Accepts(s, v) ==
    IF snap[s].target # None THEN v = snap[s].target
    ELSE snap[s].old = None \/ v \notin {None, snap[s].old}

IdRead(p) ==
    /\ idpc[p] = "read"
    /\ \E v \in {modem, None} :
         /\ got' = [got EXCEPT ![p] = v]
         /\ IdGoto(p, IF Accepts(p[1], v) \/ snap[p[1]].target = None THEN "write" ELSE "degrade")
    /\ UNCHANGED <<config, world, switchVars, pc, snap, conv, identity, live, gateVars>>

\* What was read is written whatever has happened to the identity since.  Nothing read
\* is an error, which keeps the ICCID, or an empty answer, which does not.
IdWrite(p) ==
    /\ idpc[p] = "write"
    /\ LET read == [identity EXCEPT !.iccid = got[p], !.ready = TRUE, !.phase = "ready", !.target = None]
           kept == IF identity.ready THEN [identity EXCEPT !.phase = "ready", !.target = None] ELSE identity
       IN  IF got[p] # None THEN identity' = read /\ IdGoto(p, "ok")
           ELSE identity' \in {kept, [identity EXCEPT !.iccid = None, !.ready = FALSE]} /\ IdGoto(p, "degrade")
    /\ got' = [got EXCEPT ![p] = None]
    /\ UNCHANGED <<config, world, switchVars, pc, snap, conv, live, gateVars>>

IdDegrade(p) ==
    /\ idpc[p] = "degrade"
    /\ identity' = Degraded
    /\ got' = [got EXCEPT ![p] = None]
    /\ IdGoto(p, "bad")
    /\ UNCHANGED <<config, world, switchVars, pc, snap, conv, live, gateVars>>

\* RefreshIdentityLive reads outside the lock (an empty read ends it) ...
LiveRead ==
    /\ ~live.write /\ modem # None
    /\ live' = [write |-> TRUE, got |-> modem]
    /\ UNCHANGED <<config, world, switchVars, pc, snap, conv, idVars, gateVars>>

\* Mutant of LiveWrite: the target of a transition is not compared.
LiveWriteAny ==
    /\ live.write
    /\ identity' = [identity EXCEPT !.iccid = live.got, !.ready = TRUE, !.phase = "ready", !.target = None]
    /\ live' = [write |-> FALSE, got |-> None]
    /\ UNCHANGED <<config, world, switchVars, pc, snap, conv, idpc, got, gateVars>>

\* ... and writes unless a transition waits for another ICCID.
LiveWrite ==
    /\ live.write
    /\ identity' = IF identity.phase # "ready" /\ identity.target \notin {None, live.got} THEN identity
                   ELSE [identity EXCEPT !.iccid = live.got, !.ready = TRUE, !.phase = "ready", !.target = None]
    /\ live' = [write |-> FALSE, got |-> None]
    /\ UNCHANGED <<config, world, switchVars, pc, snap, conv, idpc, got, gateVars>>

\* External: the modem notices the card's new profile.
ModemFollows ==
    /\ modem # card
    /\ modem' = card
    /\ UNCHANGED <<config, card, radio, vowifi, switchVars, pc, snap, conv, idVars, live, gateVars>>

-----------------------------------------------------------------------------
SwitchStep(s) ==
    \/ Capture(s) \/ Begin(s) \/ BeginTransition(s) \/ SwitchBegin(s)
    \/ ReleaseRadio(s) \/ Teardown(s) \/ SendAPDU(s) \/ Failed(s) \/ FailedRestores(s)
    \/ After(s) \/ EnsureTransition(s) \/ WaitCore(s) \/ AwaitReinit(s) \/ Converge(s)
    \/ BringRadioOnline(s) \/ Attached(s) \/ RefreshIdentity(s) \/ WaitSIMAuth(s)
    \/ SwitchEnd(s) \/ AfterRestores(s) \/ Clear(s)

IdStep(p) == RetryCheck(p) \/ IdEnsure(p) \/ IdRead(p) \/ IdWrite(p) \/ IdDegrade(p)

Next ==
    \/ \E s \in Switches : \/ \E op \in Operations, t \in Profiles : Start(s, op, t)
                          \/ SwitchStep(s) \/ SwitchGuard(s)
    \/ \E p \in Switches \X Roles : IdStep(p)
    \/ LiveRead \/ LiveWrite \/ ModemFollows

Spec == Init /\ [][Next]_vars

-----------------------------------------------------------------------------
(* Properties.                                                             *)

TypeOK ==
    /\ GateTypeOK
    /\ config \in Configs
    /\ card \in Profiles \cup {None} /\ modem \in Profiles \cup {None}
    /\ radio \in {"online", "low", "off"}
    /\ vowifi \in BOOLEAN
    /\ identity \in [iccid : Profiles \cup {None}, ready : BOOLEAN, target : Profiles \cup {None},
                     phase : {"ready", "transitioning", "degraded"}, gen : Nat]
    /\ opMu \in {s \in Switches : pc[s] \in {"capture", "begin", "transition", "vowifiBegin",
                                           "radioLow", "teardown", "apdu"}} \cup {None}
    /\ current \in Switches \cup {None} /\ latest \in Switches \cup {None}
    /\ pc \in [Switches -> Places]
    /\ snap \in [Switches -> [op : {"none", "enable", "disable"}, target : Profiles \cup {None},
                             old : Profiles \cup {None}, flight : BOOLEAN, gen : Nat]]
    /\ conv \in [Switches -> [attempt : 1..Attempts, stalls : 0..StallThreshold]]
    /\ idpc \in [Switches \X Roles -> IdPlaces]
    /\ got \in [Switches \X Roles -> Profiles \cup {None}]
    /\ live \in [write : BOOLEAN, got : Profiles \cup {None}]

\* A device that says it is switching has a switch under way, which will clear the
\* flag on whichever path it ends: otherwise VoWiFi stays refused until the guard
\* (the deferred clear of handleESIMSwitchAfter, finishESIMSwitchForFailure).
FlagHasOwner == current # None => pc[current] \notin {"idle", "capture", "begin", "done"}

\* The flag leaves a switch only by that switch, by its guard, or to the next switch:
\* the late end of one never clears the flag of another (clearESIMSwitchIfToken).
OnlyOwnerClears ==
    [][current # None /\ current' # current =>
        \/ pc'[current] # pc[current]
        \/ current' # None /\ current' = latest'
        \/ pc' = pc /\ current' = None /\ gateVars' = gateVars]_vars

\* What ends the transition of the newest switch to a known ICCID is that ICCID, whoever
\* reads it, unless the refresh of an older switch writes late, as it may: it looks at
\* neither token nor generation when it writes (refreshPostSwitchIdentityWithPolling).
TransitionEndsAtTarget ==
    [][/\ identity.phase # "ready" /\ identity'.phase = "ready"
       /\ latest # None /\ snap[latest].target # None /\ identity.target = snap[latest].target
       => \/ identity'.iccid = identity.target
          \/ \E s \in Switches \ {latest}, r \in Roles :
               idpc[<<s, r>>] = "write" /\ idpc'[<<s, r>>] # "write"]_vars

\* A change of the card leaves the gate closed, so that VoWiFi is restored only when a
\* probe has found the new card ready ("after the switch" is what the log says, and the
\* order in which handleESIMSwitchAfter waits).  The code breaks this: the gate is
\* invalidated before the APDU, and the probe of an older switch may open it in between.
GateClosedAfterSwitch == [][card' # card => ~gate'.ready]_vars

\* With radio calls that do not fail, a switch that restores radio and data leaves the
\* radio on or off, not in LowPower: RadioCycle is "LowPower -> Online radio cycling
\* around switch".
RadioRestored ==
    [][\A s \in Switches : pc[s] \in {"restoreRadio", "failRadio"} /\ pc'[s] # pc[s]
        => radio' # "low"]_vars
=============================================================================
