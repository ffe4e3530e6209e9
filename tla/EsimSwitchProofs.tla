-------------------------- MODULE EsimSwitchProofs --------------------------
(***************************************************************************)
(* Theorems about SimAuthGate and EsimSwitch for any number of switches    *)
(* and profiles and any device configuration: the readiness gate, alone    *)
(* and as the switches use it, the switching flag and its token, and the   *)
(* identity that ends a transition.                                        *)
(***************************************************************************)
EXTENDS EsimSwitch, TLAPS

-----------------------------------------------------------------------------
(* The gate.                                                               *)

\* The probe under way is the one its channel is named for, and whoever sleeps,
\* sleeps on that channel.  A second prober or a channel left behind by an old one
\* would break it, so WaiterHasProber alone is not inductive.
OneProbe ==
    /\ \A c \in Callers : at[c] = "probe" => gate.probing /\ gate.waitC = c
    /\ gate.probing => gate.waitC # None /\ at[gate.waitC] = "probe"
    /\ \A c \in Callers : at[c] = "wait" => gate.probing /\ on[c] = gate.waitC

GateIInv == GateTypeOK /\ OneProbe /\ GateReadyIsFresh

\* Nobody probes and nobody waits at the start.
LEMMA GateInitIInv == GateInit => GateIInv
BY GateNone DEF GateInit, GateIInv, GateTypeOK, OneProbe, GateReadyIsFresh, GatePlaces

\* An invalidation moves the generation past every probe and closes the gate.
LEMMA InvalidateKeepsGate == GateIInv /\ InvalidateSIMAuthReady => GateIInv'
<1> SUFFICES ASSUME GateIInv, InvalidateSIMAuthReady PROVE GateIInv'
  OBVIOUS
<1>1. GateTypeOK'
  <2>1. gate.generation \in Nat /\ gate.generation + 1 \in Nat
    BY DEF GateIInv, GateTypeOK
  <2>2. gate' \in [generation : Nat, ready : BOOLEAN, probing : BOOLEAN,
                   waitC : Callers \cup {None}]
    BY <2>1 DEF GateIInv, GateTypeOK, InvalidateSIMAuthReady
  <2>3. QED  BY <2>2 DEF GateIInv, GateTypeOK, InvalidateSIMAuthReady
<1>2. gate'.probing = gate.probing /\ gate'.waitC = gate.waitC /\ ~gate'.ready
  BY DEF GateIInv, GateTypeOK, InvalidateSIMAuthReady
<1>3. at' = at /\ on' = on  BY DEF InvalidateSIMAuthReady
<1>4. QED  BY <1>1, <1>2, <1>3 DEF GateIInv, OneProbe, GateReadyIsFresh

\* The answer of a probe keeps the types.
LEMMA ProbedKeepsTypes ==
    ASSUME GateIInv, NEW c \in Callers, NEW ok \in BOOLEAN, Probed(c, ok)
    PROVE  GateTypeOK'
<1>1. gate' \in [generation : Nat, ready : BOOLEAN, probing : BOOLEAN,
                 waitC : Callers \cup {None}]
  BY DEF GateIInv, GateTypeOK, Probed
<1>2. at' \in [Callers -> GatePlaces]
  BY DEF GateIInv, GateTypeOK, Probed, AfterProbe, GatePlaces
<1>3. on' \in [Callers -> Callers \cup {None}]
  BY DEF GateIInv, GateTypeOK, Probed
<1>4. proven' \in Nat /\ seen' \in [Callers -> Nat]
  BY DEF GateIInv, GateTypeOK, Probed
<1>5. QED  BY <1>1, <1>2, <1>3, <1>4 DEF GateTypeOK

\* The prober's channel is the current one, so that all who wait wake with it.
LEMMA ProbedKeepsGate ==
    ASSUME GateIInv, NEW c \in Callers, NEW ok \in BOOLEAN, Probed(c, ok)
    PROVE  GateIInv'
<1>1. GateTypeOK'  BY ProbedKeepsTypes
<1>2. gate.waitC = c /\ gate.probing  BY DEF GateIInv, OneProbe, Probed
<1>3. ~gate'.probing  BY DEF GateIInv, GateTypeOK, Probed
<1>4. \A d \in Callers : at'[d] \notin {"probe", "wait"}
  <2> TAKE d \in Callers
  <2>1. CASE d = c  BY <2>1 DEF Probed, AfterProbe
  <2>2. CASE d # c
    <3>1. at[d] # "probe"  BY <1>2, <2>2 DEF GateIInv, OneProbe
    <3>2. at[d] = "wait" => on[d] = c  BY <1>2 DEF GateIInv, OneProbe
    <3>3. at'[d] = IF at[d] = "wait" /\ on[d] = c THEN "check" ELSE at[d]
      BY <1>2, <2>2 DEF Probed, AfterProbe
    <3>4. QED  BY <3>1, <3>2, <3>3
  <2>3. QED  BY <2>1, <2>2
<1>5. GateReadyIsFresh'
  BY DEF GateIInv, GateTypeOK, GateReadyIsFresh, Probed
<1>6. QED  BY <1>1, <1>3, <1>4, <1>5 DEF GateIInv, OneProbe

\* The loop of WaitSIMAuthReady up to the probe or the sleep.
LEMMA CheckKeepsGate ==
    ASSUME GateIInv, NEW c \in Callers, CheckGate(c)
    PROVE  GateIInv'
<1> USE DEF GateIInv, GateTypeOK, OneProbe, GateReadyIsFresh, GatePlaces
<1>1. CASE gate.ready  BY <1>1 DEF CheckGate
<1>2. CASE ~gate.ready /\ gate.probing
  <2>1. gate' = gate /\ on' = [on EXCEPT ![c] = gate.waitC]
    BY <1>2 DEF CheckGate
  <2>2. QED  BY <1>2, <2>1 DEF CheckGate
<1>3. CASE ~gate.ready /\ ~gate.probing
  <2>1. gate' = [gate EXCEPT !.probing = TRUE, !.waitC = c]
    BY <1>3 DEF CheckGate
  <2>2. seen' = [seen EXCEPT ![c] = gate.generation] /\ at' = [at EXCEPT ![c] = "probe"]
        /\ on' = on /\ proven' = proven
    BY <1>3 DEF CheckGate
  <2>3. GateTypeOK'  BY <2>1, <2>2
  <2>4. gate'.probing /\ gate'.waitC = c /\ ~gate'.ready  BY <1>3, <2>1
  <2>5. QED  BY <1>3, <2>2, <2>3, <2>4, GateNone
<1>4. QED  BY <1>1, <1>2, <1>3

\* Every step of the gate keeps its invariant.
LEMMA GateNextIInv == GateIInv /\ [GateNext]_gateVars => GateIInv'
<1> SUFFICES ASSUME GateIInv, [GateNext]_gateVars PROVE GateIInv'
  OBVIOUS
<1>1. CASE UNCHANGED gateVars
  BY <1>1 DEF gateVars, GateIInv, GateTypeOK, OneProbe, GateReadyIsFresh
<1>2. CASE InvalidateSIMAuthReady  BY <1>2, InvalidateKeepsGate
<1>3. ASSUME NEW c \in Callers, EnterGate(c) \/ LeaveGate(c) \/ GateTimeout(c)
      PROVE  GateIInv'
  BY <1>3 DEF EnterGate, LeaveGate, GateTimeout,
              GateIInv, GateTypeOK, OneProbe, GateReadyIsFresh, GatePlaces
<1>4. ASSUME NEW c \in Callers, CheckGate(c) PROVE GateIInv'
  BY <1>4, CheckKeepsGate
<1>5. ASSUME NEW c \in Callers, NEW ok \in BOOLEAN, Probed(c, ok) PROVE GateIInv'
  BY <1>5, ProbedKeepsGate
<1>6. QED  BY <1>1, <1>2, <1>3, <1>4, <1>5 DEF GateNext, GateStep
\* "Ready" is never the answer of a probe from before the last invalidation, for
\* any number of callers.
THEOREM GateFresh == GateSpec => []GateReadyIsFresh
<1>1. GateIInv => GateReadyIsFresh  BY DEF GateIInv
<1>2. QED  BY GateInitIInv, GateNextIInv, <1>1, PTL DEF GateSpec

-----------------------------------------------------------------------------
(* The switches.                                                           *)

\* A switch that the flag names has begun and has not passed the step that gives
\* the flag up; after a failure that is the step before its radio is restored.
FlagInFlight ==
    current # None => pc[current] \notin {"idle", "capture", "begin", "failRadio", "done"}

\* Only a switch that has sent its APDU reads the identity.
IdleHasNoRefresh ==
    \A p \in Switches \X Roles : pc[p[1]] = "idle" => idpc[p] = "none"

\* A refresh that is about to write for a switch with a known target has read it.
WritesTarget ==
    \A p \in Switches \X Roles :
        idpc[p] = "write" /\ snap[p[1]].target # None => got[p] = snap[p[1]].target

IInv ==
    /\ TypeOK /\ OneProbe /\ GateReadyIsFresh
    /\ FlagInFlight /\ IdleHasNoRefresh /\ WritesTarget

\* What a step of the switches does to the gate is a step of the gate.
LEMMA StepsAreGateSteps == [Next]_vars => [GateNext]_gateVars
<1> SUFFICES ASSUME [Next]_vars PROVE [GateNext]_gateVars
  OBVIOUS
<1>1. CASE UNCHANGED vars  BY <1>1 DEF vars
<1>2. ASSUME NEW s \in Switches, NEW op \in Operations, NEW tt \in Profiles, Start(s, op, tt)
      PROVE [GateNext]_gateVars
  BY <1>2 DEF Start
<1>3. ASSUME NEW s \in Switches, BeginTransition(s) \/ Teardown(s)
      PROVE  [GateNext]_gateVars
  BY <1>3 DEF BeginTransition, Teardown, GateNext
<1>4. ASSUME NEW s \in Switches, WaitSIMAuth(s) \/ Clear(s) PROVE [GateNext]_gateVars
  BY <1>4 DEF WaitSIMAuth, Clear, GateNext, Switches
<1>5. ASSUME NEW s \in Switches, SwitchStep(s) \/ SwitchGuard(s) PROVE [GateNext]_gateVars
  BY <1>3, <1>4, <1>5 DEF SwitchStep, SwitchGuard, Capture, Begin, SwitchBegin, ReleaseRadio,
     SendAPDU, Failed, FailedRestores, After, EnsureTransition, WaitCore, AwaitReinit, Converge,
     BringRadioOnline, Attached, RefreshIdentity, SwitchEnd, AfterRestores
<1>6. ASSUME NEW p \in Switches \X Roles, IdStep(p) PROVE [GateNext]_gateVars
  BY <1>6 DEF IdStep, RetryCheck, IdEnsure, IdRead, IdWrite, IdDegrade
<1>7. CASE LiveRead \/ LiveWrite \/ ModemFollows
  BY <1>7 DEF LiveRead, LiveWrite, ModemFollows
<1>8. QED  BY <1>1, <1>2, <1>5, <1>6, <1>7 DEF Next

\* TypeOK in parts, each of which few actions touch.
WorldOK ==
    /\ config \in Configs
    /\ card \in Profiles \cup {None} /\ modem \in Profiles \cup {None}
    /\ radio \in {"online", "low", "off"}
    /\ vowifi \in BOOLEAN
    /\ live \in [write : BOOLEAN, got : Profiles \cup {None}]
PlacesOK ==
    /\ opMu \in {s \in Switches : pc[s] \in {"capture", "begin", "transition", "vowifiBegin",
                                           "radioLow", "teardown", "apdu"}} \cup {None}
    /\ current \in Switches \cup {None} /\ latest \in Switches \cup {None}
    /\ pc \in [Switches -> Places]
SnapOK ==
    snap \in [Switches -> [op : {"none", "enable", "disable"}, target : Profiles \cup {None},
                           old : Profiles \cup {None}, flight : BOOLEAN, gen : Nat]]
ConvOK == conv \in [Switches -> [attempt : 1..Attempts, stalls : 0..StallThreshold]]
IdentityOK ==
    identity \in [iccid : Profiles \cup {None}, ready : BOOLEAN, target : Profiles \cup {None},
                  phase : {"ready", "transitioning", "degraded"}, gen : Nat]
RefreshOK ==
    /\ idpc \in [Switches \X Roles -> IdPlaces]
    /\ got \in [Switches \X Roles -> Profiles \cup {None}]

\* The parts are the whole.
LEMMA TypeParts ==
    TypeOK <=> GateTypeOK /\ WorldOK /\ PlacesOK /\ SnapOK /\ ConvOK /\ IdentityOK /\ RefreshOK
BY DEF TypeOK, WorldOK, PlacesOK, SnapOK, ConvOK, IdentityOK, RefreshOK

\* The card, the modem, the radio and the session keep their types.
LEMMA WorldStep == WorldOK /\ SnapOK /\ [Next]_vars => WorldOK'
<1> SUFFICES ASSUME WorldOK, SnapOK, [Next]_vars PROVE WorldOK'
  OBVIOUS
<1> USE DEF WorldOK
<1>1. CASE UNCHANGED vars  BY <1>1 DEF vars, world
<1>2. ASSUME NEW s \in Switches, NEW op \in Operations, NEW t \in Profiles, Start(s, op, t)
      PROVE  WorldOK'
  BY <1>2 DEF Start, world
<1>3. ASSUME NEW s \in Switches,
             \/ Capture(s) \/ Begin(s) \/ BeginTransition(s) \/ Teardown(s) \/ Failed(s)
             \/ After(s) \/ EnsureTransition(s) \/ WaitCore(s) \/ Attached(s)
             \/ RefreshIdentity(s) \/ WaitSIMAuth(s) \/ Clear(s) \/ SwitchGuard(s)
      PROVE  WorldOK'
  BY <1>3 DEF Capture, Begin, BeginTransition, Teardown, Failed, After, EnsureTransition,
  WaitCore, Attached, RefreshIdentity, WaitSIMAuth, Clear, SwitchGuard, world
<1>4. ASSUME NEW s \in Switches, SwitchBegin(s) PROVE WorldOK'
  BY <1>4 DEF SwitchBegin, world
<1>5. ASSUME NEW s \in Switches, ReleaseRadio(s) PROVE WorldOK'
  BY <1>5 DEF ReleaseRadio, Set, world
<1>6. ASSUME NEW s \in Switches, SendAPDU(s) PROVE WorldOK'
  BY <1>6 DEF SendAPDU, SnapOK, world
<1>7. ASSUME NEW s \in Switches, FailedRestores(s) PROVE WorldOK'
  BY <1>7 DEF FailedRestores, RestoreRadio, Set, world
<1>8. ASSUME NEW s \in Switches, AwaitReinit(s) PROVE WorldOK'
  BY <1>8 DEF AwaitReinit, world
<1>9. ASSUME NEW s \in Switches, Converge(s) PROVE WorldOK'
  BY <1>9 DEF Converge, ConvergeDegraded, world
<1>10. ASSUME NEW s \in Switches, BringRadioOnline(s) PROVE WorldOK'
  BY <1>10 DEF BringRadioOnline, Set, world
<1>11. ASSUME NEW s \in Switches, SwitchEnd(s) PROVE WorldOK'
  BY <1>11 DEF SwitchEnd, world
<1>12. ASSUME NEW s \in Switches, AfterRestores(s) PROVE WorldOK'
  BY <1>12 DEF AfterRestores, RestoreRadio, Set, world
<1>13. ASSUME NEW p \in Switches \X Roles,
             \/ RetryCheck(p) \/ IdEnsure(p) \/ IdRead(p) \/ IdWrite(p) \/ IdDegrade(p)
      PROVE  WorldOK'
  BY <1>13 DEF RetryCheck, IdEnsure, IdRead, IdWrite, IdDegrade, world
<1>14. CASE LiveRead
  BY <1>14 DEF LiveRead, world
<1>15. CASE LiveWrite
  BY <1>15 DEF LiveWrite, world
<1>16. CASE ModemFollows
  BY <1>16 DEF ModemFollows, world
<1>17. QED
  BY <1>1, <1>2, <1>3, <1>4, <1>5, <1>6, <1>7, <1>8, <1>9, <1>10, <1>11, <1>12, <1>13, <1>14,
  <1>15, <1>16
  DEF Next, SwitchStep, IdStep

\* opMu is held by a switch before the end of its APDU.
LEMMA PlacesStep == PlacesOK /\ [Next]_vars => PlacesOK'
<1> SUFFICES ASSUME PlacesOK, [Next]_vars PROVE PlacesOK'
  OBVIOUS
<1> USE DEF PlacesOK, At, Goto, Places
<1>1. CASE UNCHANGED vars  BY <1>1 DEF vars, switchVars
<1>2. ASSUME NEW s \in Switches, NEW op \in Operations, NEW t \in Profiles, Start(s, op, t)
      PROVE  PlacesOK'
  BY <1>2 DEF Start, switchVars
<1>3. ASSUME NEW s \in Switches, Capture(s) PROVE PlacesOK'
  BY <1>3 DEF Capture, switchVars
<1>4. ASSUME NEW s \in Switches, Begin(s) PROVE PlacesOK'
  BY <1>4 DEF Begin, switchVars
<1>5. ASSUME NEW s \in Switches, BeginTransition(s) PROVE PlacesOK'
  BY <1>5 DEF BeginTransition, switchVars
<1>6. ASSUME NEW s \in Switches, SwitchBegin(s) PROVE PlacesOK'
  BY <1>6 DEF SwitchBegin, switchVars
<1>7. ASSUME NEW s \in Switches, ReleaseRadio(s) PROVE PlacesOK'
  BY <1>7 DEF ReleaseRadio, switchVars
<1>8. ASSUME NEW s \in Switches, Teardown(s) PROVE PlacesOK'
  BY <1>8 DEF Teardown, switchVars
<1>9. ASSUME NEW s \in Switches, SendAPDU(s) PROVE PlacesOK'
  BY <1>9 DEF SendAPDU, switchVars
<1>10. ASSUME NEW s \in Switches, Failed(s) PROVE PlacesOK'
  BY <1>10 DEF Failed, switchVars
<1>11. ASSUME NEW s \in Switches, FailedRestores(s) PROVE PlacesOK'
  BY <1>11 DEF FailedRestores, switchVars
<1>12. ASSUME NEW s \in Switches, After(s) PROVE PlacesOK'
  BY <1>12 DEF After, switchVars
<1>13. ASSUME NEW s \in Switches, EnsureTransition(s) PROVE PlacesOK'
  BY <1>13 DEF EnsureTransition, switchVars
<1>14. ASSUME NEW s \in Switches, WaitCore(s) PROVE PlacesOK'
  BY <1>14 DEF WaitCore, IfCurrent, switchVars
<1>15. ASSUME NEW s \in Switches, AwaitReinit(s) PROVE PlacesOK'
  BY <1>15 DEF AwaitReinit, Converged, switchVars
<1>16. ASSUME NEW s \in Switches, Converge(s) PROVE PlacesOK'
  BY <1>16 DEF Converge, Converged, ConvergeDegraded, switchVars
<1>17. ASSUME NEW s \in Switches, BringRadioOnline(s) PROVE PlacesOK'
  BY <1>17 DEF BringRadioOnline, switchVars
<1>18. ASSUME NEW s \in Switches, Attached(s) PROVE PlacesOK'
  BY <1>18 DEF Attached, IfCurrent, switchVars
<1>19. ASSUME NEW s \in Switches, RefreshIdentity(s) PROVE PlacesOK'
  BY <1>19 DEF RefreshIdentity, switchVars
<1>20. ASSUME NEW s \in Switches, WaitSIMAuth(s) PROVE PlacesOK'
  BY <1>20 DEF WaitSIMAuth, IfCurrent, switchVars
<1>21. ASSUME NEW s \in Switches, SwitchEnd(s) PROVE PlacesOK'
  BY <1>21 DEF SwitchEnd, switchVars
<1>22. ASSUME NEW s \in Switches, AfterRestores(s) PROVE PlacesOK'
  BY <1>22 DEF AfterRestores, switchVars
<1>23. ASSUME NEW s \in Switches, Clear(s) PROVE PlacesOK'
  BY <1>23 DEF Clear, switchVars
<1>24. ASSUME NEW s \in Switches, SwitchGuard(s) PROVE PlacesOK'
  BY <1>24 DEF SwitchGuard, switchVars
<1>25. ASSUME NEW p \in Switches \X Roles,
             \/ RetryCheck(p) \/ IdEnsure(p) \/ IdRead(p) \/ IdWrite(p) \/ IdDegrade(p)
      PROVE  PlacesOK'
  BY <1>25 DEF RetryCheck, IdEnsure, IdRead, IdWrite, IdDegrade, switchVars
<1>26. CASE LiveRead \/ LiveWrite \/ ModemFollows
  BY <1>26 DEF LiveRead, LiveWrite, ModemFollows, switchVars
<1>27. QED
  BY <1>1, <1>2, <1>3, <1>4, <1>5, <1>6, <1>7, <1>8, <1>9, <1>10, <1>11, <1>12, <1>13, <1>14,
  <1>15, <1>16, <1>17, <1>18, <1>19, <1>20, <1>21, <1>22, <1>23, <1>24, <1>25, <1>26
  DEF Next, SwitchStep, IdStep

\* What a switch remembers keeps its type.
LEMMA SnapStep == SnapOK /\ IdentityOK /\ IdentityOK' /\ [Next]_vars => SnapOK'
<1> SUFFICES ASSUME SnapOK, IdentityOK, IdentityOK', [Next]_vars PROVE SnapOK'
  OBVIOUS
<1> USE DEF SnapOK
<1>1. CASE UNCHANGED vars  BY <1>1 DEF vars
<1>2. ASSUME NEW s \in Switches, NEW op \in Operations, NEW t \in Profiles, Start(s, op, t)
      PROVE  SnapOK'
  <2>1. CASE UNCHANGED snap  BY <2>1
  <2>2. CASE snap' = [snap EXCEPT ![s] = [NoSnap EXCEPT !.op = op,
                                            !.target = IF op = "enable" THEN t ELSE None]]
    BY <2>2, OperationsAssumption DEF NoSnap
  <2>3. QED  BY <1>2, <2>1, <2>2 DEF Start
<1>3. ASSUME NEW s \in Switches,
             \/ Begin(s) \/ BeginTransition(s) \/ SwitchBegin(s) \/ ReleaseRadio(s) \/ Teardown(s)
             \/ SendAPDU(s) \/ Failed(s) \/ FailedRestores(s) \/ After(s) \/ WaitCore(s)
             \/ AwaitReinit(s) \/ Converge(s) \/ BringRadioOnline(s) \/ Attached(s)
             \/ RefreshIdentity(s) \/ WaitSIMAuth(s) \/ SwitchEnd(s) \/ AfterRestores(s)
             \/ Clear(s) \/ SwitchGuard(s)
      PROVE  SnapOK'
  BY <1>3 DEF Begin, BeginTransition, SwitchBegin, ReleaseRadio, Teardown, SendAPDU, Failed,
  FailedRestores, After, WaitCore, AwaitReinit, Converge, BringRadioOnline, Attached,
  RefreshIdentity, WaitSIMAuth, SwitchEnd, AfterRestores, Clear, SwitchGuard
<1>4. ASSUME NEW s \in Switches, Capture(s) PROVE SnapOK'
  <2>1. PICK flight \in Set(FALSE, radio # "online") :
                 snap' = [snap EXCEPT ![s].old = identity.iccid, ![s].flight = flight]
    BY <1>4 DEF Capture
  <2>2. flight \in BOOLEAN /\ identity.iccid \in Profiles \cup {None}
    BY <2>1 DEF Set, IdentityOK
  <2>3. QED  BY <2>1, <2>2
<1>5. ASSUME NEW s \in Switches, EnsureTransition(s) PROVE SnapOK'
  BY <1>5 DEF EnsureTransition, IdentityOK
<1>6. ASSUME NEW p \in Switches \X Roles,
             \/ RetryCheck(p) \/ IdEnsure(p) \/ IdRead(p) \/ IdWrite(p) \/ IdDegrade(p)
      PROVE  SnapOK'
  BY <1>6 DEF RetryCheck, IdEnsure, IdRead, IdWrite, IdDegrade
<1>7. CASE LiveRead \/ LiveWrite \/ ModemFollows
  BY <1>7 DEF LiveRead, LiveWrite, ModemFollows
<1>8. QED
  BY <1>1, <1>2, <1>3, <1>4, <1>5, <1>6, <1>7
  DEF Next, SwitchStep, IdStep

\* The attempts of convergePostSwitch stay in their bounds.
LEMMA ConvStep == ConvOK /\ [Next]_vars => ConvOK'
<1> SUFFICES ASSUME ConvOK, [Next]_vars PROVE ConvOK'
  OBVIOUS
<1> USE DEF ConvOK
<1>1. CASE UNCHANGED vars  BY <1>1 DEF vars
<1>2. ASSUME NEW s \in Switches, NEW op \in Operations, NEW t \in Profiles, Start(s, op, t)
      PROVE  ConvOK'
  BY <1>2 DEF Start
<1>3. ASSUME NEW s \in Switches,
             \/ Capture(s) \/ Begin(s) \/ BeginTransition(s) \/ SwitchBegin(s) \/ ReleaseRadio(s)
             \/ Teardown(s) \/ SendAPDU(s) \/ Failed(s) \/ FailedRestores(s) \/ After(s)
             \/ EnsureTransition(s) \/ WaitCore(s) \/ AwaitReinit(s) \/ BringRadioOnline(s)
             \/ Attached(s) \/ RefreshIdentity(s) \/ WaitSIMAuth(s) \/ SwitchEnd(s)
             \/ AfterRestores(s) \/ Clear(s) \/ SwitchGuard(s)
      PROVE  ConvOK'
  BY <1>3 DEF Capture, Begin, BeginTransition, SwitchBegin, ReleaseRadio, Teardown, SendAPDU,
  Failed, FailedRestores, After, EnsureTransition, WaitCore, AwaitReinit, BringRadioOnline,
  Attached, RefreshIdentity, WaitSIMAuth, SwitchEnd, AfterRestores, Clear, SwitchGuard
<1>4. ASSUME NEW s \in Switches, Converge(s) PROVE ConvOK'
  BY <1>4, AttemptsAssumption DEF Converge, ConvergeDegraded
<1>5. ASSUME NEW p \in Switches \X Roles,
             \/ RetryCheck(p) \/ IdEnsure(p) \/ IdRead(p) \/ IdWrite(p) \/ IdDegrade(p)
      PROVE  ConvOK'
  BY <1>5 DEF RetryCheck, IdEnsure, IdRead, IdWrite, IdDegrade
<1>6. CASE LiveRead \/ LiveWrite \/ ModemFollows
  BY <1>6 DEF LiveRead, LiveWrite, ModemFollows
<1>7. QED
  BY <1>1, <1>2, <1>3, <1>4, <1>5, <1>6
  DEF Next, SwitchStep, IdStep

\* The identity keeps its type.
LEMMA IdentityStep == IdentityOK /\ SnapOK /\ WorldOK /\ RefreshOK /\ [Next]_vars => IdentityOK'
<1> SUFFICES ASSUME IdentityOK, SnapOK, WorldOK, RefreshOK, [Next]_vars PROVE IdentityOK'
  OBVIOUS
<1> USE DEF IdentityOK
<1>1. CASE UNCHANGED vars  BY <1>1 DEF vars, idVars
<1>2. ASSUME NEW s \in Switches, NEW op \in Operations, NEW t \in Profiles, Start(s, op, t)
      PROVE  IdentityOK'
  BY <1>2 DEF Start, idVars
<1>3. ASSUME NEW s \in Switches,
             \/ Capture(s) \/ Begin(s) \/ SwitchBegin(s) \/ ReleaseRadio(s) \/ Teardown(s)
             \/ SendAPDU(s) \/ Failed(s) \/ FailedRestores(s) \/ After(s) \/ WaitCore(s)
             \/ AwaitReinit(s) \/ Converge(s) \/ BringRadioOnline(s) \/ Attached(s)
             \/ RefreshIdentity(s) \/ WaitSIMAuth(s) \/ SwitchEnd(s) \/ AfterRestores(s)
             \/ Clear(s) \/ SwitchGuard(s)
      PROVE  IdentityOK'
  BY <1>3 DEF Capture, Begin, SwitchBegin, ReleaseRadio, Teardown, SendAPDU, Failed,
  FailedRestores, After, WaitCore, AwaitReinit, Converge, BringRadioOnline, Attached,
  RefreshIdentity, WaitSIMAuth, SwitchEnd, AfterRestores, Clear, SwitchGuard, idVars
<1>4. ASSUME NEW s \in Switches, BeginTransition(s) PROVE IdentityOK'
  BY <1>4 DEF BeginTransition, Transition, SnapOK, idVars
<1>5. ASSUME NEW s \in Switches, EnsureTransition(s) PROVE IdentityOK'
  <2>1. Ensured(snap[s].target) \in {identity, Transition(snap[s].target)}
    BY DEF Ensured
  <2>2. Transition(snap[s].target) \in
          [iccid : Profiles \cup {None}, ready : BOOLEAN, target : Profiles \cup {None},
           phase : {"ready", "transitioning", "degraded"}, gen : Nat]
    BY DEF Transition, SnapOK
  <2>3. identity' \in {identity, Ensured(snap[s].target)}  BY <1>5 DEF EnsureTransition
  <2>4. QED  BY <2>1, <2>2, <2>3
<1>6. ASSUME NEW p \in Switches \X Roles,
             \/ RetryCheck(p) \/ IdRead(p)
      PROVE  IdentityOK'
  BY <1>6 DEF RetryCheck, IdRead, idVars
<1>7. ASSUME NEW p \in Switches \X Roles, IdEnsure(p) PROVE IdentityOK'
  BY <1>7 DEF IdEnsure, Ensured, Transition, SnapOK, idVars
<1>8. ASSUME NEW p \in Switches \X Roles, IdWrite(p) PROVE IdentityOK'
  BY <1>8 DEF IdWrite, RefreshOK, idVars
<1>9. ASSUME NEW p \in Switches \X Roles, IdDegrade(p) PROVE IdentityOK'
  BY <1>9 DEF IdDegrade, Degraded, idVars
<1>10. CASE LiveRead \/ ModemFollows
  BY <1>10 DEF LiveRead, ModemFollows, idVars
<1>11. CASE LiveWrite
  BY <1>11 DEF LiveWrite, WorldOK, idVars
<1>12. QED
  BY <1>1, <1>2, <1>3, <1>4, <1>5, <1>6, <1>7, <1>8, <1>9, <1>10, <1>11
  DEF Next, SwitchStep, IdStep

\* The refreshes keep their types.
LEMMA RefreshStep == RefreshOK /\ WorldOK /\ [Next]_vars => RefreshOK'
<1> SUFFICES ASSUME RefreshOK, WorldOK, [Next]_vars PROVE RefreshOK'
  OBVIOUS
<1> USE DEF RefreshOK, IdGoto, IdPlaces, Roles
<1>1. CASE UNCHANGED vars  BY <1>1 DEF vars, idVars
<1>2. ASSUME NEW s \in Switches, NEW op \in Operations, NEW t \in Profiles, Start(s, op, t)
      PROVE  RefreshOK'
  BY <1>2 DEF Start, idVars
<1>3. ASSUME NEW s \in Switches,
             \/ Capture(s) \/ Begin(s) \/ BeginTransition(s) \/ SwitchBegin(s) \/ ReleaseRadio(s)
             \/ Teardown(s) \/ SendAPDU(s) \/ Failed(s) \/ FailedRestores(s) \/ After(s)
             \/ EnsureTransition(s) \/ WaitCore(s) \/ AwaitReinit(s) \/ BringRadioOnline(s)
             \/ Attached(s) \/ WaitSIMAuth(s) \/ SwitchEnd(s) \/ AfterRestores(s) \/ Clear(s)
             \/ SwitchGuard(s)
      PROVE  RefreshOK'
  BY <1>3 DEF Capture, Begin, BeginTransition, SwitchBegin, ReleaseRadio, Teardown, SendAPDU,
  Failed, FailedRestores, After, EnsureTransition, WaitCore, AwaitReinit, BringRadioOnline,
  Attached, WaitSIMAuth, SwitchEnd, AfterRestores, Clear, SwitchGuard, idVars
<1>4. ASSUME NEW s \in Switches, Converge(s) PROVE RefreshOK'
  BY <1>4 DEF Converge, ConvergeDegraded, Schedule, idVars
<1>5. ASSUME NEW s \in Switches, RefreshIdentity(s) PROVE RefreshOK'
  BY <1>5 DEF RefreshIdentity, Schedule, idVars
<1>6. ASSUME NEW p \in Switches \X Roles, RetryCheck(p) PROVE RefreshOK'
  BY <1>6 DEF RetryCheck, idVars
<1>7. ASSUME NEW p \in Switches \X Roles, IdEnsure(p) PROVE RefreshOK'
  BY <1>7 DEF IdEnsure, idVars
<1>8. ASSUME NEW p \in Switches \X Roles, IdRead(p) PROVE RefreshOK'
  BY <1>8 DEF IdRead, WorldOK, idVars
<1>9. ASSUME NEW p \in Switches \X Roles, IdWrite(p) PROVE RefreshOK'
  BY <1>9 DEF IdWrite, idVars
<1>10. ASSUME NEW p \in Switches \X Roles, IdDegrade(p) PROVE RefreshOK'
  BY <1>10 DEF IdDegrade, idVars
<1>11. CASE LiveRead \/ LiveWrite \/ ModemFollows
  BY <1>11 DEF LiveRead, LiveWrite, ModemFollows, idVars
<1>12. QED
  BY <1>1, <1>2, <1>3, <1>4, <1>5, <1>6, <1>7, <1>8, <1>9, <1>10, <1>11
  DEF Next, SwitchStep, IdStep

\* The flag names a switch that is under way, whatever the others do.
LEMMA FlagStep == PlacesOK /\ FlagInFlight /\ [Next]_vars => FlagInFlight'
<1> SUFFICES ASSUME PlacesOK, FlagInFlight, [Next]_vars PROVE FlagInFlight'
  OBVIOUS
<1> USE DEF FlagInFlight, PlacesOK, At, Goto
<1>1. CASE UNCHANGED vars  BY <1>1 DEF vars, switchVars
<1>2. ASSUME NEW s \in Switches, NEW op \in Operations, NEW t \in Profiles, Start(s, op, t)
      PROVE  FlagInFlight'
  BY <1>2 DEF Start, switchVars
<1>3. ASSUME NEW s \in Switches,
             \/ Capture(s) \/ BeginTransition(s) \/ SwitchBegin(s) \/ ReleaseRadio(s)
             \/ Teardown(s) \/ SendAPDU(s) \/ EnsureTransition(s) \/ BringRadioOnline(s)
             \/ SwitchEnd(s) \/ AfterRestores(s)
      PROVE  FlagInFlight'
  BY <1>3 DEF Capture, BeginTransition, SwitchBegin, ReleaseRadio, Teardown, SendAPDU,
  EnsureTransition, BringRadioOnline, SwitchEnd, AfterRestores, switchVars
<1>4. ASSUME NEW s \in Switches, Begin(s) PROVE FlagInFlight'
  BY <1>4 DEF Begin, switchVars
<1>5. ASSUME NEW s \in Switches, Failed(s) PROVE FlagInFlight'
  BY <1>5 DEF Failed, switchVars
<1>6. ASSUME NEW s \in Switches, FailedRestores(s) PROVE FlagInFlight'
  BY <1>6 DEF FailedRestores, switchVars
<1>7. ASSUME NEW s \in Switches, After(s) PROVE FlagInFlight'
  BY <1>7 DEF After, switchVars
<1>8. ASSUME NEW s \in Switches, WaitCore(s) PROVE FlagInFlight'
  BY <1>8 DEF WaitCore, IfCurrent, switchVars
<1>9. ASSUME NEW s \in Switches, AwaitReinit(s) PROVE FlagInFlight'
  BY <1>9 DEF AwaitReinit, Converged, switchVars
<1>10. ASSUME NEW s \in Switches, Converge(s) PROVE FlagInFlight'
  BY <1>10 DEF Converge, Converged, ConvergeDegraded, switchVars
<1>11. ASSUME NEW s \in Switches, Attached(s) PROVE FlagInFlight'
  BY <1>11 DEF Attached, IfCurrent, switchVars
<1>12. ASSUME NEW s \in Switches, RefreshIdentity(s) PROVE FlagInFlight'
  BY <1>12 DEF RefreshIdentity, switchVars
<1>13. ASSUME NEW s \in Switches, WaitSIMAuth(s) PROVE FlagInFlight'
  BY <1>13 DEF WaitSIMAuth, IfCurrent, switchVars
<1>14. ASSUME NEW s \in Switches, Clear(s) PROVE FlagInFlight'
  BY <1>14 DEF Clear, switchVars
<1>15. ASSUME NEW s \in Switches, SwitchGuard(s) PROVE FlagInFlight'
  BY <1>15 DEF SwitchGuard, switchVars
<1>16. ASSUME NEW p \in Switches \X Roles,
             \/ RetryCheck(p) \/ IdEnsure(p) \/ IdRead(p) \/ IdWrite(p) \/ IdDegrade(p)
      PROVE  FlagInFlight'
  BY <1>16 DEF RetryCheck, IdEnsure, IdRead, IdWrite, IdDegrade, switchVars
<1>17. CASE LiveRead \/ LiveWrite \/ ModemFollows
  BY <1>17 DEF LiveRead, LiveWrite, ModemFollows, switchVars
<1>18. QED
  BY <1>1, <1>2, <1>3, <1>4, <1>5, <1>6, <1>7, <1>8, <1>9, <1>10, <1>11, <1>12, <1>13, <1>14,
  <1>15, <1>16, <1>17
  DEF Next, SwitchStep, IdStep

\* A switch that has not begun has no refresh.
LEMMA IdleStep == PlacesOK /\ RefreshOK /\ IdleHasNoRefresh /\ [Next]_vars => IdleHasNoRefresh'
<1> SUFFICES ASSUME PlacesOK, RefreshOK, IdleHasNoRefresh, [Next]_vars PROVE IdleHasNoRefresh'
  OBVIOUS
<1> USE DEF IdleHasNoRefresh, PlacesOK, RefreshOK, At, Goto
<1>1. CASE UNCHANGED vars  BY <1>1 DEF vars, idVars
<1>2. ASSUME NEW s \in Switches, NEW op \in Operations, NEW t \in Profiles, Start(s, op, t)
      PROVE  IdleHasNoRefresh'
  BY <1>2 DEF Start, idVars
<1>3. ASSUME NEW s \in Switches,
             \/ Capture(s) \/ Begin(s) \/ BeginTransition(s) \/ SwitchBegin(s) \/ ReleaseRadio(s)
             \/ Teardown(s) \/ SendAPDU(s) \/ Failed(s) \/ FailedRestores(s) \/ After(s)
             \/ EnsureTransition(s) \/ BringRadioOnline(s) \/ SwitchEnd(s) \/ AfterRestores(s)
             \/ Clear(s) \/ SwitchGuard(s)
      PROVE  IdleHasNoRefresh'
  BY <1>3 DEF Capture, Begin, BeginTransition, SwitchBegin, ReleaseRadio, Teardown, SendAPDU,
  Failed, FailedRestores, After, EnsureTransition, BringRadioOnline, SwitchEnd, AfterRestores,
  Clear, SwitchGuard, idVars
<1>4. ASSUME NEW s \in Switches, WaitCore(s) PROVE IdleHasNoRefresh'
  BY <1>4 DEF WaitCore, IfCurrent, idVars
<1>5. ASSUME NEW s \in Switches, AwaitReinit(s) PROVE IdleHasNoRefresh'
  BY <1>5 DEF AwaitReinit, Converged, idVars
<1>6. ASSUME NEW s \in Switches, Converge(s) PROVE IdleHasNoRefresh'
  BY <1>6 DEF Converge, Converged, ConvergeDegraded, Schedule, idVars
<1>7. ASSUME NEW s \in Switches, Attached(s) PROVE IdleHasNoRefresh'
  BY <1>7 DEF Attached, IfCurrent, idVars
<1>8. ASSUME NEW s \in Switches, RefreshIdentity(s) PROVE IdleHasNoRefresh'
  BY <1>8 DEF RefreshIdentity, Schedule, idVars
<1>9. ASSUME NEW s \in Switches, WaitSIMAuth(s) PROVE IdleHasNoRefresh'
  BY <1>9 DEF WaitSIMAuth, IfCurrent, idVars
<1>10. ASSUME NEW p \in Switches \X Roles, RetryCheck(p) PROVE IdleHasNoRefresh'
  BY <1>10 DEF RetryCheck, IdGoto, idVars
<1>11. ASSUME NEW p \in Switches \X Roles, IdEnsure(p) PROVE IdleHasNoRefresh'
  BY <1>11 DEF IdEnsure, IdGoto, idVars
<1>12. ASSUME NEW p \in Switches \X Roles, IdRead(p) PROVE IdleHasNoRefresh'
  BY <1>12 DEF IdRead, IdGoto, idVars
<1>13. ASSUME NEW p \in Switches \X Roles, IdWrite(p) PROVE IdleHasNoRefresh'
  BY <1>13 DEF IdWrite, IdGoto, idVars
<1>14. ASSUME NEW p \in Switches \X Roles, IdDegrade(p) PROVE IdleHasNoRefresh'
  BY <1>14 DEF IdDegrade, IdGoto, idVars
<1>15. CASE LiveRead \/ LiveWrite \/ ModemFollows
  BY <1>15 DEF LiveRead, LiveWrite, ModemFollows, idVars
<1>16. QED
  BY <1>1, <1>2, <1>3, <1>4, <1>5, <1>6, <1>7, <1>8, <1>9, <1>10, <1>11, <1>12, <1>13, <1>14,
  <1>15
  DEF Next, SwitchStep, IdStep

\* A refresh reads until it has the target of its switch.
LEMMA WriteStep ==
    SnapOK /\ PlacesOK /\ RefreshOK /\ IdleHasNoRefresh /\ WritesTarget
    /\ [Next]_vars => WritesTarget'
<1> SUFFICES ASSUME SnapOK, PlacesOK, RefreshOK, IdleHasNoRefresh, WritesTarget, [Next]_vars
             PROVE  WritesTarget'
  OBVIOUS
<1> USE DEF WritesTarget, RefreshOK, SnapOK
<1>1. CASE UNCHANGED vars  BY <1>1 DEF vars, idVars
<1>2. ASSUME NEW s \in Switches, NEW op \in Operations, NEW t \in Profiles, Start(s, op, t)
      PROVE  WritesTarget'
  BY <1>2 DEF Start, IdleHasNoRefresh, At, idVars
<1>3. ASSUME NEW s \in Switches,
             \/ Begin(s) \/ BeginTransition(s) \/ SwitchBegin(s) \/ ReleaseRadio(s) \/ Teardown(s)
             \/ SendAPDU(s) \/ Failed(s) \/ FailedRestores(s) \/ After(s) \/ WaitCore(s)
             \/ AwaitReinit(s) \/ BringRadioOnline(s) \/ Attached(s) \/ WaitSIMAuth(s)
             \/ SwitchEnd(s) \/ AfterRestores(s) \/ Clear(s) \/ SwitchGuard(s)
      PROVE  WritesTarget'
  BY <1>3 DEF Begin, BeginTransition, SwitchBegin, ReleaseRadio, Teardown, SendAPDU, Failed,
  FailedRestores, After, WaitCore, AwaitReinit, BringRadioOnline, Attached, WaitSIMAuth,
  SwitchEnd, AfterRestores, Clear, SwitchGuard, idVars
<1>4. ASSUME NEW s \in Switches, Capture(s) PROVE WritesTarget'
  <2>1. idpc' = idpc /\ got' = got  BY <1>4 DEF Capture, idVars
  <2>2. \A x \in Switches : snap'[x].target = snap[x].target  BY <1>4 DEF Capture
  <2>3. \A q \in Switches \X Roles : q[1] \in Switches  OBVIOUS
  <2>4. QED  BY <2>1, <2>2, <2>3
<1>5. ASSUME NEW s \in Switches, EnsureTransition(s) PROVE WritesTarget'
  <2>1. idpc' = idpc /\ got' = got  BY <1>5 DEF EnsureTransition
  <2>2. \A x \in Switches : snap'[x].target = snap[x].target  BY <1>5 DEF EnsureTransition
  <2>3. \A q \in Switches \X Roles : q[1] \in Switches  OBVIOUS
  <2>4. QED  BY <2>1, <2>2, <2>3
<1>6. ASSUME NEW s \in Switches, Converge(s) PROVE WritesTarget'
  BY <1>6 DEF Converge, ConvergeDegraded, Schedule, idVars
<1>7. ASSUME NEW s \in Switches, RefreshIdentity(s) PROVE WritesTarget'
  BY <1>7 DEF RefreshIdentity, Schedule, idVars
<1>8. ASSUME NEW p \in Switches \X Roles, RetryCheck(p) PROVE WritesTarget'
  BY <1>8 DEF RetryCheck, IdGoto, idVars
<1>9. ASSUME NEW p \in Switches \X Roles, IdEnsure(p) PROVE WritesTarget'
  BY <1>9 DEF IdEnsure, IdGoto, idVars
<1>10. ASSUME NEW p \in Switches \X Roles, IdRead(p) PROVE WritesTarget'
  BY <1>10 DEF IdRead, IdGoto, Accepts, idVars
<1>11. ASSUME NEW p \in Switches \X Roles, IdWrite(p) PROVE WritesTarget'
  BY <1>11 DEF IdWrite, IdGoto, idVars
<1>12. ASSUME NEW p \in Switches \X Roles, IdDegrade(p) PROVE WritesTarget'
  BY <1>12 DEF IdDegrade, IdGoto, idVars
<1>13. CASE LiveRead \/ LiveWrite \/ ModemFollows
  BY <1>13 DEF LiveRead, LiveWrite, ModemFollows, idVars
<1>14. QED
  BY <1>1, <1>2, <1>3, <1>4, <1>5, <1>6, <1>7, <1>8, <1>9, <1>10, <1>11, <1>12, <1>13
  DEF Next, SwitchStep, IdStep

\* A device with any configuration, at rest, satisfies the invariant.
LEMMA InitIInv == Init => IInv
<1> SUFFICES ASSUME Init PROVE IInv
  OBVIOUS
<1>1. GateIInv  BY GateInitIInv DEF Init
<1>2. WorldOK  BY ConfigsAssumption DEF Init, WorldOK
<1>3. PlacesOK  BY DEF Init, PlacesOK, Places
<1>4. SnapOK  BY DEF Init, SnapOK, NoSnap
<1>5. ConvOK  BY AttemptsAssumption DEF Init, ConvOK
<1>6. IdentityOK  BY DEF Init, IdentityOK
<1>7. RefreshOK  BY DEF Init, RefreshOK, IdPlaces
<1>8. FlagInFlight /\ IdleHasNoRefresh /\ WritesTarget
  BY DEF Init, FlagInFlight, IdleHasNoRefresh, WritesTarget
<1>9. QED
  BY <1>1, <1>2, <1>3, <1>4, <1>5, <1>6, <1>7, <1>8, TypeParts DEF IInv, GateIInv

\* Every step keeps the invariant.
LEMMA NextIInv == IInv /\ [Next]_vars => IInv'
<1> SUFFICES ASSUME IInv, [Next]_vars PROVE IInv'
  OBVIOUS
<1>1. /\ GateTypeOK /\ WorldOK /\ PlacesOK /\ SnapOK /\ ConvOK /\ IdentityOK /\ RefreshOK
      /\ FlagInFlight /\ IdleHasNoRefresh /\ WritesTarget /\ GateIInv
  BY TypeParts DEF IInv, GateIInv
<1>2. GateIInv'  BY <1>1, StepsAreGateSteps, GateNextIInv
<1>3. IdentityOK'  BY <1>1, IdentityStep
<1>4. WorldOK' /\ PlacesOK' /\ SnapOK' /\ ConvOK' /\ RefreshOK'
  BY <1>1, <1>3, WorldStep, PlacesStep, SnapStep, ConvStep, RefreshStep
<1>5. FlagInFlight' /\ IdleHasNoRefresh' /\ WritesTarget'
  BY <1>1, FlagStep, IdleStep, WriteStep
<1>6. TypeOK'
  <2>1. GateTypeOK'  BY <1>2 DEF GateIInv
  <2>2. QED
    BY <1>3, <1>4, <2>1 DEF TypeOK, WorldOK, PlacesOK, SnapOK, ConvOK, IdentityOK, RefreshOK
<1>7. QED  BY <1>2, <1>5, <1>6 DEF IInv, GateIInv

-----------------------------------------------------------------------------
(* What the switches promise.                                              *)

\* The invariant holds of every behaviour.
THEOREM Inductive == Spec => []IInv
<1>1. QED  BY InitIInv, NextIInv, PTL DEF Spec

\* Type correctness, for any device and any number of switches.
THEOREM TypeCorrect == Spec => []TypeOK
<1>1. IInv => TypeOK  BY DEF IInv
<1>2. QED  BY <1>1, Inductive, PTL

\* The switches use the gate as its specification has it: what is shown of the gate
\* alone is true of it here.
THEOREM UsesTheGate == Spec => GateSpec
<1>1. Init => GateInit  BY DEF Init
<1>2. QED  BY <1>1, StepsAreGateSteps, PTL DEF Spec, GateSpec

\* As the switches use it, too, the gate is ready only by a probe that began after the
\* last invalidation, whichever of any number of switches probed and invalidated
\* (WaitSIMAuthReady).  Which card that probe has seen is not said.
THEOREM ReadyIsFresh == Spec => []GateReadyIsFresh
<1>1. QED  BY UsesTheGate, GateFresh, PTL

\* Whoever sleeps in WaitSIMAuthReady has a prober that will close the channel.
THEOREM NoWaiterLeftBehind == Spec => []WaiterHasProber
<1>1. IInv => WaiterHasProber
  BY DEF IInv, TypeOK, GateTypeOK, OneProbe, WaiterHasProber
<1>2. QED  BY <1>1, Inductive, PTL

\* The switching flag always has a switch that will clear it.
THEOREM FlagIsOwned == Spec => []FlagHasOwner
<1>1. IInv => FlagHasOwner  BY DEF IInv, FlagInFlight, FlagHasOwner
<1>2. QED  BY <1>1, Inductive, PTL

\* The late end of one switch never clears the flag of another.
THEOREM FlagIsClearedByOwner == Spec => OnlyOwnerClears
<1>1. ASSUME IInv, [Next]_vars, current # None, current' # current
      PROVE  \/ pc'[current] # pc[current]
             \/ current' # None /\ current' = latest'
             \/ pc' = pc /\ current' = None /\ gateVars' = gateVars
  <2>1. PlacesOK  BY <1>1, TypeParts DEF IInv
  <2>2. ASSUME NEW s \in Switches, Begin(s) PROVE current' # None /\ current' = latest'
    BY <2>2, GateNone DEF Begin, Switches
  <2>3. ASSUME NEW s \in Switches, Failed(s) \/ Clear(s) PROVE pc'[current] # pc[current]
    BY <1>1, <2>1, <2>3 DEF PlacesOK, Failed, Clear, At, Goto
  <2>4. ASSUME NEW s \in Switches, SwitchGuard(s)
        PROVE  pc' = pc /\ current' = None /\ gateVars' = gateVars
    BY <2>4 DEF SwitchGuard
  <2>5. ASSUME NEW s \in Switches, NEW op \in Operations, NEW t \in Profiles, Start(s, op, t)
        PROVE  current' = current
    BY <2>5 DEF Start
  <2>6. ASSUME NEW s \in Switches, SwitchStep(s)
        PROVE  Begin(s) \/ Failed(s) \/ Clear(s) \/ current' = current
    BY <2>6 DEF SwitchStep, Capture, BeginTransition, SwitchBegin, ReleaseRadio, Teardown,
                SendAPDU, FailedRestores, After, EnsureTransition, WaitCore, AwaitReinit,
                Converge, BringRadioOnline, Attached, RefreshIdentity, WaitSIMAuth, SwitchEnd,
                AfterRestores, switchVars
  <2>7. ASSUME NEW p \in Switches \X Roles, IdStep(p) PROVE current' = current
    BY <2>7 DEF IdStep, RetryCheck, IdEnsure, IdRead, IdWrite, IdDegrade, switchVars
  <2>8. LiveRead \/ LiveWrite \/ ModemFollows \/ UNCHANGED vars => current' = current
    BY DEF LiveRead, LiveWrite, ModemFollows, vars, switchVars
  <2>9. QED  BY <1>1, <2>2, <2>3, <2>4, <2>5, <2>6, <2>7, <2>8 DEF Next
<1>2. QED  BY <1>1, Inductive, PTL DEF Spec, OnlyOwnerClears

\* The transition of the newest switch to a known ICCID ends with that ICCID, unless the
\* refresh of an older switch writes late, for any number of switches and retries.
THEOREM TransitionReachesTarget == Spec => TransitionEndsAtTarget
<1>1. ASSUME IInv, [Next]_vars, identity.phase # "ready", identity'.phase = "ready",
             latest # None, snap[latest].target # None, identity.target = snap[latest].target
      PROVE  \/ identity'.iccid = identity.target
             \/ \E s \in Switches \ {latest}, r \in Roles :
                  idpc[<<s, r>>] = "write" /\ idpc'[<<s, r>>] # "write"
  <2>1. IdentityOK /\ RefreshOK /\ PlacesOK /\ WritesTarget
    BY <1>1, TypeParts DEF IInv
  <2>2. CASE LiveWrite
    BY <1>1, <2>1, <2>2 DEF LiveWrite, IdentityOK
  <2>3. ASSUME NEW p \in Switches \X Roles, IdWrite(p), p[1] = latest
        PROVE  identity'.iccid = identity.target
    <3>1. got[p] = identity.target  BY <1>1, <2>1, <2>3 DEF WritesTarget, IdWrite
    <3>2. identity' = [identity EXCEPT !.iccid = got[p], !.ready = TRUE,
                                       !.phase = "ready", !.target = None]
      BY <1>1, <2>3, <3>1 DEF IdWrite
    <3>3. QED  BY <2>1, <3>1, <3>2 DEF IdentityOK
  <2>4. ASSUME NEW p \in Switches \X Roles, IdWrite(p), p[1] # latest
        PROVE  \E s \in Switches \ {latest}, r \in Roles :
                  idpc[<<s, r>>] = "write" /\ idpc'[<<s, r>>] # "write"
    <3>1. idpc[p] = "write" /\ idpc'[p] # "write"
      BY <2>1, <2>4 DEF IdWrite, IdGoto, RefreshOK
    <3>2. p = <<p[1], p[2]>> /\ p[1] \in Switches \ {latest} /\ p[2] \in Roles
      BY <2>4
    <3>3. QED  BY <3>1, <3>2
  <2>5. ASSUME NEW p \in Switches \X Roles, IdStep(p), ~IdWrite(p)
        PROVE  identity'.phase # "ready"
    <3>1. CASE IdEnsure(p)  BY <1>1, <3>1 DEF IdEnsure, Ensured, Transition
    <3>2. CASE IdDegrade(p)  BY <2>1, <3>2 DEF IdDegrade, Degraded, IdentityOK
    <3>3. CASE RetryCheck(p) \/ IdRead(p)  BY <1>1, <3>3 DEF RetryCheck, IdRead
    <3>4. QED  BY <2>5, <3>1, <3>2, <3>3 DEF IdStep
  <2>6. ASSUME NEW s \in Switches, SwitchStep(s) PROVE identity'.phase # "ready"
    <3>1. BeginTransition(s) \/ EnsureTransition(s) => identity'.phase # "ready"
      BY <1>1 DEF BeginTransition, EnsureTransition, Ensured, Transition
    <3>2. BeginTransition(s) \/ EnsureTransition(s) \/ identity' = identity
      BY <2>6 DEF SwitchStep, Capture, Begin, SwitchBegin, ReleaseRadio, Teardown, SendAPDU,
                  Failed, FailedRestores, After, WaitCore, AwaitReinit, Converge,
                  BringRadioOnline, Attached, RefreshIdentity, WaitSIMAuth, SwitchEnd,
                  AfterRestores, Clear, idVars
    <3>3. QED  BY <1>1, <3>1, <3>2
  <2>7. ASSUME NEW s \in Switches, NEW op \in Operations, NEW t \in Profiles, Start(s, op, t)
        PROVE  identity' = identity
    BY <2>7 DEF Start, idVars
  <2>8. ASSUME NEW s \in Switches, SwitchGuard(s) PROVE identity' = identity
    BY <2>8 DEF SwitchGuard, idVars
  <2>9. LiveRead \/ ModemFollows \/ UNCHANGED vars => identity' = identity
    BY DEF LiveRead, ModemFollows, vars, idVars
  <2>10. QED
    BY <1>1, <2>2, <2>3, <2>4, <2>5, <2>6, <2>7, <2>8, <2>9 DEF Next
<1>2. QED  BY <1>1, Inductive, PTL DEF Spec, TransitionEndsAtTarget
=============================================================================
