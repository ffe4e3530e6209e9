--------------------------- MODULE VoWiFiHostProofs ---------------------------
(***************************************************************************)
(* Theorems about VoWiFiHost for any number of lifecycle commands of any   *)
(* kinds: every session has someone who will end it, the slot does not     *)
(* show a session that is down, "starting" stands for a start, what waited *)
(* while a Disable ran does not turn VoWiFi on again, and the host         *)
(* implements SessionSlot.                                                 *)
(*                                                                         *)
(* Nothing here relies on an epoch being used once: ClearStartupState may  *)
(* begin a slot at epoch 0 again while a start of an earlier epoch 0 is    *)
(* still under way.  What the proofs rely on is that a command starts at   *)
(* most one session and claims the slot at most once.                      *)
(***************************************************************************)
EXTENDS VoWiFiHost, TLAPS

\* What runs one at a time, and what may bring a session up.
Serial == {"enable", "disable", "recover", "restore"}
Starters == {"enable", "restart", "recover", "restore"}

\* Where a command of each kind may be.
Route(c) ==
    /\ At(c, "idle") => kind[c] = "none"
    /\ At(c, "invalidateFirst") => kind[c] \in {"disable", "restart"}
    /\ At(c, "lock") => kind[c] \in Serial
    /\ pc[c] \in {"preempt", "cancel"} => kind[c] \in {"restart", "switch"}
    /\ At(c, "bind") => kind[c] \in Serial \cup {"restart", "switch"}
    /\ At(c, "check") => kind[c] = "recover"
    /\ pc[c] \in {"invalidate", "read", "stop", "delete", "restoreSMS"} =>
           kind[c] \in {"disable", "restart", "recover", "reconnect", "switch"}
    /\ pc[c] \in Starts \cup {"ready", "enable", "begin", "stale", "clearStale", "started",
                            "mark"} => kind[c] \in Starters
    /\ At(c, "end") => kind[c] # "none"
    /\ At(c, "switched") => kind[c] = "switch"
    /\ At(c, "unflag") => kind[c] \in {"switch", "restore"}
Routes == \A c \in Commands : Route(c)

\* The places of a command that is not under way.
Waiting == {"idle", "invalidateFirst", "lock", "switched", "unflag", "done"}
SerialHoldsRunMu ==
    \A c \in Commands : kind[c] \in Serial /\ pc[c] \notin Waiting => runMu = c

\* The numbers of commands.  Who waits has none yet, or that of a recovery.  Each Disable
\* has one of its own: nobody else bears it, and no recovery is scheduled with it; and
\* what runs under runMu has a later one than the last Disable that is over.
NumberIsGiven ==
    \A c \in Commands : pc[c] \in Waiting /\ gen[c] # 0 =>
        At(c, "lock") /\ kind[c] = "recover" /\ gen[c] \in retries
RunIsNumbered ==
    \A c \in Commands : pc[c] \notin Waiting \cup {"preempt"} /\ kind[c] # "reconnect" => gen[c] # 0
DisableNumberIsOwn ==
    \A c \in Commands : kind[c] = "disable" /\ gen[c] # 0 =>
        gen[c] \notin retries /\ \A d \in Commands : gen[d] = gen[c] => d = c
DisabledIsOver == disabled # 0 => disabled \notin retries /\ \A c \in Commands : gen[c] # disabled
RunsAfterDisabled ==
    \A c \in Commands : kind[c] \in Serial /\ pc[c] \notin Waiting => disabled < gen[c]

\* The command that started a session which has been in the slot is past its claim.
Claimed(c) ==
    pc[c] \in {"started", "mark", "unflag", "done"} \/ (At(c, "end") /\ kind[c] # "switch")
InstanceIsClaimed == slot.instance # None => Claimed(slot.instance) /\ ~slot.starting
ConnectedIsUp == \A c \in Commands : At(c, "claim") => c \in live
HeldIsClaimed ==
    \A c \in Commands :
        /\ held[c] # None => Claimed(held[c])
        /\ pc[c] \in {"stop", "delete"} => held[c] # None
        /\ At(c, "delete") => held[c] \notin live

\* TypeOK in parts.
SlotType == [epoch : Nat, starting : BOOLEAN, instance : Commands \cup {None},
             hasState : BOOLEAN, lastErr : BOOLEAN]
SlotOK == slot \in SlotType
SharedOK ==
    /\ runCancel \in Commands \cup {None} /\ cancelled \subseteq Commands
    /\ switching \in Commands \cup {None} /\ smsMode \in {"native", "vowifi"}
    /\ live \subseteq Commands
PlacesOK ==
    /\ pc \in [Commands -> Places] /\ kind \in [Commands -> AllKinds \cup {"none"}]
    /\ held \in [Commands -> Commands \cup {None}] /\ epoch \in [Commands -> Nat]
NumbersOK ==
    /\ generation \in Nat /\ retries \subseteq 1..generation
    /\ gen \in [Commands -> 0..generation] /\ disabled \in 0..generation
RunMuOK == runMu \in {c \in Commands : pc[c] \notin Waiting} \cup {None}

IInv ==
    /\ SlotOK /\ SharedOK /\ PlacesOK /\ NumbersOK /\ RunMuOK /\ Routes /\ SerialHoldsRunMu
    /\ NumberIsGiven /\ RunIsNumbered
    /\ DisableNumberIsOwn /\ DisabledIsOver /\ RunsAfterDisabled
    /\ InstanceIsClaimed /\ ConnectedIsUp /\ HeldIsClaimed
    /\ SessionsAccounted /\ InstanceIsUp /\ StartingHasOwner

\* Nothing is up, and nobody has a number, at the start.
LEMMA InitIInv == Init => IInv
<1> SUFFICES ASSUME Init PROVE IInv
  OBVIOUS
<1>1. \A c \in Commands : /\ pc[c] = "idle" /\ kind[c] = "none" /\ gen[c] = 0 /\ held[c] = None
                          /\ epoch[c] = 0
  BY DEF Init
<1>2. slot.instance = None /\ ~slot.starting /\ live = {}  BY DEF Init, NoSlot
<1>3. SlotOK /\ SharedOK /\ RunMuOK  BY DEF Init, SlotOK, SlotType, NoSlot, SharedOK, RunMuOK
<1>4. PlacesOK /\ NumbersOK  BY DEF Init, PlacesOK, NumbersOK, Places, AllKinds
<1>5. Routes  BY <1>1 DEF Routes, Route, At, Starts
<1>6. NumberIsGiven /\ RunIsNumbered /\ DisableNumberIsOwn
  BY <1>1 DEF NumberIsGiven, RunIsNumbered, DisableNumberIsOwn, Waiting
<1>7. SerialHoldsRunMu /\ RunsAfterDisabled
  BY <1>1 DEF SerialHoldsRunMu, RunsAfterDisabled, Waiting
<1>8. disabled = 0  BY DEF Init
<1>9. HeldIsClaimed /\ ConnectedIsUp  BY <1>1 DEF HeldIsClaimed, ConnectedIsUp, At
<1>10. QED
  BY <1>2, <1>3, <1>4, <1>5, <1>6, <1>7, <1>8, <1>9
  DEF IInv, DisabledIsOver, InstanceIsClaimed, SessionsAccounted, InstanceIsUp, StartingHasOwner

\* What the helpers of the store leave in the slot.
LEMMA SlotValues ==
    SlotOK => /\ Invalidate => /\ slot' \in SlotType /\ slot'.instance = slot.instance
                               /\ slot'.epoch = slot.epoch + 1 /\ ~slot'.starting
              /\ \A s \in {Recorded, Cleared} : s \in SlotType /\ s.instance = slot.instance
              /\ Recorded.epoch = slot.epoch /\ Recorded.starting = slot.starting
              /\ slot.starting => Cleared.epoch = slot.epoch
              /\ Cleared.starting = slot.starting
<1> SUFFICES ASSUME SlotOK
             PROVE  /\ Invalidate => /\ slot' \in SlotType /\ slot'.instance = slot.instance
                                     /\ slot'.epoch = slot.epoch + 1 /\ ~slot'.starting
                    /\ \A s \in {Recorded, Cleared} : s \in SlotType /\ s.instance = slot.instance
                    /\ Recorded.epoch = slot.epoch /\ Recorded.starting = slot.starting
                    /\ slot.starting => Cleared.epoch = slot.epoch
                    /\ Cleared.starting = slot.starting
  OBVIOUS
<1> USE DEF SlotOK, SlotType
<1>1. Recorded \in SlotType /\ Recorded.instance = slot.instance /\ Recorded.epoch = slot.epoch
      /\ Recorded.starting = slot.starting
  BY DEF Recorded
<1>2. Cleared \in SlotType /\ Cleared.instance = slot.instance /\ Cleared.starting = slot.starting
      /\ (slot.starting => Cleared.epoch = slot.epoch)
  BY DEF Cleared, NoSlot
<1>3. ASSUME Invalidate
      PROVE  slot'.instance = slot.instance /\ slot'.epoch = slot.epoch + 1 /\ ~slot'.starting
  BY <1>3 DEF Invalidate
<1>4. ASSUME Invalidate PROVE slot' \in SlotType
  <2>1. slot.epoch + 1 \in Nat  OBVIOUS
  <2>2. QED  BY <1>4, <2>1 DEF Invalidate
<1>5. QED  BY <1>1, <1>2, <1>3, <1>4

\* The slot keeps its type.
LEMMA SlotStep == SlotOK /\ [Next]_vars => SlotOK'
<1> SUFFICES ASSUME SlotOK, [Next]_vars PROVE SlotOK'
  OBVIOUS
<1> USE DEF SlotOK, SlotType, Goto
<1>1. CASE UNCHANGED vars  BY <1>1 DEF vars, control, local
<1>2. ASSUME NEW c \in Commands, NEW k \in Kinds, Submit(c, k) PROVE SlotOK'
  BY <1>2 DEF Submit, control, local
<1>3. ASSUME NEW c \in Commands,
             \/ Lock(c) \/ Preempt(c) \/ CancelActiveRun(c) \/ BindRunContext(c)
             \/ RecoverCheck(c) \/ ReadInstance(c) \/ RestoreSMSMode(c) \/ WaitReady(c)
             \/ CheckSwitching(c) \/ Connect(c) \/ MarkRuntimeStarted(c) \/ Finish(c)
             \/ EndSwitch(c) \/ ClearSwitch(c) \/ SwitchGuard(c)
      PROVE  SlotOK'
  BY <1>3 DEF Lock, Preempt, CancelActiveRun, BindRunContext, RecoverCheck, ReadInstance,
     RestoreSMSMode, WaitReady, CheckSwitching, Connect, MarkRuntimeStarted, Finish, EndSwitch,
     ClearSwitch, SwitchGuard, control, local
<1>4. ASSUME NEW c \in Commands,
             \/ BeginStart(c) \/ FailStart(c)
      PROVE  SlotOK'
  BY <1>4 DEF BeginStart, FailStart, control, local
<1>5. ASSUME NEW c \in Commands, InvalidateFirst(c) PROVE SlotOK'
  BY <1>5, SlotValues DEF InvalidateFirst, control, local
<1>6. ASSUME NEW c \in Commands, TeardownInvalidate(c) PROVE SlotOK'
  BY <1>6, SlotValues DEF TeardownInvalidate, control, local
<1>7. ASSUME NEW c \in Commands, StopInstance(c) PROVE SlotOK'
  BY <1>7 DEF StopInstance, Observed, Recorded, control, local
<1>8. ASSUME NEW c \in Commands, DeleteInstance(c) PROVE SlotOK'
  BY <1>8 DEF DeleteInstance, NoSlot, control, local
<1>9. ASSUME NEW c \in Commands, PrepareStart(c) PROVE SlotOK'
  BY <1>9 DEF PrepareStart, Recorded, control, local
<1>10. ASSUME NEW c \in Commands, BeforeStart(c) PROVE SlotOK'
  BY <1>10 DEF BeforeStart, Recorded, control, local
<1>11. ASSUME NEW c \in Commands, ClaimStarted(c) PROVE SlotOK'
  BY <1>11 DEF ClaimStarted, NoSlot, control, local
<1>12. ASSUME NEW c \in Commands, StopStale(c) PROVE SlotOK'
  BY <1>12 DEF StopStale, Observed, Recorded, control, local
<1>13. ASSUME NEW c \in Commands, ClearStartupState(c) PROVE SlotOK'
  BY <1>13 DEF ClearStartupState, Cleared, NoSlot, control, local
<1>14. ASSUME NEW c \in Commands, HandleStartupError(c) PROVE SlotOK'
  BY <1>14 DEF HandleStartupError, Cleared, NoSlot, control, local
<1>15. QED
  BY <1>1, <1>2, <1>3, <1>4, <1>5, <1>6, <1>7, <1>8, <1>9, <1>10, <1>11, <1>12, <1>13, <1>14
  DEF Next

\* What the commands share keeps its type.
LEMMA SharedStep == SharedOK /\ [Next]_vars => SharedOK'
<1> SUFFICES ASSUME SharedOK, [Next]_vars PROVE SharedOK'
  OBVIOUS
<1> USE DEF SharedOK, Goto
<1>1. CASE UNCHANGED vars  BY <1>1 DEF vars, control, local
<1>2. ASSUME NEW c \in Commands, NEW k \in Kinds, Submit(c, k) PROVE SharedOK'
  BY <1>2 DEF Submit, control, local
<1>3. ASSUME NEW c \in Commands,
             \/ InvalidateFirst(c) \/ Lock(c) \/ Preempt(c) \/ RecoverCheck(c)
             \/ TeardownInvalidate(c) \/ ReadInstance(c) \/ DeleteInstance(c) \/ WaitReady(c)
             \/ CheckSwitching(c) \/ BeginStart(c) \/ PrepareStart(c) \/ BeforeStart(c)
             \/ ClaimStarted(c) \/ ClearStartupState(c) \/ HandleStartupError(c) \/ FailStart(c)
             \/ EndSwitch(c)
      PROVE  SharedOK'
  BY <1>3 DEF InvalidateFirst, Lock, Preempt, RecoverCheck, TeardownInvalidate, ReadInstance,
     DeleteInstance, WaitReady, CheckSwitching, BeginStart, PrepareStart, BeforeStart,
     ClaimStarted, ClearStartupState, HandleStartupError, FailStart, EndSwitch, control, local
<1>4. ASSUME NEW c \in Commands,
             \/ CancelActiveRun(c) \/ BindRunContext(c) \/ StopInstance(c) \/ RestoreSMSMode(c)
             \/ Connect(c) \/ StopStale(c)
      PROVE  SharedOK'
  BY <1>4 DEF CancelActiveRun, BindRunContext, StopInstance, RestoreSMSMode, Connect, StopStale,
     control, local
<1>5. ASSUME NEW c \in Commands,
             \/ MarkRuntimeStarted(c) \/ Finish(c) \/ ClearSwitch(c) \/ SwitchGuard(c)
      PROVE  SharedOK'
  BY <1>5 DEF MarkRuntimeStarted, Finish, ClearSwitch, SwitchGuard, control, local
<1>6. QED
  BY <1>1, <1>2, <1>3, <1>4, <1>5
  DEF Next

\* Every command is at a place.
LEMMA PlacesStep == PlacesOK /\ SlotOK /\ Routes /\ [Next]_vars => PlacesOK'
<1> SUFFICES ASSUME PlacesOK, SlotOK, Routes, [Next]_vars PROVE PlacesOK'
  OBVIOUS
<1> USE DEF PlacesOK, Goto, Places, Starts
<1>1. CASE UNCHANGED vars  BY <1>1 DEF vars, control, local
<1>2. ASSUME NEW c \in Commands, NEW k \in Kinds, Submit(c, k) PROVE PlacesOK'
  BY <1>2, KindsAssumption DEF Submit, AllKinds, control, local
<1>3. ASSUME NEW c \in Commands,
             \/ InvalidateFirst(c) \/ Lock(c) \/ Preempt(c) \/ CancelActiveRun(c)
             \/ RecoverCheck(c) \/ TeardownInvalidate(c)
      PROVE  PlacesOK'
  BY <1>3 DEF InvalidateFirst, Lock, Preempt, CancelActiveRun, RecoverCheck, TeardownInvalidate,
     control, local
<1>4. ASSUME NEW c \in Commands,
             \/ StopInstance(c) \/ DeleteInstance(c) \/ WaitReady(c) \/ CheckSwitching(c)
             \/ PrepareStart(c) \/ BeforeStart(c)
      PROVE  PlacesOK'
  BY <1>4 DEF StopInstance, DeleteInstance, WaitReady, CheckSwitching, PrepareStart,
     BeforeStart, control, local
<1>5. ASSUME NEW c \in Commands,
             \/ Connect(c) \/ ClaimStarted(c) \/ StopStale(c) \/ ClearStartupState(c)
             \/ MarkRuntimeStarted(c) \/ HandleStartupError(c)
      PROVE  PlacesOK'
  BY <1>5 DEF Connect, ClaimStarted, StopStale, ClearStartupState, MarkRuntimeStarted,
     HandleStartupError, control, local
<1>6. ASSUME NEW c \in Commands,
             \/ FailStart(c) \/ Finish(c) \/ ClearSwitch(c) \/ SwitchGuard(c)
      PROVE  PlacesOK'
  BY <1>6 DEF FailStart, Finish, ClearSwitch, SwitchGuard, control, local
<1>7. ASSUME NEW c \in Commands, BindRunContext(c) PROVE PlacesOK'
  BY <1>7 DEF BindRunContext, Routes, Route, At, First, Serial, control, local
<1>8. ASSUME NEW c \in Commands, ReadInstance(c) PROVE PlacesOK'
  BY <1>8 DEF ReadInstance, SlotOK, SlotType, AfterTeardown, control, local
<1>9. ASSUME NEW c \in Commands, RestoreSMSMode(c) PROVE PlacesOK'
  BY <1>9 DEF RestoreSMSMode, AfterTeardown, control, local
<1>10. ASSUME NEW c \in Commands, BeginStart(c) PROVE PlacesOK'
  BY <1>10 DEF BeginStart, SlotOK, SlotType, control, local
<1>11. ASSUME NEW c \in Commands, EndSwitch(c) PROVE PlacesOK'
  BY <1>11 DEF EndSwitch, AllKinds, control, local
<1>12. QED
  BY <1>1, <1>2, <1>3, <1>4, <1>5, <1>6, <1>7, <1>8, <1>9, <1>10, <1>11
  DEF Next

\* What Lock does to the numbers.
LEMMA LockNumber ==
    ASSUME NumbersOK, NEW c \in Commands, Lock(c)
    PROVE  /\ generation' \in {generation, generation + 1}
           /\ \A d \in Commands : d # c => gen'[d] = gen[d]
           /\ \/ gen'[c] = 0
              \/ gen'[c] = gen[c] /\ gen[c] # 0
              \/ gen[c] = 0 /\ gen'[c] = generation + 1
<1> USE DEF NumbersOK
<1>1. CASE Stale(c) \/ Duplicate(c)
  <2>1. gen' = [gen EXCEPT ![c] = 0] /\ generation' = generation  BY <1>1 DEF Lock
  <2>2. QED  BY <2>1
<1>2. CASE ~(Stale(c) \/ Duplicate(c))
  <2>1. /\ generation' = IF gen[c] = 0 THEN generation + 1 ELSE generation
        /\ gen' = [gen EXCEPT ![c] = generation']
        /\ gen[c] # 0 => generation = 0 \/ gen[c] = generation
    BY <1>2 DEF Lock, Stale
  <2>2. QED  BY <2>1
<1>3. QED  BY <1>1, <1>2

\* No number is beyond the generation.
LEMMA NumbersStep == NumbersOK /\ Routes /\ RunIsNumbered /\ [Next]_vars => NumbersOK'
<1> SUFFICES ASSUME NumbersOK, Routes, RunIsNumbered, [Next]_vars PROVE NumbersOK'
  OBVIOUS
<1> USE DEF NumbersOK, Goto
<1>1. CASE UNCHANGED vars  BY <1>1 DEF vars, control, local
<1>2. ASSUME NEW c \in Commands, NEW k \in Kinds, Submit(c, k) PROVE NumbersOK'
  BY <1>2 DEF Submit, control, local
<1>3. ASSUME NEW c \in Commands,
             \/ InvalidateFirst(c) \/ CancelActiveRun(c) \/ BindRunContext(c) \/ RecoverCheck(c)
             \/ TeardownInvalidate(c) \/ ReadInstance(c)
      PROVE  NumbersOK'
  BY <1>3 DEF InvalidateFirst, CancelActiveRun, BindRunContext, RecoverCheck,
     TeardownInvalidate, ReadInstance, control, local
<1>4. ASSUME NEW c \in Commands,
             \/ StopInstance(c) \/ DeleteInstance(c) \/ RestoreSMSMode(c) \/ WaitReady(c)
             \/ CheckSwitching(c) \/ BeginStart(c)
      PROVE  NumbersOK'
  BY <1>4 DEF StopInstance, DeleteInstance, RestoreSMSMode, WaitReady, CheckSwitching,
     BeginStart, control, local
<1>5. ASSUME NEW c \in Commands,
             \/ PrepareStart(c) \/ BeforeStart(c) \/ Connect(c) \/ ClaimStarted(c)
             \/ StopStale(c) \/ ClearStartupState(c)
      PROVE  NumbersOK'
  BY <1>5 DEF PrepareStart, BeforeStart, Connect, ClaimStarted, StopStale, ClearStartupState,
     control, local
<1>6. ASSUME NEW c \in Commands,
             \/ MarkRuntimeStarted(c) \/ FailStart(c) \/ EndSwitch(c) \/ ClearSwitch(c)
             \/ SwitchGuard(c)
      PROVE  NumbersOK'
  BY <1>6 DEF MarkRuntimeStarted, FailStart, EndSwitch, ClearSwitch, SwitchGuard, control, local
<1>7. ASSUME NEW c \in Commands, Lock(c) PROVE NumbersOK'
  BY <1>7 DEF Lock, control, local
<1>8. ASSUME NEW c \in Commands, Preempt(c) PROVE NumbersOK'
  BY <1>8 DEF Preempt, control, local
<1>9. ASSUME NEW c \in Commands, HandleStartupError(c) PROVE NumbersOK'
  <2>1. gen[c] # 0
    BY <1>9 DEF HandleStartupError, RunIsNumbered, Waiting, At, Routes, Route, Starts, Starters
  <2>2. gen[c] \in 1..generation  BY <2>1
  <2>3. QED  BY <1>9, <2>2 DEF HandleStartupError, control, local
<1>10. ASSUME NEW c \in Commands, Finish(c) PROVE NumbersOK'
  BY <1>10 DEF Finish, control, local
<1>11. QED
  BY <1>1, <1>2, <1>3, <1>4, <1>5, <1>6, <1>7, <1>8, <1>9, <1>10
  DEF Next

\* runMu is held by a command under way.
LEMMA RunMuStep == RunMuOK /\ PlacesOK /\ Routes /\ [Next]_vars => RunMuOK'
<1> SUFFICES ASSUME RunMuOK, PlacesOK, Routes, [Next]_vars PROVE RunMuOK'
  OBVIOUS
<1> USE DEF RunMuOK, PlacesOK, Goto, At, Waiting
<1>1. CASE UNCHANGED vars  BY <1>1 DEF vars, control, local
<1>2. ASSUME NEW c \in Commands, NEW k \in Kinds, Submit(c, k) PROVE RunMuOK'
  BY <1>2 DEF Submit, control, local
<1>3. ASSUME NEW c \in Commands,
             \/ InvalidateFirst(c) \/ Lock(c) \/ Preempt(c) \/ CancelActiveRun(c)
             \/ RecoverCheck(c) \/ TeardownInvalidate(c)
      PROVE  RunMuOK'
  BY <1>3 DEF InvalidateFirst, Lock, Preempt, CancelActiveRun, RecoverCheck, TeardownInvalidate,
     control, local
<1>4. ASSUME NEW c \in Commands,
             \/ StopInstance(c) \/ DeleteInstance(c) \/ WaitReady(c) \/ CheckSwitching(c)
             \/ BeginStart(c) \/ PrepareStart(c)
      PROVE  RunMuOK'
  BY <1>4 DEF StopInstance, DeleteInstance, WaitReady, CheckSwitching, BeginStart, PrepareStart,
     control, local
<1>5. ASSUME NEW c \in Commands,
             \/ BeforeStart(c) \/ Connect(c) \/ ClaimStarted(c) \/ StopStale(c)
             \/ ClearStartupState(c) \/ MarkRuntimeStarted(c)
      PROVE  RunMuOK'
  BY <1>5 DEF BeforeStart, Connect, ClaimStarted, StopStale, ClearStartupState,
     MarkRuntimeStarted, control, local
<1>6. ASSUME NEW c \in Commands,
             \/ HandleStartupError(c) \/ FailStart(c) \/ Finish(c) \/ EndSwitch(c)
             \/ ClearSwitch(c) \/ SwitchGuard(c)
      PROVE  RunMuOK'
  BY <1>6 DEF HandleStartupError, FailStart, Finish, EndSwitch, ClearSwitch, SwitchGuard,
     control, local
<1>7. ASSUME NEW c \in Commands, BindRunContext(c) PROVE RunMuOK'
  BY <1>7 DEF BindRunContext, First, Routes, Route, Serial, control, local
<1>8. ASSUME NEW c \in Commands, ReadInstance(c) PROVE RunMuOK'
  BY <1>8 DEF ReadInstance, AfterTeardown, control, local
<1>9. ASSUME NEW c \in Commands, RestoreSMSMode(c) PROVE RunMuOK'
  BY <1>9 DEF RestoreSMSMode, AfterTeardown, control, local
<1>10. QED
  BY <1>1, <1>2, <1>3, <1>4, <1>5, <1>6, <1>7, <1>8, <1>9
  DEF Next

\* A command stays on the way of its kind.
LEMMA RoutesStep == PlacesOK /\ Routes /\ [Next]_vars => Routes'
<1> SUFFICES ASSUME PlacesOK, Routes, [Next]_vars PROVE Routes'
  OBVIOUS
<1> USE DEF PlacesOK, Routes, Route, Goto, At, Starts, Starters, Serial, AfterTeardown
<1>1. CASE UNCHANGED vars  BY <1>1 DEF vars, control, local
<1>2. ASSUME NEW c \in Commands, NEW k \in Kinds, Submit(c, k) PROVE Routes'
  BY <1>2, KindsAssumption DEF Submit, AllKinds, control, local
<1>3. ASSUME NEW c \in Commands,
             \/ InvalidateFirst(c) \/ Lock(c) \/ Preempt(c) \/ CancelActiveRun(c)
             \/ RecoverCheck(c) \/ TeardownInvalidate(c)
      PROVE  Routes'
  BY <1>3 DEF InvalidateFirst, Lock, Preempt, CancelActiveRun, RecoverCheck, TeardownInvalidate,
     control, local
<1>4. ASSUME NEW c \in Commands,
             \/ ReadInstance(c) \/ StopInstance(c) \/ DeleteInstance(c) \/ RestoreSMSMode(c)
             \/ WaitReady(c) \/ CheckSwitching(c)
      PROVE  Routes'
  BY <1>4 DEF ReadInstance, StopInstance, DeleteInstance, RestoreSMSMode, WaitReady,
     CheckSwitching, control, local
<1>5. ASSUME NEW c \in Commands,
             \/ BeginStart(c) \/ PrepareStart(c) \/ BeforeStart(c) \/ Connect(c)
             \/ ClaimStarted(c) \/ StopStale(c)
      PROVE  Routes'
  BY <1>5 DEF BeginStart, PrepareStart, BeforeStart, Connect, ClaimStarted, StopStale, control,
     local
<1>6. ASSUME NEW c \in Commands,
             \/ ClearStartupState(c) \/ MarkRuntimeStarted(c) \/ HandleStartupError(c)
             \/ FailStart(c) \/ Finish(c) \/ EndSwitch(c)
      PROVE  Routes'
  BY <1>6 DEF ClearStartupState, MarkRuntimeStarted, HandleStartupError, FailStart, Finish,
     EndSwitch, control, local
<1>7. ASSUME NEW c \in Commands,
             \/ ClearSwitch(c) \/ SwitchGuard(c)
      PROVE  Routes'
  BY <1>7 DEF ClearSwitch, SwitchGuard, control, local
<1>8. ASSUME NEW c \in Commands, BindRunContext(c) PROVE Routes'
  BY <1>8 DEF BindRunContext, First, control, local
<1>9. QED
  BY <1>1, <1>2, <1>3, <1>4, <1>5, <1>6, <1>7, <1>8
  DEF Next

\* What runs one at a time waits for runMu at Lock and keeps it until it ends.
LEMMA SerialStep == SerialHoldsRunMu /\ PlacesOK /\ Routes /\ [Next]_vars => SerialHoldsRunMu'
<1> SUFFICES ASSUME SerialHoldsRunMu, PlacesOK, Routes, [Next]_vars PROVE SerialHoldsRunMu'
  OBVIOUS
<1> USE DEF SerialHoldsRunMu, PlacesOK, Goto, At, Waiting, Serial
<1>1. CASE UNCHANGED vars  BY <1>1 DEF vars, control, local
<1>2. ASSUME NEW c \in Commands, NEW k \in Kinds, Submit(c, k) PROVE SerialHoldsRunMu'
  BY <1>2, KindsAssumption DEF Submit, AllKinds, control, local
<1>3. ASSUME NEW c \in Commands,
             \/ Preempt(c) \/ CancelActiveRun(c) \/ RecoverCheck(c) \/ TeardownInvalidate(c)
             \/ StopInstance(c) \/ DeleteInstance(c)
      PROVE  SerialHoldsRunMu'
  BY <1>3 DEF Preempt, CancelActiveRun, RecoverCheck, TeardownInvalidate, StopInstance,
     DeleteInstance, control, local
<1>4. ASSUME NEW c \in Commands,
             \/ WaitReady(c) \/ CheckSwitching(c) \/ BeginStart(c) \/ PrepareStart(c)
             \/ BeforeStart(c) \/ Connect(c)
      PROVE  SerialHoldsRunMu'
  BY <1>4 DEF WaitReady, CheckSwitching, BeginStart, PrepareStart, BeforeStart, Connect,
     control, local
<1>5. ASSUME NEW c \in Commands,
             \/ ClaimStarted(c) \/ StopStale(c) \/ ClearStartupState(c) \/ MarkRuntimeStarted(c)
             \/ HandleStartupError(c) \/ FailStart(c)
      PROVE  SerialHoldsRunMu'
  BY <1>5 DEF ClaimStarted, StopStale, ClearStartupState, MarkRuntimeStarted,
     HandleStartupError, FailStart, control, local
<1>6. ASSUME NEW c \in Commands,
             \/ Finish(c) \/ EndSwitch(c) \/ ClearSwitch(c) \/ SwitchGuard(c)
      PROVE  SerialHoldsRunMu'
  BY <1>6 DEF Finish, EndSwitch, ClearSwitch, SwitchGuard, control, local
<1>7. ASSUME NEW c \in Commands, InvalidateFirst(c) PROVE SerialHoldsRunMu'
  BY <1>7 DEF InvalidateFirst, Routes, Route, control, local
<1>8. ASSUME NEW c \in Commands, Lock(c) PROVE SerialHoldsRunMu'
  BY <1>8, NoneAssumption DEF Lock, control, local
<1>9. ASSUME NEW c \in Commands, BindRunContext(c) PROVE SerialHoldsRunMu'
  BY <1>9 DEF BindRunContext, First, Routes, Route, control, local
<1>10. ASSUME NEW c \in Commands, ReadInstance(c) PROVE SerialHoldsRunMu'
  BY <1>10 DEF ReadInstance, AfterTeardown, control, local
<1>11. ASSUME NEW c \in Commands, RestoreSMSMode(c) PROVE SerialHoldsRunMu'
  BY <1>11 DEF RestoreSMSMode, AfterTeardown, control, local
<1>12. QED
  BY <1>1, <1>2, <1>3, <1>4, <1>5, <1>6, <1>7, <1>8, <1>9, <1>10, <1>11
  DEF Next

\* A number is given at Lock or at Preempt, and taken back at the end.
LEMMA GivenStep ==
    NumberIsGiven /\ PlacesOK /\ NumbersOK /\ Routes
    /\ [Next]_vars => NumberIsGiven'
<1> SUFFICES ASSUME NumberIsGiven, PlacesOK, NumbersOK, Routes, [Next]_vars PROVE NumberIsGiven'
  OBVIOUS
<1> USE DEF NumberIsGiven, PlacesOK, NumbersOK, Goto, At, Waiting
<1>1. CASE UNCHANGED vars  BY <1>1 DEF vars, control, local
<1>2. ASSUME NEW c \in Commands, NEW k \in Kinds, Submit(c, k) PROVE NumberIsGiven'
  BY <1>2, KindsAssumption DEF Submit, AllKinds, control, local
<1>3. ASSUME NEW c \in Commands,
             \/ Lock(c) \/ Preempt(c) \/ CancelActiveRun(c) \/ RecoverCheck(c)
             \/ TeardownInvalidate(c) \/ StopInstance(c)
      PROVE  NumberIsGiven'
  BY <1>3 DEF Lock, Preempt, CancelActiveRun, RecoverCheck, TeardownInvalidate, StopInstance,
     control, local
<1>4. ASSUME NEW c \in Commands,
             \/ DeleteInstance(c) \/ WaitReady(c) \/ CheckSwitching(c) \/ BeginStart(c)
             \/ PrepareStart(c) \/ BeforeStart(c)
      PROVE  NumberIsGiven'
  BY <1>4 DEF DeleteInstance, WaitReady, CheckSwitching, BeginStart, PrepareStart, BeforeStart,
     control, local
<1>5. ASSUME NEW c \in Commands,
             \/ Connect(c) \/ ClaimStarted(c) \/ StopStale(c) \/ ClearStartupState(c)
             \/ MarkRuntimeStarted(c) \/ HandleStartupError(c)
      PROVE  NumberIsGiven'
  BY <1>5 DEF Connect, ClaimStarted, StopStale, ClearStartupState, MarkRuntimeStarted,
     HandleStartupError, control, local
<1>6. ASSUME NEW c \in Commands,
             \/ FailStart(c) \/ Finish(c) \/ EndSwitch(c) \/ ClearSwitch(c) \/ SwitchGuard(c)
      PROVE  NumberIsGiven'
  BY <1>6 DEF FailStart, Finish, EndSwitch, ClearSwitch, SwitchGuard, control, local
<1>7. ASSUME NEW c \in Commands, InvalidateFirst(c) PROVE NumberIsGiven'
  BY <1>7 DEF InvalidateFirst, Routes, Route, control, local
<1>8. ASSUME NEW c \in Commands, BindRunContext(c) PROVE NumberIsGiven'
  BY <1>8 DEF BindRunContext, First, Routes, Route, Serial, control, local
<1>9. ASSUME NEW c \in Commands, ReadInstance(c) PROVE NumberIsGiven'
  BY <1>9 DEF ReadInstance, AfterTeardown, control, local
<1>10. ASSUME NEW c \in Commands, RestoreSMSMode(c) PROVE NumberIsGiven'
  BY <1>10 DEF RestoreSMSMode, AfterTeardown, control, local
<1>11. QED
  BY <1>1, <1>2, <1>3, <1>4, <1>5, <1>6, <1>7, <1>8, <1>9, <1>10
  DEF Next

\* What runs has a number.
LEMMA NumberedStep ==
    RunIsNumbered /\ NumberIsGiven /\ PlacesOK /\ NumbersOK /\ Routes
    /\ [Next]_vars => RunIsNumbered'
<1> SUFFICES ASSUME RunIsNumbered, NumberIsGiven, PlacesOK, NumbersOK, Routes, [Next]_vars
             PROVE  RunIsNumbered'
  OBVIOUS
<1> USE DEF RunIsNumbered, PlacesOK, NumbersOK, Goto, At, Waiting
<1>1. CASE UNCHANGED vars  BY <1>1 DEF vars, control, local
<1>2. ASSUME NEW c \in Commands, NEW k \in Kinds, Submit(c, k) PROVE RunIsNumbered'
  BY <1>2, KindsAssumption DEF Submit, AllKinds, control, local
<1>3. ASSUME NEW c \in Commands,
             \/ Lock(c) \/ Preempt(c) \/ CancelActiveRun(c) \/ BindRunContext(c)
             \/ RecoverCheck(c) \/ TeardownInvalidate(c)
      PROVE  RunIsNumbered'
  BY <1>3 DEF Lock, Preempt, CancelActiveRun, BindRunContext, RecoverCheck, TeardownInvalidate,
     control, local
<1>4. ASSUME NEW c \in Commands,
             \/ ReadInstance(c) \/ StopInstance(c) \/ DeleteInstance(c) \/ RestoreSMSMode(c)
             \/ WaitReady(c) \/ CheckSwitching(c)
      PROVE  RunIsNumbered'
  BY <1>4 DEF ReadInstance, StopInstance, DeleteInstance, RestoreSMSMode, WaitReady,
     CheckSwitching, control, local
<1>5. ASSUME NEW c \in Commands,
             \/ BeginStart(c) \/ PrepareStart(c) \/ BeforeStart(c) \/ Connect(c)
             \/ ClaimStarted(c) \/ StopStale(c)
      PROVE  RunIsNumbered'
  BY <1>5 DEF BeginStart, PrepareStart, BeforeStart, Connect, ClaimStarted, StopStale, control,
     local
<1>6. ASSUME NEW c \in Commands,
             \/ ClearStartupState(c) \/ MarkRuntimeStarted(c) \/ HandleStartupError(c)
             \/ FailStart(c) \/ Finish(c) \/ EndSwitch(c)
      PROVE  RunIsNumbered'
  BY <1>6 DEF ClearStartupState, MarkRuntimeStarted, HandleStartupError, FailStart, Finish,
     EndSwitch, control, local
<1>7. ASSUME NEW c \in Commands,
             \/ ClearSwitch(c) \/ SwitchGuard(c)
      PROVE  RunIsNumbered'
  BY <1>7 DEF ClearSwitch, SwitchGuard, control, local
<1>8. ASSUME NEW c \in Commands, InvalidateFirst(c) PROVE RunIsNumbered'
  BY <1>8 DEF InvalidateFirst, Routes, Route, control, local
<1>9. QED
  BY <1>1, <1>2, <1>3, <1>4, <1>5, <1>6, <1>7, <1>8
  DEF Next

\* A Disable's number is new when it is given, and no start takes it over.
LEMMA OwnNumberStep ==
    DisableNumberIsOwn /\ NumberIsGiven /\ PlacesOK /\ NumbersOK /\ Routes
    /\ [Next]_vars => DisableNumberIsOwn'
<1> SUFFICES ASSUME DisableNumberIsOwn, NumberIsGiven, PlacesOK, NumbersOK, Routes, [Next]_vars
             PROVE  DisableNumberIsOwn'
  OBVIOUS
<1> USE DEF DisableNumberIsOwn, PlacesOK, NumbersOK, Goto
<1>1. CASE UNCHANGED vars  BY <1>1 DEF vars, control, local
<1>2. ASSUME NEW c \in Commands, NEW k \in Kinds, Submit(c, k) PROVE DisableNumberIsOwn'
  BY <1>2, KindsAssumption DEF Submit, AllKinds, NumberIsGiven, Waiting, At, Routes, Route,
     control, local
<1>3. ASSUME NEW c \in Commands,
             \/ InvalidateFirst(c) \/ Preempt(c) \/ CancelActiveRun(c) \/ BindRunContext(c)
             \/ RecoverCheck(c) \/ TeardownInvalidate(c)
      PROVE  DisableNumberIsOwn'
  BY <1>3 DEF InvalidateFirst, Preempt, CancelActiveRun, BindRunContext, RecoverCheck,
     TeardownInvalidate, control, local
<1>4. ASSUME NEW c \in Commands,
             \/ ReadInstance(c) \/ StopInstance(c) \/ DeleteInstance(c) \/ RestoreSMSMode(c)
             \/ WaitReady(c) \/ CheckSwitching(c)
      PROVE  DisableNumberIsOwn'
  BY <1>4 DEF ReadInstance, StopInstance, DeleteInstance, RestoreSMSMode, WaitReady,
     CheckSwitching, control, local
<1>5. ASSUME NEW c \in Commands,
             \/ BeginStart(c) \/ PrepareStart(c) \/ BeforeStart(c) \/ Connect(c)
             \/ ClaimStarted(c) \/ StopStale(c)
      PROVE  DisableNumberIsOwn'
  BY <1>5 DEF BeginStart, PrepareStart, BeforeStart, Connect, ClaimStarted, StopStale, control,
     local
<1>6. ASSUME NEW c \in Commands,
             \/ ClearStartupState(c) \/ MarkRuntimeStarted(c) \/ FailStart(c) \/ Finish(c)
             \/ ClearSwitch(c) \/ SwitchGuard(c)
      PROVE  DisableNumberIsOwn'
  BY <1>6 DEF ClearStartupState, MarkRuntimeStarted, FailStart, Finish, ClearSwitch,
     SwitchGuard, control, local
<1>7. ASSUME NEW c \in Commands, Lock(c) PROVE DisableNumberIsOwn'
  <2>1. retries' = retries /\ kind' = kind  BY <1>7 DEF Lock
  <2>2. kind[c] = "disable" => gen[c] = 0
    BY <1>7 DEF Lock, NumberIsGiven, Waiting, At
  <2>3. QED  BY <1>7, <2>1, <2>2, LockNumber
<1>8. ASSUME NEW c \in Commands, HandleStartupError(c) PROVE DisableNumberIsOwn'
  BY <1>8 DEF HandleStartupError, Routes, Route, Starts, Starters, At, control, local
<1>9. ASSUME NEW c \in Commands, EndSwitch(c) PROVE DisableNumberIsOwn'
  BY <1>9 DEF EndSwitch, At, Routes, Route, control, local
<1>10. QED
  BY <1>1, <1>2, <1>3, <1>4, <1>5, <1>6, <1>7, <1>8, <1>9
  DEF Next

\* Nobody bears the number of a Disable that is over.
LEMMA OverStep ==
    DisabledIsOver /\ DisableNumberIsOwn /\ RunIsNumbered /\ PlacesOK /\ NumbersOK
    /\ [Next]_vars => DisabledIsOver'
<1> SUFFICES ASSUME DisabledIsOver, DisableNumberIsOwn, RunIsNumbered, PlacesOK, NumbersOK,
                    [Next]_vars
             PROVE  DisabledIsOver'
  OBVIOUS
<1> USE DEF DisabledIsOver, PlacesOK, NumbersOK, Goto
<1>1. CASE UNCHANGED vars  BY <1>1 DEF vars, control, local
<1>2. ASSUME NEW c \in Commands, NEW k \in Kinds, Submit(c, k) PROVE DisabledIsOver'
  BY <1>2 DEF Submit, control, local
<1>3. ASSUME NEW c \in Commands,
             \/ InvalidateFirst(c) \/ Preempt(c) \/ CancelActiveRun(c) \/ BindRunContext(c)
             \/ RecoverCheck(c) \/ TeardownInvalidate(c)
      PROVE  DisabledIsOver'
  BY <1>3 DEF InvalidateFirst, Preempt, CancelActiveRun, BindRunContext, RecoverCheck,
     TeardownInvalidate, control, local
<1>4. ASSUME NEW c \in Commands,
             \/ ReadInstance(c) \/ StopInstance(c) \/ DeleteInstance(c) \/ RestoreSMSMode(c)
             \/ WaitReady(c) \/ CheckSwitching(c)
      PROVE  DisabledIsOver'
  BY <1>4 DEF ReadInstance, StopInstance, DeleteInstance, RestoreSMSMode, WaitReady,
     CheckSwitching, control, local
<1>5. ASSUME NEW c \in Commands,
             \/ BeginStart(c) \/ PrepareStart(c) \/ BeforeStart(c) \/ Connect(c)
             \/ ClaimStarted(c) \/ StopStale(c)
      PROVE  DisabledIsOver'
  BY <1>5 DEF BeginStart, PrepareStart, BeforeStart, Connect, ClaimStarted, StopStale, control,
     local
<1>6. ASSUME NEW c \in Commands,
             \/ ClearStartupState(c) \/ MarkRuntimeStarted(c) \/ HandleStartupError(c)
             \/ FailStart(c) \/ EndSwitch(c) \/ ClearSwitch(c)
      PROVE  DisabledIsOver'
  BY <1>6 DEF ClearStartupState, MarkRuntimeStarted, HandleStartupError, FailStart, EndSwitch,
     ClearSwitch, control, local
<1>7. ASSUME NEW c \in Commands, SwitchGuard(c) PROVE DisabledIsOver'
  BY <1>7 DEF SwitchGuard, control, local
<1>8. ASSUME NEW c \in Commands, Lock(c) PROVE DisabledIsOver'
  <2>1. retries' = retries /\ disabled' = disabled  BY <1>8 DEF Lock
  <2>2. QED  BY <1>8, <2>1, LockNumber
<1>9. ASSUME NEW c \in Commands, Finish(c) PROVE DisabledIsOver'
  BY <1>9 DEF Finish, DisableNumberIsOwn, At, control, local
<1>10. QED
  BY <1>1, <1>2, <1>3, <1>4, <1>5, <1>6, <1>7, <1>8, <1>9
  DEF Next

\* No Disable ends while another command runs under runMu.
LEMMA AfterDisabledStep ==
    RunsAfterDisabled /\ SerialHoldsRunMu /\ DisabledIsOver /\ NumberIsGiven /\ PlacesOK
    /\ NumbersOK /\ Routes
    /\ [Next]_vars => RunsAfterDisabled'
<1> SUFFICES ASSUME RunsAfterDisabled, SerialHoldsRunMu, DisabledIsOver, NumberIsGiven,
                    PlacesOK, NumbersOK, Routes, [Next]_vars
             PROVE  RunsAfterDisabled'
  OBVIOUS
<1> USE DEF RunsAfterDisabled, PlacesOK, NumbersOK, Goto, At, Waiting, Serial
<1>1. CASE UNCHANGED vars  BY <1>1 DEF vars, control, local
<1>2. ASSUME NEW c \in Commands, NEW k \in Kinds, Submit(c, k) PROVE RunsAfterDisabled'
  BY <1>2, KindsAssumption DEF Submit, AllKinds, control, local
<1>3. ASSUME NEW c \in Commands,
             \/ CancelActiveRun(c) \/ RecoverCheck(c) \/ TeardownInvalidate(c)
             \/ StopInstance(c) \/ DeleteInstance(c) \/ WaitReady(c)
      PROVE  RunsAfterDisabled'
  BY <1>3 DEF CancelActiveRun, RecoverCheck, TeardownInvalidate, StopInstance, DeleteInstance,
     WaitReady, control, local
<1>4. ASSUME NEW c \in Commands,
             \/ CheckSwitching(c) \/ BeginStart(c) \/ PrepareStart(c) \/ BeforeStart(c)
             \/ Connect(c) \/ ClaimStarted(c)
      PROVE  RunsAfterDisabled'
  BY <1>4 DEF CheckSwitching, BeginStart, PrepareStart, BeforeStart, Connect, ClaimStarted,
     control, local
<1>5. ASSUME NEW c \in Commands,
             \/ StopStale(c) \/ ClearStartupState(c) \/ MarkRuntimeStarted(c)
             \/ HandleStartupError(c) \/ FailStart(c) \/ EndSwitch(c)
      PROVE  RunsAfterDisabled'
  BY <1>5 DEF StopStale, ClearStartupState, MarkRuntimeStarted, HandleStartupError, FailStart,
     EndSwitch, control, local
<1>6. ASSUME NEW c \in Commands,
             \/ ClearSwitch(c) \/ SwitchGuard(c)
      PROVE  RunsAfterDisabled'
  BY <1>6 DEF ClearSwitch, SwitchGuard, control, local
<1>7. ASSUME NEW c \in Commands, InvalidateFirst(c) PROVE RunsAfterDisabled'
  BY <1>7 DEF InvalidateFirst, Routes, Route, control, local
<1>8. ASSUME NEW c \in Commands, Lock(c) PROVE RunsAfterDisabled'
  BY <1>8 DEF Lock, DisabledIsOver, NumberIsGiven, Stale, control, local
<1>9. ASSUME NEW c \in Commands, Preempt(c) PROVE RunsAfterDisabled'
  BY <1>9 DEF Preempt, Routes, Route, control, local
<1>10. ASSUME NEW c \in Commands, BindRunContext(c) PROVE RunsAfterDisabled'
  BY <1>10 DEF BindRunContext, First, Routes, Route, control, local
<1>11. ASSUME NEW c \in Commands, ReadInstance(c) PROVE RunsAfterDisabled'
  BY <1>11 DEF ReadInstance, AfterTeardown, control, local
<1>12. ASSUME NEW c \in Commands, RestoreSMSMode(c) PROVE RunsAfterDisabled'
  BY <1>12 DEF RestoreSMSMode, AfterTeardown, control, local
<1>13. ASSUME NEW c \in Commands, Finish(c) PROVE RunsAfterDisabled'
  BY <1>13 DEF Finish, SerialHoldsRunMu, control, local
<1>14. QED
  BY <1>1, <1>2, <1>3, <1>4, <1>5, <1>6, <1>7, <1>8, <1>9, <1>10, <1>11, <1>12, <1>13
  DEF Next

\* A command that has claimed the slot does not come back to claim it.
LEMMA ClaimedStays ==
    PlacesOK /\ Routes
    /\ [Next]_vars => (\A d \in Commands : Claimed(d) => Claimed(d)')
<1> SUFFICES ASSUME PlacesOK, Routes, [Next]_vars
             PROVE  (\A d \in Commands : Claimed(d) => Claimed(d)')
  OBVIOUS
<1> USE DEF PlacesOK, Goto, At, Claimed
<1>1. CASE UNCHANGED vars  BY <1>1 DEF vars, control, local
<1>2. ASSUME NEW c \in Commands, NEW k \in Kinds, Submit(c, k)
      PROVE  (\A d \in Commands : Claimed(d) => Claimed(d)')
  BY <1>2 DEF Submit, control, local
<1>3. ASSUME NEW c \in Commands,
             \/ InvalidateFirst(c) \/ Lock(c) \/ Preempt(c) \/ CancelActiveRun(c)
             \/ RecoverCheck(c) \/ TeardownInvalidate(c)
      PROVE  (\A d \in Commands : Claimed(d) => Claimed(d)')
  BY <1>3 DEF InvalidateFirst, Lock, Preempt, CancelActiveRun, RecoverCheck, TeardownInvalidate,
     control, local
<1>4. ASSUME NEW c \in Commands,
             \/ StopInstance(c) \/ DeleteInstance(c) \/ WaitReady(c) \/ CheckSwitching(c)
             \/ BeginStart(c) \/ PrepareStart(c)
      PROVE  (\A d \in Commands : Claimed(d) => Claimed(d)')
  BY <1>4 DEF StopInstance, DeleteInstance, WaitReady, CheckSwitching, BeginStart, PrepareStart,
     control, local
<1>5. ASSUME NEW c \in Commands,
             \/ BeforeStart(c) \/ Connect(c) \/ ClaimStarted(c) \/ StopStale(c)
             \/ HandleStartupError(c) \/ FailStart(c)
      PROVE  (\A d \in Commands : Claimed(d) => Claimed(d)')
  BY <1>5 DEF BeforeStart, Connect, ClaimStarted, StopStale, HandleStartupError, FailStart,
     control, local
<1>6. ASSUME NEW c \in Commands,
             \/ EndSwitch(c) \/ ClearSwitch(c) \/ SwitchGuard(c)
      PROVE  (\A d \in Commands : Claimed(d) => Claimed(d)')
  BY <1>6 DEF EndSwitch, ClearSwitch, SwitchGuard, control, local
<1>7. ASSUME NEW c \in Commands, BindRunContext(c)
      PROVE  (\A d \in Commands : Claimed(d) => Claimed(d)')
  BY <1>7 DEF BindRunContext, First, Routes, Route, Serial, control, local
<1>8. ASSUME NEW c \in Commands, ReadInstance(c)
      PROVE  (\A d \in Commands : Claimed(d) => Claimed(d)')
  BY <1>8 DEF ReadInstance, AfterTeardown, control, local
<1>9. ASSUME NEW c \in Commands, RestoreSMSMode(c)
      PROVE  (\A d \in Commands : Claimed(d) => Claimed(d)')
  BY <1>9 DEF RestoreSMSMode, AfterTeardown, control, local
<1>10. ASSUME NEW c \in Commands, ClearStartupState(c)
      PROVE  (\A d \in Commands : Claimed(d) => Claimed(d)')
  BY <1>10 DEF ClearStartupState, Starts, control, local
<1>11. ASSUME NEW c \in Commands, MarkRuntimeStarted(c)
      PROVE  (\A d \in Commands : Claimed(d) => Claimed(d)')
  BY <1>11 DEF MarkRuntimeStarted, Routes, Route, Starters, control, local
<1>12. ASSUME NEW c \in Commands, Finish(c)
      PROVE  (\A d \in Commands : Claimed(d) => Claimed(d)')
  BY <1>12 DEF Finish, Routes, Route, control, local
<1>13. QED
  BY <1>1, <1>2, <1>3, <1>4, <1>5, <1>6, <1>7, <1>8, <1>9, <1>10, <1>11, <1>12
  DEF Next

\* The slot is taken by a claim only, which ends the start.
LEMMA InstanceStep ==
    InstanceIsClaimed /\ SlotOK /\ PlacesOK /\ Routes
    /\ [Next]_vars => InstanceIsClaimed'
<1> SUFFICES ASSUME InstanceIsClaimed, SlotOK, PlacesOK, Routes, [Next]_vars
             PROVE  InstanceIsClaimed'
  OBVIOUS
<1> USE DEF InstanceIsClaimed, SlotOK, SlotType
<1>1. CASE UNCHANGED vars  BY <1>1 DEF vars, Claimed, At, control, local
<1>2. ASSUME NEW c \in Commands, NEW k \in Kinds, Submit(c, k) PROVE InstanceIsClaimed'
  BY <1>2, ClaimedStays DEF Submit, control, local
<1>3. ASSUME NEW c \in Commands, InvalidateFirst(c) PROVE InstanceIsClaimed'
  BY <1>3, ClaimedStays, SlotValues DEF InvalidateFirst, control, local
<1>4. ASSUME NEW c \in Commands, Lock(c) PROVE InstanceIsClaimed'
  BY <1>4, ClaimedStays DEF Lock, control, local
<1>5. ASSUME NEW c \in Commands, Preempt(c) PROVE InstanceIsClaimed'
  BY <1>5, ClaimedStays DEF Preempt, control, local
<1>6. ASSUME NEW c \in Commands, CancelActiveRun(c) PROVE InstanceIsClaimed'
  BY <1>6, ClaimedStays DEF CancelActiveRun, control, local
<1>7. ASSUME NEW c \in Commands, BindRunContext(c) PROVE InstanceIsClaimed'
  BY <1>7, ClaimedStays DEF BindRunContext, control, local
<1>8. ASSUME NEW c \in Commands, RecoverCheck(c) PROVE InstanceIsClaimed'
  BY <1>8, ClaimedStays DEF RecoverCheck, control, local
<1>9. ASSUME NEW c \in Commands, TeardownInvalidate(c) PROVE InstanceIsClaimed'
  BY <1>9, ClaimedStays, SlotValues DEF TeardownInvalidate, control, local
<1>10. ASSUME NEW c \in Commands, ReadInstance(c) PROVE InstanceIsClaimed'
  BY <1>10, ClaimedStays DEF ReadInstance, control, local
<1>11. ASSUME NEW c \in Commands, StopInstance(c) PROVE InstanceIsClaimed'
  BY <1>11, ClaimedStays, SlotValues DEF StopInstance, Observed, control, local
<1>12. ASSUME NEW c \in Commands, DeleteInstance(c) PROVE InstanceIsClaimed'
  BY <1>12, ClaimedStays DEF DeleteInstance, NoSlot, control, local
<1>13. ASSUME NEW c \in Commands, RestoreSMSMode(c) PROVE InstanceIsClaimed'
  BY <1>13, ClaimedStays DEF RestoreSMSMode, control, local
<1>14. ASSUME NEW c \in Commands, WaitReady(c) PROVE InstanceIsClaimed'
  BY <1>14, ClaimedStays DEF WaitReady, control, local
<1>15. ASSUME NEW c \in Commands, CheckSwitching(c) PROVE InstanceIsClaimed'
  BY <1>15, ClaimedStays DEF CheckSwitching, control, local
<1>16. ASSUME NEW c \in Commands, BeginStart(c) PROVE InstanceIsClaimed'
  BY <1>16, ClaimedStays DEF BeginStart, control, local
<1>17. ASSUME NEW c \in Commands, PrepareStart(c) PROVE InstanceIsClaimed'
  BY <1>17, ClaimedStays, SlotValues DEF PrepareStart, control, local
<1>18. ASSUME NEW c \in Commands, BeforeStart(c) PROVE InstanceIsClaimed'
  BY <1>18, ClaimedStays, SlotValues DEF BeforeStart, control, local
<1>19. ASSUME NEW c \in Commands, Connect(c) PROVE InstanceIsClaimed'
  BY <1>19, ClaimedStays DEF Connect, control, local
<1>20. ASSUME NEW c \in Commands, ClaimStarted(c) PROVE InstanceIsClaimed'
  BY <1>20, ClaimedStays DEF ClaimStarted, NoSlot, Claimed, At, PlacesOK, Goto, control, local
<1>21. ASSUME NEW c \in Commands, StopStale(c) PROVE InstanceIsClaimed'
  BY <1>21, ClaimedStays, SlotValues DEF StopStale, Observed, control, local
<1>22. ASSUME NEW c \in Commands, ClearStartupState(c) PROVE InstanceIsClaimed'
  BY <1>22, ClaimedStays, SlotValues DEF ClearStartupState, control, local
<1>23. ASSUME NEW c \in Commands, MarkRuntimeStarted(c) PROVE InstanceIsClaimed'
  BY <1>23, ClaimedStays DEF MarkRuntimeStarted, control, local
<1>24. ASSUME NEW c \in Commands, HandleStartupError(c) PROVE InstanceIsClaimed'
  BY <1>24, ClaimedStays, SlotValues DEF HandleStartupError, control, local
<1>25. ASSUME NEW c \in Commands, FailStart(c) PROVE InstanceIsClaimed'
  BY <1>25, ClaimedStays DEF FailStart, control, local
<1>26. ASSUME NEW c \in Commands, Finish(c) PROVE InstanceIsClaimed'
  BY <1>26, ClaimedStays DEF Finish, control, local
<1>27. ASSUME NEW c \in Commands, EndSwitch(c) PROVE InstanceIsClaimed'
  BY <1>27, ClaimedStays DEF EndSwitch, control, local
<1>28. ASSUME NEW c \in Commands, ClearSwitch(c) PROVE InstanceIsClaimed'
  BY <1>28, ClaimedStays DEF ClearSwitch, control, local
<1>29. ASSUME NEW c \in Commands, SwitchGuard(c) PROVE InstanceIsClaimed'
  BY <1>29, ClaimedStays DEF SwitchGuard, control, local
<1>30. QED
  BY <1>1, <1>2, <1>3, <1>4, <1>5, <1>6, <1>7, <1>8, <1>9, <1>10, <1>11, <1>12, <1>13, <1>14,
     <1>15, <1>16, <1>17, <1>18, <1>19, <1>20, <1>21, <1>22, <1>23, <1>24, <1>25, <1>26, <1>27,
     <1>28, <1>29
  DEF Next

\* A teardown holds what was in the slot, and has stopped it before it deletes it.
LEMMA HeldStep ==
    HeldIsClaimed /\ InstanceIsClaimed /\ SlotOK /\ PlacesOK /\ Routes
    /\ [Next]_vars => HeldIsClaimed'
<1> SUFFICES ASSUME HeldIsClaimed, InstanceIsClaimed, SlotOK, PlacesOK, Routes, [Next]_vars
             PROVE  HeldIsClaimed'
  OBVIOUS
<1> USE DEF HeldIsClaimed, PlacesOK, Goto, At
<1>1. CASE UNCHANGED vars  BY <1>1 DEF vars, Claimed, At, control, local
<1>2. ASSUME NEW c \in Commands, NEW k \in Kinds, Submit(c, k) PROVE HeldIsClaimed'
  BY <1>2, ClaimedStays DEF Submit, control, local
<1>3. ASSUME NEW c \in Commands, InvalidateFirst(c) PROVE HeldIsClaimed'
  BY <1>3, ClaimedStays DEF InvalidateFirst, control, local
<1>4. ASSUME NEW c \in Commands, Lock(c) PROVE HeldIsClaimed'
  BY <1>4, ClaimedStays DEF Lock, control, local
<1>5. ASSUME NEW c \in Commands, Preempt(c) PROVE HeldIsClaimed'
  BY <1>5, ClaimedStays DEF Preempt, control, local
<1>6. ASSUME NEW c \in Commands, CancelActiveRun(c) PROVE HeldIsClaimed'
  BY <1>6, ClaimedStays DEF CancelActiveRun, control, local
<1>7. ASSUME NEW c \in Commands, BindRunContext(c) PROVE HeldIsClaimed'
  BY <1>7, ClaimedStays DEF BindRunContext, First, Routes, Route, Serial, control, local
<1>8. ASSUME NEW c \in Commands, RecoverCheck(c) PROVE HeldIsClaimed'
  BY <1>8, ClaimedStays DEF RecoverCheck, control, local
<1>9. ASSUME NEW c \in Commands, TeardownInvalidate(c) PROVE HeldIsClaimed'
  BY <1>9, ClaimedStays DEF TeardownInvalidate, control, local
<1>10. ASSUME NEW c \in Commands, ReadInstance(c) PROVE HeldIsClaimed'
  BY <1>10, ClaimedStays DEF ReadInstance, AfterTeardown, InstanceIsClaimed, SlotOK, SlotType,
     control, local
<1>11. ASSUME NEW c \in Commands, StopInstance(c) PROVE HeldIsClaimed'
  BY <1>11, ClaimedStays DEF StopInstance, control, local
<1>12. ASSUME NEW c \in Commands, DeleteInstance(c) PROVE HeldIsClaimed'
  BY <1>12, ClaimedStays DEF DeleteInstance, control, local
<1>13. ASSUME NEW c \in Commands, RestoreSMSMode(c) PROVE HeldIsClaimed'
  BY <1>13, ClaimedStays DEF RestoreSMSMode, AfterTeardown, control, local
<1>14. ASSUME NEW c \in Commands, WaitReady(c) PROVE HeldIsClaimed'
  BY <1>14, ClaimedStays DEF WaitReady, control, local
<1>15. ASSUME NEW c \in Commands, CheckSwitching(c) PROVE HeldIsClaimed'
  BY <1>15, ClaimedStays DEF CheckSwitching, control, local
<1>16. ASSUME NEW c \in Commands, BeginStart(c) PROVE HeldIsClaimed'
  BY <1>16, ClaimedStays DEF BeginStart, control, local
<1>17. ASSUME NEW c \in Commands, PrepareStart(c) PROVE HeldIsClaimed'
  BY <1>17, ClaimedStays DEF PrepareStart, control, local
<1>18. ASSUME NEW c \in Commands, BeforeStart(c) PROVE HeldIsClaimed'
  BY <1>18, ClaimedStays DEF BeforeStart, control, local
<1>19. ASSUME NEW c \in Commands, Connect(c) PROVE HeldIsClaimed'
  BY <1>19, ClaimedStays DEF Connect, Claimed, control, local
<1>20. ASSUME NEW c \in Commands, ClaimStarted(c) PROVE HeldIsClaimed'
  BY <1>20, ClaimedStays DEF ClaimStarted, control, local
<1>21. ASSUME NEW c \in Commands, StopStale(c) PROVE HeldIsClaimed'
  BY <1>21, ClaimedStays DEF StopStale, control, local
<1>22. ASSUME NEW c \in Commands, ClearStartupState(c) PROVE HeldIsClaimed'
  BY <1>22, ClaimedStays DEF ClearStartupState, control, local
<1>23. ASSUME NEW c \in Commands, MarkRuntimeStarted(c) PROVE HeldIsClaimed'
  BY <1>23, ClaimedStays DEF MarkRuntimeStarted, control, local
<1>24. ASSUME NEW c \in Commands, HandleStartupError(c) PROVE HeldIsClaimed'
  BY <1>24, ClaimedStays DEF HandleStartupError, control, local
<1>25. ASSUME NEW c \in Commands, FailStart(c) PROVE HeldIsClaimed'
  BY <1>25, ClaimedStays DEF FailStart, control, local
<1>26. ASSUME NEW c \in Commands, Finish(c) PROVE HeldIsClaimed'
  BY <1>26, ClaimedStays DEF Finish, control, local
<1>27. ASSUME NEW c \in Commands, EndSwitch(c) PROVE HeldIsClaimed'
  BY <1>27, ClaimedStays DEF EndSwitch, control, local
<1>28. ASSUME NEW c \in Commands, ClearSwitch(c) PROVE HeldIsClaimed'
  BY <1>28, ClaimedStays DEF ClearSwitch, control, local
<1>29. ASSUME NEW c \in Commands, SwitchGuard(c) PROVE HeldIsClaimed'
  BY <1>29, ClaimedStays DEF SwitchGuard, control, local
<1>30. QED
  BY <1>1, <1>2, <1>3, <1>4, <1>5, <1>6, <1>7, <1>8, <1>9, <1>10, <1>11, <1>12, <1>13, <1>14,
     <1>15, <1>16, <1>17, <1>18, <1>19, <1>20, <1>21, <1>22, <1>23, <1>24, <1>25, <1>26, <1>27,
     <1>28, <1>29
  DEF Next

\* Nobody but the start itself ends a session that has not been in the slot.
LEMMA ConnectedStep ==
    ConnectedIsUp /\ HeldIsClaimed /\ PlacesOK /\ Routes
    /\ [Next]_vars => ConnectedIsUp'
<1> SUFFICES ASSUME ConnectedIsUp, HeldIsClaimed, PlacesOK, Routes, [Next]_vars
             PROVE  ConnectedIsUp'
  OBVIOUS
<1> USE DEF ConnectedIsUp, PlacesOK, Goto, At
<1>1. CASE UNCHANGED vars  BY <1>1 DEF vars, control, local
<1>2. ASSUME NEW c \in Commands, NEW k \in Kinds, Submit(c, k) PROVE ConnectedIsUp'
  BY <1>2 DEF Submit, control, local
<1>3. ASSUME NEW c \in Commands,
             \/ InvalidateFirst(c) \/ Lock(c) \/ Preempt(c) \/ CancelActiveRun(c)
             \/ RecoverCheck(c) \/ TeardownInvalidate(c)
      PROVE  ConnectedIsUp'
  BY <1>3 DEF InvalidateFirst, Lock, Preempt, CancelActiveRun, RecoverCheck, TeardownInvalidate,
     control, local
<1>4. ASSUME NEW c \in Commands,
             \/ DeleteInstance(c) \/ WaitReady(c) \/ CheckSwitching(c) \/ BeginStart(c)
             \/ PrepareStart(c) \/ BeforeStart(c)
      PROVE  ConnectedIsUp'
  BY <1>4 DEF DeleteInstance, WaitReady, CheckSwitching, BeginStart, PrepareStart, BeforeStart,
     control, local
<1>5. ASSUME NEW c \in Commands,
             \/ Connect(c) \/ ClaimStarted(c) \/ StopStale(c) \/ ClearStartupState(c)
             \/ MarkRuntimeStarted(c) \/ HandleStartupError(c)
      PROVE  ConnectedIsUp'
  BY <1>5 DEF Connect, ClaimStarted, StopStale, ClearStartupState, MarkRuntimeStarted,
     HandleStartupError, control, local
<1>6. ASSUME NEW c \in Commands,
             \/ FailStart(c) \/ Finish(c) \/ EndSwitch(c) \/ ClearSwitch(c) \/ SwitchGuard(c)
      PROVE  ConnectedIsUp'
  BY <1>6 DEF FailStart, Finish, EndSwitch, ClearSwitch, SwitchGuard, control, local
<1>7. ASSUME NEW c \in Commands, BindRunContext(c) PROVE ConnectedIsUp'
  BY <1>7 DEF BindRunContext, First, Routes, Route, Serial, control, local
<1>8. ASSUME NEW c \in Commands, ReadInstance(c) PROVE ConnectedIsUp'
  BY <1>8 DEF ReadInstance, AfterTeardown, control, local
<1>9. ASSUME NEW c \in Commands, StopInstance(c) PROVE ConnectedIsUp'
  BY <1>9 DEF StopInstance, HeldIsClaimed, Claimed, control, local
<1>10. ASSUME NEW c \in Commands, RestoreSMSMode(c) PROVE ConnectedIsUp'
  BY <1>10 DEF RestoreSMSMode, AfterTeardown, control, local
<1>11. QED
  BY <1>1, <1>2, <1>3, <1>4, <1>5, <1>6, <1>7, <1>8, <1>9, <1>10
  DEF Next

\* A step that ends no session and leaves the instance in the slot, of a command that does not
\* answer for a session, or goes on to answer for its own.
LEMMA SessionsKept ==
    ASSUME SessionsAccounted, SharedOK, NEW c \in Commands, ~At(c, "stop"),
           live' \subseteq live \cup {c},
           \A i \in live : slot.instance = i => slot'.instance = i,
           \/ live' = live /\ pc[c] \notin {"claim", "stale"}
           \/ slot'.instance = c
           \/ pc'[c] \in {"claim", "stale"},
           \A d \in Commands : d # c => pc'[d] = pc[d] /\ held'[d] = held[d]
    PROVE  SessionsAccounted'
<1> SUFFICES ASSUME NEW i \in live'
             PROVE  \/ slot'.instance = i \/ pc'[i] \in {"claim", "stale"}
                    \/ \E d \in Commands : pc'[d] = "stop" /\ held'[d] = i
  BY DEF SessionsAccounted, At
<1>1. CASE slot.instance = i /\ i \in live  BY <1>1
<1>2. CASE pc[i] \in {"claim", "stale"} /\ i \in live
  <2>1. i \in Commands  BY <1>2 DEF SharedOK
  <2>2. QED  BY <1>2, <2>1
<1>3. CASE \E d \in Commands : At(d, "stop") /\ held[d] = i
  BY <1>3 DEF At
<1>4. CASE i \notin live  BY <1>4
<1>5. QED  BY <1>1, <1>2, <1>3, <1>4 DEF SessionsAccounted

\* A session that leaves the slot, or never gets there, is stopped.
LEMMA SessionsStep ==
    SessionsAccounted /\ SharedOK /\ HeldIsClaimed /\ InstanceIsClaimed /\ SlotOK /\ PlacesOK
    /\ Routes
    /\ [Next]_vars => SessionsAccounted'
<1> SUFFICES ASSUME SessionsAccounted, SharedOK, HeldIsClaimed, InstanceIsClaimed, SlotOK,
                    PlacesOK, Routes, [Next]_vars
             PROVE  SessionsAccounted'
  OBVIOUS
<1>1. CASE UNCHANGED vars  BY <1>1 DEF vars, SessionsAccounted, At, control, local
<1>2. ASSUME NEW c \in Commands, NEW k \in Kinds, Submit(c, k) PROVE SessionsAccounted'
  <2>1. slot'.instance = slot.instance /\ live' = live
        /\ pc[c] \notin {"claim", "stale"} /\ ~At(c, "stop")
    BY <1>2 DEF Submit, At
  <2>2. \A d \in Commands : d # c => pc'[d] = pc[d] /\ held'[d] = held[d]
    BY <1>2 DEF Submit, control, local, PlacesOK, Goto
  <2>3. QED  BY <2>1, <2>2, SessionsKept
<1>3. ASSUME NEW c \in Commands,
             \/ Lock(c) \/ Preempt(c) \/ CancelActiveRun(c) \/ BindRunContext(c)
             \/ RecoverCheck(c) \/ RestoreSMSMode(c)
      PROVE  SessionsAccounted'
  <2>1. slot' = slot /\ live' = live /\ pc[c] \notin {"claim", "stale"} /\ ~At(c, "stop")
    BY <1>3 DEF Lock, Preempt, CancelActiveRun, BindRunContext, RecoverCheck, RestoreSMSMode, At
  <2>2. \A d \in Commands : d # c => pc'[d] = pc[d] /\ held'[d] = held[d]
    BY <1>3 DEF Lock, Preempt, CancelActiveRun, BindRunContext, RecoverCheck, RestoreSMSMode,
       control, local, PlacesOK, Goto
  <2>3. QED  BY <2>1, <2>2, SessionsKept
<1>4. ASSUME NEW c \in Commands,
             \/ WaitReady(c) \/ CheckSwitching(c) \/ MarkRuntimeStarted(c) \/ Finish(c)
             \/ EndSwitch(c) \/ ClearSwitch(c)
      PROVE  SessionsAccounted'
  <2>1. slot' = slot /\ live' = live /\ pc[c] \notin {"claim", "stale"} /\ ~At(c, "stop")
    BY <1>4 DEF WaitReady, CheckSwitching, MarkRuntimeStarted, Finish, EndSwitch, ClearSwitch,
       At
  <2>2. \A d \in Commands : d # c => pc'[d] = pc[d] /\ held'[d] = held[d]
    BY <1>4 DEF WaitReady, CheckSwitching, MarkRuntimeStarted, Finish, EndSwitch, ClearSwitch,
       control, local, PlacesOK, Goto
  <2>3. QED  BY <2>1, <2>2, SessionsKept
<1>5. ASSUME NEW c \in Commands, InvalidateFirst(c) PROVE SessionsAccounted'
  <2>1. slot'.instance = slot.instance /\ live' = live
        /\ pc[c] \notin {"claim", "stale"} /\ ~At(c, "stop")
    BY <1>5, SlotValues DEF InvalidateFirst, At
  <2>2. \A d \in Commands : d # c => pc'[d] = pc[d] /\ held'[d] = held[d]
    BY <1>5 DEF InvalidateFirst, control, local, PlacesOK, Goto
  <2>3. QED  BY <2>1, <2>2, SessionsKept
<1>6. ASSUME NEW c \in Commands, TeardownInvalidate(c) PROVE SessionsAccounted'
  <2>1. slot'.instance = slot.instance /\ live' = live
        /\ pc[c] \notin {"claim", "stale"} /\ ~At(c, "stop")
    BY <1>6, SlotValues DEF TeardownInvalidate, At
  <2>2. \A d \in Commands : d # c => pc'[d] = pc[d] /\ held'[d] = held[d]
    BY <1>6 DEF TeardownInvalidate, control, local, PlacesOK, Goto
  <2>3. QED  BY <2>1, <2>2, SessionsKept
<1>7. ASSUME NEW c \in Commands, ReadInstance(c) PROVE SessionsAccounted'
  BY <1>7 DEF ReadInstance, AfterTeardown, SessionsAccounted, PlacesOK, Goto, At, SlotOK,
     SlotType, control, local
<1>8. ASSUME NEW c \in Commands, StopInstance(c) PROVE SessionsAccounted'
  BY <1>8, SlotValues DEF StopInstance, Observed, SessionsAccounted, PlacesOK, Goto, At,
     control, local
<1>9. ASSUME NEW c \in Commands, DeleteInstance(c) PROVE SessionsAccounted'
  BY <1>9 DEF DeleteInstance, SessionsAccounted, PlacesOK, Goto, At, NoSlot, HeldIsClaimed,
     control, local
<1>10. ASSUME NEW c \in Commands, BeginStart(c) PROVE SessionsAccounted'
  <2>1. slot'.instance = slot.instance /\ live' = live
        /\ pc[c] \notin {"claim", "stale"} /\ ~At(c, "stop")
    BY <1>10 DEF BeginStart, SlotOK, SlotType, At
  <2>2. \A d \in Commands : d # c => pc'[d] = pc[d] /\ held'[d] = held[d]
    BY <1>10 DEF BeginStart, control, local, PlacesOK, Goto
  <2>3. QED  BY <2>1, <2>2, SessionsKept
<1>11. ASSUME NEW c \in Commands, PrepareStart(c) PROVE SessionsAccounted'
  <2>1. slot'.instance = slot.instance /\ live' = live
        /\ pc[c] \notin {"claim", "stale"} /\ ~At(c, "stop")
    BY <1>11, SlotValues DEF PrepareStart, At
  <2>2. \A d \in Commands : d # c => pc'[d] = pc[d] /\ held'[d] = held[d]
    BY <1>11 DEF PrepareStart, control, local, PlacesOK, Goto
  <2>3. QED  BY <2>1, <2>2, SessionsKept
<1>12. ASSUME NEW c \in Commands, BeforeStart(c) PROVE SessionsAccounted'
  <2>1. slot'.instance = slot.instance /\ live' = live
        /\ pc[c] \notin {"claim", "stale"} /\ ~At(c, "stop")
    BY <1>12, SlotValues DEF BeforeStart, At
  <2>2. \A d \in Commands : d # c => pc'[d] = pc[d] /\ held'[d] = held[d]
    BY <1>12 DEF BeforeStart, control, local, PlacesOK, Goto
  <2>3. QED  BY <2>1, <2>2, SessionsKept
<1>13. ASSUME NEW c \in Commands, Connect(c) PROVE SessionsAccounted'
  <2>1. slot' = slot /\ ~At(c, "stop") /\ pc[c] \notin {"claim", "stale"}
    BY <1>13 DEF Connect, At
  <2>2. live' = live \/ (live' = live \cup {c} /\ pc'[c] = "claim")
    BY <1>13 DEF Connect, PlacesOK, Goto
  <2>3. \A d \in Commands : d # c => pc'[d] = pc[d] /\ held'[d] = held[d]
    BY <1>13 DEF Connect, local, PlacesOK, Goto
  <2>4. QED  BY <2>1, <2>2, <2>3, SessionsKept
<1>14. ASSUME NEW c \in Commands, ClaimStarted(c) PROVE SessionsAccounted'
  <2>1. live' = live /\ ~At(c, "stop")  BY <1>14 DEF ClaimStarted, At
  <2>2. \/ slot.instance = None /\ slot'.instance = c
        \/ slot' = slot /\ pc'[c] = "stale"
    BY <1>14 DEF ClaimStarted, PlacesOK, Goto, NoSlot
  <2>3. \A d \in Commands : d # c => pc'[d] = pc[d] /\ held'[d] = held[d]
    BY <1>14 DEF ClaimStarted, local, PlacesOK, Goto
  <2>4. None \notin live  BY NoneAssumption DEF SharedOK
  <2>5. QED  BY <2>1, <2>2, <2>3, <2>4, SessionsKept
<1>15. ASSUME NEW c \in Commands, StopStale(c) PROVE SessionsAccounted'
  BY <1>15, SlotValues DEF StopStale, Observed, SessionsAccounted, PlacesOK, Goto, At, control,
     local
<1>16. ASSUME NEW c \in Commands, ClearStartupState(c) PROVE SessionsAccounted'
  <2>1. slot'.instance = slot.instance /\ live' = live
        /\ pc[c] \notin {"claim", "stale"} /\ ~At(c, "stop")
    BY <1>16, SlotValues DEF ClearStartupState, At
  <2>2. \A d \in Commands : d # c => pc'[d] = pc[d] /\ held'[d] = held[d]
    BY <1>16 DEF ClearStartupState, control, local, PlacesOK, Goto
  <2>3. QED  BY <2>1, <2>2, SessionsKept
<1>17. ASSUME NEW c \in Commands, HandleStartupError(c) PROVE SessionsAccounted'
  <2>1. slot'.instance = slot.instance /\ live' = live
        /\ pc[c] \notin {"claim", "stale"} /\ ~At(c, "stop")
    BY <1>17, SlotValues DEF HandleStartupError, At
  <2>2. \A d \in Commands : d # c => pc'[d] = pc[d] /\ held'[d] = held[d]
    BY <1>17 DEF HandleStartupError, control, local, PlacesOK, Goto
  <2>3. QED  BY <2>1, <2>2, SessionsKept
<1>18. ASSUME NEW c \in Commands, FailStart(c) PROVE SessionsAccounted'
  <2>1. slot'.instance = slot.instance /\ live' = live
        /\ pc[c] \notin {"claim", "stale"} /\ ~At(c, "stop")
    BY <1>18 DEF FailStart, SlotOK, SlotType, At
  <2>2. \A d \in Commands : d # c => pc'[d] = pc[d] /\ held'[d] = held[d]
    BY <1>18 DEF FailStart, control, local, PlacesOK, Goto
  <2>3. QED  BY <2>1, <2>2, SessionsKept
<1>19. ASSUME NEW c \in Commands, SwitchGuard(c) PROVE SessionsAccounted'
  BY <1>19 DEF SwitchGuard, SessionsAccounted, PlacesOK, Goto, At, control, local
<1>20. QED
  BY <1>1, <1>2, <1>3, <1>4, <1>5, <1>6, <1>7, <1>8, <1>9, <1>10, <1>11, <1>12, <1>13, <1>14,
     <1>15, <1>16, <1>17, <1>18, <1>19
  DEF Next

\* Only a teardown stops the session in the slot, and then takes it out.
LEMMA InstanceUpStep ==
    InstanceIsUp /\ ConnectedIsUp /\ HeldIsClaimed /\ InstanceIsClaimed /\ SlotOK /\ PlacesOK
    /\ Routes
    /\ [Next]_vars => InstanceIsUp'
<1> SUFFICES ASSUME InstanceIsUp, ConnectedIsUp, HeldIsClaimed, InstanceIsClaimed, SlotOK,
                    PlacesOK, Routes, [Next]_vars
             PROVE  InstanceIsUp'
  OBVIOUS
<1> USE DEF InstanceIsUp, PlacesOK, Goto, At
<1>1. CASE UNCHANGED vars  BY <1>1 DEF vars, control, local
<1>2. ASSUME NEW c \in Commands, NEW k \in Kinds, Submit(c, k) PROVE InstanceIsUp'
  BY <1>2 DEF Submit, control, local
<1>3. ASSUME NEW c \in Commands,
             \/ Lock(c) \/ Preempt(c) \/ CancelActiveRun(c) \/ RecoverCheck(c) \/ WaitReady(c)
             \/ CheckSwitching(c)
      PROVE  InstanceIsUp'
  BY <1>3 DEF Lock, Preempt, CancelActiveRun, RecoverCheck, WaitReady, CheckSwitching, control,
     local
<1>4. ASSUME NEW c \in Commands,
             \/ MarkRuntimeStarted(c) \/ ClearSwitch(c) \/ SwitchGuard(c)
      PROVE  InstanceIsUp'
  BY <1>4 DEF MarkRuntimeStarted, ClearSwitch, SwitchGuard, control, local
<1>5. ASSUME NEW c \in Commands, InvalidateFirst(c) PROVE InstanceIsUp'
  BY <1>5, SlotValues DEF InvalidateFirst, control, local
<1>6. ASSUME NEW c \in Commands, BindRunContext(c) PROVE InstanceIsUp'
  BY <1>6 DEF BindRunContext, First, Routes, Route, Serial, control, local
<1>7. ASSUME NEW c \in Commands, TeardownInvalidate(c) PROVE InstanceIsUp'
  BY <1>7, SlotValues DEF TeardownInvalidate, control, local
<1>8. ASSUME NEW c \in Commands, ReadInstance(c) PROVE InstanceIsUp'
  BY <1>8 DEF ReadInstance, AfterTeardown, control, local
<1>9. ASSUME NEW c \in Commands, StopInstance(c) PROVE InstanceIsUp'
  BY <1>9, SlotValues DEF StopInstance, Observed, control, local
<1>10. ASSUME NEW c \in Commands, DeleteInstance(c) PROVE InstanceIsUp'
  BY <1>10 DEF DeleteInstance, NoSlot, control, local
<1>11. ASSUME NEW c \in Commands, RestoreSMSMode(c) PROVE InstanceIsUp'
  BY <1>11 DEF RestoreSMSMode, AfterTeardown, control, local
<1>12. ASSUME NEW c \in Commands, BeginStart(c) PROVE InstanceIsUp'
  <2>1. slot'.instance = slot.instance /\ live' = live
    BY <1>12 DEF BeginStart, SlotOK, SlotType
  <2>2. \A d \in Commands : At(d, "delete") => pc'[d] = pc[d] /\ held'[d] = held[d]
    BY <1>12 DEF BeginStart, local
  <2>3. QED  BY <2>1, <2>2
<1>13. ASSUME NEW c \in Commands, PrepareStart(c) PROVE InstanceIsUp'
  BY <1>13, SlotValues DEF PrepareStart, control, local
<1>14. ASSUME NEW c \in Commands, BeforeStart(c) PROVE InstanceIsUp'
  BY <1>14, SlotValues DEF BeforeStart, control, local
<1>15. ASSUME NEW c \in Commands, Connect(c) PROVE InstanceIsUp'
  BY <1>15 DEF Connect, control, local
<1>16. ASSUME NEW c \in Commands, ClaimStarted(c) PROVE InstanceIsUp'
  BY <1>16 DEF ClaimStarted, NoSlot, ConnectedIsUp, control, local
<1>17. ASSUME NEW c \in Commands, StopStale(c) PROVE InstanceIsUp'
  BY <1>17, SlotValues DEF StopStale, Observed, InstanceIsClaimed, Claimed, control, local
<1>18. ASSUME NEW c \in Commands, ClearStartupState(c) PROVE InstanceIsUp'
  BY <1>18, SlotValues DEF ClearStartupState, control, local
<1>19. ASSUME NEW c \in Commands, HandleStartupError(c) PROVE InstanceIsUp'
  BY <1>19, SlotValues DEF HandleStartupError, control, local
<1>20. ASSUME NEW c \in Commands, FailStart(c) PROVE InstanceIsUp'
  BY <1>20 DEF FailStart, control, local
<1>21. ASSUME NEW c \in Commands, Finish(c) PROVE InstanceIsUp'
  BY <1>21 DEF Finish, control, local
<1>22. ASSUME NEW c \in Commands, EndSwitch(c) PROVE InstanceIsUp'
  BY <1>22 DEF EndSwitch, control, local
<1>23. QED
  BY <1>1, <1>2, <1>3, <1>4, <1>5, <1>6, <1>7, <1>8, <1>9, <1>10, <1>11, <1>12, <1>13, <1>14,
     <1>15, <1>16, <1>17, <1>18, <1>19, <1>20, <1>21, <1>22
  DEF Next

\* A start clears the flag when it fails, unless the slot has moved on.
LEMMA StartingStep ==
    StartingHasOwner /\ InstanceIsClaimed /\ SlotOK /\ PlacesOK /\ Routes
    /\ [Next]_vars => StartingHasOwner'
<1> SUFFICES ASSUME StartingHasOwner, InstanceIsClaimed, SlotOK, PlacesOK, Routes, [Next]_vars
             PROVE  StartingHasOwner'
  OBVIOUS
<1> USE DEF StartingHasOwner, PlacesOK, Goto, At, Starts
<1>1. CASE UNCHANGED vars  BY <1>1 DEF vars, control, local
<1>2. ASSUME NEW c \in Commands, NEW k \in Kinds, Submit(c, k) PROVE StartingHasOwner'
  BY <1>2 DEF Submit, control, local
<1>3. ASSUME NEW c \in Commands,
             \/ Lock(c) \/ Preempt(c) \/ CancelActiveRun(c) \/ RecoverCheck(c) \/ WaitReady(c)
             \/ CheckSwitching(c)
      PROVE  StartingHasOwner'
  BY <1>3 DEF Lock, Preempt, CancelActiveRun, RecoverCheck, WaitReady, CheckSwitching, control,
     local
<1>4. ASSUME NEW c \in Commands,
             \/ MarkRuntimeStarted(c) \/ ClearSwitch(c) \/ SwitchGuard(c)
      PROVE  StartingHasOwner'
  BY <1>4 DEF MarkRuntimeStarted, ClearSwitch, SwitchGuard, control, local
<1>5. ASSUME NEW c \in Commands, InvalidateFirst(c) PROVE StartingHasOwner'
  BY <1>5, SlotValues DEF InvalidateFirst, control, local
<1>6. ASSUME NEW c \in Commands, BindRunContext(c) PROVE StartingHasOwner'
  BY <1>6 DEF BindRunContext, First, Routes, Route, Serial, control, local
<1>7. ASSUME NEW c \in Commands, TeardownInvalidate(c) PROVE StartingHasOwner'
  BY <1>7, SlotValues DEF TeardownInvalidate, control, local
<1>8. ASSUME NEW c \in Commands, ReadInstance(c) PROVE StartingHasOwner'
  BY <1>8 DEF ReadInstance, AfterTeardown, control, local
<1>9. ASSUME NEW c \in Commands, StopInstance(c) PROVE StartingHasOwner'
  BY <1>9, SlotValues DEF StopInstance, Observed, control, local
<1>10. ASSUME NEW c \in Commands, DeleteInstance(c) PROVE StartingHasOwner'
  BY <1>10 DEF DeleteInstance, NoSlot, control, local
<1>11. ASSUME NEW c \in Commands, RestoreSMSMode(c) PROVE StartingHasOwner'
  BY <1>11 DEF RestoreSMSMode, AfterTeardown, control, local
<1>12. ASSUME NEW c \in Commands, BeginStart(c) PROVE StartingHasOwner'
  <2>1. CASE slot' = [slot EXCEPT !.starting = TRUE, !.lastErr = FALSE]
             /\ epoch' = [epoch EXCEPT ![c] = slot.epoch] /\ Goto(c, "prepare")
    <3>1. slot'.epoch = slot.epoch  BY <2>1 DEF SlotOK, SlotType
    <3>2. QED  BY <2>1, <3>1
  <2>2. CASE slot' = slot /\ epoch' = epoch
    BY <1>12, <2>2 DEF BeginStart
  <2>3. QED  BY <1>12, <2>1, <2>2 DEF BeginStart
<1>13. ASSUME NEW c \in Commands, PrepareStart(c) PROVE StartingHasOwner'
  BY <1>13, SlotValues DEF PrepareStart, control, local
<1>14. ASSUME NEW c \in Commands, BeforeStart(c) PROVE StartingHasOwner'
  BY <1>14, SlotValues DEF BeforeStart, control, local
<1>15. ASSUME NEW c \in Commands, Connect(c) PROVE StartingHasOwner'
  BY <1>15 DEF Connect, control, local
<1>16. ASSUME NEW c \in Commands, ClaimStarted(c) PROVE StartingHasOwner'
  BY <1>16 DEF ClaimStarted, NoSlot, InstanceIsClaimed, control, local
<1>17. ASSUME NEW c \in Commands, StopStale(c) PROVE StartingHasOwner'
  BY <1>17, SlotValues DEF StopStale, Observed, control, local
<1>18. ASSUME NEW c \in Commands, ClearStartupState(c) PROVE StartingHasOwner'
  BY <1>18, SlotValues DEF ClearStartupState, control, local
<1>19. ASSUME NEW c \in Commands, HandleStartupError(c) PROVE StartingHasOwner'
  BY <1>19, SlotValues DEF HandleStartupError, control, local
<1>20. ASSUME NEW c \in Commands, FailStart(c) PROVE StartingHasOwner'
  BY <1>20 DEF FailStart, control, local
<1>21. ASSUME NEW c \in Commands, Finish(c) PROVE StartingHasOwner'
  BY <1>21 DEF Finish, control, local
<1>22. ASSUME NEW c \in Commands, EndSwitch(c) PROVE StartingHasOwner'
  BY <1>22 DEF EndSwitch, control, local
<1>23. QED
  BY <1>1, <1>2, <1>3, <1>4, <1>5, <1>6, <1>7, <1>8, <1>9, <1>10, <1>11, <1>12, <1>13, <1>14,
     <1>15, <1>16, <1>17, <1>18, <1>19, <1>20, <1>21, <1>22
  DEF Next

\* The inductive invariant.
THEOREM Inductive == Spec => []IInv
<1>1. IInv /\ [Next]_vars => IInv'
  BY SlotStep, SharedStep, PlacesStep, NumbersStep, RunMuStep, RoutesStep, SerialStep, GivenStep,
     NumberedStep, OwnNumberStep, OverStep, AfterDisabledStep, InstanceStep, ConnectedStep,
     HeldStep, SessionsStep, InstanceUpStep, StartingStep
  DEF IInv
<1>2. QED  BY InitIInv, <1>1, PTL DEF Spec

\* Every variable keeps its type, and runMu is held by a command under way.
THEOREM TypeCorrect == Spec => []TypeOK
<1>1. IInv => TypeOK
  <2>1. RunMuOK =>
           runMu \in {c \in Commands : pc[c] \notin {"idle", "lock", "switched", "unflag", "done"}}
                     \cup {None}
    BY DEF RunMuOK, Waiting
  <2>2. QED  BY <2>1 DEF IInv, SlotOK, SlotType, SharedOK, PlacesOK, NumbersOK, TypeOK
<1>2. QED  BY Inductive, <1>1, PTL

\* No session is lost (StartRuntime's stale branch, StopInstanceForTeardown): each one that is up
\* is in the slot, or a goroutine is about to claim, to drop or to stop it.
THEOREM NoSessionLost == Spec => []SessionsAccounted
<1>1. IInv => SessionsAccounted  BY DEF IInv
<1>2. QED  BY Inductive, <1>1, PTL

\* The slot shows a session that is up, or the teardown that stopped it is about to take it out.
THEOREM SlotShowsWhatIsUp == Spec => []InstanceIsUp
<1>1. IInv => InstanceIsUp  BY DEF IInv
<1>2. QED  BY Inductive, <1>1, PTL

\* The starting flag never outlives the starts of its epoch, so BeginStart is not refused for
\* ever (FailStart, InvalidateStart).
THEOREM StartingIsOwned == Spec => []StartingHasOwner
<1>1. IInv => StartingHasOwner  BY DEF IInv
<1>2. QED  BY Inductive, <1>1, PTL

\* Once Disable has returned, no command that waits for runMu with a number from before it, and
\* no recovery scheduled before it, turns VoWiFi on (LifecycleController.Submit,
\* runLifecycleCommand).
THEOREM DisableOutlastsQueue == Spec => QueuedDisableSticks
<1> DEFINE Later == \A c \in Commands : Claims(c) /\ kind[c] # "restart" => disabled < gen[c]
<1>1. IInv /\ [Next]_vars => [Later]_vars
  <2> SUFFICES ASSUME IInv PROVE Later
    OBVIOUS
  <2>1. Routes /\ RunsAfterDisabled  BY DEF IInv
  <2>2. SUFFICES ASSUME NEW c \in Commands, At(c, "claim"), kind[c] # "restart"
                 PROVE  disabled < gen[c]
    BY DEF Claims
  <2>3. kind[c] \in Serial /\ pc[c] \notin Waiting
    BY <2>1, <2>2 DEF Routes, Route, At, Starts, Starters, Serial, Waiting
  <2>4. QED  BY <2>1, <2>3 DEF RunsAfterDisabled
<1>2. QED  BY Inductive, <1>1, PTL DEF Spec, QueuedDisableSticks

(***************************************************************************)
(* The host implements SessionSlot.                                        *)
(***************************************************************************)

\* A step that neither brings a session up nor ends one, and leaves the instance in the slot.  The
\* command that takes it may get past the last place from which it could bring one up.
LEMMA QuietStep ==
    ASSUME NEW c \in Commands, live' = live, slot'.instance = slot.instance,
           \A d \in Commands : d # c => pc'[d] = pc[d] /\ kind'[d] = kind[d],
           Past(c) => Past(c)'
    PROVE  [Slot!Next]_(Slot!slotVars)
<1>1. \A d \in Commands : d # c => Session'[d] = Session[d]  BY DEF Session, Past, At
<1>2. CASE Session'[c] = Session[c]
  <2>1. Session' = Session  BY <1>1, <1>2 DEF Session
  <2>2. QED  BY <2>1 DEF Slot!slotVars
<1>3. CASE Session'[c] # Session[c]
  <2>1. Session[c] = "none" /\ Session'[c] = "over"  BY <1>3 DEF Session
  <2>2. Session' = [Session EXCEPT ![c] = "over"]  BY <1>1, <2>1 DEF Session
  <2>3. Slot!Forgo(c)  BY <2>1, <2>2 DEF Slot!Forgo, Slot!Become
  <2>4. QED  BY <2>3 DEF Slot!Next
<1>4. QED  BY <1>2, <1>3

\* A step that ends at most one session, whose command is past the claim by then, and leaves the
\* instance in the slot.
LEMMA EndingStep ==
    ASSUME NEW c \in Commands, NEW s \in Commands, live' = live \ {s}, Past(s)',
           slot'.instance = slot.instance,
           \A d \in Commands : d # c => pc'[d] = pc[d] /\ kind'[d] = kind[d],
           c # s => ~Past(c) /\ ~Past(c)'
    PROVE  [Slot!Next]_(Slot!slotVars)
<1>1. \A d \in Commands : d # s => Session'[d] = Session[d]  BY DEF Session, Past, At
<1>2. Session'[s] = "over"  BY DEF Session
<1>3. Session' = [Session EXCEPT ![s] = "over"]  BY <1>1, <1>2 DEF Session
<1>4. CASE Session[s] = "over"
  <2>1. Session' = Session  BY <1>3, <1>4 DEF Session
  <2>2. QED  BY <2>1 DEF Slot!slotVars
<1>5. CASE Session[s] = "up"
  <2>1. Slot!End(s)  BY <1>3, <1>5 DEF Slot!End, Slot!Become
  <2>2. QED  BY <2>1 DEF Slot!Next
<1>6. CASE Session[s] = "none"
  <2>1. Slot!Forgo(s)  BY <1>3, <1>6 DEF Slot!Forgo, Slot!Become
  <2>2. QED  BY <2>1 DEF Slot!Next
<1>7. QED  BY <1>4, <1>5, <1>6 DEF Session

\* The steps of the store that leave the instance where it is.
LEMMA StoreKeepsInstance ==
    ASSUME SlotOK
    PROVE  /\ Invalidate => slot'.instance = slot.instance
           /\ Observed => slot'.instance = slot.instance
           /\ slot' \in {Recorded, Cleared} => slot'.instance = slot.instance
BY SlotValues DEF Observed

\* Every step maps to a step or a stutter.
LEMMA SlotImplementation == IInv /\ [Next]_vars => [Slot!Next]_(Slot!slotVars)
<1> SUFFICES ASSUME IInv, [Next]_vars PROVE [Slot!Next]_(Slot!slotVars)
  OBVIOUS
<1>0. SlotOK /\ SharedOK /\ PlacesOK /\ Routes /\ InstanceIsClaimed /\ ConnectedIsUp /\ HeldIsClaimed
  BY DEF IInv
<1>1. CASE UNCHANGED vars
  BY <1>1 DEF vars, control, local, Slot!slotVars, Session, Past, At
<1>2. ASSUME NEW c \in Commands, NEW k \in Kinds, Submit(c, k) PROVE [Slot!Next]_(Slot!slotVars)
  <2>1. live' = live /\ slot' = slot /\ ~Past(c)  BY <1>2 DEF Submit, Past, At
  <2>2. \A d \in Commands : d # c => pc'[d] = pc[d] /\ kind'[d] = kind[d]
    BY <1>0, <1>2 DEF Submit, PlacesOK, Goto
  <2>3. QED  BY <2>1, <2>2, QuietStep
<1>3. ASSUME NEW c \in Commands,
             \/ Lock(c) \/ Preempt(c) \/ CancelActiveRun(c) \/ BindRunContext(c)
             \/ RecoverCheck(c) \/ ReadInstance(c) \/ RestoreSMSMode(c)
      PROVE  [Slot!Next]_(Slot!slotVars)
  <2>1. live' = live /\ slot' = slot /\ ~Past(c)
    BY <1>3 DEF Lock, Preempt, CancelActiveRun, BindRunContext, RecoverCheck, ReadInstance,
       RestoreSMSMode, Past, At
  <2>2. \A d \in Commands : d # c => pc'[d] = pc[d] /\ kind'[d] = kind[d]
    BY <1>0, <1>3 DEF Lock, Preempt, CancelActiveRun, BindRunContext, RecoverCheck, ReadInstance,
       RestoreSMSMode, PlacesOK, Goto, local
  <2>3. QED  BY <2>1, <2>2, QuietStep
<1>4. ASSUME NEW c \in Commands,
             \/ WaitReady(c) \/ CheckSwitching(c) \/ EndSwitch(c)
      PROVE  [Slot!Next]_(Slot!slotVars)
  <2>1. live' = live /\ slot' = slot /\ ~Past(c)
    BY <1>4 DEF WaitReady, CheckSwitching, EndSwitch, Past, At
  <2>2. \A d \in Commands : d # c => pc'[d] = pc[d] /\ kind'[d] = kind[d]
    BY <1>0, <1>4 DEF WaitReady, CheckSwitching, EndSwitch, PlacesOK, Goto, local
  <2>3. QED  BY <2>1, <2>2, QuietStep
<1>5. ASSUME NEW c \in Commands,
             \/ InvalidateFirst(c) \/ TeardownInvalidate(c) \/ PrepareStart(c) \/ BeforeStart(c)
             \/ HandleStartupError(c)
      PROVE  [Slot!Next]_(Slot!slotVars)
  <2>1. live' = live /\ ~Past(c)
    BY <1>5 DEF InvalidateFirst, TeardownInvalidate, PrepareStart, BeforeStart,
       HandleStartupError, Past, At
  <2>2. slot'.instance = slot.instance
    BY <1>0, <1>5, StoreKeepsInstance
    DEF InvalidateFirst, TeardownInvalidate, PrepareStart, BeforeStart, HandleStartupError
  <2>3. \A d \in Commands : d # c => pc'[d] = pc[d] /\ kind'[d] = kind[d]
    BY <1>0, <1>5 DEF InvalidateFirst, TeardownInvalidate, PrepareStart, BeforeStart,
       HandleStartupError, PlacesOK, Goto, local
  <2>4. QED  BY <2>1, <2>2, <2>3, QuietStep
<1>6. ASSUME NEW c \in Commands, BeginStart(c) \/ FailStart(c)
      PROVE  [Slot!Next]_(Slot!slotVars)
  <2>1. live' = live /\ ~Past(c)  BY <1>6 DEF BeginStart, FailStart, Past, At
  <2>2. slot'.instance = slot.instance
    BY <1>0, <1>6 DEF BeginStart, FailStart, SlotOK, SlotType
  <2>3. \A d \in Commands : d # c => pc'[d] = pc[d] /\ kind'[d] = kind[d]
    BY <1>0, <1>6 DEF BeginStart, FailStart, PlacesOK, Goto, local
  <2>4. QED  BY <2>1, <2>2, <2>3, QuietStep
<1>7. ASSUME NEW c \in Commands, ClearStartupState(c) PROVE [Slot!Next]_(Slot!slotVars)
  <2>1. live' = live  BY <1>7 DEF ClearStartupState
  <2>2. slot'.instance = slot.instance
    BY <1>0, <1>7, StoreKeepsInstance DEF ClearStartupState
  <2>3. \A d \in Commands : d # c => pc'[d] = pc[d] /\ kind'[d] = kind[d]
    BY <1>0, <1>7 DEF ClearStartupState, PlacesOK, Goto, local
  <2>4. Past(c)'
    BY <1>0, <1>7 DEF ClearStartupState, PlacesOK, Goto, Past, At, local, Routes, Route, Starters
  <2>5. QED  BY <2>1, <2>2, <2>3, <2>4, QuietStep
<1>8. ASSUME NEW c \in Commands, MarkRuntimeStarted(c) \/ Finish(c) \/ ClearSwitch(c)
      PROVE  [Slot!Next]_(Slot!slotVars)
  <2>1. live' = live /\ slot' = slot  BY <1>8 DEF MarkRuntimeStarted, Finish, ClearSwitch
  <2>2. \A d \in Commands : d # c => pc'[d] = pc[d] /\ kind'[d] = kind[d]
    BY <1>0, <1>8 DEF MarkRuntimeStarted, Finish, ClearSwitch, PlacesOK, Goto, local
  <2>3. Past(c) => Past(c)'
    BY <1>0, <1>8 DEF MarkRuntimeStarted, Finish, ClearSwitch, PlacesOK, Goto, Past, At, local,
       Routes, Route, Starters
  <2>4. QED  BY <2>1, <2>2, <2>3, QuietStep
<1>9. ASSUME NEW c \in Commands, SwitchGuard(c) PROVE [Slot!Next]_(Slot!slotVars)
  BY <1>9 DEF SwitchGuard, local, Slot!slotVars, Session, Past, At
<1>10. ASSUME NEW c \in Commands, StopInstance(c) PROVE [Slot!Next]_(Slot!slotVars)
  <2>1. PICK s \in Commands : s = held[c] /\ Claimed(s) /\ s # c
    BY <1>0, <1>10 DEF StopInstance, HeldIsClaimed, Claimed, PlacesOK, At
  <2>2. live' = live \ {s} /\ slot'.instance = slot.instance
    BY <1>0, <1>10, <2>1, StoreKeepsInstance DEF StopInstance
  <2>3. /\ \A d \in Commands : d # c => pc'[d] = pc[d] /\ kind'[d] = kind[d]
        /\ ~Past(c) /\ ~Past(c)'
    BY <1>0, <1>10 DEF StopInstance, PlacesOK, Goto, local, Past, At
  <2>4. Past(s)'  BY <2>1, <2>3 DEF Claimed, Past, At
  <2>5. QED  BY <2>1, <2>2, <2>3, <2>4, EndingStep
<1>11. ASSUME NEW c \in Commands, StopStale(c) PROVE [Slot!Next]_(Slot!slotVars)
  <2>1. live' = live \ {c} /\ slot'.instance = slot.instance
    BY <1>0, <1>11, StoreKeepsInstance DEF StopStale
  <2>2. /\ \A d \in Commands : d # c => pc'[d] = pc[d] /\ kind'[d] = kind[d]
        /\ Past(c)'
    BY <1>0, <1>11 DEF StopStale, PlacesOK, Goto, local, Past, At
  <2>3. QED  BY <2>1, <2>2, EndingStep
<1>12. ASSUME NEW c \in Commands, DeleteInstance(c) PROVE [Slot!Next]_(Slot!slotVars)
  <2>1. /\ live' = live /\ ~Past(c) /\ ~Past(c)'
        /\ \A d \in Commands : d # c => pc'[d] = pc[d] /\ kind'[d] = kind[d]
    BY <1>0, <1>12 DEF DeleteInstance, PlacesOK, Goto, local, Past, At
  <2>2. CASE slot.instance # held[c]
    BY <1>12, <2>1, <2>2, QuietStep DEF DeleteInstance
  <2>3. CASE slot.instance = held[c]
    <3>1. slot'.instance = None  BY <1>12, <2>3 DEF DeleteInstance, NoSlot
    <3>2. /\ held[c] \in Commands /\ held[c] \notin live /\ Claimed(held[c])
      BY <1>0, <1>12 DEF DeleteInstance, HeldIsClaimed, PlacesOK, At
    <3>3. Session[held[c]] = "over"  BY <3>2 DEF Session, Claimed, Past
    <3>4. Session' = Session  BY <2>1 DEF Session, Past, At
    <3>5. Slot!TakeOut(held[c])  BY <2>3, <3>1, <3>3, <3>4 DEF Slot!TakeOut
    <3>6. QED  BY <3>2, <3>5 DEF Slot!Next
  <2>4. QED  BY <2>2, <2>3
<1>13. ASSUME NEW c \in Commands, Connect(c) PROVE [Slot!Next]_(Slot!slotVars)
  <2>1. /\ slot' = slot /\ ~Past(c) /\ live' \in {live, live \cup {c}}
        /\ \A d \in Commands : d # c => pc'[d] = pc[d] /\ kind'[d] = kind[d]
    BY <1>0, <1>13 DEF Connect, PlacesOK, Goto, local, Past, At
  <2>2. CASE live' = live  BY <2>1, <2>2, QuietStep
  <2>3. CASE live' = live \cup {c} /\ c \notin live
    <3>1. Session[c] = "none"  BY <2>1, <2>3 DEF Session
    <3>2. Session' = [Session EXCEPT ![c] = "up"]  BY <2>1, <2>3 DEF Session, Past, At
    <3>3. Slot!ComeUp(c)  BY <2>1, <3>1, <3>2 DEF Slot!ComeUp, Slot!Become
    <3>4. QED  BY <3>3 DEF Slot!Next
  <2>4. QED  BY <2>1, <2>2, <2>3
<1>14. ASSUME NEW c \in Commands, ClaimStarted(c) PROVE [Slot!Next]_(Slot!slotVars)
  <2>1. /\ live' = live /\ c \in live
        /\ \A d \in Commands : d # c => pc'[d] = pc[d] /\ kind'[d] = kind[d]
    BY <1>0, <1>14 DEF ClaimStarted, PlacesOK, Goto, local, ConnectedIsUp
  <2>2. Session' = Session /\ Session[c] = "up"  BY <2>1 DEF Session, Past, At
  <2>3. CASE slot' = slot  BY <2>2, <2>3 DEF Slot!slotVars
  <2>4. CASE slot.instance = None /\ slot'.instance = c
    <3>1. Slot!Show(c)  BY <2>2, <2>4 DEF Slot!Show
    <3>2. QED  BY <3>1 DEF Slot!Next
  <2>5. QED  BY <1>14, <2>3, <2>4 DEF ClaimStarted, NoSlot
<1>15. QED
  BY <1>1, <1>2, <1>3, <1>4, <1>5, <1>6, <1>7, <1>8, <1>9, <1>10, <1>11, <1>12, <1>13, <1>14
  DEF Next

\* The host implements SessionSlot (ClaimStarted, StopInstanceForTeardown, DeleteInstance): for any
\* number of overlapping commands, the slot shows only what is up, passes from one session to the
\* next through being empty, and no session comes up, or is shown, a second time.
THEOREM SlotRefinement == Spec => ImplementsSessionSlot
<1>1. Init => Slot!Init
  BY DEF Init, NoSlot, Slot!Init, Session, Past, At
<1>2. QED  BY Inductive, <1>1, SlotImplementation, PTL DEF Spec, ImplementsSessionSlot, Slot!Spec

=============================================================================
