------------------------------- MODULE CsCall -------------------------------
(***************************************************************************)
(* The manager of circuit-switched calls of one device, cscall/manager.go: *)
(* it bridges a call of the modem to a SIP client, in either direction.    *)
(*                                                                         *)
(* The goroutine that reads the controller's events (Monitor), the call    *)
(* workflows, the handlers of the client's BYE and CANCEL (Clients) and    *)
(* Stop (Stopper) share the manager's fields under m.mu.  A step here is   *)
(* one critical section of m.mu and the work of the goroutine's own around *)
(* it.  endCallAndHangup is a procedure of two steps that any of them may  *)
(* run: what it took from the manager, and what it then does with it.      *)
(*                                                                         *)
(* A modem call, a SIP dialog and a CSCall are numbers, 0 for none.        *)
(***************************************************************************)
EXTENDS Naturals, Sequences

CONSTANTS
    Workflows, Clients,      \* goroutines of calls, handlers of BYE and CANCEL
    Monitor, Stopper,
    ByID,                    \* a QMI controller, which names calls; an AT one does not
    MaxDialogs, MaxCalls,    \* bounds: SIP dialogs and CSCalls ever made
    MaxModemCalls,           \* bound: voice calls of the modem
    QueueLength              \* bound: events the channel holds (the code has 8)

ASSUME CallAssumption ==
    /\ Monitor \notin Workflows \cup Clients /\ Stopper \notin Workflows \cup Clients
    /\ Monitor # Stopper /\ Workflows \cap Clients = {}
    /\ ByID \in BOOLEAN
    /\ {MaxDialogs, MaxCalls, MaxModemCalls, QueueLength} \subseteq Nat

VARIABLES
    state,        \* m.state
    stopped,      \* m.stopped, and with it monitorCtx
    known,        \* m.callerID is a number, not "Unknown"
    dialog,       \* m.sipCallID
    ctl,          \* m.controllerCallID
    current,      \* m.currentCall
    call,         \* the CSCalls
    dialogs,      \* dialogs made so far
    modem,        \* the modem's voice call: its number and its state
    events,       \* the controller's event channel
    th            \* the goroutines

manager == <<state, stopped, known, dialog, ctl, current>>
vars == <<manager, call, dialogs, modem, events, th>>

Threads == Workflows \cup Clients \cup {Monitor, Stopper}
\* Where a goroutine is, its CSCall, dialog and modem call, and for endCallAndHangup: the call
\* it expects (0: any), whether the client and the modem are told, and what it took.
Idle == [pc |-> "idle", c |-> 0, dialog |-> 0, ctl |-> 0, failed |-> FALSE, expected |-> 0,
         signal |-> FALSE, ath |-> FALSE, taken |-> 0, atStop |-> FALSE]

NewCall(outbound) ==
    [outbound |-> outbound, audio |-> "none", final |-> 0, cancelled |-> FALSE,
     signalled |-> FALSE, bye |-> FALSE]

Init ==
    /\ state = "idle" /\ stopped = FALSE /\ known = FALSE
    /\ dialog = 0 /\ ctl = 0 /\ current = 0
    /\ call = <<>> /\ dialogs = 0
    /\ modem = [id |-> 0, state |-> "none"]
    /\ events = <<>>
    /\ th = [t \in Threads |-> Idle]

At(t, pc) == th[t].pc = pc
Goto(t, pc) == th' = [th EXCEPT ![t] = [@ EXCEPT !.pc = pc]]
\* A workflow returns; Stop goes on after each of its two clean-ups.
Starting(pc, c, d) == [Idle EXCEPT !.pc = pc, !.c = c, !.dialog = d]
Back(t) == IF t # Stopper THEN Idle
           ELSE [Idle EXCEPT !.pc = IF th[t].atStop THEN "returned" ELSE "wait"]
Return(t) == th' = [th EXCEPT ![t] = Back(t)]
End(t, expected, signal, ath) ==
    th' = [th EXCEPT ![t] = [Idle EXCEPT !.pc = "end", !.expected = expected,
                                         !.signal = signal, !.ath = ath]]

callActive(c) == ~stopped /\ current = c /\ state # "idle"
RingingFor(t) == ~stopped /\ state = "ringing" /\ dialog = th[t].dialog
Stopping(a) == IF a = "none" THEN "none" ELSE "stopped"

(***************************************************************************)
(* The modem and the network (external)                                    *)
(***************************************************************************)

Event(type, n) == [type |-> type, id |-> modem.id, known |-> n]
\* (nobody looks at the number of a call that ended)
HangupEvent == [type |-> "hangup", id |-> 0, known |-> FALSE]
\* emit never blocks: a full channel loses the event.
Emit(e) == events' = IF Len(events) < QueueLength THEN Append(events, e) ELSE events

NetworkRings ==
    /\ modem.state = "none" /\ modem.id < MaxModemCalls
    /\ modem' = [id |-> modem.id + 1, state |-> "in"]
    /\ \E n \in BOOLEAN : Emit([type |-> "incoming", id |-> modem.id + 1, known |-> n])
    /\ UNCHANGED <<manager, call, dialogs, th>>

\* RING again, or the number (+CLIP, or a second status of the QMI call).
NetworkRingsAgain ==
    /\ modem.state = "in" /\ Len(events) < QueueLength
    /\ \E n \in BOOLEAN : Emit(Event("incoming", n))
    /\ UNCHANGED <<manager, call, dialogs, modem, th>>

NetworkAnswers ==
    /\ modem.state = "out"
    /\ modem' = [modem EXCEPT !.state = "active"]
    /\ IF ByID THEN Emit(Event("connected", FALSE)) ELSE UNCHANGED events
    /\ UNCHANGED <<manager, call, dialogs, th>>

NetworkHangsUp ==
    /\ modem.state # "none"
    /\ modem' = [modem EXCEPT !.state = "none"]
    /\ Emit(HangupEvent)
    /\ UNCHANGED <<manager, call, dialogs, th>>

\* Controller.Hangup: ATH ends whatever call there is, the QMI request the call it names, whose
\* end the modem reports like any other.
ControllerHangup(id, ath) ==
    IF ath /\ modem.state # "none" /\ (ByID => id = modem.id)
    THEN /\ modem' = [modem EXCEPT !.state = "none"]
         /\ IF ByID THEN Emit(HangupEvent) ELSE UNCHANGED events
    ELSE UNCHANGED <<modem, events>>

(***************************************************************************)
(* endCallAndHangupIfCurrent                                               *)
(***************************************************************************)

TakeCall(t) ==
    /\ At(t, "end")
    /\ IF \/ th[t].expected # 0 /\ current # th[t].expected
          \/ state = "idle" /\ current = 0
       THEN Return(t) /\ UNCHANGED <<state, ctl, current, call>>
       ELSE /\ th' = [th EXCEPT ![t] = [@ EXCEPT !.pc = "cleanup", !.taken = current, !.ctl = ctl,
                                                  !.expected = 0, !.failed = stopped]]
            /\ state' = "idle" /\ current' = 0 /\ ctl' = 0
            /\ call' = IF current = 0 THEN call
                       ELSE [call EXCEPT ![current] = [@ EXCEPT !.signalled = th[t].signal]]
    /\ UNCHANGED <<stopped, known, dialog, dialogs, modem, events>>

\* A client whose INVITE is still open is told so only by Stop; one that got 200 gets BYE.
\* The context ends, the transactions are terminated, the audio is stopped, the modem hangs up.
CleanedUp(t, r, audio) ==
    LET final == IF r.outbound /\ r.final = 0 /\ th[t].signal /\ th[t].failed THEN 503 ELSE r.final
    IN  [r EXCEPT !.cancelled = TRUE, !.audio = audio, !.final = final,
                  !.bye = r.outbound /\ th[t].signal /\ final = 200]

\* Mutant of Cleanup: the audio of a call that was answered is left to its workflow.
CleanupKeepsAudio(t) ==
    /\ At(t, "cleanup")
    /\ call' = IF th[t].taken = 0 THEN call
               ELSE [call EXCEPT ![th[t].taken] = CleanedUp(t, @, @.audio)]
    /\ ControllerHangup(th[t].ctl, th[t].ath)
    /\ Return(t)
    /\ UNCHANGED <<manager, dialogs>>

Cleanup(t) ==
    /\ At(t, "cleanup")
    /\ call' = IF th[t].taken = 0 THEN call
               ELSE [call EXCEPT ![th[t].taken] = CleanedUp(t, @, Stopping(@.audio))]
    /\ ControllerHangup(th[t].ctl, th[t].ath)
    /\ Return(t)
    /\ UNCHANGED <<manager, dialogs>>

(***************************************************************************)
(* The controller's events                                                 *)
(***************************************************************************)

Free(w) == At(w, "idle")
\* launchCallWorkflow refuses once the manager is stopped.
Launch(pc, d) ==
    IF stopped THEN th' = [th EXCEPT ![Monitor] = Idle]
    ELSE \E w \in Workflows :
            /\ Free(w)
            /\ th' = [th EXCEPT ![Monitor] = Idle, ![w] = Starting(pc, 0, d)]

\* onIncoming and beginIncomingCall, which says which dialog to launch a workflow for.  A ring
\* without a number that changes nothing gets a timer, too, for the dialog there is by then.
ToLaunch(pc, d) == th' = [th EXCEPT ![Monitor] = Starting(pc, 0, d)]
Incoming(e) ==
    /\ e.type = "incoming"
    /\ \/ /\ ~stopped /\ state = "idle" /\ dialogs < MaxDialogs
          /\ state' = "ringing" /\ known' = e.known /\ ctl' = e.id
          /\ dialogs' = dialogs + 1 /\ dialog' = dialogs'
          /\ ToLaunch(IF e.known THEN "launch" ELSE "launchTimer", dialog')
       \/ /\ ~stopped /\ state = "ringing" /\ ~known /\ e.known
          /\ known' = TRUE /\ ctl' = e.id
          /\ ToLaunch("launch", dialog)
          /\ UNCHANGED <<state, dialog, dialogs>>
       \/ /\ stopped \/ state \notin {"idle", "ringing"} \/ (state = "ringing" /\ (known \/ ~e.known))
          /\ ToLaunch(IF stopped \/ e.known THEN "idle" ELSE "launchTimer", 0)
          /\ UNCHANGED <<state, known, ctl, dialog, dialogs>>
    /\ UNCHANGED <<stopped, current, call>>

\* onControllerConnected
Connected(e) ==
    /\ e.type = "connected"
    /\ ctl' = IF stopped THEN ctl ELSE e.id
    /\ state' = IF ~stopped /\ state = "dialing" THEN "connected" ELSE state
    /\ UNCHANGED <<stopped, known, dialog, current, call, dialogs, th>>

\* onHangup, whichever call it is about
HungUp(e) ==
    /\ e.type = "hangup"
    /\ IF state = "idle" THEN UNCHANGED th ELSE End(Monitor, 0, TRUE, FALSE)
    /\ UNCHANGED <<manager, call, dialogs>>

MonitorEvents ==
    /\ At(Monitor, "idle") /\ events # <<>>
    /\ events' = Tail(events)
    /\ LET e == Head(events) IN Incoming(e) \/ Connected(e) \/ HungUp(e)
    /\ UNCHANGED modem

\* The loop's select may take either branch once monitorCtx has ended.
MonitorExits ==
    /\ At(Monitor, "idle") /\ stopped
    /\ Goto(Monitor, "exited")
    /\ UNCHANGED <<manager, call, dialogs, modem, events>>

LaunchWorkflow ==
    /\ LET d == th[Monitor].dialog IN
        \/ At(Monitor, "launch") /\ Launch("init", d)
        \/ At(Monitor, "launchTimer") /\ Launch("timer", IF d = 0 THEN dialog ELSE d)
    /\ UNCHANGED <<manager, call, dialogs, modem, events>>

(***************************************************************************)
(* An incoming call: onIncoming's timer, initiateSIPCall,                  *)
(* waitClientResponse and handleClientAnswer                               *)
(***************************************************************************)

Timer(t) ==
    /\ At(t, "timer")
    /\ IF RingingFor(t) /\ ~known THEN Goto(t, "init") ELSE Return(t)
    /\ UNCHANGED <<manager, call, dialogs, modem, events>>

\* Mutant of AwaitClient: when no client comes, or there is no bridge, the workflow just returns.
AwaitClientOnly(t) ==
    /\ At(t, "init")
    /\ \/ /\ RingingFor(t) /\ Len(call) < MaxCalls
          /\ call' = Append(call, [NewCall(FALSE) EXCEPT !.audio = "open"])
          /\ current' = Len(call')
          /\ th' = [th EXCEPT ![t] = [@ EXCEPT !.pc = "invite", !.c = Len(call')]]
       \/ Return(t) /\ UNCHANGED <<call, current>>
    /\ UNCHANGED <<state, stopped, known, dialog, ctl, dialogs, modem, events>>

\* Pushes, waits for the client up to 30 seconds while the call rings, and opens the bridge: the
\* step is the last look at the manager, which installs the call.
AwaitClient(t) ==
    /\ At(t, "init")
    /\ \/ /\ RingingFor(t) /\ Len(call) < MaxCalls
          /\ call' = Append(call, [NewCall(FALSE) EXCEPT !.audio = "open"])
          /\ current' = Len(call')
          /\ th' = [th EXCEPT ![t] = [@ EXCEPT !.pc = "invite", !.c = Len(call')]]
       \/ /\ RingingFor(t)
          /\ End(t, 0, FALSE, TRUE) /\ UNCHANGED <<call, current>>
       \/ /\ ~RingingFor(t)
          /\ Return(t) /\ UNCHANGED <<call, current>>
    /\ UNCHANGED <<state, stopped, known, dialog, ctl, dialogs, modem, events>>

\* TransactionRequest, between two looks at the manager, fails or sends the INVITE.
Invite(t) ==
    /\ At(t, "invite")
    /\ IF RingingFor(t) /\ current = th[t].c
       THEN \/ /\ call' = [call EXCEPT ![th[t].c] = [@ EXCEPT !.audio = "stopped"]]
               /\ End(t, 0, FALSE, TRUE)
            \/ Goto(t, "response") /\ UNCHANGED call
       ELSE Return(t) /\ UNCHANGED call
    /\ UNCHANGED <<manager, dialogs, modem, events>>

\* waitClientResponse: the client refuses, its transaction ends, or it answers the call that
\* still rings (handleClientAnswer).
ClientResponds(t) ==
    /\ At(t, "response")
    /\ \/ (End(t, 0, FALSE, TRUE) \/ End(t, 0, TRUE, TRUE)) /\ UNCHANGED state
       \/ IF RingingFor(t) /\ current = th[t].c
          THEN state' = "connected" /\ Goto(t, "audio")
          ELSE Return(t) /\ UNCHANGED state
    /\ UNCHANGED <<stopped, known, dialog, ctl, current, call, dialogs, modem, events>>

\* Mutant of ResponseCancelled: the call's context does not descend from the manager's.
ResponseCancelledAlone(t) ==
    /\ At(t, "response") /\ call[th[t].c].cancelled
    /\ Return(t)
    /\ UNCHANGED <<manager, call, dialogs, modem, events>>

\* The context the wait selects on ends with the call or with the manager.
ResponseCancelled(t) ==
    /\ At(t, "response") /\ (call[th[t].c].cancelled \/ stopped)
    /\ Return(t)
    /\ UNCHANGED <<manager, call, dialogs, modem, events>>

\* Mutant of AudioStart: Start does not see that the bridge has been stopped.
AudioRestart(t) ==
    /\ At(t, "audio")
    /\ \/ /\ call' = [call EXCEPT ![th[t].c] = [@ EXCEPT !.audio = "running"]]
          /\ Goto(t, "recheck")
       \/ th' = [th EXCEPT ![t] = [@ EXCEPT !.pc = "recheck", !.failed = TRUE]] /\ UNCHANGED call
    /\ UNCHANGED <<manager, dialogs, modem, events>>

\* startCallAudio: AudioBridge.Start, which fails once the bridge was stopped, and the look at
\* the call after it.  (The look before it comes with the step that led here.)
AudioStart(t) ==
    /\ At(t, "audio")
    /\ \/ /\ call[th[t].c].audio = "open"
          /\ call' = [call EXCEPT ![th[t].c] = [@ EXCEPT !.audio = "running"]]
          /\ Goto(t, "recheck")
       \/ th' = [th EXCEPT ![t] = [@ EXCEPT !.pc = "recheck", !.failed = TRUE]] /\ UNCHANGED call
    /\ UNCHANGED <<manager, dialogs, modem, events>>

\* An incoming call goes on to answerCallController, which takes the controller's number.
AudioRecheck(t) ==
    LET c == th[t].c IN
    /\ At(t, "recheck")
    /\ IF ~callActive(c)
       THEN call' = [call EXCEPT ![c] = [@ EXCEPT !.audio = "stopped"]] /\ Return(t)
       ELSE /\ UNCHANGED call
            /\ IF th[t].failed THEN End(t, IF call[c].outbound THEN c ELSE 0, TRUE, TRUE)
               ELSE IF call[c].outbound THEN Return(t)
               ELSE th' = [th EXCEPT ![t] = [@ EXCEPT !.pc = "answering", !.ctl = ctl]]
    /\ UNCHANGED <<manager, dialogs, modem, events>>

\* A call that ended while the modem answered is hung up again.
Answer(t) ==
    LET c == th[t].c
        active == ~stopped /\ current = c /\ state = "connected"
        there == modem.state = "in" /\ (ByID => modem.id = th[t].ctl)
    IN  /\ At(t, "answering")
        /\ IF active
           THEN /\ \/ there /\ modem' = [modem EXCEPT !.state = "active"] /\ Return(t)
                   \/ End(t, 0, TRUE, TRUE) /\ UNCHANGED modem
                /\ UNCHANGED <<call, events>>
           ELSE /\ ControllerHangup(th[t].ctl, TRUE)
                /\ call' = [call EXCEPT ![c] = [@ EXCEPT !.audio = "stopped"]]
                /\ Return(t)
        /\ UNCHANGED <<manager, dialogs>>

(***************************************************************************)
(* An outgoing call: handleOutboundInvite                                  *)
(***************************************************************************)

\* beginCallWorkflow and the admission: 503 when stopped, 486 when busy.
OutboundInvite(t) ==
    /\ t \in Workflows /\ Free(t)
    /\ ~stopped /\ state = "idle"
    /\ dialogs < MaxDialogs /\ Len(call) < MaxCalls
    /\ state' = "dialing"
    /\ dialogs' = dialogs + 1 /\ dialog' = dialogs'
    /\ call' = Append(call, NewCall(TRUE))
    /\ current' = Len(call')
    /\ th' = [th EXCEPT ![t] = Starting("dial", Len(call'), dialogs')]
    /\ UNCHANGED <<stopped, known, ctl, modem, events>>

\* respondForActiveCall and then endCallAndHangupIfCurrent: the check, which hands m.mu over to
\* serverResponseMu, and the response are one step.
Refuse(t, status, ath) ==
    LET c == th[t].c IN
    IF callActive(c) /\ call[c].final = 0
    THEN call' = [call EXCEPT ![c] = [@ EXCEPT !.final = status]] /\ End(t, c, FALSE, ath)
    ELSE Return(t) /\ UNCHANGED call

\* The bridge, created and attached to the call if it still is the one being dialled, and
\* controller.Dial.
Dial(t) ==
    LET c == th[t].c IN
    /\ At(t, "dial")
    /\ \/ /\ ~stopped /\ current = c /\ state = "dialing" /\ dialog = th[t].dialog
          /\ modem.state = "none" /\ modem.id < MaxModemCalls
          /\ modem' = [id |-> modem.id + 1, state |-> "out"]
          /\ th' = [th EXCEPT ![t] = [@ EXCEPT !.pc = "dialled", !.ctl = modem.id + 1]]
          /\ call' = [call EXCEPT ![c] = [@ EXCEPT !.audio = "open"]]
       \/ /\ Refuse(t, 500, FALSE) \/ Refuse(t, 503, FALSE)
          /\ UNCHANGED modem
    /\ UNCHANGED <<manager, dialogs, events>>

\* A call that ended while the modem dialled is hung up here.
Dialled(t) ==
    /\ At(t, "dialled")
    /\ IF callActive(th[t].c) /\ dialog = th[t].dialog
       THEN /\ ctl' = th[t].ctl
            /\ Goto(t, "poll")
            /\ UNCHANGED <<call, modem, events>>
       ELSE /\ ControllerHangup(th[t].ctl, TRUE)
            /\ call' = [call EXCEPT ![th[t].c] = [@ EXCEPT !.audio = Stopping(call[th[t].c].audio)]]
            /\ Return(t)
            /\ UNCHANGED ctl
    /\ UNCHANGED <<state, stopped, known, dialog, current, dialogs>>

\* Every half second: the call is gone, the minute is over, or the modem says it is answered.
Poll(t) ==
    /\ At(t, "poll")
    /\ \/ ~callActive(th[t].c) /\ Return(t) /\ UNCHANGED <<call, state>>
       \/ callActive(th[t].c) /\ Refuse(t, 408, TRUE) /\ UNCHANGED state
       \/ /\ callActive(th[t].c)
          /\ modem.state = "active" /\ (ByID /\ ctl # 0 => ctl = modem.id)
          /\ state' = "connected" /\ Goto(t, "ok") /\ UNCHANGED call
    /\ UNCHANGED <<stopped, known, dialog, ctl, current, dialogs, modem, events>>

\* Mutant of RespondOK: the call is not asked for when the response goes out.
RespondOKAnyway(t) ==
    /\ At(t, "ok")
    /\ IF call[th[t].c].final = 0
       THEN call' = [call EXCEPT ![th[t].c] = [@ EXCEPT !.final = 200]] /\ Goto(t, "audio")
       ELSE Return(t) /\ UNCHANGED call
    /\ UNCHANGED <<manager, dialogs, modem, events>>

RespondOK(t) ==
    /\ At(t, "ok")
    /\ IF callActive(th[t].c) /\ call[th[t].c].final = 0
       THEN call' = [call EXCEPT ![th[t].c] = [@ EXCEPT !.final = 200]] /\ Goto(t, "audio")
       ELSE Return(t) /\ UNCHANGED call
    /\ UNCHANGED <<manager, dialogs, modem, events>>

(***************************************************************************)
(* The client's BYE and CANCEL, and Stop                                   *)
(***************************************************************************)

\* HandleClientBye and HandleClientCancel check the dialog, then end whatever call there is.
ClientEnds(t) ==
    /\ t \in Clients /\ At(t, "idle")
    /\ state # "idle"        \* a BYE for this dialog; a CANCEL needs a call that rings
    /\ End(t, 0, FALSE, TRUE)
    /\ UNCHANGED <<manager, call, dialogs, modem, events>>

StopBegin ==
    /\ At(Stopper, "idle")
    /\ stopped' = TRUE
    /\ End(Stopper, 0, TRUE, TRUE)
    /\ UNCHANGED <<state, known, dialog, ctl, current, call, dialogs, modem, events>>

\* monitorWG.Wait and workflowWG.Wait, and the second clean-up.
StopWaits ==
    /\ At(Stopper, "wait")
    /\ At(Monitor, "exited") /\ \A t \in Workflows : At(t, "idle")
    /\ th' = [th EXCEPT ![Stopper] = [@ EXCEPT !.pc = "end", !.signal = TRUE, !.ath = TRUE,
                                                 !.atStop = TRUE]]
    /\ UNCHANGED <<manager, call, dialogs, modem, events>>

EndCall(t) == TakeCall(t) \/ Cleanup(t)
Inbound(t) ==
    \/ Timer(t) \/ AwaitClient(t) \/ Invite(t) \/ ResponseCancelled(t)
    \/ AudioStart(t) \/ AudioRecheck(t) \/ Answer(t)
Outbound(t) == Dial(t) \/ Dialled(t) \/ Poll(t) \/ RespondOK(t)
Network == NetworkRings \/ NetworkRingsAgain \/ NetworkAnswers \/ NetworkHangsUp
Controlled == MonitorEvents \/ MonitorExits \/ LaunchWorkflow

Next ==
    \/ Network \/ Controlled \/ StopBegin \/ StopWaits
    \/ \E t \in Threads :
          \/ EndCall(t) \/ Inbound(t) \/ Outbound(t)
          \/ OutboundInvite(t) \/ ClientResponds(t) \/ ClientEnds(t)

Spec == Init /\ [][Next]_vars

(***************************************************************************)
(* Properties                                                              *)
(***************************************************************************)

Calls == 1 .. Len(call)
TypeOK ==
    /\ state \in {"idle", "ringing", "dialing", "connected"}
    /\ {stopped, known} \subseteq BOOLEAN
    /\ dialog \in 0 .. MaxDialogs /\ dialogs \in 0 .. MaxDialogs /\ current \in 0 .. Len(call)
    /\ modem.id \in Nat /\ modem.state \in {"none", "in", "out", "active"} /\ ctl \in 0 .. modem.id
    /\ \A c \in Calls :
          /\ call[c].audio \in {"none", "open", "running", "stopped"}
          /\ call[c].final \in {0, 200, 408, 500, 503}
    /\ DOMAIN th = Threads

\* Audio runs only for the current call, or there is a goroutine about to stop it: the ender
\* that took the call, or the workflow that started it and still has to look again.
WillStop(t, c) ==
    \/ At(t, "cleanup") /\ th[t].taken = c
    \/ At(t, "recheck") /\ th[t].c = c
RunningAudioHasOwner ==
    \A c \in Calls : call[c].audio = "running" =>
        current = c \/ \E t \in Threads : WillStop(t, c)

\* A call is never stuck in set-up: while the manager rings or dials, some goroutine works on
\* that dialog (or is about to be launched for it, or ends the call).
SetupHasWorkflow ==
    state \in {"ringing", "dialing"} =>
        \/ th[Monitor].pc \in {"launch", "launchTimer"} /\ th[Monitor].dialog \in {0, dialog}
        \/ \E t \in Workflows : ~At(t, "idle") /\ th[t].dialog = dialog
        \/ \E t \in Threads : At(t, "end") /\ th[t].expected \in {0, current}

\* A client that got 200 for its INVITE is told when the network or Stop ends the call: no 200
\* goes out after the end, and one that went out before is followed by BYE.
AnsweredGetsBye ==
    \A c \in Calls :
        (call[c].final = 200 /\ call[c].signalled) =>
            call[c].bye \/ \E t \in Threads : At(t, "cleanup") /\ th[t].taken = c

\* Stop returns: every goroutine it waits for can go on by itself, whether or not the client, the
\* modem or the network ever do anything more.
StopDoesNotHang ==
    At(Stopper, "wait") =>
        /\ \A w \in Workflows :
              At(w, "idle") \/ ENABLED (EndCall(w) \/ Inbound(w) \/ Outbound(w))
        /\ \/ At(Monitor, "exited")
           \/ ENABLED (MonitorExits \/ LaunchWorkflow \/ EndCall(Monitor))

\* What the comment in Stop says of the call's RTP and audio resources: they are released when
\* Stop returns, unless a handler of the client's BYE or CANCEL is at it.
StopReleasesAudio ==
    At(Stopper, "returned") =>
        \A c \in Calls : call[c].audio \in {"open", "running"} =>
            \E t \in Clients : At(t, "cleanup") /\ th[t].taken = c

\* What the client of a call has seen.
Seen(r) == [stage |-> IF r.cancelled THEN "ended" ELSE "up", outbound |-> r.outbound,
            final |-> r.final, audio |-> r.audio, bye |-> r.bye]
View ==
    [c \in 1 .. MaxCalls |->
        IF c <= Len(call) THEN Seen(call[c])
        ELSE [stage |-> "none", outbound |-> FALSE, final |-> 0, audio |-> "none", bye |-> FALSE]]
Client == INSTANCE ClientCall WITH CallIds <- 1 .. MaxCalls, calls <- View

\* Every step of the manager is a step, or a stutter, of ClientCall: however workflows, handlers
\* and Stop overlap, no client gets a second final response, one after the end of its call, a BYE
\* in a call it has no 200 for, or audio from a bridge that was stopped.
ImplementsClientCall == Client!Spec
=============================================================================
