----------------------------- MODULE CsCallProofs -----------------------------
(***************************************************************************)
(* Theorems about CsCall for any number of workflows and of handlers of    *)
(* the client's BYE and CANCEL, any number of calls and any queue: audio   *)
(* that runs has somebody who will stop it, a call that is being set up    *)
(* has a goroutine at work on it, a client that got 200 is told of the end *)
(* of its call, and the manager implements ClientCall.                     *)
(***************************************************************************)
EXTENDS CsCall, TLAPS

\* TypeOK in parts, with the places of the goroutines and what the events say.
Dialing == {"dial", "dialled", "poll"}
Outgoing == Dialing \cup {"ok"}
Bridging == {"audio", "recheck"}
Ringing == {"invite", "response"}
WorkflowPlaces == {"idle", "end", "cleanup", "timer", "init", "answering"}
                  \cup Outgoing \cup Bridging \cup Ringing
Places == WorkflowPlaces \cup {"launch", "launchTimer", "exited", "wait", "returned"}
Finals == {0, 200, 408, 500, 503}
Goroutines ==
    [pc : Places, c : Nat, dialog : Nat, ctl : Nat, failed : BOOLEAN, expected : Nat,
     signal : BOOLEAN, ath : BOOLEAN, taken : Nat, atStop : BOOLEAN]
CSCalls ==
    [outbound : BOOLEAN, audio : {"none", "open", "running", "stopped"}, final : Finals,
     cancelled : BOOLEAN, signalled : BOOLEAN, bye : BOOLEAN]
Events == [type : {"incoming", "connected", "hangup"}, id : Nat, known : BOOLEAN]

ManagerOK ==
    /\ state \in {"idle", "ringing", "dialing", "connected"}
    /\ stopped \in BOOLEAN /\ known \in BOOLEAN
    /\ dialogs \in 0 .. MaxDialogs /\ dialog \in 0 .. dialogs
    /\ state \in {"ringing", "dialing"} => dialog # 0
CallsOK ==
    /\ call \in Seq(CSCalls) /\ current \in 0 .. Len(call)
    /\ state = "idle" => current = 0
ModemOK ==
    /\ modem \in [id : Nat, state : {"none", "in", "out", "active"}]
    /\ ctl \in 0 .. modem.id /\ \A t \in Threads : th[t].ctl \in 0 .. modem.id
    /\ events \in Seq(Events) /\ \A i \in 1 .. Len(events) : events[i].id <= modem.id
Place(t, x) ==
    /\ x.pc \in WorkflowPlaces \ {"idle", "end", "cleanup"} => t \in Workflows
    /\ x.pc \in {"launch", "launchTimer", "exited"} => t = Monitor
    /\ x.pc \in {"wait", "returned"} => t = Stopper
ThreadsOK ==
    /\ th \in [Threads -> Goroutines]
    /\ \A t \in Threads : Place(t, th[t])

\* The numbers that a goroutine has noted: a workflow has a dialog, and from its bridge on a call;
\* only who ends a call expects one.
Numbers(x) ==
    /\ x.c \in 0 .. Len(call) /\ x.taken \in 0 .. Len(call) /\ x.dialog \in 0 .. dialogs
    /\ x.pc \in Outgoing \cup Bridging \cup Ringing \cup {"answering"} => x.c # 0
    /\ x.pc \in {"idle", "end", "cleanup", "wait", "returned", "exited"} => x.dialog = 0 /\ x.c = 0
    /\ x.pc \in Outgoing => call[x.c].outbound
    /\ x.pc # "end" => x.expected = 0
NumbersOK == \A t \in Threads : Numbers(th[t])

\* A CSCall is the work of one workflow.
CallsApart == \A s, t \in Threads : th[s].c # 0 /\ th[s].c = th[t].c => s = t

\* Only a client of an outgoing call gets 200.
AnsweredIsOutbound == \A c \in Calls : call[c].final = 200 => call[c].outbound

\* The current call has not been taken from the manager, and whoever takes a call notes whether
\* the client is told.
CurrentIsUntouched ==
    /\ current # 0 => ~call[current].cancelled /\ ~call[current].signalled
    /\ \A t \in Threads : At(t, "cleanup") /\ th[t].taken # 0 =>
           th[t].taken # current /\ call[th[t].taken].signalled = th[t].signal

\* A goroutine that bridges the current call does so because it was answered; before that its
\* audio does not run.
BridgedIsConnected ==
    current # 0 => \A t \in Threads :
        th[t].c = current /\ th[t].pc \in {"ok", "audio"} => state = "connected"
RingingIsSilent == state = "ringing" /\ current # 0 => call[current].audio # "running"

\* Stop ends the call that there is, and there is none after it.
StopEnds == stopped /\ state # "idle" => At(Stopper, "end") /\ th[Stopper].expected = 0

\* Somebody is about to end the call.
Ending == \E t \in Threads : At(t, "end") /\ th[t].expected \in {0, current}

\* The workflows of the dialog that rings or is dialled are where such a workflow is; the one that
\* dials has the current call, which has had no final response.
OnDialog(t) == th[t].dialog = dialog
RingingPlaces ==
    state = "ringing" => \A w \in Workflows : OnDialog(w) =>
        /\ th[w].pc \in {"timer", "init"} \cup Ringing
        /\ th[w].pc \in Ringing => current # 0
DialingPlaces ==
    state = "dialing" =>
        /\ ~(At(Monitor, "launch") /\ OnDialog(Monitor))
        /\ \A w \in Workflows : OnDialog(w) =>
              \/ At(w, "timer")
              \/ th[w].pc \in Dialing /\ th[w].c = current /\ call[current].final = 0

\* Until the manager stops: the call that rings has somebody to end it, or a workflow that goes
\* on with it or is about to be launched; while the number is not known, that may be a timer.
RingingHasWorkflow ==
    state = "ringing" /\ ~stopped =>
        \/ Ending
        \/ At(Monitor, "launch") /\ OnDialog(Monitor)
        \/ \E w \in Workflows : OnDialog(w) /\ th[w].pc \in {"init"} \cup Ringing
        \/ /\ ~known
           /\ \/ At(Monitor, "launchTimer") /\ th[Monitor].dialog \in {0, dialog}
              \/ \E w \in Workflows : OnDialog(w) /\ At(w, "timer")

\* The workflow that made the current call has not left it: a second workflow of the same dialog
\* overwrites it with its own.
RingingHasInviter ==
    state = "ringing" /\ ~stopped /\ current # 0 =>
        \/ Ending
        \/ \E w \in Workflows : OnDialog(w) /\ th[w].pc \in Ringing /\ th[w].c = current
DialingHasWorkflow ==
    state = "dialing" /\ ~stopped =>
        Ending \/ \E w \in Workflows : OnDialog(w) /\ th[w].pc \in Dialing

CallsInv ==
    /\ ManagerOK /\ CallsOK /\ ThreadsOK /\ NumbersOK /\ CallsApart
    /\ AnsweredIsOutbound /\ CurrentIsUntouched /\ BridgedIsConnected /\ RingingIsSilent
    /\ StopEnds /\ RingingPlaces /\ DialingPlaces
    /\ RingingHasWorkflow /\ RingingHasInviter /\ DialingHasWorkflow
    /\ RunningAudioHasOwner /\ AnsweredGetsBye
IInv == CallsInv /\ ModemOK

\* What a goroutine is at when it is idle, starts a workflow, or is about to end a call.
LEMMA IdleFacts ==
    /\ Idle \in Goroutines /\ Idle.pc = "idle" /\ Idle.c = 0 /\ Idle.dialog = 0 /\ Idle.ctl = 0
    /\ Idle.taken = 0 /\ Idle.expected = 0
BY DEF Idle, Goroutines, Places, WorkflowPlaces

\* The record of a goroutine that starts.
LEMMA StartingFacts ==
    ASSUME NEW pc \in Places, NEW c \in Nat, NEW d \in Nat
    PROVE  LET x == Starting(pc, c, d)
           IN  /\ x \in Goroutines /\ x.pc = pc /\ x.c = c /\ x.dialog = d /\ x.ctl = 0
               /\ x.taken = 0 /\ x.expected = 0
BY IdleFacts DEF Starting, Goroutines

Ender(n, signal, ath) == [Idle EXCEPT !.pc = "end", !.expected = n, !.signal = signal, !.ath = ath]
\* The record of a goroutine that is about to end a call.
LEMMA EndingFacts ==
    ASSUME NEW n \in Nat, NEW signal \in BOOLEAN, NEW ath \in BOOLEAN
    PROVE  LET x == Ender(n, signal, ath)
           IN  /\ x \in Goroutines /\ x.pc = "end" /\ x.c = 0 /\ x.dialog = 0 /\ x.ctl = 0
               /\ x.taken = 0 /\ x.expected = n
BY IdleFacts DEF Ender, Goroutines, Places, WorkflowPlaces

\* The record of a goroutine that returns.
LEMMA BackFacts ==
    ASSUME NEW t \in Threads
    PROVE  /\ Back(t) \in Goroutines /\ Back(t).c = 0 /\ Back(t).dialog = 0 /\ Back(t).ctl = 0
           /\ Back(t).taken = 0 /\ Back(t).expected = 0
           /\ Back(t).pc \in {"idle", "wait", "returned"} /\ Place(t, Back(t))
           /\ t # Stopper => Back(t).pc = "idle"
BY IdleFacts DEF Back, Goroutines, Places, WorkflowPlaces, Place, Outgoing, Dialing, Bridging,
                 Ringing

\* The manager is idle at the start, and so is everybody else.
LEMMA InitIInv == Init => IInv
<1> SUFFICES ASSUME Init PROVE IInv
  OBVIOUS
<1>1. /\ state = "idle" /\ stopped = FALSE /\ known = FALSE /\ dialog = 0 /\ ctl = 0
      /\ current = 0 /\ call = <<>> /\ dialogs = 0 /\ events = <<>> /\ th = [t \in Threads |-> Idle]
  BY DEF Init
<1>2. MaxDialogs \in Nat
  <2>1. {MaxDialogs, MaxCalls, MaxModemCalls, QueueLength} \subseteq Nat  BY CallAssumption
  <2>2. QED  BY <2>1
<1>3. ManagerOK
  <2>1. 0 \in 0 .. MaxDialogs  BY <1>2
  <2>2. state \in {"idle"} /\ stopped \in BOOLEAN /\ known \in BOOLEAN  BY <1>1
  <2>3. dialogs \in 0 .. MaxDialogs /\ dialog \in 0 .. dialogs  BY <1>1, <2>1
  <2>4. QED  BY <2>2, <2>3 DEF ManagerOK
<1>4. Len(call) = 0 /\ Calls = {}  BY <1>1 DEF Calls
<1>5. CallsOK  BY <1>1, <1>4 DEF CallsOK
<1>6. \A t \in Threads : th[t] = Idle  BY <1>1
<1>7. ThreadsOK
  BY <1>1, IdleFacts
  DEF ThreadsOK, Place, WorkflowPlaces, Outgoing, Dialing, Bridging, Ringing
<1>8. ModemOK  BY <1>1, <1>6, IdleFacts DEF Init, ModemOK
<1>9. NumbersOK
  BY <1>1, <1>4, <1>6, IdleFacts DEF NumbersOK, Numbers, Outgoing, Dialing, Bridging, Ringing
<1>10. AnsweredIsOutbound /\ RunningAudioHasOwner /\ AnsweredGetsBye
  BY <1>4 DEF AnsweredIsOutbound, RunningAudioHasOwner, AnsweredGetsBye
<1>11. CallsApart /\ CurrentIsUntouched /\ BridgedIsConnected /\ RingingIsSilent /\ StopEnds
  BY <1>1, <1>6, IdleFacts 
  DEF CallsApart, CurrentIsUntouched, BridgedIsConnected, RingingIsSilent, StopEnds, At
<1>12. /\ RingingPlaces /\ DialingPlaces
       /\ RingingHasWorkflow /\ RingingHasInviter /\ DialingHasWorkflow
  BY <1>1
  DEF RingingPlaces, DialingPlaces, RingingHasWorkflow, RingingHasInviter, DialingHasWorkflow
<1>13. QED
  BY <1>3, <1>5, <1>7, <1>8, <1>9, <1>10, <1>11, <1>12 DEF IInv, CallsInv

-----------------------------------------------------------------------------
(* A step of one goroutine that leaves the manager as it is                *)

\* What becomes of the calls: a final response to the current call, audio that is opened, stopped
\* or, by the goroutine that has just been at "audio", started.
CallsKept(t, x) ==
    /\ call' \in Seq(CSCalls) /\ Len(call') = Len(call)
    /\ \A c \in Calls :
         /\ call'[c].outbound = call[c].outbound /\ call'[c].cancelled = call[c].cancelled
         /\ call'[c].signalled = call[c].signalled /\ call'[c].bye = call[c].bye
         /\ \/ call'[c].final = call[c].final
            \/ /\ c = current /\ c = th[t].c /\ (call'[c].final = 200 => call[c].outbound)
               /\ x.pc = "end" \/ th[t].pc = "ok"
         /\ \/ call'[c].audio = call[c].audio \/ call'[c].audio # "running"
            \/ th[t].pc = "audio" /\ th[t].c = c /\ x.pc = "recheck" /\ x.c = c
    /\ th[t].pc = "recheck" =>
         th[t].c \in Calls /\ (call'[th[t].c].audio # "running" \/ current = th[t].c)

\* How a workflow goes on.
GoesOn(from, to) ==
    <<from, to>> \in {<<"timer", "init">>, <<"invite", "response">>, <<"audio", "recheck">>,
                      <<"recheck", "answering">>, <<"dial", "dialled">>, <<"dialled", "poll">>,
                      <<"ok", "audio">>}

\* A workflow may leave its dialog while that rings only if another goes on with it: a timer when
\* the number has come, one whose call a second workflow has overwritten.
MayLeave(t) ==
    ~stopped /\ t \in Workflows /\ OnDialog(t) =>
        /\ state = "ringing" => \/ At(t, "timer") /\ known
                                \/ th[t].pc \in Ringing /\ current # th[t].c
        /\ state = "dialing" => At(t, "timer")

\* The goroutine comes to x.
Steps(t, x) ==
    /\ t \in Threads /\ x \in Goroutines /\ th' = [th EXCEPT ![t] = x]
    /\ Place(t, x) /\ Numbers(x)
    /\ UNCHANGED <<state, stopped, known, dialog, dialogs, current>>
    /\ CallsKept(t, x)
    /\ th[t].pc \notin {"cleanup", "launch", "launchTimer"} /\ x.pc # "cleanup"
    /\ At(t, "end") => state = "idle" \/ th[t].expected \notin {0, current}
    /\ \/ x.pc = "end" /\ x.expected \in {0, current}
       \/ /\ x.dialog = th[t].dialog /\ x.c = th[t].c /\ GoesOn(th[t].pc, x.pc)
          /\ x.pc = "init" => state = "ringing"
       \/ x.pc \in {"idle", "wait", "returned", "exited"} /\ MayLeave(t)

\* The goroutines and calls after such a step.
LEMMA StepFacts ==
    ASSUME CallsOK, ThreadsOK, NEW t, NEW x, Steps(t, x)
    PROVE  /\ t \in Threads /\ th'[t] = x /\ \A s \in Threads : s # t => th'[s] = th[s]
           /\ Len(call) \in Nat /\ Calls' = Calls
           /\ th' \in [Threads -> Goroutines]
           /\ state' = state /\ stopped' = stopped /\ known' = known /\ dialog' = dialog
           /\ dialogs' = dialogs /\ current' = current
BY DEF Steps, CallsKept, Calls, ThreadsOK, CallsOK

\* Every call and every goroutine is as it should be.
LEMMA StepTyped ==
    ASSUME CallsOK, ThreadsOK, NumbersOK, CallsApart, AnsweredIsOutbound,
           NEW t, NEW x, Steps(t, x)
    PROVE  CallsOK' /\ ThreadsOK' /\ NumbersOK' /\ CallsApart' /\ AnsweredIsOutbound'
<1> USE StepFacts
<1>1. CallsOK'  BY DEF CallsOK, Steps, CallsKept
<1>2. ThreadsOK'
  <2>1. \A s \in Threads : Place(s, th'[s])  BY DEF Steps, ThreadsOK
  <2>2. QED  BY <2>1 DEF ThreadsOK, Place
<1>3. NumbersOK'
  <2>1. \A s \in Threads : Numbers(th'[s])  BY DEF Steps, NumbersOK
  <2>2. \A s \in Threads : th'[s].pc \in Outgoing => call'[th'[s].c].outbound
    <3>1. \A s \in Threads : th'[s].pc \in Outgoing => th'[s].c \in Calls
      BY <2>1 DEF Numbers, Calls
    <3>2. QED  BY <2>1, <3>1 DEF Numbers, Steps, CallsKept
  <2>3. QED  BY <2>1, <2>2 DEF NumbersOK, Numbers, Steps, CallsKept
<1>4. ASSUME NEW c \in Calls, call'[c].final = 200 PROVE call'[c].outbound
  <2>1. \/ call'[c].final = call[c].final
        \/ call'[c].final = 200 => call[c].outbound
    BY DEF Steps, CallsKept
  <2>2. call'[c].outbound = call[c].outbound  BY DEF Steps, CallsKept
  <2>3. QED  BY <1>4, <2>1, <2>2 DEF AnsweredIsOutbound
<1>5. CallsApart'
  <2>1. x.c \in {0, th[t].c}  BY DEF Steps, Numbers
  <2>2. QED  BY <2>1 DEF CallsApart
<1>6. QED  BY <1>1, <1>2, <1>3, <1>4, <1>5 DEF AnsweredIsOutbound

\* The current call is left alone, and who takes calls is not disturbed.
LEMMA StepUntouched ==
    ASSUME CallsOK, ThreadsOK, NumbersOK, CurrentIsUntouched, NEW t, NEW x, Steps(t, x)
    PROVE  CurrentIsUntouched'
<1> USE StepFacts
<1>1. current # 0 => current \in Calls  BY DEF CallsOK, Calls
<1>2. current' # 0 => ~call'[current'].cancelled /\ ~call'[current'].signalled
  BY <1>1 DEF CurrentIsUntouched, Steps, CallsKept
<1>3. ASSUME NEW s \in Threads, th'[s].pc = "cleanup", th'[s].taken # 0
      PROVE  th'[s].taken # current' /\ call'[th'[s].taken].signalled = th'[s].signal
  <2>1. s # t  BY <1>3 DEF Steps
  <2>2. th'[s] = th[s] /\ th[s].taken \in Calls  BY <1>3, <2>1 DEF NumbersOK, Numbers, Calls
  <2>3. QED  BY <1>3, <2>2 DEF CurrentIsUntouched, Steps, CallsKept, At
<1>4. QED  BY <1>2, <1>3 DEF CurrentIsUntouched, At

\* Audio starts only in a call that was answered, and its starter looks again.
LEMMA StepAudio ==
    ASSUME CallsOK, ThreadsOK, NumbersOK, BridgedIsConnected, RingingIsSilent,
           RunningAudioHasOwner, NEW t, NEW x, Steps(t, x)
    PROVE  BridgedIsConnected' /\ RingingIsSilent' /\ RunningAudioHasOwner'
<1> USE StepFacts
<1>1. current # 0 => current \in Calls  BY DEF CallsOK, Calls
<1>2. x.pc \in {"ok", "audio"} => x.c = th[t].c /\ th[t].pc = "ok"
  BY DEF Steps, GoesOn
<1>3. BridgedIsConnected'
  <2>1. ASSUME NEW s \in Threads, current # 0, th'[s].c = current, th'[s].pc \in {"ok", "audio"}
        PROVE  state = "connected"
    <3>1. CASE s = t  BY <1>2, <2>1, <3>1 DEF BridgedIsConnected
    <3>2. CASE s # t  BY <2>1, <3>2 DEF BridgedIsConnected
    <3>3. QED  BY <3>1, <3>2
  <2>2. QED  BY <2>1 DEF BridgedIsConnected
<1>4. RingingIsSilent'
  BY <1>1 DEF RingingIsSilent, BridgedIsConnected, Steps, CallsKept
<1>5. ASSUME NEW c \in Calls, call'[c].audio = "running"
      PROVE  current = c \/ \E s \in Threads : WillStop(s, c)'
  <2>1. CASE call[c].audio # "running"
    <3>1. x.pc = "recheck" /\ x.c = c  BY <1>5, <2>1 DEF Steps, CallsKept
    <3>2. QED  BY <3>1 DEF WillStop, At
  <2>2. CASE call[c].audio = "running" /\ current # c
    <3>1. PICK s \in Threads : WillStop(s, c)  BY <2>2 DEF RunningAudioHasOwner
    <3>2. s # t  BY <1>5, <2>2, <3>1 DEF WillStop, At, Steps, CallsKept
    <3>3. QED  BY <3>1, <3>2 DEF WillStop, At
  <2>3. QED  BY <2>1, <2>2
<1>6. QED  BY <1>3, <1>4, <1>5 DEF RunningAudioHasOwner

\* A call that was taken and answered keeps its cleaner.
LEMMA StepBye ==
    ASSUME CallsOK, ThreadsOK, CurrentIsUntouched, AnsweredGetsBye, NEW t, NEW x, Steps(t, x)
    PROVE  AnsweredGetsBye'
<1> USE StepFacts
<1> SUFFICES ASSUME NEW c \in Calls, call'[c].final = 200, call'[c].signalled
             PROVE  call'[c].bye \/ \E s \in Threads : th'[s].pc = "cleanup" /\ th'[s].taken = c
  BY DEF AnsweredGetsBye, At
<1>1. call[c].signalled /\ c # current
  BY DEF Steps, CallsKept, CurrentIsUntouched, Calls
<1>2. call[c].final = 200  BY <1>1 DEF Steps, CallsKept
<1>3. CASE call[c].bye  BY <1>3 DEF Steps, CallsKept
<1>4. ASSUME NEW s \in Threads, At(s, "cleanup"), th[s].taken = c
      PROVE  th'[s].pc = "cleanup" /\ th'[s].taken = c
  BY <1>4 DEF At, Steps
<1>5. QED  BY <1>1, <1>2, <1>3, <1>4 DEF AnsweredGetsBye

\* Stop's clean-up stays due.
LEMMA StepStop ==
    ASSUME CallsOK, ThreadsOK, StopEnds, NEW t, NEW x, Steps(t, x)
    PROVE  StopEnds'
<1>1. CASE t = Stopper  BY <1>1, StepFacts DEF StopEnds, Steps, At
<1>2. CASE t # Stopper
  <2>1. Stopper \in Threads  BY DEF Threads
  <2>2. QED  BY <1>2, <2>1, StepFacts DEF StopEnds, At
<1>3. QED  BY <1>1, <1>2

\* The workflows of a dialog stay where they belong.
LEMMA StepPlaces ==
    ASSUME ManagerOK, CallsOK, ThreadsOK, NumbersOK, CallsApart,
           RingingPlaces, DialingPlaces, NEW t, NEW x, Steps(t, x)
    PROVE  RingingPlaces' /\ DialingPlaces'
<1> USE StepFacts
<1>1. Workflows \subseteq Threads  BY DEF Threads
<1>2. x.pc \in {"end", "idle", "wait", "returned", "exited"} => x.dialog = 0
  BY DEF Steps, Numbers
<1>3. state \in {"ringing", "dialing"} /\ x.dialog = dialog =>
        th[t].dialog = dialog /\ x.c = th[t].c /\ GoesOn(th[t].pc, x.pc)
  BY <1>2 DEF Steps, ManagerOK
<1>4. RingingPlaces'
  <2>1. ASSUME state = "ringing", NEW w \in Workflows, th'[w].dialog = dialog
        PROVE  th'[w].pc \in {"timer", "init"} \cup Ringing
               /\ (th'[w].pc \in Ringing => current # 0)
    <3>1. CASE w # t  BY <1>1, <2>1, <3>1 DEF RingingPlaces, OnDialog
    <3>2. CASE w = t
      <4>1. OnDialog(w) /\ GoesOn(th[w].pc, x.pc)  BY <1>3, <2>1, <3>2 DEF OnDialog
      <4>2. th[w].pc \in {"timer", "init"} \cup Ringing /\ (th[w].pc \in Ringing => current # 0)
        BY <2>1, <4>1 DEF RingingPlaces
      <4>3. QED  BY <3>2, <4>1, <4>2 DEF GoesOn, Ringing
    <3>3. QED  BY <3>1, <3>2
  <2>2. QED  BY <2>1 DEF RingingPlaces, OnDialog
<1>5. DialingPlaces'
  <2>9. state = "dialing" => ~(At(Monitor, "launch") /\ OnDialog(Monitor))'
    <3>1. Monitor \in Threads /\ x.pc # "launch"  BY DEF Threads, Steps, GoesOn
    <3>2. QED  BY <3>1 DEF DialingPlaces, At, OnDialog
  <2> SUFFICES ASSUME state = "dialing", NEW w \in Workflows, th'[w].dialog = dialog,
                      th'[w].pc # "timer"
               PROVE  th'[w].pc \in Dialing /\ th'[w].c = current /\ call'[current].final = 0
    BY <2>9 DEF DialingPlaces, OnDialog, At
  <2>1. OnDialog(w) /\ (w = t => GoesOn(th[t].pc, x.pc) /\ x.c = th[t].c /\ x.pc # "init")
    BY <1>1, <1>3, <1>2 DEF OnDialog, Steps, ManagerOK
  <2>2. ~At(w, "timer")  BY <1>1, <2>1 DEF GoesOn, At
  <2>3. th[w].pc \in Dialing /\ th[w].c = current /\ call[current].final = 0
    BY <2>1, <2>2 DEF DialingPlaces
  <2>4. current \in Calls
    <3>1. th[w].c # 0  BY <1>1, <2>3 DEF NumbersOK, Numbers, Outgoing
    <3>2. QED  BY <2>3, <3>1 DEF CallsOK, Calls
  <2>5. th'[w].pc \in Dialing /\ th'[w].c = current
    <3>1. CASE w # t  BY <1>1, <2>3, <3>1
    <3>2. CASE w = t  BY <1>1, <2>1, <2>3, <3>2 DEF GoesOn, Dialing
    <3>3. QED  BY <3>1, <3>2
  <2>6. call'[current].final = 0
    <3>1. CASE call'[current].final = call[current].final  BY <2>3, <3>1
    <3>2. CASE th[t].c = current /\ (x.pc = "end" \/ th[t].pc = "ok")
      <4>1. t = w  BY <1>1, <2>3, <2>4, <3>2 DEF CallsApart, Calls
      <4>2. QED  BY <2>1, <2>3, <3>2, <4>1 DEF GoesOn, Dialing
    <3>3. QED  BY <2>4, <3>1, <3>2 DEF Steps, CallsKept
  <2>7. QED  BY <2>5, <2>6
<1>6. QED  BY <1>4, <1>5

\* The call that is being set up keeps somebody who is at work on it.
LEMMA StepWorkflow ==
    ASSUME ManagerOK, CallsOK, ThreadsOK, NumbersOK, RingingPlaces,
           RingingHasWorkflow, RingingHasInviter, DialingHasWorkflow, NEW t, NEW x, Steps(t, x)
    PROVE  RingingHasWorkflow' /\ RingingHasInviter' /\ DialingHasWorkflow'
<1> USE StepFacts
<1> DEFINE Works(w) == OnDialog(w) /\ th[w].pc \in {"init"} \cup Ringing
           Waits(w) == OnDialog(w) /\ At(w, "timer")
           Invites(w) == OnDialog(w) /\ th[w].pc \in Ringing /\ th[w].c = current
           Dials(w) == OnDialog(w) /\ th[w].pc \in Dialing
<1>1. Workflows \subseteq Threads /\ Monitor \in Threads  BY DEF Threads
<1>2. ASSUME state # "idle", Ending PROVE Ending'
  BY <1>2 DEF Ending, Steps, At
<1>3. ASSUME x.pc = "end" PROVE Ending'
  BY <1>3 DEF Ending, Steps, At, GoesOn
<1>4. ASSUME state = "ringing", ~stopped, current # 0 PROVE Ending' \/ \E w \in Workflows : Invites(w)'
  <2>1. CASE Ending  BY <1>2, <1>4, <2>1
  <2>2. ASSUME NEW w \in Workflows, Invites(w), w = t PROVE Ending' \/ Invites(w)'
    BY <1>1, <1>3, <1>4, <2>2 DEF Steps, GoesOn, MayLeave, OnDialog, Ringing, At
  <2>3. ASSUME NEW w \in Workflows, Invites(w), w # t PROVE Invites(w)'
    BY <1>1, <2>3 DEF OnDialog
  <2>4. QED  BY <1>4, <2>1, <2>2, <2>3 DEF RingingHasInviter
<1>5. RingingHasInviter'  BY <1>4 DEF RingingHasInviter
<1>6. ASSUME state = "ringing", ~stopped
      PROVE  \/ Ending'
             \/ th'[Monitor].pc = "launch" /\ th'[Monitor].dialog = dialog
             \/ \E w \in Workflows : Works(w)'
             \/ ~known /\ th'[Monitor].pc = "launchTimer" /\ th'[Monitor].dialog \in {0, dialog}
             \/ ~known /\ \E w \in Workflows : Waits(w)'
  <2>1. CASE Ending  BY <1>2, <1>6, <2>1
  <2>2. th[Monitor].pc \in {"launch", "launchTimer"} => th'[Monitor] = th[Monitor]
    BY <1>1 DEF Steps
  <2>3. ASSUME NEW w \in Workflows, Works(w) PROVE Ending' \/ \E v \in Workflows : Works(v)'
    <3>1. CASE w # t  BY <1>1, <2>3, <3>1 DEF OnDialog
    <3>2. CASE w = t /\ x.pc # "end" /\ ~GoesOn(th[t].pc, x.pc)
      <4>1. th[t].pc \in Ringing /\ current # th[t].c
        BY <1>6, <2>3, <3>2 DEF Steps, MayLeave, At, Ringing
      <4>2. current # 0  BY <1>6, <2>3, <3>2, <4>1 DEF RingingPlaces
      <4>3. \A v \in Workflows : Invites(v)' => Works(v)'  OBVIOUS
      <4>4. QED  BY <1>4, <1>6, <4>2, <4>3
    <3>3. CASE w = t /\ GoesOn(th[t].pc, x.pc)
      BY <1>1, <2>3, <3>3 DEF Steps, GoesOn, OnDialog, Ringing
    <3>4. QED  BY <1>3, <3>1, <3>2, <3>3
  <2>4. ASSUME NEW w \in Workflows, Waits(w), ~known
        PROVE  Ending' \/ Works(w)' \/ Waits(w)'
    <3>1. CASE w # t  BY <1>1, <2>4, <3>1 DEF OnDialog, At
    <3>2. CASE w = t
      BY <1>1, <1>3, <1>6, <2>4, <3>2 DEF Steps, GoesOn, MayLeave, OnDialog, At, Ringing
    <3>3. QED  BY <3>1, <3>2
  <2>5. QED  BY <1>6, <2>1, <2>2, <2>3, <2>4 DEF RingingHasWorkflow, OnDialog, At
<1>7. RingingHasWorkflow'  BY <1>6 DEF RingingHasWorkflow, OnDialog, At
<1>8. ASSUME state = "dialing", ~stopped PROVE Ending' \/ \E w \in Workflows : Dials(w)'
  <2>1. CASE Ending  BY <1>2, <1>8, <2>1
  <2>2. ASSUME NEW w \in Workflows, Dials(w), w = t PROVE Ending' \/ Dials(w)'
    BY <1>1, <1>3, <1>8, <2>2 DEF Steps, GoesOn, MayLeave, OnDialog, Dialing, At
  <2>3. ASSUME NEW w \in Workflows, Dials(w), w # t PROVE Dials(w)'
    BY <1>1, <2>3 DEF OnDialog
  <2>4. QED  BY <1>8, <2>1, <2>2, <2>3 DEF DialingHasWorkflow
<1>9. DialingHasWorkflow'  BY <1>8 DEF DialingHasWorkflow
<1>10. QED  BY <1>5, <1>7, <1>9

\* The whole of it.
LEMMA StepInv ==
    ASSUME CallsInv, NEW t, NEW x, Steps(t, x)
    PROVE  CallsInv'
<1> USE DEF CallsInv
<1>1. ManagerOK'  BY StepFacts DEF ManagerOK
<1>2. QED
  BY <1>1, StepTyped, StepUntouched, StepAudio, StepBye, StepStop, StepPlaces, StepWorkflow

-----------------------------------------------------------------------------
(* The steps of the goroutines that leave the manager as it is             *)

Kept == UNCHANGED <<state, stopped, known, dialog, dialogs, current>>

\* The record of a goroutine that goes on.
LEMMA GotoFacts ==
    ASSUME ThreadsOK, NEW t \in Threads, NEW pc \in Places
    PROVE  LET x == [th[t] EXCEPT !.pc = pc]
           IN  /\ x \in Goroutines /\ x.pc = pc /\ x.c = th[t].c /\ x.dialog = th[t].dialog
               /\ x.taken = th[t].taken /\ x.expected = th[t].expected /\ x.ctl = th[t].ctl
BY DEF ThreadsOK, Goroutines

\* What a goroutine's record holds.
LEMMA Typed ==
    ASSUME ThreadsOK, NEW t \in Threads
    PROVE  /\ th[t] \in Goroutines /\ DOMAIN th = Threads
           /\ th[t].c \in Nat /\ th[t].ctl \in Nat /\ th[t].pc \in Places
           /\ th[t].signal \in BOOLEAN /\ th[t].failed \in BOOLEAN
BY DEF ThreadsOK, Goroutines

\* The calls are as they were.
LEMMA CallsSame ==
    ASSUME CallsOK, UNCHANGED call, NEW t, NEW x, th[t].pc # "recheck"
    PROVE  CallsKept(t, x)
BY DEF CallsOK, CallsKept

\* The audio of one call is opened or stopped.
LEMMA AudioSet ==
    ASSUME CallsOK, NEW t, NEW x, NEW c \in Calls, NEW a \in {"none", "open", "stopped"},
           call' = [call EXCEPT ![c] = [@ EXCEPT !.audio = a]],
           th[t].pc = "recheck" => c = th[t].c
    PROVE  CallsKept(t, x)
<1>1. call' \in Seq(CSCalls) /\ Len(call') = Len(call)
  <2>1. [call[c] EXCEPT !.audio = a] \in CSCalls
    <3>1. call[c] \in CSCalls  BY DEF CallsOK, Calls
    <3>2. QED  BY <3>1 DEF CSCalls
  <2>2. QED  BY <2>1 DEF CallsOK, Calls
<1>2. ASSUME NEW d \in Calls
      PROVE  /\ call'[d].outbound = call[d].outbound /\ call'[d].cancelled = call[d].cancelled
             /\ call'[d].signalled = call[d].signalled /\ call'[d].bye = call[d].bye
             /\ call'[d].final = call[d].final
             /\ call'[d].audio = IF d = c THEN a ELSE call[d].audio
  BY DEF CallsOK, CSCalls, Calls
<1>3. QED  BY <1>1, <1>2 DEF CallsKept

\* A final response goes out for the current call.
LEMMA FinalSet ==
    ASSUME CallsOK, NEW t, NEW x, NEW status \in Finals, th[t].c = current, current # 0,
           call' = [call EXCEPT ![th[t].c] = [@ EXCEPT !.final = status]],
           th[t].pc # "recheck", status = 200 => call[current].outbound,
           x.pc = "end" \/ th[t].pc = "ok"
    PROVE  CallsKept(t, x)
<1>1. call' \in Seq(CSCalls) /\ Len(call') = Len(call)
  <2>1. [call[current] EXCEPT !.final = status] \in CSCalls
    <3>1. call[current] \in CSCalls  BY DEF CallsOK
    <3>2. QED  BY <3>1 DEF CSCalls
  <2>2. QED  BY <2>1 DEF CallsOK
<1>2. ASSUME NEW d \in Calls
      PROVE  /\ call'[d].outbound = call[d].outbound /\ call'[d].cancelled = call[d].cancelled
             /\ call'[d].signalled = call[d].signalled /\ call'[d].bye = call[d].bye
             /\ call'[d].audio = call[d].audio
             /\ call'[d].final = IF d = current THEN status ELSE call[d].final
  BY DEF CallsOK, CSCalls, Calls
<1>3. QED  BY <1>1, <1>2 DEF CallsKept

\* What a goroutine must not be doing when it takes such a step.
MayStep(t) ==
    /\ th[t].pc \notin {"cleanup", "launch", "launchTimer"}
    /\ At(t, "end") => state = "idle" \/ th[t].expected \notin {0, current}

\* A goroutine that returns takes such a step.
LEMMA Returns ==
    ASSUME CallsInv, Kept, NEW t \in Threads, Return(t), MayLeave(t), MayStep(t),
           CallsKept(t, Back(t))
    PROVE  Steps(t, Back(t))
<1>1. Numbers(Back(t))
  BY BackFacts DEF CallsInv, ManagerOK, CallsOK, Numbers, Outgoing, Dialing, Bridging, Ringing
<1>2. QED  BY <1>1, BackFacts DEF Return, Steps, Kept, MayStep

\* So does one that is about to end the call.
LEMMA Ends ==
    ASSUME CallsInv, Kept, NEW t \in Threads, NEW n \in {0, current},
           NEW signal \in BOOLEAN, NEW ath \in BOOLEAN, End(t, n, signal, ath), MayStep(t),
           CallsKept(t, Ender(n, signal, ath))
    PROVE  Steps(t, Ender(n, signal, ath))
<1> DEFINE x == Ender(n, signal, ath)
<1>1. n \in Nat  BY DEF CallsInv, CallsOK
<1>2. /\ x \in Goroutines /\ x.pc = "end" /\ x.c = 0 /\ x.dialog = 0 /\ x.taken = 0
      /\ x.expected = n
  BY <1>1, EndingFacts
<1>3. Numbers(x)
  BY <1>2 DEF CallsInv, ManagerOK, CallsOK, Numbers, Outgoing, Dialing, Bridging, Ringing
<1>4. Place(t, x)
  BY <1>2 DEF Place, WorkflowPlaces, Outgoing, Dialing, Bridging, Ringing
<1>5. th' = [th EXCEPT ![t] = x]  BY DEF End, Ender
<1> HIDE DEF x
<1>6. QED  BY <1>2, <1>3, <1>4, <1>5 DEF Steps, Kept, MayStep, x

\* And a workflow that goes on.
LEMMA Goes ==
    ASSUME CallsInv, Kept, NEW t \in Threads, NEW x \in Goroutines, th' = [th EXCEPT ![t] = x],
           x.c = th[t].c, x.dialog = th[t].dialog, x.taken = th[t].taken,
           x.expected = th[t].expected, GoesOn(th[t].pc, x.pc), x.pc = "init" => state = "ringing",
           th[t].pc = "dial" => th[t].c # 0, CallsKept(t, x)
    PROVE  Steps(t, x)
<1> USE DEF CallsInv, GoesOn
<1>1. Numbers(th[t]) /\ Place(t, th[t])  BY DEF NumbersOK, ThreadsOK
<1>2. Numbers(x)  BY <1>1 DEF Numbers, Outgoing, Dialing, Bridging, Ringing
<1>3. Place(t, x)  BY <1>1 DEF Place, WorkflowPlaces, Outgoing, Dialing, Bridging, Ringing
<1>4. QED  BY <1>2, <1>3 DEF Steps, Kept, At

-----------------------------------------------------------------------------
(* The actions that are such steps                                         *)

\* The CSCall that a workflow has noted is one.
LEMMA OwnCall ==
    ASSUME CallsInv, NEW t \in Threads,
           th[t].pc \in Outgoing \cup Bridging \cup Ringing \cup {"answering"}
    PROVE  th[t].c \in Calls /\ call[th[t].c] \in CSCalls /\ call[th[t].c].outbound \in BOOLEAN
<1>1. Numbers(th[t])  BY DEF CallsInv, NumbersOK
<1>2. th[t].c \in Calls  BY <1>1 DEF CallsInv, CallsOK, Numbers, Calls
<1>3. call[th[t].c] \in CSCalls  BY <1>2 DEF CallsInv, CallsOK, Calls
<1>4. QED  BY <1>2, <1>3 DEF CSCalls

\* Once its call is bridged, or when it has none, a goroutine is not the one that a ring or a
\* call being dialled depends on.
LEMMA FreeToLeave ==
    ASSUME CallsInv, NEW t \in Threads,
           th[t].pc \in {"idle", "end", "wait", "ok", "answering"} \cup Bridging
    PROVE  MayLeave(t)
<1> USE DEF CallsInv
<1>1. CASE th[t].pc \in {"idle", "end", "wait"}
  <2>1. th[t].dialog = 0  BY <1>1 DEF NumbersOK, Numbers
  <2>2. QED  BY <2>1 DEF MayLeave, OnDialog, ManagerOK
<1>2. CASE th[t].pc \in {"ok", "answering"} \cup Bridging
  BY <1>2 DEF MayLeave, RingingPlaces, DialingPlaces, Dialing, Bridging, Ringing, At
<1>3. QED  BY <1>1, <1>2

\* A workflow that is inviting leaves when its call is no longer the one that rings.
LEMMA InviterLeaves ==
    ASSUME CallsInv, NEW t \in Threads, th[t].pc \in {"init"} \cup Ringing,
           \/ ~RingingFor(t)
           \/ th[t].pc \in Ringing /\ current # th[t].c
    PROVE  MayLeave(t)
<1> USE DEF CallsInv
<1>1. state = "dialing" /\ t \in Workflows => ~OnDialog(t)
  BY DEF DialingPlaces, Dialing, Ringing, At
<1>2. QED  BY <1>1 DEF MayLeave, RingingFor, OnDialog

\* One that dials leaves only a call that is no longer being dialled, or was refused.
LEMMA DialerLeaves ==
    ASSUME CallsInv, NEW t \in Threads, th[t].pc \in Dialing,
           ~(callActive(th[t].c) /\ call[th[t].c].final = 0 /\ OnDialog(t))
    PROVE  MayLeave(t)
<1> USE DEF CallsInv
<1>1. state = "ringing" /\ t \in Workflows => ~OnDialog(t)
  BY DEF RingingPlaces, Dialing, Ringing
<1>2. QED  BY <1>1 DEF MayLeave, DialingPlaces, Dialing, callActive, OnDialog, At

\* Nothing but the events or the modem changes.
LEMMA SameInv ==
    ASSUME CallsInv, Kept, UNCHANGED <<call, th>>
    PROVE  CallsInv'
<1> USE DEF Kept
<1>1. ManagerOK' /\ CallsOK' /\ ThreadsOK' /\ NumbersOK' /\ CallsApart'
  BY DEF CallsInv, ManagerOK, CallsOK, ThreadsOK, Place, NumbersOK, Numbers, CallsApart
<1>2. AnsweredIsOutbound' /\ CurrentIsUntouched' /\ BridgedIsConnected' /\ RingingIsSilent'
  BY DEF CallsInv, AnsweredIsOutbound, CurrentIsUntouched, BridgedIsConnected, RingingIsSilent,
         Calls, At
<1>3. StopEnds' /\ RingingPlaces' /\ DialingPlaces'
  BY DEF CallsInv, StopEnds, RingingPlaces, DialingPlaces, OnDialog, At
<1>4. RingingHasWorkflow' /\ RingingHasInviter' /\ DialingHasWorkflow'
  BY DEF CallsInv, RingingHasWorkflow, RingingHasInviter, DialingHasWorkflow, Ending, OnDialog, At
<1>5. RunningAudioHasOwner' /\ AnsweredGetsBye'
  BY DEF CallsInv, RunningAudioHasOwner, AnsweredGetsBye, WillStop, Calls, At
<1>6. QED  BY <1>1, <1>2, <1>3, <1>4, <1>5 DEF CallsInv

\* The monitor sees a hangup, or that it is to exit.
LEMMA MonitorSteps ==
    ASSUME CallsInv, At(Monitor, "idle"),
           \/ (\E e \in Events : HungUp(e))
           \/ MonitorExits
    PROVE  CallsInv'
<1> USE DEF CallsInv
<1>1. Monitor \in Threads /\ Monitor \notin Workflows  BY CallAssumption DEF Threads
<1>2. MayLeave(Monitor)  BY <1>1 DEF MayLeave
<1>3. Kept /\ UNCHANGED call  BY DEF HungUp, MonitorExits, manager, Kept
<1>4. MayStep(Monitor) /\ \A x : CallsKept(Monitor, x)
  BY <1>3, CallsSame DEF MayStep, At
<1>5. CASE UNCHANGED th  BY <1>3, <1>5, SameInv
<1>6. CASE End(Monitor, 0, TRUE, FALSE)
  BY <1>1, <1>3, <1>4, <1>6, Ends, StepInv
<1>7. CASE MonitorExits
  <2> DEFINE x == [th[Monitor] EXCEPT !.pc = "exited"]
  <2>1. /\ x \in Goroutines /\ x.pc = "exited" /\ x.c = th[Monitor].c
        /\ x.dialog = th[Monitor].dialog /\ x.taken = th[Monitor].taken
        /\ x.expected = th[Monitor].expected
    BY <1>1, GotoFacts DEF Places
  <2>2. th' = [th EXCEPT ![Monitor] = x]  BY <1>1, <1>7, Typed DEF MonitorExits, Goto
  <2> HIDE DEF x
  <2>3. Numbers(th[Monitor])  BY <1>1 DEF NumbersOK
  <2>4. Numbers(x)
    BY <2>1, <2>3 DEF Numbers, Outgoing, Dialing, Bridging, Ringing, At
  <2>5. Place(Monitor, x)
    BY <2>1 DEF Place, WorkflowPlaces, Outgoing, Dialing, Bridging, Ringing
  <2>6. Steps(Monitor, x)
    BY <1>1, <1>2, <1>3, <1>4, <2>1, <2>2, <2>4, <2>5 DEF Steps, Kept, At
  <2>7. QED  BY <2>6, StepInv
<1>8. QED  BY <1>5, <1>6, <1>7 DEF HungUp

\* Stop has waited and cleans up once more.
LEMMA StopSteps ==
    ASSUME CallsInv, StopWaits
    PROVE  CallsInv'
<1> USE DEF CallsInv
<1>1. Stopper \in Threads  BY DEF Threads
<1>2. Kept /\ UNCHANGED call  BY DEF StopWaits, manager, Kept
<1> DEFINE x == [th[Stopper] EXCEPT !.pc = "end", !.signal = TRUE, !.ath = TRUE, !.atStop = TRUE]
<1>3. /\ x \in Goroutines /\ x.pc = "end" /\ x.c = th[Stopper].c
      /\ x.dialog = th[Stopper].dialog /\ x.taken = th[Stopper].taken
      /\ x.expected = th[Stopper].expected
  BY <1>1, Typed DEF Goroutines, Places, WorkflowPlaces
<1>4. th' = [th EXCEPT ![Stopper] = x]  BY <1>1, Typed DEF StopWaits
<1> HIDE DEF x
<1>5. Numbers(th[Stopper])  BY <1>1 DEF NumbersOK
<1>6. Numbers(x) /\ x.expected = 0
  BY <1>3, <1>5 DEF StopWaits, Numbers, Outgoing, Dialing, Bridging, Ringing, At
<1>7. Place(Stopper, x)
  BY <1>3 DEF Place, WorkflowPlaces, Outgoing, Dialing, Bridging, Ringing
<1>8. CallsKept(Stopper, x)  BY <1>2, CallsSame DEF StopWaits, At
<1>9. Steps(Stopper, x)
  BY <1>1, <1>2, <1>3, <1>4, <1>6, <1>7, <1>8 DEF StopWaits, Steps, Kept, At
<1>10. QED  BY <1>9, StepInv

\* A client's BYE or CANCEL.
LEMMA ClientEndsSteps ==
    ASSUME CallsInv, NEW t \in Threads, ClientEnds(t)
    PROVE  CallsInv'
<1>1. Kept /\ UNCHANGED call  BY DEF ClientEnds, manager, Kept
<1>2. MayStep(t) /\ \A x : CallsKept(t, x)
  BY <1>1, CallsSame DEF CallsInv, ClientEnds, MayStep, At
<1>3. QED  BY <1>1, <1>2, Ends, StepInv DEF ClientEnds

\* A timer that has run out.
LEMMA TimerSteps ==
    ASSUME CallsInv, NEW t \in Threads, Timer(t)
    PROVE  CallsInv'
<1> USE DEF CallsInv
<1>1. Kept /\ UNCHANGED call  BY DEF Timer, manager, Kept
<1>2. MayStep(t) /\ \A x : CallsKept(t, x)  BY <1>1, CallsSame DEF Timer, MayStep, At
<1>3. CASE RingingFor(t) /\ ~known /\ Goto(t, "init")
  <2>1. [th[t] EXCEPT !.pc = "init"] \in Goroutines
    BY GotoFacts DEF Places, WorkflowPlaces
  <2>2. th' = [th EXCEPT ![t] = [th[t] EXCEPT !.pc = "init"]]  BY <1>3, Typed DEF Goto
  <2>3. Steps(t, [th[t] EXCEPT !.pc = "init"])
    BY <1>1, <1>2, <1>3, <2>1, <2>2, Goes, GotoFacts
    DEF Timer, At, GoesOn, RingingFor, Places, WorkflowPlaces
  <2>4. QED  BY <2>3, StepInv
<1>4. CASE ~(RingingFor(t) /\ ~known) /\ Return(t)
  <2>1. MayLeave(t)  BY <1>4 DEF MayLeave, RingingFor, OnDialog, Timer
  <2>2. QED  BY <1>1, <1>2, <1>4, <2>1, Returns, StepInv
<1>5. QED  BY <1>3, <1>4 DEF Timer

\* No client comes, or there is no bridge, or the call has gone.
LEMMA NoClientSteps ==
    ASSUME CallsInv, NEW t \in Threads, At(t, "init"), Kept, UNCHANGED call,
           \/ RingingFor(t) /\ End(t, 0, FALSE, TRUE)
           \/ ~RingingFor(t) /\ Return(t)
    PROVE  CallsInv'
<1>1. MayStep(t) /\ \A x : CallsKept(t, x)  BY CallsSame DEF CallsInv, MayStep, At
<1>2. CASE End(t, 0, FALSE, TRUE)  BY <1>1, <1>2, Ends, StepInv
<1>3. CASE ~RingingFor(t) /\ Return(t)
  <2>1. MayLeave(t)  BY <1>3, InviterLeaves DEF At
  <2>2. QED  BY <1>1, <1>3, <2>1, Returns, StepInv
<1>4. QED  BY <1>2, <1>3

\* The INVITE fails or goes out.
LEMMA InviteSteps ==
    ASSUME CallsInv, NEW t \in Threads, Invite(t)
    PROVE  CallsInv'
<1>1. Kept /\ MayStep(t)  BY DEF Invite, manager, Kept, MayStep, At
<1>2. th[t].c \in Calls  BY OwnCall DEF Invite, At, Ringing
<1>3. CASE /\ call' = [call EXCEPT ![th[t].c] = [@ EXCEPT !.audio = "stopped"]]
           /\ End(t, 0, FALSE, TRUE)
  <2>1. \A x : CallsKept(t, x)  BY <1>2, <1>3, AudioSet DEF CallsInv
  <2>2. QED  BY <1>1, <1>3, <2>1, Ends, StepInv
<1>4. CASE Goto(t, "response") /\ UNCHANGED call
  <2>1. \A x : CallsKept(t, x)  BY <1>4, CallsSame DEF CallsInv, Invite, At
  <2>2. "response" \in Places  BY DEF Places, WorkflowPlaces, Ringing
  <2>3. th' = [th EXCEPT ![t] = [th[t] EXCEPT !.pc = "response"]]
    BY <1>4, Typed DEF CallsInv, Goto
  <2>4. Steps(t, [th[t] EXCEPT !.pc = "response"])
    BY <1>1, <2>1, <2>2, <2>3, Goes, GotoFacts DEF CallsInv, Invite, At, GoesOn
  <2>5. QED  BY <2>4, StepInv
<1>5. CASE Return(t) /\ UNCHANGED call /\ ~(RingingFor(t) /\ current = th[t].c)
  <2>1. \A x : CallsKept(t, x)  BY <1>5, CallsSame DEF CallsInv, Invite, At
  <2>2. MayLeave(t)  BY <1>5, InviterLeaves DEF Invite, At, Ringing
  <2>3. QED  BY <1>1, <1>5, <2>1, <2>2, Returns, StepInv
<1>6. QED  BY <1>3, <1>4, <1>5 DEF Invite

\* The client refuses, its transaction ends, or it answers too late.
LEMMA RefusedSteps ==
    ASSUME CallsInv, NEW t \in Threads, At(t, "response"), Kept, UNCHANGED call,
           \/ End(t, 0, FALSE, TRUE) \/ End(t, 0, TRUE, TRUE)
           \/ ~(RingingFor(t) /\ current = th[t].c) /\ Return(t)
    PROVE  CallsInv'
<1>1. MayStep(t) /\ \A x : CallsKept(t, x)  BY CallsSame DEF CallsInv, MayStep, At
<1>2. CASE End(t, 0, FALSE, TRUE) \/ End(t, 0, TRUE, TRUE)  BY <1>1, <1>2, Ends, StepInv
<1>3. CASE ~(RingingFor(t) /\ current = th[t].c) /\ Return(t)
  <2>1. MayLeave(t)  BY <1>3, InviterLeaves DEF At, Ringing
  <2>2. QED  BY <1>1, <1>3, <2>1, Returns, StepInv
<1>4. QED  BY <1>2, <1>3

\* The call or the manager ends while the workflow waits for the response.
LEMMA CancelledSteps ==
    ASSUME CallsInv, NEW t \in Threads, ResponseCancelled(t)
    PROVE  CallsInv'
<1>1. Kept /\ MayStep(t) /\ UNCHANGED call
  BY DEF ResponseCancelled, manager, Kept, MayStep, At
<1>2. \A x : CallsKept(t, x)  BY <1>1, CallsSame DEF CallsInv, ResponseCancelled, At
<1>3. ~RingingFor(t) \/ current # th[t].c
  <2>1. th[t].c \in Calls  BY OwnCall DEF ResponseCancelled, At, Ringing
  <2>2. QED
    BY <2>1 DEF CallsInv, CurrentIsUntouched, ResponseCancelled, RingingFor, Calls
<1>4. MayLeave(t)  BY <1>3, InviterLeaves DEF ResponseCancelled, At, Ringing
<1>5. QED  BY <1>1, <1>2, <1>4, Returns, StepInv DEF ResponseCancelled

\* The bridge starts, or does not.
LEMMA AudioStartSteps ==
    ASSUME CallsInv, NEW t \in Threads, AudioStart(t)
    PROVE  CallsInv'
<1> DEFINE c == th[t].c
<1>1. Kept /\ At(t, "audio")  BY DEF AudioStart, manager, Kept
<1>2. c \in Calls /\ call[c] \in CSCalls  BY <1>1, OwnCall DEF At, Bridging
<1>3. PICK x : /\ x \in {[th[t] EXCEPT !.pc = "recheck"],
                         [th[t] EXCEPT !.pc = "recheck", !.failed = TRUE]}
               /\ th' = [th EXCEPT ![t] = x]
  BY Typed DEF CallsInv, AudioStart, Goto
<1>4. /\ x \in Goroutines /\ x.pc = "recheck" /\ x.c = c /\ x.dialog = th[t].dialog
      /\ x.taken = th[t].taken /\ x.expected = th[t].expected
  BY <1>3, Typed DEF CallsInv, Goroutines, Places, WorkflowPlaces, Bridging
<1>5. CASE UNCHANGED call
  <2>1. CallsKept(t, x)  BY <1>1, <1>5, CallsSame DEF CallsInv, At
  <2>2. QED  BY <1>1, <1>3, <1>4, <2>1, Goes, StepInv DEF At, GoesOn
<1>6. CASE call' = [call EXCEPT ![c] = [@ EXCEPT !.audio = "running"]]
  <2>1. call' \in Seq(CSCalls) /\ Len(call') = Len(call)
    <3>1. [call[c] EXCEPT !.audio = "running"] \in CSCalls  BY <1>2 DEF CSCalls
    <3>2. QED  BY <1>2, <1>6, <3>1 DEF CallsInv, CallsOK, Calls
  <2>2. ASSUME NEW d \in Calls
        PROVE  /\ call'[d].outbound = call[d].outbound /\ call'[d].cancelled = call[d].cancelled
               /\ call'[d].signalled = call[d].signalled /\ call'[d].bye = call[d].bye
               /\ call'[d].final = call[d].final
               /\ d # c => call'[d].audio = call[d].audio
    BY <1>6 DEF CallsInv, CallsOK, CSCalls, Calls
  <2>3. CallsKept(t, x)  BY <1>1, <1>4, <2>1, <2>2 DEF CallsKept, At
  <2>4. QED  BY <1>1, <1>3, <1>4, <2>3, Goes, StepInv DEF At, GoesOn
<1>7. QED  BY <1>5, <1>6 DEF AudioStart

\* The look at the call after its bridge was started.
LEMMA AudioRecheckSteps ==
    ASSUME CallsInv, ModemOK, NEW t \in Threads, AudioRecheck(t)
    PROVE  CallsInv'
<1> DEFINE c == th[t].c
<1>1. Kept /\ At(t, "recheck") /\ MayStep(t)  BY DEF AudioRecheck, manager, Kept, MayStep, At
<1>2. c \in Calls /\ call[c] \in CSCalls /\ MayLeave(t)
  BY <1>1, OwnCall, FreeToLeave DEF At, Bridging
<1>3. CASE call' = [call EXCEPT ![c] = [@ EXCEPT !.audio = "stopped"]] /\ Return(t)
  <2>1. \A x : CallsKept(t, x)  BY <1>2, <1>3, AudioSet DEF CallsInv
  <2>2. QED  BY <1>1, <1>2, <1>3, <2>1, Returns, StepInv
<1>4. CASE callActive(c) /\ UNCHANGED call
  <2>1. \A x : CallsKept(t, x)
    BY <1>2, <1>4 DEF CallsInv, CallsOK, CallsKept, callActive
  <2>2. CASE End(t, IF call[c].outbound THEN c ELSE 0, TRUE, TRUE)
    <3>1. (IF call[c].outbound THEN c ELSE 0) \in {0, current}  BY <1>4 DEF callActive
    <3>2. QED  BY <1>1, <2>1, <2>2, <3>1, Ends, StepInv
  <2>3. CASE Return(t)  BY <1>1, <1>2, <2>1, <2>3, Returns, StepInv
  <2>4. CASE th' = [th EXCEPT ![t] = [@ EXCEPT !.pc = "answering", !.ctl = ctl]]
    <3> DEFINE x == [th[t] EXCEPT !.pc = "answering", !.ctl = ctl]
    <3>1. th' = [th EXCEPT ![t] = x]  BY <2>4, Typed DEF CallsInv
    <3>2. ctl \in Nat  BY DEF ModemOK
    <3>3. /\ x \in Goroutines /\ x.pc = "answering" /\ x.c = c /\ x.dialog = th[t].dialog
          /\ x.taken = th[t].taken /\ x.expected = th[t].expected
      BY <3>2, Typed DEF CallsInv, Goroutines, Places, WorkflowPlaces
    <3> HIDE DEF x
    <3>4. QED  BY <1>1, <2>1, <3>1, <3>3, Goes, StepInv DEF At, GoesOn
  <2>5. QED  BY <1>4, <2>2, <2>3, <2>4 DEF AudioRecheck
<1>5. QED  BY <1>3, <1>4 DEF AudioRecheck

\* The modem has answered, or the call ended while it did.
LEMMA AnswerSteps ==
    ASSUME CallsInv, NEW t \in Threads, Answer(t)
    PROVE  CallsInv'
<1>1. Kept /\ At(t, "answering") /\ MayStep(t)  BY DEF Answer, manager, Kept, MayStep, At
<1>2. th[t].c \in Calls /\ MayLeave(t)  BY <1>1, OwnCall, FreeToLeave DEF At
<1>3. CASE UNCHANGED call /\ (Return(t) \/ End(t, 0, TRUE, TRUE))
  <2>1. \A x : CallsKept(t, x)  BY <1>1, <1>3, CallsSame DEF CallsInv, At
  <2>2. QED  BY <1>1, <1>2, <1>3, <2>1, Returns, Ends, StepInv
<1>4. CASE call' = [call EXCEPT ![th[t].c] = [@ EXCEPT !.audio = "stopped"]] /\ Return(t)
  <2>1. \A x : CallsKept(t, x)  BY <1>1, <1>2, <1>4, AudioSet DEF CallsInv, At
  <2>2. QED  BY <1>1, <1>2, <1>4, <2>1, Returns, StepInv
<1>5. QED  BY <1>3, <1>4 DEF Answer

\* A workflow that dials refuses the client's INVITE, or finds its call gone.
LEMMA RefuseSteps ==
    ASSUME CallsInv, NEW t \in Threads, th[t].pc \in {"dial", "poll"}, Kept,
           Refuse(t, 500, FALSE) \/ Refuse(t, 503, FALSE) \/ Refuse(t, 408, TRUE)
    PROVE  CallsInv'
<1> DEFINE Responds(status) ==
             \/ /\ callActive(th[t].c)
                /\ End(t, th[t].c, FALSE, FALSE) \/ End(t, th[t].c, FALSE, TRUE)
                /\ call' = [call EXCEPT ![th[t].c] = [@ EXCEPT !.final = status]]
             \/ ~(callActive(th[t].c) /\ call[th[t].c].final = 0) /\ Return(t) /\ UNCHANGED call
<1>0. PICK status \in Finals \ {200} : Responds(status)
  <2>1. 500 \in Finals \ {200} /\ 503 \in Finals \ {200} /\ 408 \in Finals \ {200}
    BY DEF Finals
  <2>2. Refuse(t, 500, FALSE) => Responds(500)  BY DEF Refuse
  <2>3. Refuse(t, 503, FALSE) => Responds(503)  BY DEF Refuse
  <2>4. Refuse(t, 408, TRUE) => Responds(408)  BY DEF Refuse
  <2> HIDE DEF Responds
  <2>5. Responds(500) \/ Responds(503) \/ Responds(408)  BY <2>2, <2>3, <2>4
  <2>6. QED  BY <2>1, <2>5
<1>1. MayStep(t) /\ th[t].pc # "recheck"  BY DEF MayStep, At
<1>2. th[t].c \in Calls /\ th[t].c # 0  BY OwnCall DEF Outgoing, Dialing, Calls
<1>3. ASSUME NEW ath \in BOOLEAN, callActive(th[t].c), End(t, th[t].c, FALSE, ath),
             call' = [call EXCEPT ![th[t].c] = [@ EXCEPT !.final = status]]
      PROVE  CallsInv'
  <2>1. th[t].c = current  BY <1>3 DEF callActive
  <2>2. Ender(th[t].c, FALSE, ath).pc = "end"  BY Typed, EndingFacts DEF CallsInv
  <2>3. CallsKept(t, Ender(th[t].c, FALSE, ath))
    BY <1>1, <1>2, <1>3, <2>1, <2>2, FinalSet DEF CallsInv
  <2>4. QED  BY <1>1, <1>3, <2>1, <2>3, Ends, StepInv
<1>4. CASE ~(callActive(th[t].c) /\ call[th[t].c].final = 0) /\ Return(t) /\ UNCHANGED call
  <2>1. \A x : CallsKept(t, x)  BY <1>1, <1>4, CallsSame DEF CallsInv
  <2>2. MayLeave(t)  BY <1>4, DialerLeaves DEF Dialing
  <2>3. QED  BY <1>1, <1>4, <2>1, <2>2, Returns, StepInv
<1>5. QED  BY <1>0, <1>3, <1>4

\* The modem dials.
LEMMA DialSteps ==
    ASSUME CallsInv, ModemOK, NEW t \in Threads, Dial(t)
    PROVE  CallsInv'
<1>1. Kept /\ At(t, "dial")  BY DEF Dial, manager, Kept
<1>2. th[t].c \in Calls /\ th[t].c # 0  BY <1>1, OwnCall DEF At, Outgoing, Dialing, Calls
<1>3. CASE Refuse(t, 500, FALSE) \/ Refuse(t, 503, FALSE)
  BY <1>1, <1>3, RefuseSteps DEF At
<1>4. CASE /\ th' = [th EXCEPT ![t] = [@ EXCEPT !.pc = "dialled", !.ctl = modem.id + 1]]
           /\ call' = [call EXCEPT ![th[t].c] = [@ EXCEPT !.audio = "open"]]
  <2> DEFINE x == [th[t] EXCEPT !.pc = "dialled", !.ctl = modem.id + 1]
  <2>1. th' = [th EXCEPT ![t] = x]  BY <1>4, Typed DEF CallsInv
  <2>2. modem.id + 1 \in Nat  BY DEF ModemOK
  <2>3. /\ x \in Goroutines /\ x.pc = "dialled" /\ x.c = th[t].c /\ x.dialog = th[t].dialog
        /\ x.taken = th[t].taken /\ x.expected = th[t].expected
    BY <2>2, Typed DEF CallsInv, Goroutines, Places, WorkflowPlaces, Outgoing, Dialing
  <2> HIDE DEF x
  <2>4. CallsKept(t, x)  BY <1>1, <1>2, <1>4, AudioSet DEF CallsInv, At
  <2>5. QED  BY <1>1, <1>2, <2>1, <2>3, <2>4, Goes, StepInv DEF At, GoesOn
<1>5. QED  BY <1>3, <1>4 DEF Dial

\* The modem has dialled.
LEMMA DialledSteps ==
    ASSUME CallsInv, NEW t \in Threads, Dialled(t)
    PROVE  CallsInv'
<1>1. Kept /\ At(t, "dialled") /\ MayStep(t)  BY DEF Dialled, manager, Kept, MayStep, At
<1>2. th[t].c \in Calls /\ call[th[t].c] \in CSCalls  BY <1>1, OwnCall DEF At, Outgoing, Dialing
<1>3. CASE callActive(th[t].c) /\ dialog = th[t].dialog /\ Goto(t, "poll") /\ UNCHANGED call
  <2>1. \A x : CallsKept(t, x)  BY <1>1, <1>3, CallsSame DEF CallsInv, At
  <2>2. "poll" \in Places  BY DEF Places, WorkflowPlaces, Outgoing, Dialing
  <2>3. th' = [th EXCEPT ![t] = [th[t] EXCEPT !.pc = "poll"]]  BY <1>3, Typed DEF CallsInv, Goto
  <2>4. Steps(t, [th[t] EXCEPT !.pc = "poll"])
    BY <1>1, <2>1, <2>2, <2>3, Goes, GotoFacts DEF CallsInv, At, GoesOn
  <2>5. QED  BY <2>4, StepInv
<1>4. CASE /\ ~(callActive(th[t].c) /\ dialog = th[t].dialog) /\ Return(t)
           /\ call' = [call EXCEPT ![th[t].c] =
                         [@ EXCEPT !.audio = Stopping(call[th[t].c].audio)]]
  <2>1. Stopping(call[th[t].c].audio) \in {"none", "stopped"}  BY DEF Stopping
  <2>3. \A x : CallsKept(t, x)  BY <1>1, <1>2, <1>4, <2>1, AudioSet DEF CallsInv, At
  <2>4. MayLeave(t)  BY <1>1, <1>4, DialerLeaves DEF At, Dialing, OnDialog
  <2>5. QED  BY <1>1, <1>4, <2>3, <2>4, Returns, StepInv
<1>5. QED  BY <1>3, <1>4 DEF Dialled

\* The call is gone when it is polled, or has been too long about it.
LEMMA PollSteps ==
    ASSUME CallsInv, NEW t \in Threads, At(t, "poll"), Kept,
           \/ ~callActive(th[t].c) /\ Return(t) /\ UNCHANGED call
           \/ Refuse(t, 408, TRUE)
    PROVE  CallsInv'
<1>1. MayStep(t)  BY DEF MayStep, At
<1>2. CASE Refuse(t, 408, TRUE)
  BY <1>2, RefuseSteps DEF At
<1>3. CASE ~callActive(th[t].c) /\ Return(t) /\ UNCHANGED call
  <2>1. \A x : CallsKept(t, x)  BY <1>3, CallsSame DEF CallsInv, At
  <2>2. MayLeave(t)  BY <1>3, DialerLeaves DEF At, Dialing
  <2>3. QED  BY <1>1, <1>3, <2>1, <2>2, Returns, StepInv
<1>4. QED  BY <1>2, <1>3

\* 200 goes out, or the call has ended.
LEMMA RespondOKSteps ==
    ASSUME CallsInv, NEW t \in Threads, RespondOK(t)
    PROVE  CallsInv'
<1>1. Kept /\ At(t, "ok") /\ MayStep(t)  BY DEF RespondOK, manager, Kept, MayStep, At
<1>2. th[t].c \in Calls /\ th[t].c # 0  BY <1>1, OwnCall DEF At, Outgoing, Calls
<1>3. MayLeave(t)  BY <1>1, FreeToLeave DEF At
<1>4. CASE /\ callActive(th[t].c) /\ Goto(t, "audio")
           /\ call' = [call EXCEPT ![th[t].c] = [@ EXCEPT !.final = 200]]
  <2> DEFINE x == [th[t] EXCEPT !.pc = "audio"]
  <2>1. "audio" \in Places  BY DEF Places, WorkflowPlaces, Bridging
  <2>2. th' = [th EXCEPT ![t] = x]  BY <1>4, Typed DEF CallsInv, Goto
  <2>3. th[t].c = current /\ call[current].outbound
    BY <1>1, <1>4 DEF callActive, CallsInv, NumbersOK, Numbers, Outgoing, At
  <2>4. CallsKept(t, x)
    <3>1. 200 \in Finals /\ current # 0  BY <1>2, <2>3 DEF Finals
    <3> HIDE DEF x
    <3>2. QED  BY <1>1, <1>4, <2>3, <3>1, FinalSet DEF CallsInv, At
  <2>5. Steps(t, x)
    BY <1>1, <2>1, <2>2, <2>4, Goes, GotoFacts DEF CallsInv, At, GoesOn
  <2>6. QED  BY <2>5, StepInv
<1>5. CASE Return(t) /\ UNCHANGED call
  <2>1. \A x : CallsKept(t, x)  BY <1>1, <1>5, CallsSame DEF CallsInv, At
  <2>2. QED  BY <1>1, <1>3, <1>5, <2>1, Returns, StepInv
<1>6. QED  BY <1>4, <1>5 DEF RespondOK

\* There is nothing to end any more.
LEMMA NothingTakenSteps ==
    ASSUME CallsInv, NEW t \in Threads, At(t, "end"), Kept, UNCHANGED call, Return(t),
           \/ th[t].expected # 0 /\ current # th[t].expected
           \/ state = "idle"
    PROVE  CallsInv'
<1>1. MayStep(t)  BY DEF MayStep, At
<1>2. MayLeave(t)  BY FreeToLeave DEF At
<1>3. CallsKept(t, Back(t))  BY CallsSame DEF CallsInv, At
<1>4. QED  BY <1>1, <1>2, <1>3, Returns, StepInv

-----------------------------------------------------------------------------
(* The steps that change the manager                                       *)

\* The call is answered, on the modem's side or on the client's.
LEMMA ConnectedSteps ==
    ASSUME CallsInv, state # "idle", state' = "connected",
           UNCHANGED <<stopped, known, dialog, dialogs, current, call>>,
           \/ UNCHANGED th
           \/ \E t \in Threads : \/ At(t, "poll") /\ Goto(t, "ok")
                                 \/ At(t, "response") /\ Goto(t, "audio")
    PROVE  CallsInv'
<1> USE DEF CallsInv
<1> DEFINE Ahead(s) == /\ \/ th[s].pc = "poll" /\ th'[s].pc = "ok"
                          \/ th[s].pc = "response" /\ th'[s].pc = "audio"
                       /\ th'[s].c = th[s].c /\ th'[s].dialog = th[s].dialog
                       /\ th'[s].taken = th[s].taken /\ th'[s].expected = th[s].expected
<1>0. Stopper \in Threads /\ Workflows \subseteq Threads /\ Calls' = Calls
  BY DEF Threads, Calls
<1>1. th' \in [Threads -> Goroutines] /\ \A s \in Threads : th'[s] = th[s] \/ Ahead(s)
  <2>1. CASE UNCHANGED th  BY <2>1 DEF ThreadsOK
  <2>2. ASSUME NEW t \in Threads, NEW pc \in {"ok", "audio"}, Goto(t, pc),
               \/ At(t, "poll") /\ pc = "ok"
               \/ At(t, "response") /\ pc = "audio"
        PROVE  th' \in [Threads -> Goroutines] /\ \A s \in Threads : th'[s] = th[s] \/ Ahead(s)
    <3> DEFINE x == [th[t] EXCEPT !.pc = pc]
    <3>1. pc \in Places  BY DEF Places, WorkflowPlaces, Outgoing, Bridging
    <3>2. /\ x \in Goroutines /\ x.pc = pc /\ x.c = th[t].c /\ x.dialog = th[t].dialog
          /\ x.taken = th[t].taken /\ x.expected = th[t].expected
      BY <3>1, GotoFacts
    <3>3. th' = [th EXCEPT ![t] = x]  BY <2>2, Typed DEF Goto
    <3> HIDE DEF x
    <3>4. th' \in [Threads -> Goroutines]  BY <3>2, <3>3 DEF ThreadsOK
    <3>5. th'[t] = x /\ \A s \in Threads : s # t => th'[s] = th[s]  BY <3>3 DEF ThreadsOK
    <3>6. Ahead(t)  BY <2>2, <3>2, <3>5 DEF At
    <3> HIDE DEF Ahead
    <3>7. QED  BY <3>4, <3>5, <3>6
  <2>3. QED  BY <2>1, <2>2
<1>2. ManagerOK' /\ CallsOK'  BY DEF ManagerOK, CallsOK
<1>3. ThreadsOK'
  <2>1. ASSUME NEW s \in Threads PROVE Place(s, th'[s])
    <3>1. Place(s, th[s])  BY DEF ThreadsOK
    <3>2. QED
      BY <1>1, <3>1 DEF Place, WorkflowPlaces, Outgoing, Dialing, Bridging, Ringing
  <2>2. QED  BY <1>1, <2>1 DEF ThreadsOK, Place
<1>4. NumbersOK'
  <2>1. ASSUME NEW s \in Threads PROVE Numbers(th'[s])
    <3>1. Numbers(th[s])  BY DEF NumbersOK
    <3>2. QED  BY <1>1, <3>1 DEF Numbers, Outgoing, Dialing, Bridging, Ringing
  <2>2. QED  BY <2>1 DEF NumbersOK, Numbers
<1>5. CallsApart' /\ AnsweredIsOutbound'  BY <1>0, <1>1 DEF CallsApart, AnsweredIsOutbound
<1>6. CurrentIsUntouched'  BY <1>1 DEF CurrentIsUntouched, At
<1>7. BridgedIsConnected' /\ RingingIsSilent'  BY DEF BridgedIsConnected, RingingIsSilent
<1>8. StopEnds'  BY <1>0, <1>1 DEF StopEnds, At
<1>9. /\ RingingPlaces' /\ DialingPlaces'
      /\ RingingHasWorkflow' /\ RingingHasInviter' /\ DialingHasWorkflow'
  BY DEF RingingPlaces, DialingPlaces, RingingHasWorkflow, RingingHasInviter, DialingHasWorkflow
<1>10. RunningAudioHasOwner'
  BY <1>0, <1>1 DEF RunningAudioHasOwner, WillStop, At
<1>11. AnsweredGetsBye'  BY <1>0, <1>1 DEF AnsweredGetsBye, At
<1>12. QED
  BY <1>2, <1>3, <1>4, <1>5, <1>6, <1>7, <1>8, <1>9, <1>10, <1>11

\* The monitor and the workflows when the monitor goes from one of its places to another, whether
\* or not it launches an idle workflow.
MonitorTurn(x) ==
    /\ x.pc \in {"idle", "launch", "launchTimer"} /\ x.c = 0 /\ x.taken = 0 /\ x.expected = 0
    /\ x.dialog \in 0 .. dialogs' /\ x.pc = "idle" => x.dialog = 0
    /\ x \in Goroutines /\ th[Monitor].pc \in {"idle", "launch", "launchTimer"}

\* What such a step does to the rest.
LEMMA MonitorFacts ==
    ASSUME ThreadsOK, NEW x, MonitorTurn(x), th' = [th EXCEPT ![Monitor] = x]
    PROVE  /\ Monitor \in Threads /\ Monitor # Stopper /\ Monitor \notin Workflows
           /\ Workflows \subseteq Threads /\ Stopper \in Threads
           /\ th' \in [Threads -> Goroutines] /\ th'[Monitor] = x
           /\ \A s \in Threads : s # Monitor => th'[s] = th[s]
BY CallAssumption DEF MonitorTurn, ThreadsOK, Threads

\* A ring starts a call.
LEMMA RingSteps ==
    ASSUME CallsInv, ~stopped, state = "idle", dialogs < MaxDialogs, At(Monitor, "idle"),
           state' = "ringing", known' \in BOOLEAN, dialogs' = dialogs + 1, dialog' = dialogs',
           UNCHANGED <<stopped, current, call>>,
           ToLaunch(IF known' THEN "launch" ELSE "launchTimer", dialog')
    PROVE  CallsInv'
<1> USE DEF CallsInv
<1> DEFINE x == Starting(IF known' THEN "launch" ELSE "launchTimer", 0, dialog')
<1>0. MaxDialogs \in Nat /\ dialogs \in Nat /\ dialogs' \in Nat
  <2>1. MaxDialogs \in {MaxDialogs, MaxCalls, MaxModemCalls, QueueLength}  OBVIOUS
  <2>2. MaxDialogs \in Nat  BY <2>1, CallAssumption
  <2>3. QED  BY <2>2 DEF ManagerOK
<1>1. /\ x \in Goroutines /\ x.pc = (IF known' THEN "launch" ELSE "launchTimer")
      /\ x.c = 0 /\ x.dialog = dialogs' /\ x.taken = 0 /\ x.expected = 0
  <2>1. {"launch", "launchTimer"} \subseteq Places  BY DEF Places
  <2>2. QED  BY <1>0, <2>1, StartingFacts
<1>2. th' = [th EXCEPT ![Monitor] = x]  BY DEF ToLaunch
<1> HIDE DEF x
<1>3. MonitorTurn(x)  BY <1>0, <1>1 DEF MonitorTurn, At
<1> USE <1>2, <1>3, MonitorFacts
<1>4. current = 0 /\ Calls' = Calls  BY DEF CallsOK, Calls
<1>5. ManagerOK'  BY <1>0 DEF ManagerOK
<1>6. CallsOK'  BY <1>4 DEF CallsOK
<1>7. ThreadsOK'
  <2>1. ASSUME NEW s \in Threads PROVE Place(s, th'[s])
    BY <1>1 DEF ThreadsOK, Place, WorkflowPlaces, Outgoing, Dialing, Bridging, Ringing
  <2>2. QED  BY <2>1 DEF ThreadsOK, Place
<1>8. NumbersOK'
  <2>1. ASSUME NEW s \in Threads PROVE Numbers(th[s])  BY DEF NumbersOK
  <2>2. ASSUME NEW s \in Threads, s # Monitor PROVE Numbers(th[s])'
    BY <1>0, <2>1, <2>2 DEF Numbers
  <2>3. Numbers(th[Monitor])'
    <3>0. Len(call) \in Nat  BY DEF CallsOK
    <3>1. Len(call') \in Nat /\ th'[Monitor] = x  BY <3>0
    <3>2. x.dialog \in 0 .. dialogs' /\ x.pc \in {"launch", "launchTimer"}  BY <1>0, <1>1
    <3>3. QED  BY <1>1, <3>1, <3>2 DEF Numbers, Outgoing, Dialing, Bridging, Ringing
  <2>4. QED  BY <2>2, <2>3 DEF NumbersOK
<1>9. \A w \in Workflows : ~OnDialog(w)'
  <2>1. ASSUME NEW w \in Workflows PROVE th'[w].dialog # dialog'
    <3>1. th'[w] = th[w] /\ w \in Threads  OBVIOUS
    <3>2. th[w].dialog \in 0 .. dialogs  BY <3>1 DEF NumbersOK, Numbers
    <3>3. QED  BY <1>0, <3>1, <3>2
  <2>2. QED  BY <2>1 DEF OnDialog
<1>10. CallsApart' /\ AnsweredIsOutbound'
  BY <1>1, <1>4 DEF CallsApart, AnsweredIsOutbound
<1>11. CurrentIsUntouched' /\ BridgedIsConnected' /\ RingingIsSilent' /\ StopEnds'
  BY <1>1, <1>4 DEF CurrentIsUntouched, BridgedIsConnected, RingingIsSilent, StopEnds, At
<1>12. RingingPlaces' /\ DialingPlaces' /\ RingingHasInviter' /\ DialingHasWorkflow'
  BY <1>4, <1>9 DEF RingingPlaces, DialingPlaces, RingingHasInviter, DialingHasWorkflow
<1>13. RingingHasWorkflow'  BY <1>1 DEF RingingHasWorkflow, OnDialog, At
<1>14. RunningAudioHasOwner' /\ AnsweredGetsBye'
  BY <1>4 DEF RunningAudioHasOwner, AnsweredGetsBye, WillStop, At
<1>15. QED
  BY <1>5, <1>6, <1>7, <1>8, <1>10, <1>11, <1>12, <1>13, <1>14

\* A ring that brings the number, or changes nothing.
LEMMA RingAgainSteps ==
    ASSUME CallsInv, At(Monitor, "idle"),
           UNCHANGED <<state, stopped, dialog, dialogs, current, call>>,
           \/ /\ state = "ringing" /\ known' = TRUE
              /\ ToLaunch("launch", dialog)
           \/ /\ UNCHANGED known
              /\ ToLaunch("idle", 0) \/ ToLaunch("launchTimer", 0)
    PROVE  CallsInv'
<1> USE DEF CallsInv
<1>1. PICK x : /\ x \in {Starting("launch", 0, dialog), Starting("idle", 0, 0),
                         Starting("launchTimer", 0, 0)}
               /\ th' = [th EXCEPT ![Monitor] = x]
               /\ \/ state = "ringing" /\ known' = TRUE /\ x = Starting("launch", 0, dialog)
                  \/ UNCHANGED known /\ x # Starting("launch", 0, dialog)
  <2>1. {"launch", "launchTimer", "idle"} \subseteq Places /\ dialog \in Nat
    BY DEF Places, WorkflowPlaces, ManagerOK
  <2>2. /\ Starting("launch", 0, dialog).pc = "launch" /\ Starting("idle", 0, 0).pc = "idle"
        /\ Starting("launchTimer", 0, 0).pc = "launchTimer"
    BY <2>1, StartingFacts
  <2>3. QED  BY <2>2 DEF ToLaunch
<1>2. /\ x \in Goroutines /\ x.c = 0 /\ x.taken = 0 /\ x.expected = 0
      /\ \/ x.pc = "launch" /\ x.dialog = dialog
         \/ x.pc \in {"idle", "launchTimer"} /\ x.dialog = 0
  <2>1. {"launch", "launchTimer", "idle"} \subseteq Places /\ dialog \in Nat
    BY DEF Places, WorkflowPlaces, ManagerOK
  <2>2. QED  BY <1>1, <2>1, StartingFacts
<1>3. x.pc = "launch" => state = "ringing" /\ known' = TRUE
  <2>1. {"launchTimer", "idle"} \subseteq Places  BY DEF Places, WorkflowPlaces
  <2>2. Starting("idle", 0, 0).pc = "idle" /\ Starting("launchTimer", 0, 0).pc = "launchTimer"
    BY <2>1, StartingFacts
  <2>3. QED  BY <1>1, <2>2
<1>4. x.pc # "launch" => UNCHANGED known
  <2>1. "launch" \in Places /\ dialog \in Nat  BY DEF Places, ManagerOK
  <2>2. Starting("launch", 0, dialog).pc = "launch"  BY <2>1, StartingFacts
  <2>3. QED  BY <1>1, <2>2
<1>5. MonitorTurn(x) /\ th' = [th EXCEPT ![Monitor] = x]
  BY <1>1, <1>2 DEF MonitorTurn, At, ManagerOK
<1> USE <1>5, MonitorFacts
<1>6. Calls' = Calls  BY DEF Calls
<1>7. ManagerOK' /\ CallsOK'  BY <1>3, <1>4 DEF ManagerOK, CallsOK
<1>8. ThreadsOK'
  <2>1. ASSUME NEW s \in Threads PROVE Place(s, th'[s])
    BY <1>2 DEF ThreadsOK, Place, WorkflowPlaces, Outgoing, Dialing, Bridging, Ringing
  <2>2. QED  BY <2>1 DEF ThreadsOK, Place
<1>9. NumbersOK'
  <2>1. ASSUME NEW s \in Threads, s # Monitor PROVE Numbers(th[s])'
    BY <2>1 DEF NumbersOK, Numbers
  <2>2. Numbers(th[Monitor])'
    <3>0. Len(call) \in Nat /\ x.dialog \in 0 .. dialogs  BY <1>2 DEF CallsOK, ManagerOK
    <3>1. Len(call') \in Nat /\ th'[Monitor] = x /\ x.dialog \in 0 .. dialogs'  BY <3>0
    <3>2. QED  BY <1>2, <3>1 DEF Numbers, Outgoing, Dialing, Bridging, Ringing
  <2>3. QED  BY <2>1, <2>2 DEF NumbersOK
<1>10. CallsApart' /\ AnsweredIsOutbound'
  BY <1>2, <1>6 DEF CallsApart, AnsweredIsOutbound
<1>11. CurrentIsUntouched'  BY <1>2 DEF CurrentIsUntouched, At
<1>12. BridgedIsConnected' /\ RingingIsSilent' /\ StopEnds'
  BY <1>2 DEF BridgedIsConnected, RingingIsSilent, StopEnds, At
<1>13. RingingPlaces'  BY DEF RingingPlaces, OnDialog
<1>14. DialingPlaces'  BY <1>2, <1>3 DEF DialingPlaces, OnDialog, At
<1>15. Ending => Ending'  BY DEF Ending, At
<1>16. RingingHasInviter' /\ DialingHasWorkflow'
  BY <1>15 DEF RingingHasInviter, DialingHasWorkflow, OnDialog
<1>17. RingingHasWorkflow'
  <2>1. CASE x.pc = "launch"  BY <1>2, <2>1 DEF RingingHasWorkflow, OnDialog, At
  <2>2. CASE x.pc # "launch"
    BY <1>4, <1>15, <2>2 DEF RingingHasWorkflow, OnDialog, At
  <2>3. QED  BY <2>1, <2>2
<1>18. RunningAudioHasOwner' /\ AnsweredGetsBye'
  BY <1>6 DEF RunningAudioHasOwner, AnsweredGetsBye, WillStop, At
<1>19. QED
  BY <1>7, <1>8, <1>9, <1>10, <1>11, <1>12, <1>13, <1>14, <1>16, <1>17, <1>18

\* The monitor launches a workflow, unless the manager is stopped.
LEMMA LaunchSteps ==
    ASSUME CallsInv, LaunchWorkflow
    PROVE  CallsInv'
<1> USE DEF CallsInv
<1>0. /\ UNCHANGED <<state, stopped, known, dialog, dialogs, current, call>> /\ Calls' = Calls
      /\ Monitor \in Threads /\ Monitor \notin Workflows /\ Workflows \subseteq Threads
      /\ Stopper \in Threads /\ Monitor # Stopper /\ Stopper \notin Workflows
  BY CallAssumption DEF LaunchWorkflow, manager, Threads, Calls
<1>1. th[Monitor].dialog \in 0 .. dialogs /\ dialog \in 0 .. dialogs /\ dialogs \in Nat
  BY <1>0 DEF ManagerOK, NumbersOK, Numbers
<1>2. PICK pc \in {"init", "timer"}, d \in 0 .. dialogs :
        /\ \/ pc = "init" /\ At(Monitor, "launch") /\ d = th[Monitor].dialog
           \/ /\ pc = "timer" /\ At(Monitor, "launchTimer")
              /\ d = IF th[Monitor].dialog = 0 THEN dialog ELSE th[Monitor].dialog
        /\ Launch(pc, d)
  BY <1>1 DEF LaunchWorkflow
<1> DEFINE y == Starting(pc, 0, d)
<1>3. /\ y \in Goroutines /\ y.pc = pc /\ y.c = 0 /\ y.dialog = d /\ y.taken = 0
      /\ y.expected = 0
  <2>1. pc \in Places /\ d \in Nat  BY <1>1 DEF Places, WorkflowPlaces
  <2>2. QED  BY <2>1, StartingFacts
<1> HIDE DEF y
<1>4. PICK v \in Workflows \cup {Monitor} :
        /\ v # Monitor => ~stopped /\ At(v, "idle")
        /\ v = Monitor => stopped
        /\ th' = IF v = Monitor THEN [th EXCEPT ![Monitor] = Idle]
                 ELSE [th EXCEPT ![Monitor] = Idle, ![v] = y]
  BY <1>0, <1>2, Zenon DEF Launch, Free, y
<1>5. /\ th' \in [Threads -> Goroutines] /\ th'[Monitor] = Idle
      /\ v # Monitor => th'[v] = y
      /\ \A s \in Threads : s \notin {v, Monitor} => th'[s] = th[s]
  BY <1>0, <1>3, <1>4, IdleFacts DEF ThreadsOK
<1>6. v # Monitor => th[v].c = 0 /\ th[v].dialog = 0
  BY <1>0, <1>4 DEF NumbersOK, Numbers, At
<1>7. ManagerOK' /\ CallsOK'  BY <1>0 DEF ManagerOK, CallsOK
<1>8. ThreadsOK'
  <2>1. ASSUME NEW s \in Threads PROVE Place(s, th'[s])
    BY <1>0, <1>3, <1>4, <1>5, IdleFacts
    DEF ThreadsOK, Place, WorkflowPlaces, Outgoing, Dialing, Bridging, Ringing
  <2>2. QED  BY <1>5, <2>1 DEF ThreadsOK, Place
<1>9. NumbersOK'
  <2>1. Len(call) \in Nat  BY DEF CallsOK
  <2>2. ASSUME NEW s \in Threads, s \notin {v, Monitor} PROVE Numbers(th[s])'
    BY <1>0, <1>5, <2>2 DEF NumbersOK, Numbers
  <2>3. Numbers(th[Monitor])'
    BY <1>0, <1>1, <1>5, <2>1, IdleFacts DEF Numbers, Outgoing, Dialing, Bridging, Ringing
  <2>4. v # Monitor => Numbers(th[v])'
    BY <1>0, <1>1, <1>3, <1>5, <2>1 DEF Numbers, Outgoing, Dialing, Bridging, Ringing
  <2>5. QED  BY <2>2, <2>3, <2>4 DEF NumbersOK
<1>10. \A s \in Threads :
         /\ th'[s].c \in {0, th[s].c}
         /\ th'[s].pc \notin {"idle", "init", "timer"} => th'[s] = th[s]
         /\ th[s].pc \notin {"idle", "launch", "launchTimer"} => th'[s] = th[s]
  BY <1>2, <1>3, <1>4, <1>5, IdleFacts DEF At
<1>11. CallsApart'  BY <1>10 DEF CallsApart
<1>12. AnsweredIsOutbound' /\ RingingIsSilent'
  BY <1>0 DEF AnsweredIsOutbound, RingingIsSilent
<1>13. CurrentIsUntouched' /\ BridgedIsConnected'
  BY <1>0, <1>10 DEF CurrentIsUntouched, BridgedIsConnected, At
<1>14. StopEnds'  BY <1>0, <1>10 DEF StopEnds, At
<1>15. RingingPlaces'
  <2>1. ASSUME state = "ringing", NEW w \in Workflows, th'[w].dialog = dialog
        PROVE  th'[w].pc \in {"timer", "init"} \cup Ringing
               /\ (th'[w].pc \in Ringing => current # 0)
    <3>1. CASE w = v  BY <1>0, <1>2, <1>3, <1>5, <3>1 DEF Ringing
    <3>2. CASE w # v  BY <1>0, <1>5, <2>1, <3>2 DEF RingingPlaces, OnDialog
    <3>3. QED  BY <3>1, <3>2
  <2>2. QED  BY <1>0, <2>1 DEF RingingPlaces, OnDialog
<1>16. DialingPlaces'
  <2>1. ASSUME state = "dialing", NEW w \in Workflows, th'[w].dialog = dialog
        PROVE  \/ th'[w].pc = "timer"
               \/ th'[w].pc \in Dialing /\ th'[w].c = current /\ call'[current].final = 0
    <3>1. CASE w = v
      BY <1>0, <1>2, <1>3, <1>5, <2>1, <3>1 DEF DialingPlaces, OnDialog, At
    <3>2. CASE w # v  BY <1>0, <1>5, <2>1, <3>2 DEF DialingPlaces, OnDialog, At
    <3>3. QED  BY <3>1, <3>2
  <2>2. QED  BY <1>0, <1>5, <2>1, IdleFacts DEF DialingPlaces, OnDialog, At
<1>17. Ending => Ending'  BY <1>0, <1>10 DEF Ending, At
<1>18. ASSUME NEW w \in Workflows, OnDialog(w), th[w].pc # "idle" PROVE th'[w] = th[w]
  BY <1>0, <1>4, <1>5, <1>18 DEF At
<1>19. RingingHasInviter'
  BY <1>0, <1>17, <1>18 DEF RingingHasInviter, Ringing, OnDialog
<1>20. DialingHasWorkflow'
  BY <1>0, <1>17, <1>18 DEF DialingHasWorkflow, Dialing, OnDialog
<1>21. RingingHasWorkflow'
  <2> SUFFICES ASSUME state = "ringing", ~stopped
               PROVE  \/ Ending'
                      \/ \E w \in Workflows : th'[w].dialog = dialog
                                              /\ th'[w].pc \in {"init"} \cup Ringing
                      \/ ~known /\ \E w \in Workflows : th'[w].dialog = dialog
                                                        /\ th'[w].pc = "timer"
    BY <1>0 DEF RingingHasWorkflow, OnDialog, At
  <2>1. v \in Workflows /\ v # Monitor  BY <1>0, <1>4
  <2>2. CASE At(Monitor, "launch") /\ OnDialog(Monitor)
    BY <1>2, <1>3, <1>5, <2>1, <2>2 DEF OnDialog, At
  <2>3. CASE ~known /\ At(Monitor, "launchTimer") /\ th[Monitor].dialog \in {0, dialog}
    BY <1>2, <1>3, <1>5, <2>1, <2>3 DEF At
  <2>4. ASSUME NEW w \in Workflows, OnDialog(w), th[w].pc \in {"init", "timer"} \cup Ringing
        PROVE  th'[w] = th[w]
    BY <1>18, <2>4 DEF Ringing
  <2>5. QED  BY <1>17, <2>2, <2>3, <2>4 DEF RingingHasWorkflow, OnDialog, At
<1>22. RunningAudioHasOwner' /\ AnsweredGetsBye'
  BY <1>0, <1>10 DEF RunningAudioHasOwner, AnsweredGetsBye, WillStop, At
<1>23. QED
  BY <1>7, <1>8, <1>9, <1>11, <1>12, <1>13, <1>14, <1>15, <1>16, <1>19, <1>20, <1>21, <1>22

\* Stop is called.
LEMMA StopBeginSteps ==
    ASSUME CallsInv, StopBegin
    PROVE  CallsInv'
<1> USE DEF CallsInv
<1>0. /\ UNCHANGED <<state, known, dialog, dialogs, current, call>> /\ Calls' = Calls
      /\ stopped' = TRUE /\ At(Stopper, "idle")
      /\ Workflows \subseteq Threads /\ Stopper \in Threads /\ Stopper \notin Workflows
      /\ Monitor # Stopper /\ Monitor \in Threads
  BY CallAssumption DEF StopBegin, Threads, Calls
<1> DEFINE x == Ender(0, TRUE, TRUE)
<1>1. /\ x \in Goroutines /\ x.pc = "end" /\ x.c = 0 /\ x.dialog = 0 /\ x.taken = 0
      /\ x.expected = 0
  BY EndingFacts
<1>2. th' = [th EXCEPT ![Stopper] = x]  BY DEF StopBegin, End, Ender
<1> HIDE DEF x
<1>3. /\ th' \in [Threads -> Goroutines] /\ th'[Stopper] = x
      /\ \A s \in Threads : s # Stopper => th'[s] = th[s]
  BY <1>0, <1>1, <1>2 DEF ThreadsOK
<1>4. ManagerOK' /\ CallsOK'  BY <1>0 DEF ManagerOK, CallsOK
<1>5. ThreadsOK'
  <2>1. ASSUME NEW s \in Threads PROVE Place(s, th'[s])
    BY <1>0, <1>1, <1>3
    DEF ThreadsOK, Place, WorkflowPlaces, Outgoing, Dialing, Bridging, Ringing
  <2>2. QED  BY <1>3, <2>1 DEF ThreadsOK, Place
<1>6. NumbersOK'
  <2>1. Len(call) \in Nat /\ dialogs \in Nat  BY DEF CallsOK, ManagerOK
  <2>2. ASSUME NEW s \in Threads, s # Stopper PROVE Numbers(th[s])'
    BY <1>0, <1>3, <2>2 DEF NumbersOK, Numbers
  <2>3. Numbers(th[Stopper])'
    BY <1>0, <1>1, <1>3, <2>1 DEF Numbers, Outgoing, Dialing, Bridging, Ringing
  <2>4. QED  BY <2>2, <2>3 DEF NumbersOK
<1>7. CallsApart' /\ AnsweredIsOutbound'
  BY <1>0, <1>1, <1>3 DEF CallsApart, AnsweredIsOutbound
<1>8. CurrentIsUntouched' /\ BridgedIsConnected' /\ RingingIsSilent' /\ StopEnds'
  BY <1>0, <1>1, <1>3 DEF CurrentIsUntouched, BridgedIsConnected, RingingIsSilent, StopEnds, At
<1>9. RingingPlaces' /\ DialingPlaces'
  BY <1>0, <1>3 DEF RingingPlaces, DialingPlaces, OnDialog, At
<1>10. RingingHasWorkflow' /\ RingingHasInviter' /\ DialingHasWorkflow'
  BY <1>0 DEF RingingHasWorkflow, RingingHasInviter, DialingHasWorkflow
<1>11. RunningAudioHasOwner' /\ AnsweredGetsBye'
  BY <1>0, <1>3 DEF RunningAudioHasOwner, AnsweredGetsBye, WillStop, At
<1>12. QED
  BY <1>4, <1>5, <1>6, <1>7, <1>8, <1>9, <1>10, <1>11

\* The call is taken from the manager.
LEMMA TakeSteps ==
    ASSUME CallsInv, ModemOK, NEW t \in Threads, TakeCall(t)
    PROVE  CallsInv'
<1> USE DEF CallsInv
<1> DEFINE Nothing == \/ th[t].expected # 0 /\ current # th[t].expected
                      \/ state = "idle" /\ current = 0
<1>1. CASE Nothing
  <2>1. Kept /\ UNCHANGED call /\ At(t, "end") /\ Return(t)  BY <1>1 DEF TakeCall, Kept
  <2>2. QED  BY <1>1, <2>1, NothingTakenSteps
<1>2. CASE ~Nothing
  <2>0. /\ th' = [th EXCEPT ![t] = [@ EXCEPT !.pc = "cleanup", !.taken = current, !.ctl = ctl,
                                            !.expected = 0, !.failed = stopped]]
        /\ state' = "idle" /\ current' = 0
        /\ call' = IF current = 0 THEN call
                   ELSE [call EXCEPT ![current] = [@ EXCEPT !.signalled = th[t].signal]]
    BY <1>2 DEF TakeCall
  <2> DEFINE x == [th[t] EXCEPT !.pc = "cleanup", !.taken = current, !.ctl = ctl,
                                !.expected = 0, !.failed = stopped]
  <2>1. /\ UNCHANGED <<stopped, known, dialog, dialogs>> /\ At(t, "end")
        /\ Workflows \subseteq Threads /\ Stopper \in Threads
    BY DEF TakeCall, Threads
  <2>2. th' = [th EXCEPT ![t] = x]  BY <2>0, Typed
  <2>3. /\ x \in Goroutines /\ x.pc = "cleanup" /\ x.c = th[t].c /\ x.dialog = th[t].dialog
        /\ x.taken = current /\ x.expected = 0 /\ x.signal = th[t].signal
    <3>1. ctl \in Nat /\ current \in Nat /\ stopped \in BOOLEAN
      BY DEF ModemOK, CallsOK, ManagerOK
    <3>2. QED  BY <3>1, Typed DEF Goroutines, Places, WorkflowPlaces
  <2> HIDE DEF x
  <2>4. /\ th' \in [Threads -> Goroutines] /\ th'[t] = x
        /\ \A s \in Threads : s # t => th'[s] = th[s]
    BY <2>2, <2>3 DEF ThreadsOK
  <2>5. /\ call' \in Seq(CSCalls) /\ Len(call') = Len(call)
    <3>1. CASE current = 0  BY <2>0, <3>1 DEF CallsOK
    <3>2. CASE current # 0
      <4>1. call[current] \in CSCalls  BY <3>2 DEF CallsOK
      <4>2. [call[current] EXCEPT !.signalled = th[t].signal] \in CSCalls
        BY <4>1, Typed DEF CSCalls
      <4>3. QED  BY <2>0, <3>2, <4>2 DEF CallsOK
    <3>3. QED  BY <3>1, <3>2
  <2>6. ASSUME NEW c \in Calls
        PROVE  /\ call'[c].outbound = call[c].outbound /\ call'[c].final = call[c].final
               /\ call'[c].audio = call[c].audio /\ call'[c].cancelled = call[c].cancelled
               /\ call'[c].bye = call[c].bye
               /\ call'[c].signalled = IF c = current THEN th[t].signal ELSE call[c].signalled
    <3>1. call[c] \in CSCalls /\ c # 0  BY DEF CallsOK, Calls
    <3>2. QED  BY <2>0, <3>1 DEF CallsOK, CSCalls, Calls
  <2>7. Calls' = Calls /\ Len(call) \in Nat /\ current \in 0 .. Len(call)
    BY <2>5 DEF Calls, CallsOK
  <2>8. ManagerOK'  BY <2>0, <2>1 DEF ManagerOK
  <2>9. CallsOK'  BY <2>0, <2>5, <2>7 DEF CallsOK
  <2>10. ThreadsOK'
    <3>1. ASSUME NEW s \in Threads PROVE Place(s, th'[s])
      BY <2>3, <2>4
      DEF ThreadsOK, Place, WorkflowPlaces, Outgoing, Dialing, Bridging, Ringing
    <3>2. QED  BY <2>4, <3>1 DEF ThreadsOK, Place
  <2>11. NumbersOK'
    <3>1. ASSUME NEW s \in Threads, s # t PROVE Numbers(th[s])'
      <4>1. Numbers(th[s])  BY DEF NumbersOK
      <4>2. th[s].pc \in Outgoing => th[s].c \in Calls  BY <4>1, <2>7 DEF Numbers, Calls
      <4>3. QED  BY <2>1, <2>4, <2>5, <2>6, <3>1, <4>1, <4>2 DEF Numbers
    <3>2. Numbers(th[t])'
      <4>1. Numbers(th[t])  BY DEF NumbersOK
      <4>2. QED
        BY <2>1, <2>3, <2>4, <2>5, <2>7, <4>1
        DEF Numbers, Outgoing, Dialing, Bridging, Ringing, At
    <3>3. QED  BY <3>1, <3>2 DEF NumbersOK
  <2>12. CallsApart'  BY <2>3, <2>4 DEF CallsApart
  <2>13. AnsweredIsOutbound'  BY <2>6, <2>7 DEF AnsweredIsOutbound
  <2>14. CurrentIsUntouched'
    <3>1. ASSUME NEW s \in Threads, th'[s].pc = "cleanup", th'[s].taken # 0
          PROVE  call'[th'[s].taken].signalled = th'[s].signal
      <4>1. CASE s = t  BY <2>3, <2>4, <2>6, <2>7, <3>1, <4>1 DEF Calls
      <4>2. CASE s # t
        <5>1. th[s].taken \in Calls /\ th[s].taken # current
          BY <2>4, <2>7, <3>1, <4>2 DEF NumbersOK, Numbers, CurrentIsUntouched, Calls, At
        <5>2. QED  BY <2>4, <2>6, <3>1, <4>2, <5>1 DEF CurrentIsUntouched, At
      <4>3. QED  BY <4>1, <4>2
    <3>2. QED  BY <2>0, <3>1 DEF CurrentIsUntouched, At
  <2>15. BridgedIsConnected' /\ RingingIsSilent' /\ StopEnds' /\ RingingPlaces' /\ DialingPlaces'
    BY <2>0 DEF BridgedIsConnected, RingingIsSilent, StopEnds, RingingPlaces, DialingPlaces
  <2>16. RingingHasWorkflow' /\ RingingHasInviter' /\ DialingHasWorkflow'
    BY <2>0 DEF RingingHasWorkflow, RingingHasInviter, DialingHasWorkflow
  <2>17. ASSUME NEW c \in Calls, call'[c].audio = "running"
         PROVE  \E s \in Threads : WillStop(s, c)'
    <3>1. CASE c = current  BY <2>3, <2>4, <3>1 DEF WillStop, At
    <3>2. CASE c # current
      <4>1. PICK s \in Threads : WillStop(s, c)
        BY <2>6, <2>17, <3>2 DEF RunningAudioHasOwner
      <4>2. QED  BY <2>1, <2>4, <4>1 DEF WillStop, At
    <3>3. QED  BY <3>1, <3>2
  <2>18. ASSUME NEW c \in Calls, call'[c].final = 200, call'[c].signalled
         PROVE  call'[c].bye \/ \E s \in Threads : th'[s].pc = "cleanup" /\ th'[s].taken = c
    <3>1. CASE c = current  BY <2>3, <2>4, <3>1
    <3>2. CASE c # current
      <4>1. call[c].bye \/ \E s \in Threads : At(s, "cleanup") /\ th[s].taken = c
        BY <2>6, <2>18, <3>2 DEF AnsweredGetsBye
      <4>2. QED  BY <2>1, <2>4, <2>6, <4>1 DEF At
    <3>3. QED  BY <3>1, <3>2
  <2>19. RunningAudioHasOwner' /\ AnsweredGetsBye'
    BY <2>7, <2>17, <2>18 DEF RunningAudioHasOwner, AnsweredGetsBye, At
  <2>20. QED
    BY <2>8, <2>9, <2>10, <2>11, <2>12, <2>13, <2>14, <2>15, <2>16, <2>19
<1>3. QED  BY <1>1, <1>2

\* Who took a call cleans it up.
LEMMA CleanupSteps ==
    ASSUME CallsInv, NEW t \in Threads, Cleanup(t)
    PROVE  CallsInv'
<1> USE DEF CallsInv
<1> DEFINE m == th[t].taken
           x == Back(t)
<1>1. /\ Kept /\ At(t, "cleanup") /\ th' = [th EXCEPT ![t] = x]
      /\ Workflows \subseteq Threads /\ Stopper \in Threads /\ Monitor \in Threads
      /\ call' = IF m = 0 THEN call
                 ELSE [call EXCEPT ![m] = CleanedUp(t, call[m], Stopping(call[m].audio))]
  BY DEF Cleanup, Return, manager, Kept, Threads
<1>2. /\ x \in Goroutines /\ x.c = 0 /\ x.dialog = 0 /\ x.taken = 0 /\ x.expected = 0
      /\ x.pc \in {"idle", "wait", "returned"} /\ Place(t, x)
  BY BackFacts
<1> HIDE DEF x
<1>3. /\ th' \in [Threads -> Goroutines] /\ th'[t] = x
      /\ \A s \in Threads : s # t => th'[s] = th[s]
  BY <1>1, <1>2 DEF ThreadsOK
<1>4. m \in 0 .. Len(call) /\ Len(call) \in Nat /\ (m # 0 => m # current)
  BY <1>1 DEF NumbersOK, Numbers, CallsOK, CurrentIsUntouched
<1>5. ASSUME NEW a \in {"none", "open", "running", "stopped"}, NEW r \in CSCalls
      PROVE  LET y == CleanedUp(t, r, a)
             IN  /\ y \in CSCalls /\ y.outbound = r.outbound /\ y.audio = a
                 /\ y.signalled = r.signalled /\ y.final \in {503, r.final}
                 /\ y.bye <=> (r.outbound /\ th[t].signal /\ y.final = 200)
  <2> DEFINE f == IF r.outbound /\ r.final = 0 /\ th[t].signal /\ th[t].failed THEN 503
                  ELSE r.final
             b == r.outbound /\ th[t].signal /\ f = 200
  <2>1. f \in Finals /\ f \in {503, r.final}  BY DEF CSCalls, Finals
  <2>2. r.outbound \in BOOLEAN /\ th[t].signal \in BOOLEAN  BY Typed DEF CSCalls
  <2>3. b \in BOOLEAN  OBVIOUS
  <2>4. CleanedUp(t, r, a) = [r EXCEPT !.cancelled = TRUE, !.audio = a, !.final = f, !.bye = b]
    BY DEF CleanedUp
  <2> HIDE DEF f
  <2>5. (r.outbound /\ th[t].signal /\ f = 200) <=> b  OBVIOUS
  <2> HIDE DEF b
  <2> DEFINE y == [r EXCEPT !.cancelled = TRUE, !.audio = a, !.final = f, !.bye = b]
  <2>6. y \in CSCalls  BY <2>1, <2>3 DEF CSCalls
  <2>7. /\ y.outbound = r.outbound /\ y.audio = a /\ y.signalled = r.signalled
        /\ y.final = f /\ y.bye = b
    BY DEF CSCalls
  <2> HIDE DEF y
  <2>8. QED  BY <2>1, <2>4, <2>5, <2>6, <2>7 DEF y
<1>6. ASSUME m # 0
      PROVE  /\ call[m] \in CSCalls
             /\ Stopping(call[m].audio) \in {"none", "stopped"}
  BY <1>4, <1>6 DEF CallsOK, Stopping
<1>7. call' \in Seq(CSCalls) /\ Len(call') = Len(call)
  <2>1. CASE m = 0  BY <1>1, <2>1 DEF CallsOK
  <2>2. CASE m # 0
    <3>1. CleanedUp(t, call[m], Stopping(call[m].audio)) \in CSCalls  BY <1>5, <1>6, <2>2
    <3>2. QED  BY <1>1, <1>4, <2>2, <3>1 DEF CallsOK
  <2>3. QED  BY <2>1, <2>2
<1>8. \A c \in Calls : c # m => call'[c] = call[c]  BY <1>1 DEF CallsOK, Calls
<1>9. ASSUME m # 0
      PROVE  /\ m \in Calls
             /\ call'[m].outbound = call[m].outbound /\ call'[m].audio # "running"
             /\ call'[m].signalled = call[m].signalled
             /\ call'[m].final \in {503, call[m].final}
             /\ call'[m].bye <=> (call[m].outbound /\ th[t].signal /\ call'[m].final = 200)
  <2>1. m \in Calls  BY <1>4, <1>9 DEF Calls
  <2>2. call'[m] = CleanedUp(t, call[m], Stopping(call[m].audio))
    BY <1>1, <1>9, <2>1 DEF CallsOK, Calls
  <2>3. QED  BY <1>5, <1>6, <1>9, <2>1, <2>2
<1>10. Calls' = Calls  BY <1>7 DEF Calls
<1>11. ManagerOK' /\ CallsOK'  BY <1>1, <1>7 DEF ManagerOK, CallsOK, Kept
<1>12. ThreadsOK'
  <2>1. ASSUME NEW s \in Threads PROVE Place(s, th'[s])
    BY <1>2, <1>3 DEF ThreadsOK
  <2>2. QED  BY <1>3, <2>1 DEF ThreadsOK, Place
<1>13. NumbersOK'
  <2>1. ASSUME NEW s \in Threads, s # t PROVE Numbers(th[s])'
    <3>1. Numbers(th[s])  BY DEF NumbersOK
    <3>2. th[s].pc \in Outgoing => th[s].c \in Calls  BY <1>4, <3>1 DEF Numbers, Calls
    <3>3. th[s].pc \in Outgoing => call'[th[s].c].outbound
      BY <1>8, <1>9, <3>1, <3>2 DEF Numbers, Calls
    <3>4. QED  BY <1>1, <1>3, <1>7, <2>1, <3>1, <3>3 DEF Numbers, Kept
  <2>2. Numbers(th[t])'
    <3>1. dialogs \in Nat  BY DEF ManagerOK
    <3>2. QED
      BY <1>1, <1>2, <1>3, <1>4, <1>7, <3>1
      DEF Numbers, Kept, Outgoing, Dialing, Bridging, Ringing
  <2>3. QED  BY <2>1, <2>2 DEF NumbersOK
<1>14. CallsApart'  BY <1>2, <1>3 DEF CallsApart
<1>15. AnsweredIsOutbound'
  BY <1>8, <1>9, <1>10 DEF AnsweredIsOutbound, Calls
<1>16. CurrentIsUntouched'
  <2>1. current # 0 => call'[current] = call[current]
    BY <1>4, <1>8 DEF CallsOK, Calls
  <2>2. ASSUME NEW s \in Threads, th'[s].pc = "cleanup", th'[s].taken # 0
        PROVE  th'[s].taken # current /\ call'[th'[s].taken].signalled = th'[s].signal
    <3>1. s # t /\ th'[s] = th[s]  BY <1>2, <1>3, <2>2
    <3>2. th[s].taken \in Calls  BY <1>4, <2>2, <3>1 DEF NumbersOK, Numbers, Calls
    <3>3. call'[th[s].taken].signalled = call[th[s].taken].signalled
      BY <1>8, <1>9, <3>2 DEF Calls
    <3>4. QED  BY <2>2, <3>1, <3>3 DEF CurrentIsUntouched, At
  <2>3. QED  BY <1>1, <2>1, <2>2 DEF CurrentIsUntouched, At, Kept
<1>17. \A s \in Threads : /\ th'[s].pc \notin {"idle", "wait", "returned"} => th'[s] = th[s]
                          /\ th[s].pc # "cleanup" => th'[s] = th[s]
  BY <1>1, <1>2, <1>3 DEF At
<1>18. BridgedIsConnected'  BY <1>1, <1>17 DEF BridgedIsConnected, Kept
<1>19. RingingIsSilent'
  BY <1>1, <1>4, <1>8 DEF RingingIsSilent, CallsOK, Calls, Kept
<1>20. StopEnds'  BY <1>1, <1>17 DEF StopEnds, At, Kept
<1>21. ASSUME NEW w \in Threads, dialog # 0, th'[w].dialog = dialog PROVE th'[w] = th[w]
  BY <1>2, <1>3, <1>21
<1>22. state \in {"ringing", "dialing"} => dialog # 0  BY DEF ManagerOK
<1>23. RingingPlaces'
  BY <1>1, <1>21, <1>22 DEF RingingPlaces, OnDialog, Kept
<1>24. DialingPlaces'
  <2>1. ASSUME state = "dialing", NEW w \in Workflows, th'[w].dialog = dialog
        PROVE  \/ th'[w].pc = "timer"
               \/ th'[w].pc \in Dialing /\ th'[w].c = current /\ call'[current].final = 0
    <3>1. th'[w] = th[w] /\ OnDialog(w)  BY <1>1, <1>21, <1>22, <2>1 DEF OnDialog
    <3>2. CASE At(w, "timer")  BY <3>1, <3>2 DEF At
    <3>3. CASE th[w].pc \in Dialing /\ th[w].c = current /\ call[current].final = 0
      <4>1. current \in Calls
        <5>1. th[w].c # 0
          BY <1>1, <3>3 DEF NumbersOK, Numbers, Outgoing
        <5>2. QED  BY <3>3, <5>1 DEF CallsOK, Calls
      <4>2. call'[current] = call[current]  BY <1>4, <1>8, <4>1 DEF Calls
      <4>3. QED  BY <3>1, <3>3, <4>2
    <3>4. QED  BY <2>1, <3>1, <3>2, <3>3 DEF DialingPlaces
  <2>2. QED  BY <1>1, <1>17, <2>1 DEF DialingPlaces, OnDialog, At, Kept
<1>25. Ending => Ending'  BY <1>1, <1>17 DEF Ending, At, Kept
<1>26. RingingHasWorkflow' /\ RingingHasInviter' /\ DialingHasWorkflow'
  <2>1. ASSUME NEW s \in Threads, OnDialog(s), dialog # 0 PROVE th'[s] = th[s]
    <3>1. At(s, "cleanup") => th[s].dialog = 0  BY DEF NumbersOK, Numbers, At
    <3>2. QED  BY <1>17, <2>1, <3>1 DEF OnDialog, At
  <2>2. th[Monitor].pc # "cleanup" => th'[Monitor] = th[Monitor]  BY <1>1, <1>17
  <2>3. RingingHasInviter' /\ DialingHasWorkflow'
    BY <1>1, <1>22, <1>25, <2>1 DEF RingingHasInviter, DialingHasWorkflow, OnDialog, Kept
  <2>4. RingingHasWorkflow'
    BY <1>1, <1>22, <1>25, <2>1, <2>2 DEF RingingHasWorkflow, OnDialog, At, Kept
  <2>5. QED  BY <2>3, <2>4
<1>27. ASSUME NEW c \in Calls, call'[c].audio = "running"
       PROVE  current = c \/ \E s \in Threads : WillStop(s, c)'
  <2>1. c # m /\ call[c].audio = "running"  BY <1>8, <1>9, <1>27 DEF Calls
  <2>2. ASSUME NEW s \in Threads, WillStop(s, c) PROVE WillStop(s, c)'
    <3>1. s # t  BY <1>1, <2>1, <2>2 DEF WillStop, At
    <3>2. QED  BY <1>3, <2>2, <3>1 DEF WillStop, At
  <2>3. QED  BY <2>1, <2>2 DEF RunningAudioHasOwner
<1>28. ASSUME NEW c \in Calls, call'[c].final = 200, call'[c].signalled
       PROVE  call'[c].bye \/ \E s \in Threads : th'[s].pc = "cleanup" /\ th'[s].taken = c
  <2>1. CASE c = m
    <3>1. m # 0 /\ call[m].final = 200  BY <1>9, <1>28, <2>1 DEF Calls
    <3>2. call[m].outbound /\ call[m].signalled = th[t].signal
      BY <1>1, <2>1, <3>1 DEF AnsweredIsOutbound, CurrentIsUntouched
    <3>3. QED  BY <1>9, <1>28, <2>1, <3>1, <3>2
  <2>2. CASE c # m
    <3>1. call'[c] = call[c]  BY <1>8, <2>2
    <3>2. ASSUME NEW s \in Threads, At(s, "cleanup"), th[s].taken = c
          PROVE  th'[s].pc = "cleanup" /\ th'[s].taken = c
      BY <1>3, <2>2, <3>2 DEF At
    <3>3. QED  BY <1>28, <3>1, <3>2 DEF AnsweredGetsBye
  <2>3. QED  BY <2>1, <2>2
<1>29. RunningAudioHasOwner' /\ AnsweredGetsBye'
  BY <1>1, <1>10, <1>27, <1>28 DEF RunningAudioHasOwner, AnsweredGetsBye, At, Kept
<1>30. QED
  BY <1>11, <1>12, <1>13, <1>14, <1>15, <1>16, <1>18, <1>19, <1>20, <1>23, <1>24, <1>26, <1>29

\* What a new CSCall is.
LEMMA NewCallFacts ==
    /\ LET r == NewCall(TRUE)
       IN  /\ r \in CSCalls /\ r.final = 0 /\ r.cancelled = FALSE /\ r.signalled = FALSE
           /\ r.bye = FALSE /\ r.audio = "none" /\ r.outbound = TRUE
    /\ LET r == [NewCall(FALSE) EXCEPT !.audio = "open"]
       IN  /\ r \in CSCalls /\ r.final = 0 /\ r.cancelled = FALSE /\ r.signalled = FALSE
           /\ r.bye = FALSE /\ r.audio = "open" /\ r.outbound = FALSE
<1>1. 0 \in Finals  BY DEF Finals
<1>2. QED  BY <1>1 DEF NewCall, CSCalls

\* A call is made and becomes the current one, in place of one that does not run audio.
LEMMA CallMade ==
    ASSUME CallsInv, NEW t \in Threads, NEW x \in Goroutines, NEW r \in CSCalls,
           r.final = 0, ~r.cancelled, ~r.signalled, r.audio # "running",
           call' = Append(call, r), current' = Len(call'), th' = [th EXCEPT ![t] = x],
           UNCHANGED stopped, ~stopped, state' # "idle",
           th[t].pc \in {"init", "idle"}, x.pc \in {"invite", "dial"},
           x.c = Len(call) + 1, x.taken \in 0 .. Len(call), x.expected = 0, Place(t, x),
           x.dialog \in 0 .. dialogs', dialogs' \in {dialogs, dialogs + 1},
           r.outbound \/ x.pc \notin Outgoing,
           current # 0 => call[current].audio # "running"
    PROVE  /\ CallsOK' /\ ThreadsOK' /\ NumbersOK' /\ CallsApart' /\ AnsweredIsOutbound'
           /\ CurrentIsUntouched' /\ BridgedIsConnected' /\ RingingIsSilent' /\ StopEnds'
           /\ RunningAudioHasOwner' /\ AnsweredGetsBye'
           /\ th'[t] = x /\ (\A s \in Threads : s # t => th'[s] = th[s])
           /\ current' = Len(call) + 1 /\ current' # 0 /\ call'[current'] = r
<1> USE DEF CallsInv
<1> DEFINE n == Len(call) + 1
<1>1. /\ Len(call) \in Nat /\ n \in Nat /\ n # 0 /\ call' \in Seq(CSCalls) /\ Len(call') = n
      /\ current' = n /\ call'[n] = r /\ Calls' = Calls \cup {n}
      /\ \A c \in Calls : call'[c] = call[c] /\ c # n
  BY DEF CallsOK, Calls
<1>2. /\ th' \in [Threads -> Goroutines] /\ th'[t] = x
      /\ \A s \in Threads : s # t => th'[s] = th[s]
  BY DEF ThreadsOK
<1>3. \A s \in Threads : th[s].c \in 0 .. Len(call) /\ th[s].taken \in 0 .. Len(call)
  BY DEF NumbersOK, Numbers
<1>4. dialogs \in Nat /\ dialogs' \in Nat /\ dialogs <= dialogs'  BY DEF ManagerOK
<1>5. CallsOK'  BY <1>1 DEF CallsOK
<1>6. ThreadsOK'
  <2>1. ASSUME NEW s \in Threads PROVE Place(s, th'[s])  BY <1>2 DEF ThreadsOK
  <2>2. QED  BY <1>2, <2>1 DEF ThreadsOK, Place
<1>7. NumbersOK'
  <2>1. ASSUME NEW s \in Threads, s # t PROVE Numbers(th[s])'
    <3>1. Numbers(th[s])  BY DEF NumbersOK
    <3>2. th[s].pc \in Outgoing => th[s].c \in Calls  BY <1>1, <3>1 DEF Numbers, Calls
    <3>3. th[s].pc \in Outgoing => call'[th[s].c].outbound
      BY <1>1, <3>1, <3>2 DEF Numbers
    <3>4. QED  BY <1>1, <1>2, <1>4, <2>1, <3>1, <3>3 DEF Numbers
  <2>2. Numbers(th[t])'
    <3>1. x.pc \in Outgoing => call'[x.c].outbound  BY <1>1
    <3>2. x.pc \notin {"idle", "end", "cleanup", "wait", "returned", "exited"}  OBVIOUS
    <3>3. QED
      BY <1>1, <1>2, <1>4, <3>1, <3>2 DEF Numbers
  <2>3. QED  BY <2>1, <2>2 DEF NumbersOK
<1>8. CallsApart'  BY <1>1, <1>2, <1>3 DEF CallsApart
<1>9. AnsweredIsOutbound'
  <2>1. ASSUME NEW c \in Calls', call'[c].final = 200 PROVE call'[c].outbound
    <3>1. c \in Calls /\ call'[c] = call[c]
      <4>1. c # n  BY <1>1, <2>1
      <4>2. QED  BY <1>1, <4>1
    <3>2. QED  BY <2>1, <3>1 DEF AnsweredIsOutbound
  <2>2. QED  BY <2>1 DEF AnsweredIsOutbound
<1>10. CurrentIsUntouched'
  <2>1. ASSUME NEW s \in Threads, th'[s].pc = "cleanup", th'[s].taken # 0
        PROVE  th'[s].taken # n /\ call'[th'[s].taken].signalled = th'[s].signal
    <3>1. s # t /\ th'[s] = th[s]  BY <1>2, <2>1
    <3>2. th[s].taken \in Calls  BY <1>3, <2>1, <3>1 DEF Calls
    <3>3. QED  BY <1>1, <2>1, <3>1, <3>2 DEF CurrentIsUntouched, At
  <2>2. QED  BY <1>1, <2>1 DEF CurrentIsUntouched, At
<1>11. BridgedIsConnected'
  <2>1. \A s \in Threads : th'[s].c = n => s = t  BY <1>1, <1>2, <1>3
  <2>2. QED  BY <1>1, <1>2, <2>1 DEF BridgedIsConnected
<1>12. RingingIsSilent' /\ StopEnds'  BY <1>1 DEF RingingIsSilent, StopEnds
<1>13. RunningAudioHasOwner'
  <2>1. ASSUME NEW c \in Calls', call'[c].audio = "running"
        PROVE  \E s \in Threads : WillStop(s, c)'
    <3>1. c \in Calls /\ call[c].audio = "running" /\ c # current
      BY <1>1, <2>1 DEF Calls
    <3>2. PICK s \in Threads : WillStop(s, c)  BY <3>1 DEF RunningAudioHasOwner
    <3>3. s # t  BY <3>2 DEF WillStop, At
    <3>4. QED  BY <1>2, <3>2, <3>3 DEF WillStop, At
  <2>2. QED  BY <2>1 DEF RunningAudioHasOwner
<1>14. AnsweredGetsBye'
  <2>1. ASSUME NEW c \in Calls', call'[c].final = 200, call'[c].signalled
        PROVE  call'[c].bye \/ \E s \in Threads : th'[s].pc = "cleanup" /\ th'[s].taken = c
    <3>1. c \in Calls /\ call'[c] = call[c]
      <4>1. c # n  BY <1>1, <2>1
      <4>2. QED  BY <1>1, <4>1
    <3>2. ASSUME NEW s \in Threads, At(s, "cleanup"), th[s].taken = c
          PROVE  th'[s].pc = "cleanup" /\ th'[s].taken = c
      BY <1>2, <3>2 DEF At
    <3>3. QED  BY <2>1, <3>1, <3>2 DEF AnsweredGetsBye
  <2>2. QED  BY <2>1 DEF AnsweredGetsBye, At
<1>15. QED
  BY <1>1, <1>2, <1>5, <1>6, <1>7, <1>8, <1>9, <1>10, <1>11, <1>12, <1>13, <1>14

\* A client has come: the workflow makes the call and invites it.
LEMMA ClientComesSteps ==
    ASSUME CallsInv, NEW t \in Threads, At(t, "init"), RingingFor(t),
           UNCHANGED <<state, stopped, known, dialog, dialogs>>,
           call' = Append(call, [NewCall(FALSE) EXCEPT !.audio = "open"]), current' = Len(call'),
           th' = [th EXCEPT ![t] = [@ EXCEPT !.pc = "invite", !.c = Len(call')]]
    PROVE  CallsInv'
<1> USE DEF CallsInv
<1> DEFINE x == [th[t] EXCEPT !.pc = "invite", !.c = Len(call) + 1]
           r == [NewCall(FALSE) EXCEPT !.audio = "open"]
<1>1. r \in CSCalls /\ r.final = 0 /\ ~r.cancelled /\ ~r.signalled /\ r.audio # "running"
  BY NewCallFacts
<1> HIDE DEF r
<1>2. Len(call) \in Nat /\ Len(call') = Len(call) + 1  BY <1>1 DEF CallsOK, r
<1>3. th' = [th EXCEPT ![t] = x]  BY <1>2, Typed
<1>4. /\ x \in Goroutines /\ x.pc = "invite" /\ x.c = Len(call) + 1 /\ x.dialog = th[t].dialog
      /\ x.taken = th[t].taken /\ x.expected = th[t].expected
  <2>1. "invite" \in Places /\ Len(call) + 1 \in Nat
    BY <1>2 DEF Places, WorkflowPlaces, Ringing
  <2>2. QED  BY <2>1, Typed DEF Goroutines
<1> HIDE DEF x
<1>5. t \in Workflows /\ Workflows \subseteq Threads
  BY DEF ThreadsOK, Place, At, WorkflowPlaces, Threads
<1>6. Place(t, x)
  BY <1>4, <1>5 DEF Place, WorkflowPlaces, Outgoing, Dialing, Bridging, Ringing
<1>7. x.dialog = dialog /\ x.expected = 0 /\ x.dialog \in 0 .. dialogs
  BY <1>4 DEF RingingFor, NumbersOK, Numbers, At
<1>8. state = "ringing" /\ ~stopped  BY DEF RingingFor
<1>9. current # 0 => call[current].audio # "running"  BY <1>8 DEF RingingIsSilent
<1>10. /\ CallsOK' /\ ThreadsOK' /\ NumbersOK' /\ CallsApart' /\ AnsweredIsOutbound'
       /\ CurrentIsUntouched' /\ BridgedIsConnected' /\ RingingIsSilent' /\ StopEnds'
       /\ RunningAudioHasOwner' /\ AnsweredGetsBye'
       /\ th'[t] = x /\ (\A s \in Threads : s # t => th'[s] = th[s])
       /\ current' = Len(call) + 1 /\ current' # 0
  <2>1. th[t].pc \in {"init", "idle"} /\ x.pc \notin Outgoing
        /\ x.pc \in {"invite", "dial"}
    BY <1>4 DEF At, Outgoing, Dialing
  <2>2. x.taken \in 0 .. Len(call)
    BY <1>4 DEF NumbersOK, Numbers, At
  <2>3. call' = Append(call, r)  BY DEF r
  <2>4. dialogs' \in {dialogs, dialogs + 1} /\ x.dialog \in 0 .. dialogs' /\ state' # "idle"
    BY <1>7, <1>8
  <2> HIDE DEF CallsInv
  <2>5. QED
    BY <1>1, <1>3, <1>4, <1>6, <1>7, <1>8, <1>9, <2>1, <2>2, <2>3, <2>4, CallMade
<1>11. ManagerOK'  BY DEF ManagerOK
<1>12. RingingPlaces'
  BY <1>4, <1>5, <1>10 DEF RingingPlaces, OnDialog, Ringing
<1>13. DialingPlaces' /\ DialingHasWorkflow'
  BY <1>8 DEF DialingPlaces, DialingHasWorkflow
<1>14. RingingHasWorkflow' /\ RingingHasInviter'
  BY <1>4, <1>5, <1>7, <1>10 DEF RingingHasWorkflow, RingingHasInviter, OnDialog, Ringing
<1>15. QED  BY <1>10, <1>11, <1>12, <1>13, <1>14

\* A client dials out.
LEMMA OutboundSteps ==
    ASSUME CallsInv, NEW t \in Threads, OutboundInvite(t)
    PROVE  CallsInv'
<1> USE DEF CallsInv
<1> DEFINE x == Starting("dial", Len(call) + 1, dialogs')
           r == NewCall(TRUE)
<1>0. /\ t \in Workflows /\ At(t, "idle") /\ ~stopped /\ state = "idle" /\ dialogs < MaxDialogs
      /\ state' = "dialing" /\ dialogs' = dialogs + 1 /\ dialog' = dialogs'
      /\ UNCHANGED <<stopped, known>>
      /\ call' = Append(call, r) /\ current' = Len(call')
      /\ Workflows \subseteq Threads /\ Monitor \in Threads /\ Monitor # t
  BY CallAssumption DEF OutboundInvite, Free, Threads
<1>1. r \in CSCalls /\ r.final = 0 /\ ~r.cancelled /\ ~r.signalled /\ r.audio # "running"
      /\ r.outbound
  BY NewCallFacts
<1> HIDE DEF r
<1>2. Len(call) \in Nat /\ Len(call') = Len(call) + 1  BY <1>0, <1>1 DEF CallsOK
<1>3. MaxDialogs \in Nat /\ dialogs \in Nat /\ dialogs' \in Nat
  <2>1. MaxDialogs \in {MaxDialogs, MaxCalls, MaxModemCalls, QueueLength}  OBVIOUS
  <2>2. MaxDialogs \in Nat  BY <2>1, CallAssumption
  <2>3. QED  BY <1>0, <2>2 DEF ManagerOK
<1>4. th' = [th EXCEPT ![t] = x]  BY <1>2 DEF OutboundInvite
<1>5. /\ x \in Goroutines /\ x.pc = "dial" /\ x.c = Len(call) + 1 /\ x.dialog = dialogs'
      /\ x.taken = 0 /\ x.expected = 0
  <2>1. "dial" \in Places /\ Len(call) + 1 \in Nat
    BY <1>2 DEF Places, WorkflowPlaces, Outgoing, Dialing
  <2>2. QED  BY <1>3, <2>1, StartingFacts
<1> HIDE DEF x
<1>6. Place(t, x)
  BY <1>0, <1>5 DEF Place, WorkflowPlaces, Outgoing, Dialing, Bridging, Ringing
<1>7. current = 0  BY <1>0 DEF CallsOK
<1>8. /\ CallsOK' /\ ThreadsOK' /\ NumbersOK' /\ CallsApart' /\ AnsweredIsOutbound'
      /\ CurrentIsUntouched' /\ BridgedIsConnected' /\ RingingIsSilent' /\ StopEnds'
      /\ RunningAudioHasOwner' /\ AnsweredGetsBye'
      /\ th'[t] = x /\ (\A s \in Threads : s # t => th'[s] = th[s])
      /\ current' = Len(call) + 1 /\ call'[current'] = r
  <2>1. th[t].pc \in {"init", "idle"} /\ x.pc \in {"invite", "dial"}
    BY <1>0, <1>5 DEF At
  <2>2. x.dialog \in 0 .. dialogs' /\ dialogs' \in {dialogs, dialogs + 1} /\ state' # "idle"
    BY <1>0, <1>3, <1>5
  <2>3. x.taken \in 0 .. Len(call)  BY <1>2, <1>5
  <2>4. /\ r.final = 0 /\ ~r.cancelled /\ ~r.signalled /\ r.audio # "running"
        /\ r.outbound \/ x.pc \notin Outgoing
        /\ current # 0 => call[current].audio # "running"
    BY <1>1, <1>7
  <2>5. /\ call' = Append(call, r) /\ current' = Len(call') /\ UNCHANGED stopped /\ ~stopped
        /\ x.c = Len(call) + 1 /\ x.expected = 0
    BY <1>0, <1>5
  <2> HIDE DEF CallsInv
  <2>6. QED
    BY <1>1, <1>4, <1>5, <1>6, <2>1, <2>2, <2>3, <2>4, <2>5, CallMade
<1>9. ManagerOK'  BY <1>0, <1>3 DEF ManagerOK
<1>10. \A s \in Threads : s # t => th'[s].dialog # dialog'
  <2>1. \A s \in Threads : th[s].dialog \in 0 .. dialogs  BY DEF NumbersOK, Numbers
  <2>2. QED  BY <1>0, <1>3, <1>8, <2>1
<1>11. DialingPlaces'
  BY <1>0, <1>1, <1>5, <1>8, <1>10 DEF DialingPlaces, OnDialog, Dialing
<1>12. DialingHasWorkflow'
  BY <1>0, <1>5, <1>8 DEF DialingHasWorkflow, OnDialog, Dialing
<1>13. RingingPlaces' /\ RingingHasWorkflow' /\ RingingHasInviter'
  BY <1>0 DEF RingingPlaces, RingingHasWorkflow, RingingHasInviter
<1>14. QED  BY <1>8, <1>9, <1>11, <1>12, <1>13

-----------------------------------------------------------------------------
(* The modem and its numbers                                               *)

ModemMoves ==
    /\ modem' \in [id : Nat, state : {"none", "in", "out", "active"}] /\ modem.id <= modem'.id
    /\ events' \in Seq(Events) /\ \A i \in 1 .. Len(events') : events'[i].id <= modem'.id
Noted == \A t \in Threads : th'[t].ctl \in 0 .. modem'.id

\* An event that is sent, or lost.
LEMMA EmitFacts ==
    ASSUME ModemOK, NEW e \in Events, Emit(e), NEW n \in Nat, e.id <= n, modem.id <= n
    PROVE  events' \in Seq(Events) /\ \A i \in 1 .. Len(events') : events'[i].id <= n
<1>1. CASE events' = events
  <2>1. \A i \in 1 .. Len(events) : events[i].id \in Nat /\ events[i].id <= modem.id
    <3>1. events \in Seq(Events)  BY DEF ModemOK
    <3>2. \A i \in 1 .. Len(events) : events[i] \in Events  BY <3>1
    <3>3. QED  BY <3>2 DEF ModemOK, Events
  <2>2. modem.id \in Nat /\ events \in Seq(Events)  BY DEF ModemOK
  <2>3. QED  BY <1>1, <2>1, <2>2
<1>2. CASE events' = Append(events, e)
  <2>1. /\ events' \in Seq(Events) /\ Len(events') = Len(events) + 1 /\ Len(events) \in Nat
        /\ events'[Len(events) + 1] = e
        /\ \A i \in 1 .. Len(events) : events'[i] = events[i] /\ events[i] \in Events
    BY <1>2 DEF ModemOK
  <2>2. ASSUME NEW i \in 1 .. Len(events') PROVE events'[i].id <= n
    <3>1. CASE i = Len(events) + 1  BY <2>1, <3>1
    <3>2. CASE i \in 1 .. Len(events)
      <4>1. events[i].id \in Nat /\ events[i].id <= modem.id  BY <2>1, <3>2 DEF ModemOK, Events
      <4>2. QED  BY <2>1, <3>2, <4>1 DEF ModemOK
    <3>3. QED  BY <2>1, <3>1, <3>2
  <2>3. QED  BY <2>1, <2>2
<1>3. QED  BY <1>1, <1>2 DEF Emit

\* Nothing happens at the modem, or the controller hangs up.
LEMMA HangupFacts ==
    ASSUME ModemOK,
           \/ UNCHANGED <<modem, events>>
           \/ \E id \in Nat, ath \in BOOLEAN : ControllerHangup(id, ath)
    PROVE  ModemMoves /\ modem'.id = modem.id
<1>1. CASE UNCHANGED <<modem, events>>  BY <1>1 DEF ModemOK, ModemMoves
<1>2. ASSUME NEW id \in Nat, NEW ath \in BOOLEAN, ControllerHangup(id, ath),
             ~UNCHANGED <<modem, events>>
      PROVE  ModemMoves /\ modem'.id = modem.id
  <2>1. /\ modem' = [modem EXCEPT !.state = "none"]
        /\ Emit(HangupEvent) \/ UNCHANGED events
    BY <1>2 DEF ControllerHangup
  <2>2. /\ modem' \in [id : Nat, state : {"none", "in", "out", "active"}]
        /\ modem'.id = modem.id /\ modem.id \in Nat
    BY <2>1 DEF ModemOK
  <2>3. HangupEvent \in Events /\ HangupEvent.id = 0  BY DEF HangupEvent, Events
  <2>4. CASE UNCHANGED events  BY <2>2, <2>4 DEF ModemOK, ModemMoves
  <2>5. CASE Emit(HangupEvent)  BY <2>2, <2>3, <2>5, EmitFacts DEF ModemMoves
  <2>6. QED  BY <2>1, <2>4, <2>5
<1>3. QED  BY <1>1, <1>2

\* A goroutine goes on, returns or is about to end the call: it keeps its number or drops it.
LEMMA NotedFacts ==
    ASSUME ModemOK, ThreadsOK, ModemMoves, NEW t \in Threads,
           \/ UNCHANGED th
           \/ Return(t)
           \/ \E pc : Goto(t, pc)
           \/ \E n, signal, ath : End(t, n, signal, ath)
           \/ \E x : th' = [th EXCEPT ![t] = x] /\ x.ctl \in 0 .. modem'.id
    PROVE  Noted
<1>1. \A s \in Threads : th[s].ctl \in 0 .. modem'.id
  <2>1. modem.id \in Nat /\ modem'.id \in Nat  BY DEF ModemOK, ModemMoves
  <2>2. QED  BY <2>1 DEF ModemOK, ModemMoves
<1>2. 0 \in 0 .. modem'.id  BY DEF ModemMoves
<1>3. CASE UNCHANGED th  BY <1>1, <1>3 DEF Noted
<1>4. ASSUME NEW x, th' = [th EXCEPT ![t] = x], x.ctl \in 0 .. modem'.id PROVE Noted
  BY <1>1, <1>4 DEF Noted, ThreadsOK
<1>5. CASE Return(t)  BY <1>2, <1>4, <1>5, BackFacts DEF Return
<1>6. ASSUME NEW pc, Goto(t, pc) PROVE Noted
  <2>1. [th[t] EXCEPT !.pc = pc].ctl = th[t].ctl  BY DEF ThreadsOK, Goroutines
  <2>2. th' = [th EXCEPT ![t] = [th[t] EXCEPT !.pc = pc]]  BY <1>6 DEF Goto
  <2>3. QED  BY <1>1, <1>4, <2>1, <2>2
<1>7. ASSUME NEW n, NEW signal, NEW ath, End(t, n, signal, ath) PROVE Noted
  <2>1. Ender(n, signal, ath).ctl = 0  BY DEF Ender, Idle
  <2>2. th' = [th EXCEPT ![t] = Ender(n, signal, ath)]  BY <1>7 DEF End, Ender
  <2>3. QED  BY <1>2, <1>4, <2>1, <2>2
<1>8. QED  BY <1>3, <1>4, <1>5, <1>6, <1>7

\* The modem's numbers in a step.
LEMMA ModemNoted ==
    ASSUME ModemMoves, Noted, ctl' \in 0 .. modem'.id
    PROVE  ModemOK'
BY DEF ModemMoves, Noted, ModemOK

\* The controller's number stays.
LEMMA CtlFacts ==
    ASSUME ModemOK, ModemMoves
    PROVE  0 \in 0 .. modem'.id /\ ctl \in 0 .. modem'.id /\ modem.id \in Nat /\ modem'.id \in Nat
           /\ \A t \in Threads : th[t].ctl \in 0 .. modem'.id
<1>1. modem.id \in Nat /\ modem'.id \in Nat  BY DEF ModemOK, ModemMoves
<1>2. QED  BY <1>1 DEF ModemOK, ModemMoves

\* What the network does.
LEMMA NetworkSteps ==
    ASSUME CallsInv, ModemOK, Network
    PROVE  CallsInv' /\ ModemOK'
<1>1. Kept /\ UNCHANGED <<ctl, call, th>>
  BY DEF Network, NetworkRings, NetworkRingsAgain, NetworkAnswers, NetworkHangsUp, manager, Kept
<1>2. modem.id \in Nat /\ modem.id + 1 \in Nat /\ modem.state \in {"none", "in", "out", "active"}
  BY DEF ModemOK
<1> DEFINE Modems == [id : Nat, state : {"none", "in", "out", "active"}]
<1>3. ASSUME NetworkRings PROVE ModemMoves
  <2>1. modem' \in Modems /\ modem'.id = modem.id + 1
    BY <1>2, <1>3 DEF NetworkRings
  <2>2. PICK n \in BOOLEAN : Emit([type |-> "incoming", id |-> modem.id + 1, known |-> n])
    BY <1>3 DEF NetworkRings
  <2> DEFINE e == [type |-> "incoming", id |-> modem.id + 1, known |-> n]
  <2>3. e \in Events /\ e.id = modem.id + 1  BY <1>2 DEF Events
  <2> HIDE DEF e
  <2>4. Emit(e)  BY <2>2 DEF e
  <2>5. e.id <= modem.id + 1 /\ modem.id <= modem.id + 1  BY <1>2, <2>3
  <2>6. /\ events' \in Seq(Events)
        /\ \A i \in 1 .. Len(events') : events'[i].id <= modem.id + 1
    BY <1>2, <2>3, <2>4, <2>5, EmitFacts
  <2>7. QED  BY <1>2, <2>1, <2>6 DEF ModemMoves
<1>4. \A type \in {"incoming", "connected"}, n \in BOOLEAN :
        Event(type, n) \in Events /\ Event(type, n).id = modem.id
  BY <1>2 DEF Event, Events
<1>5. ASSUME NetworkRingsAgain PROVE ModemMoves
  <2>1. PICK n \in BOOLEAN : Emit(Event("incoming", n))  BY <1>5 DEF NetworkRingsAgain
  <2>2. Event("incoming", n) \in Events /\ Event("incoming", n).id <= modem.id
    BY <1>2, <1>4
  <2>3. UNCHANGED modem  BY <1>5 DEF NetworkRingsAgain
  <2>4. /\ events' \in Seq(Events)
        /\ \A i \in 1 .. Len(events') : events'[i].id <= modem.id
    BY <1>2, <2>1, <2>2, EmitFacts
  <2>5. QED  BY <1>2, <2>3, <2>4 DEF ModemMoves, ModemOK
<1>6. ASSUME NetworkAnswers \/ NetworkHangsUp PROVE ModemMoves
  <2>1. modem' \in Modems /\ modem'.id = modem.id
    BY <1>6 DEF NetworkAnswers, NetworkHangsUp, ModemOK
  <2>2. HangupEvent \in Events /\ HangupEvent.id <= modem.id
    BY <1>2 DEF HangupEvent, Events
  <2> DEFINE v == [type |-> "connected", id |-> modem.id, known |-> FALSE]
  <2>3. v \in Events /\ v.id <= modem.id  BY <1>2 DEF Events
  <2>4. UNCHANGED events \/ Emit(HangupEvent) \/ Emit(v)
    BY <1>6 DEF NetworkAnswers, NetworkHangsUp, Event
  <2> HIDE DEF v
  <2>5. /\ events' \in Seq(Events)
        /\ \A i \in 1 .. Len(events') : events'[i].id <= modem.id
    <3>1. CASE UNCHANGED events  BY <3>1 DEF ModemOK
    <3>2. CASE Emit(HangupEvent)  BY <1>2, <2>2, <3>2, EmitFacts
    <3>3. CASE Emit(v)  BY <1>2, <2>3, <3>3, EmitFacts
    <3>4. QED  BY <2>4, <3>1, <3>2, <3>3
  <2>6. QED  BY <1>2, <2>1, <2>5 DEF ModemMoves
<1>7. ModemMoves  BY <1>3, <1>5, <1>6 DEF Network
<1>8. Noted /\ ctl' \in 0 .. modem'.id  BY <1>1, <1>7, CtlFacts DEF Noted
<1>9. QED  BY <1>1, <1>7, <1>8, SameInv, ModemNoted

\* What the monitor does with an event.
LEMMA EventSteps ==
    ASSUME CallsInv, ModemOK, MonitorEvents
    PROVE  CallsInv' /\ ModemOK'
<1> DEFINE e == Head(events)
<1>1. /\ e \in Events /\ e.id \in 0 .. modem.id /\ e.known \in BOOLEAN
      /\ events' \in Seq(Events) /\ \A i \in 1 .. Len(events') : events'[i].id <= modem.id
      /\ UNCHANGED modem /\ At(Monitor, "idle") /\ Monitor \in Threads
  <2>1. events # <<>> /\ events' = Tail(events) /\ events \in Seq(Events)
    BY DEF MonitorEvents, ModemOK
  <2>2. Len(events) \in Nat /\ Len(events) >= 1 /\ e = events[1]  BY <2>1
  <2>3. e \in Events /\ e.id <= modem.id  BY <2>1, <2>2 DEF ModemOK
  <2>4. /\ events' \in Seq(Events) /\ Len(events') = Len(events) - 1
        /\ \A i \in 1 .. Len(events') : events'[i] = events[i + 1]
    BY <2>1, <2>2
  <2>5. \A i \in 1 .. Len(events') : i + 1 \in 1 .. Len(events)  BY <2>2, <2>4
  <2>6. \A i \in 1 .. Len(events') : events'[i].id <= modem.id  BY <2>4, <2>5 DEF ModemOK
  <2>7. e.id \in Nat /\ e.known \in BOOLEAN  BY <2>3 DEF Events
  <2>8. modem.id \in Nat  BY DEF ModemOK
  <2>9. QED  BY <2>3, <2>4, <2>6, <2>7, <2>8 DEF MonitorEvents, Threads
<1>2. Incoming(e) \/ Connected(e) \/ HungUp(e)  BY DEF MonitorEvents
<1> HIDE DEF e
<1>3. ModemMoves  BY <1>1 DEF ModemMoves, ModemOK
<1>4. CASE Incoming(e)
  <2>1. UNCHANGED <<stopped, current, call>>  BY <1>4 DEF Incoming
  <2>2. Noted /\ ctl' \in 0 .. modem'.id
    <3>1. ctl' \in {ctl, e.id}  BY <1>4 DEF Incoming
    <3>2. PICK pc, d : ToLaunch(pc, d)  BY <1>4 DEF Incoming
    <3> DEFINE x == Starting(pc, 0, d)
    <3>3. x.ctl = 0 /\ th' = [th EXCEPT ![Monitor] = x]
      BY <3>2 DEF Starting, Idle, ToLaunch
    <3> HIDE DEF x
    <3>4. Noted  BY <1>1, <1>3, <3>3, CtlFacts, NotedFacts DEF CallsInv
    <3>5. QED  BY <1>1, <1>3, <3>1, <3>4, CtlFacts
  <2>3. CASE /\ ~stopped /\ state = "idle" /\ dialogs < MaxDialogs
             /\ state' = "ringing" /\ known' = e.known
             /\ dialogs' = dialogs + 1 /\ dialog' = dialogs'
             /\ ToLaunch(IF e.known THEN "launch" ELSE "launchTimer", dialog')
    BY <1>1, <1>3, <2>1, <2>2, <2>3, RingSteps, ModemNoted
  <2>4. CASE /\ state = "ringing" /\ known' = TRUE /\ ToLaunch("launch", dialog)
             /\ UNCHANGED <<state, dialog, dialogs>>
    BY <1>1, <1>3, <2>1, <2>2, <2>4, RingAgainSteps, ModemNoted
  <2>5. CASE /\ ToLaunch("idle", 0) \/ ToLaunch("launchTimer", 0)
             /\ UNCHANGED <<state, known, dialog, dialogs>>
    BY <1>1, <1>3, <2>1, <2>2, <2>5, RingAgainSteps, ModemNoted
  <2>6. QED  BY <1>4, <2>3, <2>4, <2>5 DEF Incoming
<1>5. CASE Connected(e)
  <2>1. UNCHANGED <<stopped, known, dialog, current, call, dialogs, th>>
    BY <1>5 DEF Connected
  <2>2. Noted /\ ctl' \in 0 .. modem'.id
    <3>1. ctl' \in {ctl, e.id}  BY <1>5 DEF Connected
    <3>2. QED  BY <1>1, <1>3, <2>1, <3>1, CtlFacts DEF Noted
  <2>3. CallsInv'
    <3>1. CASE UNCHANGED state  BY <2>1, <3>1, SameInv DEF Kept
    <3>2. CASE state = "dialing" /\ state' = "connected"  BY <2>1, <3>2, ConnectedSteps
    <3>3. QED  BY <1>5, <3>1, <3>2 DEF Connected
  <2>4. QED  BY <1>3, <2>2, <2>3, ModemNoted
<1>6. CASE HungUp(e)
  <2>1. CallsInv'  BY <1>1, <1>6, MonitorSteps
  <2>2. UNCHANGED ctl /\ (UNCHANGED th \/ End(Monitor, 0, TRUE, FALSE))
    BY <1>6 DEF HungUp, manager
  <2>3. Noted  BY <1>1, <1>3, <2>2, NotedFacts DEF CallsInv
  <2>4. QED  BY <1>3, <2>1, <2>2, <2>3, CtlFacts, ModemNoted
<1>7. QED  BY <1>2, <1>4, <1>5, <1>6

\* A step of a goroutine that keeps, drops or takes over a number, while the modem does nothing or
\* hangs up.
LEMMA Quiet ==
    ASSUME CallsInv, ModemOK, NEW t \in Threads,
           \/ UNCHANGED <<modem, events>>
           \/ \E id \in Nat, ath \in BOOLEAN : ControllerHangup(id, ath),
           \/ Return(t)
           \/ \E pc : Goto(t, pc)
           \/ \E n, signal, ath : End(t, n, signal, ath)
           \/ \E x : th' = [th EXCEPT ![t] = x] /\ x.ctl \in {0, ctl, th[t].ctl},
           ctl' \in {0, ctl, th[t].ctl}
    PROVE  ModemOK'
<1>1. ModemMoves  BY HangupFacts
<1>2. {0, ctl, th[t].ctl} \subseteq 0 .. modem'.id  BY <1>1, CtlFacts
<1>3. CASE Return(t) \/ (\E pc : Goto(t, pc)) \/ (\E n, signal, ath : End(t, n, signal, ath))
  BY <1>1, <1>2, <1>3, NotedFacts, ModemNoted DEF CallsInv
<1>4. ASSUME NEW x, th' = [th EXCEPT ![t] = x], x.ctl \in {0, ctl, th[t].ctl} PROVE ModemOK'
  <2>1. x.ctl \in 0 .. modem'.id  BY <1>2, <1>4
  <2>2. Noted  BY <1>1, <1>4, <2>1, NotedFacts DEF CallsInv
  <2>3. QED  BY <1>1, <1>2, <2>2, ModemNoted
<1>5. QED  BY <1>3, <1>4

\* endCallAndHangupIfCurrent.
LEMMA EndCallSteps ==
    ASSUME CallsInv, ModemOK, NEW t \in Threads, EndCall(t)
    PROVE  CallsInv' /\ ModemOK'
<1>1. CASE TakeCall(t)
  <2> DEFINE x == [th[t] EXCEPT !.pc = "cleanup", !.taken = current, !.ctl = ctl,
                                !.expected = 0, !.failed = stopped]
  <2>1. x.ctl = ctl  BY Typed DEF CallsInv, Goroutines
  <2>2. UNCHANGED <<modem, events>> /\ ctl' \in {0, ctl}
    BY <1>1 DEF TakeCall
  <2>3. Return(t) \/ th' = [th EXCEPT ![t] = x]  BY <1>1 DEF TakeCall
  <2> HIDE DEF x
  <2>4. ModemOK'
    <3>1. CASE Return(t)  BY <2>2, <3>1, Quiet
    <3>2. CASE th' = [th EXCEPT ![t] = x]  BY <2>1, <2>2, <3>2, Quiet
    <3>3. QED  BY <2>3, <3>1, <3>2
  <2>5. QED  BY <1>1, <2>4, TakeSteps
<1>2. CASE Cleanup(t)
  <2>1. th[t].ctl \in Nat /\ th[t].ath \in BOOLEAN
    BY Typed DEF CallsInv, Goroutines
  <2>2. ControllerHangup(th[t].ctl, th[t].ath) /\ Return(t) /\ UNCHANGED ctl
    BY <1>2 DEF Cleanup, manager
  <2>3. ModemOK'
    <3>1. \E id \in Nat, ath \in BOOLEAN : ControllerHangup(id, ath)  BY <2>1, <2>2
    <3>2. QED  BY <2>2, <3>1, Quiet
  <2>4. QED  BY <1>2, <2>3, CleanupSteps
<1>3. QED  BY <1>1, <1>2 DEF EndCall

\* A workflow of an incoming call.
LEMMA InboundSteps ==
    ASSUME CallsInv, ModemOK, NEW t \in Threads, Inbound(t)
    PROVE  CallsInv' /\ ModemOK'
<1>1. CASE Timer(t)
  <2>1. ModemOK'  BY <1>1, Quiet DEF Timer, manager
  <2>2. QED  BY <1>1, <2>1, TimerSteps
<1>2. CASE AwaitClient(t)
  <2>1. /\ UNCHANGED <<state, stopped, known, dialog, ctl, dialogs, modem, events>>
        /\ At(t, "init")
    BY <1>2 DEF AwaitClient
  <2>2. CASE /\ RingingFor(t)
             /\ call' = Append(call, [NewCall(FALSE) EXCEPT !.audio = "open"])
             /\ current' = Len(call')
             /\ th' = [th EXCEPT ![t] = [@ EXCEPT !.pc = "invite", !.c = Len(call')]]
    <3>1. CallsInv'  BY <2>1, <2>2, ClientComesSteps
    <3> DEFINE x == [th[t] EXCEPT !.pc = "invite", !.c = Len(call')]
    <3>2. x.ctl = th[t].ctl  BY Typed DEF CallsInv, Goroutines
    <3>3. th' = [th EXCEPT ![t] = x]  BY <2>2
    <3> HIDE DEF x
    <3>4. ModemOK'  BY <2>1, <3>2, <3>3, Quiet
    <3>5. QED  BY <3>1, <3>4
  <2>3. CASE /\ UNCHANGED <<call, current>>
             /\ \/ RingingFor(t) /\ End(t, 0, FALSE, TRUE)
                \/ ~RingingFor(t) /\ Return(t)
    <3>1. CallsInv'  BY <2>1, <2>3, NoClientSteps DEF Kept
    <3>2. ModemOK'  BY <2>1, <2>3, Quiet
    <3>3. QED  BY <3>1, <3>2
  <2>4. QED  BY <1>2, <2>2, <2>3 DEF AwaitClient
<1>3. CASE Invite(t)
  <2>1. UNCHANGED <<ctl, modem, events>>  BY <1>3 DEF Invite, manager
  <2>2. End(t, 0, FALSE, TRUE) \/ Goto(t, "response") \/ Return(t)  BY <1>3 DEF Invite
  <2>3. ModemOK'  BY <2>1, <2>2, Quiet
  <2>4. QED  BY <1>3, <2>3, InviteSteps
<1>4. CASE ResponseCancelled(t)
  <2>1. ModemOK'  BY <1>4, Quiet DEF ResponseCancelled, manager
  <2>2. QED  BY <1>4, <2>1, CancelledSteps
<1>5. CASE AudioStart(t)
  <2> DEFINE x == [th[t] EXCEPT !.pc = "recheck", !.failed = TRUE]
  <2>1. x.ctl = th[t].ctl  BY Typed DEF CallsInv, Goroutines
  <2>2. UNCHANGED <<ctl, modem, events>>  BY <1>5 DEF AudioStart, manager
  <2>3. Goto(t, "recheck") \/ th' = [th EXCEPT ![t] = x]  BY <1>5 DEF AudioStart
  <2> HIDE DEF x
  <2>4. ModemOK'
    <3>1. CASE Goto(t, "recheck")  BY <2>2, <3>1, Quiet
    <3>2. CASE th' = [th EXCEPT ![t] = x]  BY <2>1, <2>2, <3>2, Quiet
    <3>3. QED  BY <2>3, <3>1, <3>2
  <2>5. QED  BY <1>5, <2>4, AudioStartSteps
<1>6. CASE AudioRecheck(t)
  <2> DEFINE x == [th[t] EXCEPT !.pc = "answering", !.ctl = ctl]
             n == IF call[th[t].c].outbound THEN th[t].c ELSE 0
  <2>1. x.ctl = ctl  BY Typed DEF CallsInv, Goroutines
  <2>2. UNCHANGED <<ctl, modem, events>>  BY <1>6 DEF AudioRecheck, manager
  <2>3. Return(t) \/ End(t, n, TRUE, TRUE) \/ th' = [th EXCEPT ![t] = x]
    BY <1>6 DEF AudioRecheck
  <2> HIDE DEF x, n
  <2>4. ModemOK'
    <3>1. CASE Return(t) \/ End(t, n, TRUE, TRUE)  BY <2>2, <3>1, Quiet
    <3>2. CASE th' = [th EXCEPT ![t] = x]  BY <2>1, <2>2, <3>2, Quiet
    <3>3. QED  BY <2>3, <3>1, <3>2
  <2>5. QED  BY <1>6, <2>4, AudioRecheckSteps
<1>7. CASE Answer(t)
  <2>1. CallsInv' /\ UNCHANGED ctl  BY <1>7, AnswerSteps DEF Answer, manager
  <2>2. CASE /\ modem.state = "in" /\ modem' = [modem EXCEPT !.state = "active"]
             /\ UNCHANGED events /\ Return(t)
    <3>1. ModemMoves  BY <2>2 DEF ModemMoves, ModemOK
    <3>2. QED  BY <2>1, <2>2, <3>1, NotedFacts, CtlFacts, ModemNoted DEF CallsInv
  <2>3. CASE End(t, 0, TRUE, TRUE) /\ UNCHANGED <<modem, events>>  BY <2>1, <2>3, Quiet
  <2>4. CASE ControllerHangup(th[t].ctl, TRUE) /\ Return(t)
    <3>1. th[t].ctl \in Nat  BY Typed DEF CallsInv
    <3>2. \E id \in Nat, ath \in BOOLEAN : ControllerHangup(id, ath)  BY <2>4, <3>1
    <3>3. QED  BY <2>1, <2>4, <3>2, Quiet
  <2>5. QED  BY <1>7, <2>2, <2>3, <2>4 DEF Answer
<1>8. QED  BY <1>1, <1>2, <1>3, <1>4, <1>5, <1>6, <1>7 DEF Inbound

\* A workflow that dials.
LEMMA OutgoingSteps ==
    ASSUME CallsInv, ModemOK, NEW t \in Threads, Outbound(t)
    PROVE  CallsInv' /\ ModemOK'
<1>1. CASE Dial(t)
  <2>1. CallsInv' /\ UNCHANGED <<ctl, events>>  BY <1>1, DialSteps DEF Dial, manager
  <2>2. CASE /\ modem' = [id |-> modem.id + 1, state |-> "out"]
             /\ th' = [th EXCEPT ![t] = [@ EXCEPT !.pc = "dialled", !.ctl = modem.id + 1]]
    <3> DEFINE x == [th[t] EXCEPT !.pc = "dialled", !.ctl = modem.id + 1]
    <3>1. modem.id \in Nat /\ \A i \in 1 .. Len(events) : events[i].id \in Nat
      <4>1. \A i \in 1 .. Len(events) : events[i] \in Events  BY DEF ModemOK
      <4>2. QED  BY <4>1 DEF ModemOK, Events
    <3>2. \A i \in 1 .. Len(events) : events[i].id <= modem.id + 1  BY <3>1 DEF ModemOK
    <3>3. ModemMoves /\ modem'.id = modem.id + 1
      BY <2>1, <2>2, <3>1, <3>2 DEF ModemMoves, ModemOK
    <3>4. x.ctl = modem.id + 1  BY Typed DEF CallsInv, Goroutines
    <3>5. th' = [th EXCEPT ![t] = x]  BY <2>2
    <3> HIDE DEF x
    <3>6. x.ctl \in 0 .. modem'.id  BY <3>1, <3>3, <3>4
    <3>7. Noted  BY <3>3, <3>5, <3>6, NotedFacts DEF CallsInv
    <3>8. QED  BY <2>1, <3>3, <3>7, CtlFacts, ModemNoted
  <2>3. CASE UNCHANGED modem /\ (Refuse(t, 500, FALSE) \/ Refuse(t, 503, FALSE))
    <3>1. End(t, th[t].c, FALSE, FALSE) \/ Return(t)  BY <2>3 DEF Refuse
    <3>2. QED  BY <2>1, <2>3, <3>1, Quiet
  <2>4. QED  BY <1>1, <2>2, <2>3 DEF Dial
<1>2. CASE Dialled(t)
  <2>1. CallsInv'  BY <1>2, DialledSteps
  <2>2. CASE ctl' = th[t].ctl /\ Goto(t, "poll") /\ UNCHANGED <<modem, events>>
    BY <2>1, <2>2, Quiet
  <2>3. CASE ControllerHangup(th[t].ctl, TRUE) /\ Return(t) /\ UNCHANGED ctl
    <3>1. th[t].ctl \in Nat  BY Typed DEF CallsInv
    <3>2. \E id \in Nat, ath \in BOOLEAN : ControllerHangup(id, ath)  BY <2>3, <3>1
    <3>3. QED  BY <2>1, <2>3, <3>2, Quiet
  <2>4. QED  BY <1>2, <2>2, <2>3 DEF Dialled
<1>3. CASE Poll(t)
  <2>1. UNCHANGED <<stopped, known, dialog, ctl, current, dialogs, modem, events>> /\ At(t, "poll")
    BY <1>3 DEF Poll
  <2>2. CASE ~callActive(th[t].c) /\ Return(t) /\ UNCHANGED <<call, state>>
    <3>1. CallsInv'  BY <2>1, <2>2, PollSteps DEF Kept
    <3>2. QED  BY <2>1, <2>2, <3>1, Quiet
  <2>3. CASE Refuse(t, 408, TRUE) /\ UNCHANGED state
    <3>1. CallsInv'  BY <2>1, <2>3, PollSteps DEF Kept
    <3>2. End(t, th[t].c, FALSE, TRUE) \/ Return(t)  BY <2>3 DEF Refuse
    <3>3. QED  BY <2>1, <3>1, <3>2, Quiet
  <2>4. CASE callActive(th[t].c) /\ state' = "connected" /\ Goto(t, "ok") /\ UNCHANGED call
    <3>1. CallsInv'  BY <2>1, <2>4, ConnectedSteps DEF callActive
    <3>2. QED  BY <2>1, <2>4, <3>1, Quiet
  <2>5. QED  BY <1>3, <2>2, <2>3, <2>4 DEF Poll
<1>4. CASE RespondOK(t)
  <2>1. UNCHANGED <<ctl, modem, events>> /\ (Goto(t, "audio") \/ Return(t))
    BY <1>4 DEF RespondOK, manager
  <2>2. QED  BY <1>4, <2>1, Quiet, RespondOKSteps
<1>5. QED  BY <1>1, <1>2, <1>3, <1>4 DEF Outbound

\* The client answers, or does not.
LEMMA ResponseSteps ==
    ASSUME CallsInv, ModemOK, NEW t \in Threads, ClientResponds(t)
    PROVE  CallsInv' /\ ModemOK'
<1>1. /\ UNCHANGED <<stopped, known, dialog, ctl, current, call, dialogs, modem, events>>
      /\ At(t, "response")
  BY DEF ClientResponds
<1>2. CASE End(t, 0, FALSE, TRUE) /\ UNCHANGED state
  BY <1>1, <1>2, Quiet, RefusedSteps DEF Kept
<1>3. CASE End(t, 0, TRUE, TRUE) /\ UNCHANGED state
  BY <1>1, <1>3, Quiet, RefusedSteps DEF Kept
<1>4. CASE ~(RingingFor(t) /\ current = th[t].c) /\ Return(t) /\ UNCHANGED state
  BY <1>1, <1>4, Quiet, RefusedSteps DEF Kept
<1>5. CASE RingingFor(t) /\ state' = "connected" /\ Goto(t, "audio")
  <2>1. CallsInv'  BY <1>1, <1>5, ConnectedSteps DEF RingingFor
  <2>2. QED  BY <1>1, <1>5, <2>1, Quiet
<1>6. QED  BY <1>2, <1>3, <1>4, <1>5 DEF ClientResponds

\* The monitor exits or launches a workflow.
LEMMA ControlSteps ==
    ASSUME CallsInv, ModemOK, MonitorExits \/ LaunchWorkflow
    PROVE  CallsInv' /\ ModemOK'
<1>1. Monitor \in Threads /\ Workflows \subseteq Threads  BY DEF Threads
<1>2. UNCHANGED <<ctl, modem, events>>  BY DEF MonitorExits, LaunchWorkflow, manager
<1>3. ModemMoves  BY <1>2, HangupFacts
<1>4. CASE MonitorExits
  <2>1. CallsInv'  BY <1>4, MonitorSteps DEF MonitorExits
  <2>2. QED  BY <1>1, <1>2, <1>4, <2>1, Quiet DEF MonitorExits
<1>5. CASE LaunchWorkflow
  <2>1. Idle.ctl = 0 /\ \A pc, d : Starting(pc, 0, d).ctl = 0  BY DEF Idle, Starting
  <2>2. ASSUME NEW pc, NEW d, Launch(pc, d) PROVE Noted
    <3>1. CASE th' = [th EXCEPT ![Monitor] = Idle]
      BY <1>1, <1>3, <2>1, <3>1, CtlFacts DEF CallsInv, ThreadsOK, Noted
    <3>2. ASSUME NEW w \in Workflows,
                 th' = [th EXCEPT ![Monitor] = Idle, ![w] = Starting(pc, 0, d)]
          PROVE  Noted
      BY <1>1, <1>3, <2>1, <3>2, CtlFacts DEF CallsInv, ThreadsOK, Noted
    <3>3. QED  BY <2>2, <3>1, <3>2 DEF Launch
  <2>3. Noted  BY <1>5, <2>2 DEF LaunchWorkflow
  <2>4. QED  BY <1>2, <1>3, <1>5, <2>3, CtlFacts, ModemNoted, LaunchSteps
<1>6. QED  BY <1>4, <1>5

\* Stop begins, or goes on to its second clean-up.
LEMMA StopperSteps ==
    ASSUME CallsInv, ModemOK, StopBegin \/ StopWaits
    PROVE  CallsInv' /\ ModemOK'
<1>1. Stopper \in Threads  BY DEF Threads
<1>2. CASE StopBegin
  <2>1. UNCHANGED <<ctl, modem, events>> /\ End(Stopper, 0, TRUE, TRUE)  BY <1>2 DEF StopBegin
  <2>2. QED  BY <1>1, <1>2, <2>1, Quiet, StopBeginSteps
<1>3. CASE StopWaits
  <2> DEFINE x == [th[Stopper] EXCEPT !.pc = "end", !.signal = TRUE, !.ath = TRUE,
                                      !.atStop = TRUE]
  <2>1. x.ctl = th[Stopper].ctl  BY <1>1, Typed DEF CallsInv, Goroutines
  <2>2. UNCHANGED <<ctl, modem, events>> /\ th' = [th EXCEPT ![Stopper] = x]
    BY <1>3 DEF StopWaits, manager
  <2> HIDE DEF x
  <2>3. QED  BY <1>1, <1>3, <2>1, <2>2, Quiet, StopSteps
<1>4. QED  BY <1>2, <1>3

\* A client dials out, or ends the call.
LEMMA ClientSteps ==
    ASSUME CallsInv, ModemOK, NEW t \in Threads, OutboundInvite(t) \/ ClientEnds(t)
    PROVE  CallsInv' /\ ModemOK'
<1>1. CASE OutboundInvite(t)
  <2> DEFINE x == Starting("dial", Len(call'), dialogs')
  <2>1. x.ctl = 0  BY DEF Starting, Idle
  <2>2. UNCHANGED <<ctl, modem, events>> /\ th' = [th EXCEPT ![t] = x]
    BY <1>1 DEF OutboundInvite
  <2> HIDE DEF x
  <2>3. QED  BY <1>1, <2>1, <2>2, Quiet, OutboundSteps
<1>2. CASE ClientEnds(t)
  <2>1. UNCHANGED <<ctl, modem, events>> /\ End(t, 0, FALSE, TRUE)
    BY <1>2 DEF ClientEnds, manager
  <2>2. QED  BY <1>2, <2>1, Quiet, ClientEndsSteps
<1>3. QED  BY <1>1, <1>2

-----------------------------------------------------------------------------
(* Theorems                                                                *)

\* Every step of the manager's goroutines, the modem and the clients keeps the invariant.
THEOREM Inductive == IInv /\ [Next]_vars => IInv'
<1> SUFFICES ASSUME CallsInv, ModemOK, [Next]_vars PROVE CallsInv' /\ ModemOK'
  BY DEF IInv
<1>1. CASE UNCHANGED vars
  <2>1. Kept /\ UNCHANGED <<ctl, call, th, modem, events>>  BY <1>1 DEF vars, manager, Kept
  <2>2. ModemMoves /\ Noted  BY <2>1, HangupFacts, CtlFacts DEF Noted
  <2>3. QED  BY <2>1, <2>2, SameInv, CtlFacts, ModemNoted
<1>2. CASE Network  BY <1>2, NetworkSteps
<1>3. CASE Controlled  BY <1>3, EventSteps, ControlSteps DEF Controlled
<1>4. CASE StopBegin \/ StopWaits  BY <1>4, StopperSteps
<1>5. ASSUME NEW t \in Threads,
             \/ EndCall(t) \/ Inbound(t) \/ Outbound(t)
             \/ OutboundInvite(t) \/ ClientResponds(t) \/ ClientEnds(t)
      PROVE  CallsInv' /\ ModemOK'
  BY <1>5, EndCallSteps, InboundSteps, OutgoingSteps, ClientSteps, ResponseSteps
<1>6. QED  BY <1>1, <1>2, <1>3, <1>4, <1>5 DEF Next

\* The inductive invariant holds throughout.
THEOREM Invariant == Spec => []IInv
<1>1. QED  BY InitIInv, Inductive, PTL DEF Spec

\* TypeOK: every variable has its type, whatever the numbers of goroutines and calls.
THEOREM TypeCorrect == Spec => []TypeOK
<1>1. IInv => TypeOK
  <2> SUFFICES ASSUME IInv PROVE TypeOK
    OBVIOUS
  <2>1. ManagerOK /\ CallsOK /\ ModemOK /\ ThreadsOK  BY DEF IInv, CallsInv
  <2>2. dialog \in 0 .. MaxDialogs
    <3>1. MaxDialogs \in {MaxDialogs, MaxCalls, MaxModemCalls, QueueLength}  OBVIOUS
    <3>2. MaxDialogs \in Nat  BY <3>1, CallAssumption
    <3>3. QED  BY <2>1, <3>2 DEF ManagerOK
  <2>3. \A c \in Calls : /\ call[c].audio \in {"none", "open", "running", "stopped"}
                         /\ call[c].final \in {0, 200, 408, 500, 503}
    <3>1. \A c \in Calls : call[c] \in CSCalls  BY <2>1 DEF CallsOK, Calls
    <3>2. QED  BY <3>1 DEF CSCalls, Finals
  <2>4. /\ modem.id \in Nat /\ modem.state \in {"none", "in", "out", "active"}
        /\ ctl \in 0 .. modem.id
    BY <2>1 DEF ModemOK
  <2>5. QED  BY <2>1, <2>2, <2>3, <2>4 DEF TypeOK, ManagerOK, CallsOK, ThreadsOK
<1>2. QED  BY <1>1, Invariant, PTL

\* RunningAudioHasOwner: the bridge of a call that is not the current one is about to be stopped,
\* by who took the call or by the startCallAudio that still looks at it again.
THEOREM AudioHasOwner == Spec => []RunningAudioHasOwner
<1>1. IInv => RunningAudioHasOwner  BY DEF IInv, CallsInv
<1>2. QED  BY <1>1, Invariant, PTL

\* SetupHasWorkflow: a call that rings or is dialled has a goroutine at work on it, or on its end.
THEOREM SetupIsWorkedOn == Spec => []SetupHasWorkflow
<1>1. IInv => SetupHasWorkflow
  <2> SUFFICES ASSUME IInv, state \in {"ringing", "dialing"} PROVE SetupHasWorkflow
    BY DEF SetupHasWorkflow
  <2> USE DEF IInv, CallsInv
  <2>1. Stopper \in Threads  BY DEF Threads
  <2>2. Ending => SetupHasWorkflow  BY DEF Ending, SetupHasWorkflow
  <2>3. CASE stopped  BY <2>1, <2>2, <2>3 DEF StopEnds, Ending
  <2>4. CASE ~stopped /\ state = "ringing"
    BY <2>2, <2>4 DEF RingingHasWorkflow, SetupHasWorkflow, OnDialog, Ringing, At
  <2>5. CASE ~stopped /\ state = "dialing"
    BY <2>2, <2>5 DEF DialingHasWorkflow, SetupHasWorkflow, OnDialog, Dialing, At
  <2>6. QED  BY <2>3, <2>4, <2>5
<1>2. QED  BY <1>1, Invariant, PTL

\* AnsweredGetsBye: a client that got 200, and whose call the network or Stop ended, gets BYE.
THEOREM AnsweredIsTold == Spec => []AnsweredGetsBye
<1>1. IInv => AnsweredGetsBye  BY DEF IInv, CallsInv
<1>2. QED  BY <1>1, Invariant, PTL

(***************************************************************************)
(* The manager implements ClientCall.                                      *)
(***************************************************************************)

\* Whoever cleans a call up is alone in that, and does it once.
TakenOnce ==
    \A t \in Threads : At(t, "cleanup") /\ th[t].taken # 0 =>
        /\ ~call[th[t].taken].cancelled
        /\ \A s \in Threads : At(s, "cleanup") /\ th[s].taken = th[t].taken => s = t

\* The audio of a call that was cleaned up is not opened again.
EndedIsSilent == \A c \in Calls : call[c].cancelled => call[c].audio \in {"none", "stopped"}

\* What a workflow knows of its own call.
OwnCallIs(t) ==
    /\ At(t, "audio") /\ call[th[t].c].outbound => call[th[t].c].final = 200
    /\ At(t, "dial") => call[th[t].c].audio = "none"
    /\ th[t].pc \in Ringing => ~call[th[t].c].outbound
OwnCalls == \A t \in Threads : OwnCallIs(t)

Bounded == Len(call) <= MaxCalls
ClientInv == Bounded /\ TakenOnce /\ EndedIsSilent /\ OwnCalls
ClientStep == ClientInv' /\ [Client!Next]_View

\* Places to which nothing that ClientInv says belongs.
Elsewhere == {"idle", "end", "wait", "returned", "exited", "timer", "init", "launch", "launchTimer",
              "recheck", "answering", "dialled", "poll", "ok"}
Turn(t, x) == t \in Threads /\ th' = [th EXCEPT ![t] = x]
Becomes(c, r) == call' = [call EXCEPT ![c] = r]
Sends(c, status) == Becomes(c, [call[c] EXCEPT !.final = status])
Statuses == {200, 408, 500, 503}

\* One goroutine moves.
LEMMA TurnFacts ==
    ASSUME ThreadsOK, NEW t, NEW x, Turn(t, x)
    PROVE  th'[t] = x /\ \A s \in Threads : s # t => th'[s] = th[s]
BY DEF ThreadsOK, Turn

\* As long as nothing happens to the calls, their clients see nothing.
LEMMA NothingSeen == UNCHANGED call => UNCHANGED View
BY DEF View, Seen

\* The call to which something happens is the only one that looks different.
LEMMA OneSeen ==
    ASSUME CallsOK, Bounded, NEW c \in Calls, NEW r, Becomes(c, r)
    PROVE  /\ c \in 1 .. MaxCalls /\ View[c] = Seen(call[c])
           /\ View' = [View EXCEPT ![c] = Seen(r)]
           /\ Len(call') = Len(call) /\ Calls' = Calls /\ call'[c] = r
           /\ \A d \in Calls : d # c => call'[d] = call[d]
<1>1. /\ Len(call') = Len(call) /\ call'[c] = r
      /\ \A d \in Calls : d # c => call'[d] = call[d]
  BY DEF CallsOK, Calls, Becomes
<1>2. Len(call) \in Nat /\ MaxCalls \in Nat
  <2>1. MaxCalls \in {MaxDialogs, MaxCalls, MaxModemCalls, QueueLength}  OBVIOUS
  <2>2. QED  BY <2>1, CallAssumption DEF CallsOK
<1>3. c \in 1 .. MaxCalls /\ c <= Len(call)  BY <1>2 DEF Bounded, Calls
<1>4. View[c] = Seen(call[c])  BY <1>3 DEF View
<1>5. View' = [View EXCEPT ![c] = Seen(r)]
  <2>1. \A d \in 1 .. MaxCalls : d # c /\ d <= Len(call) => call'[d] = call[d]
    BY <1>1, <1>2 DEF Calls
  <2>2. \A d \in 1 .. MaxCalls : View'[d] = IF d = c THEN Seen(r) ELSE View[d]
    BY <1>1, <1>3, <2>1 DEF View, Seen
  <2>3. View' = [d \in 1 .. MaxCalls |-> IF d = c THEN Seen(r) ELSE View[d]]
    BY <2>2 DEF View
  <2>4. QED  BY <2>3 DEF View
<1>6. QED  BY <1>1, <1>3, <1>4, <1>5 DEF Calls

\* A call that is made was not there before.
LEMMA NewSeen ==
    ASSUME CallsOK, Len(call) < MaxCalls, NEW r, call' = Append(call, r)
    PROVE  /\ Len(call) + 1 \in 1 .. MaxCalls /\ View[Len(call) + 1] = Client!NotMade
           /\ View' = [View EXCEPT ![Len(call) + 1] = Seen(r)]
           /\ Len(call') = Len(call) + 1 /\ call'[Len(call')] = r
           /\ Calls' = Calls \cup {Len(call')} /\ Len(call') \notin Calls
           /\ \A d \in Calls : call'[d] = call[d]
<1>1. Len(call) \in Nat /\ MaxCalls \in Nat
  <2>1. MaxCalls \in {MaxDialogs, MaxCalls, MaxModemCalls, QueueLength}  OBVIOUS
  <2>2. QED  BY <2>1, CallAssumption DEF CallsOK
<1>2. /\ Len(call') = Len(call) + 1 /\ call'[Len(call) + 1] = r
      /\ \A d \in 1 .. Len(call) : call'[d] = call[d]
  BY DEF CallsOK
<1>3. Len(call) + 1 \in 1 .. MaxCalls /\ ~(Len(call) + 1 <= Len(call))  BY <1>1
<1>4. View[Len(call) + 1] = Client!NotMade  BY <1>3 DEF View, Client!NotMade
<1>5. View' = [View EXCEPT ![Len(call) + 1] = Seen(r)]
  <2>1. \A d \in 1 .. MaxCalls : d # Len(call) + 1 => (d <= Len(call') <=> d <= Len(call))
    BY <1>1, <1>2
  <2>2. \A d \in 1 .. MaxCalls : View'[d] = IF d = Len(call) + 1 THEN Seen(r) ELSE View[d]
    BY <1>1, <1>2, <2>1 DEF View, Seen
  <2>3. View' = [d \in 1 .. MaxCalls |-> IF d = Len(call) + 1 THEN Seen(r) ELSE View[d]]
    BY <2>2 DEF View
  <2>4. QED  BY <2>3 DEF View
<1>6. Calls' = Calls \cup {Len(call')} /\ Len(call') \notin Calls  BY <1>1, <1>2 DEF Calls
<1>7. QED  BY <1>1, <1>2, <1>3, <1>4, <1>5, <1>6 DEF Calls

\* A call goes from one stage to the next.
LEMMA SeenStep ==
    ASSUME NEW c \in 1 .. MaxCalls,
           \/ Client!Place(c) \/ Client!Ring(c) \/ Client!Respond(c) \/ Client!OpenBridge(c)
           \/ Client!Talk(c) \/ Client!Silence(c) \/ Client!Finish(c)
    PROVE  [Client!Next]_View
BY DEF Client!Next

-----------------------------------------------------------------------------

\* Nothing that a client sees happens, and nobody gets where ClientInv says something of him.
LEMMA QuietSteps ==
    ASSUME ClientInv, UNCHANGED call,
           \A s \in Threads : th'[s] = th[s] \/ th'[s].pc \in Elsewhere
    PROVE  ClientStep
<1>1. Bounded' /\ EndedIsSilent'  BY DEF ClientInv, Bounded, EndedIsSilent, Calls
<1>2. TakenOnce'
  <2>1. \A s \in Threads : th'[s].pc = "cleanup" => th'[s] = th[s]  BY DEF Elsewhere
  <2>2. QED  BY <2>1 DEF ClientInv, TakenOnce, At
<1>3. OwnCalls'
  <2>1. \A s \in Threads : th'[s].pc \in {"audio", "dial"} \cup Ringing => th'[s] = th[s]
    BY DEF Elsewhere, Ringing
  <2>2. QED  BY <2>1 DEF ClientInv, OwnCalls, OwnCallIs, At
<1>4. QED  BY <1>1, <1>2, <1>3, NothingSeen DEF ClientInv, ClientStep

\* One goroutine gets elsewhere.
LEMMA QuietTurns ==
    ASSUME ThreadsOK, ClientInv, UNCHANGED call, NEW t, NEW x, Turn(t, x),
           x = th[t] \/ x.pc \in Elsewhere
    PROVE  ClientStep
<1>1. \A s \in Threads : th'[s] = th[s] \/ th'[s].pc \in Elsewhere  BY TurnFacts
<1>2. QED  BY <1>1, QuietSteps

\* The client's INVITE goes out, or its answer comes in: an incoming call goes on.
LEMMA InviteTurns ==
    ASSUME CallsInv, ClientInv, UNCHANGED call, NEW t, NEW x, Turn(t, x),
           th[t].pc \in Ringing, x.pc \in {"response", "audio"}, x.c = th[t].c
    PROVE  ClientStep
<1> USE TurnFacts DEF CallsInv
<1>1. Bounded' /\ EndedIsSilent'  BY DEF ClientInv, Bounded, EndedIsSilent, Calls
<1>2. TakenOnce'
  <2>1. \A s \in Threads : th'[s].pc = "cleanup" => s # t /\ th'[s] = th[s]  OBVIOUS
  <2>2. QED  BY <2>1 DEF ClientInv, TakenOnce, At
<1>3. OwnCalls'
  <2>1. OwnCallIs(t)'
    <3>1. ~call[th[t].c].outbound  BY DEF ClientInv, OwnCalls, OwnCallIs, Turn
    <3>2. QED  BY <3>1 DEF OwnCallIs, At
  <2>2. ASSUME NEW s \in Threads, s # t PROVE OwnCallIs(s)'
    BY <2>2 DEF ClientInv, OwnCalls, OwnCallIs, At
  <2>3. QED  BY <2>1, <2>2 DEF OwnCalls
<1>4. QED  BY <1>1, <1>2, <1>3, NothingSeen DEF ClientInv, ClientStep

\* Whoever takes the call from the manager is the only one that has it.
LEMMA TakeTurns ==
    ASSUME CallsInv, ClientInv, NEW t, NEW x, Turn(t, x), x.pc = "cleanup", x.taken = current,
           \/ UNCHANGED call
           \/ \E b : current # 0 /\ call' = [call EXCEPT ![current] = [@ EXCEPT !.signalled = b]]
    PROVE  ClientStep
<1> USE TurnFacts DEF CallsInv
<1>0. Len(call) \in Nat /\ current \in 0 .. Len(call) /\ (current # 0 => current \in Calls)
  BY DEF CallsOK, Calls
<1> DEFINE Same ==
        /\ Len(call') = Len(call)
        /\ \A d \in Calls :
              /\ call'[d].cancelled = call[d].cancelled /\ call'[d].final = call[d].final
              /\ call'[d].audio = call[d].audio /\ call'[d].outbound = call[d].outbound
              /\ call'[d].bye = call[d].bye
<1>1. Same
  <2>1. CASE UNCHANGED call  BY <2>1
  <2>2. ASSUME NEW b, current # 0, call' = [call EXCEPT ![current] = [@ EXCEPT !.signalled = b]]
        PROVE  Same
    <3>1. call[current] \in CSCalls  BY <1>0, <2>2 DEF CallsOK
    <3>2. Len(call') = Len(call) /\ \A d \in Calls : d # current => call'[d] = call[d]
      BY <1>0, <2>2 DEF CallsOK, Calls
    <3>3. call'[current] = [call[current] EXCEPT !.signalled = b]
      BY <1>0, <2>2 DEF CallsOK, Calls
    <3>4. /\ call'[current].cancelled = call[current].cancelled
          /\ call'[current].final = call[current].final
          /\ call'[current].audio = call[current].audio
          /\ call'[current].outbound = call[current].outbound
          /\ call'[current].bye = call[current].bye
      BY <3>1, <3>3 DEF CSCalls
    <3>5. QED  BY <3>2, <3>4
  <2>3. QED  BY <2>1, <2>2
<1>2. UNCHANGED View
  <2>1. \A d \in 1 .. MaxCalls : d <= Len(call) => d \in Calls
    <3>1. MaxCalls \in {MaxDialogs, MaxCalls, MaxModemCalls, QueueLength}  OBVIOUS
    <3>2. MaxCalls \in Nat  BY <3>1, CallAssumption
    <3>3. QED  BY <1>0, <3>2 DEF Calls
  <2>2. QED  BY <1>1, <2>1 DEF View, Seen
<1>3. Bounded' /\ EndedIsSilent'  BY <1>1 DEF ClientInv, Bounded, EndedIsSilent, Calls
<1>4. TakenOnce'
  <2>1. \A s \in Threads : s # t /\ At(s, "cleanup") /\ th[s].taken # 0 => th[s].taken # current
    BY DEF CurrentIsUntouched
  <2>2. \A s \in Threads : th[s].taken # 0 => th[s].taken \in Calls
    BY <1>0 DEF NumbersOK, Numbers, Calls
  <2>3. current # 0 => ~call[current].cancelled  BY DEF CurrentIsUntouched
  <2>4. QED  BY <1>0, <1>1, <2>1, <2>2, <2>3 DEF ClientInv, TakenOnce, At
<1>5. OwnCalls'
  <2>1. OwnCallIs(t)'  BY DEF OwnCallIs, At, Ringing
  <2>2. ASSUME NEW s \in Threads, s # t PROVE OwnCallIs(s)'
    <3>1. th[s].pc \in {"audio", "dial"} \cup Ringing => th[s].c \in Calls
      BY OwnCall DEF Outgoing, Dialing, Bridging
    <3>2. QED  BY <1>1, <2>2, <3>1 DEF ClientInv, OwnCalls, OwnCallIs, At
  <2>3. QED  BY <2>1, <2>2 DEF OwnCalls
<1>6. QED  BY <1>2, <1>3, <1>4, <1>5 DEF ClientInv, ClientStep

\* A workflow does something to its own call, and gets elsewhere or goes on with a call that got
\* 200.
LEMMA OwnTurns ==
    ASSUME CallsInv, ClientInv, NEW t, NEW x, Turn(t, x), NEW c \in Calls, th[t].c = c,
           NEW r, Becomes(c, r),
           r.outbound = call[c].outbound, r.cancelled = call[c].cancelled,
           r.cancelled => r.audio \in {"none", "stopped"},
           x.pc \in Elsewhere \/ (x.pc = "audio" /\ x.c = c /\ r.final = 200)
    PROVE  ClientInv'
<1>0. t \in Threads /\ c # 0 /\ CallsOK /\ Bounded /\ ThreadsOK /\ NumbersOK
  BY DEF Turn, Calls, CallsInv, ClientInv
<1>1. /\ Len(call') = Len(call) /\ Calls' = Calls /\ call'[c] = r
      /\ \A d \in Calls : d # c => call'[d] = call[d]
  BY <1>0, OneSeen
<1>t. th'[t] = x /\ \A s \in Threads : s # t => th'[s] = th[s]  BY <1>0, TurnFacts
<1>2. Bounded' /\ EndedIsSilent'
  BY <1>1 DEF ClientInv, Bounded, EndedIsSilent
<1>3. TakenOnce'
  <2>1. \A d \in Calls : call'[d].cancelled = call[d].cancelled  BY <1>1
  <2>2. \A s \in Threads : th[s].taken # 0 => th[s].taken \in Calls
    BY <1>0 DEF NumbersOK, Numbers, Calls, CallsOK
  <2>3. \A s \in Threads : th'[s].pc = "cleanup" => s # t /\ th'[s] = th[s]
    BY <1>t DEF Elsewhere
  <2>4. QED  BY <2>1, <2>2, <2>3 DEF ClientInv, TakenOnce, At
<1>4. OwnCalls'
  <2>1. OwnCallIs(t)'  BY <1>1, <1>t DEF OwnCallIs, At, Elsewhere, Ringing
  <2>2. ASSUME NEW s \in Threads, s # t PROVE OwnCallIs(s)'
    <3>1. th[s].pc \in {"audio", "dial"} \cup Ringing => th[s].c \in Calls /\ th[s].c # 0
      BY <1>0, OwnCall DEF Outgoing, Dialing, Bridging, Calls, CallsInv
    <3>2. th[s].pc \in {"audio", "dial"} \cup Ringing => th[s].c # c
      BY <1>0, <2>2, <3>1 DEF CallsApart, CallsInv
    <3>3. th'[s] = th[s]  BY <1>t, <2>2
    <3>4. QED  BY <1>1, <3>1, <3>2, <3>3 DEF ClientInv, OwnCalls, OwnCallIs, At
  <2>3. QED  BY <2>1, <2>2 DEF OwnCalls
<1>5. QED  BY <1>2, <1>3, <1>4 DEF ClientInv

\* A workflow stops the bridge of its call.
LEMMA StopAudioTurns ==
    ASSUME CallsInv, ClientInv, NEW t, NEW x, Turn(t, x), NEW c \in Calls, th[t].c = c,
           x.pc \in Elsewhere, Becomes(c, [call[c] EXCEPT !.audio = "stopped"])
    PROVE  ClientStep
<1> DEFINE r == [call[c] EXCEPT !.audio = "stopped"]
<1>1. call[c] \in CSCalls  BY DEF CallsOK, Calls, CallsInv
<1>2. /\ r.outbound = call[c].outbound /\ r.cancelled = call[c].cancelled
      /\ r.audio = "stopped" /\ Seen(r) = [Seen(call[c]) EXCEPT !.audio = "stopped"]
  BY <1>1 DEF CSCalls, Seen
<1>3. Becomes(c, r)  OBVIOUS
<1> HIDE DEF r
<1>4. ClientInv'  BY <1>2, <1>3, OwnTurns
<1>5. c \in 1 .. MaxCalls /\ View[c] = Seen(call[c]) /\ View' = [View EXCEPT ![c] = Seen(r)]
  BY <1>3, OneSeen DEF ClientInv, CallsInv
<1>6. View[c].stage # "none"  BY <1>5 DEF Seen
<1>7. Client!Silence(c)  BY <1>2, <1>5, <1>6 DEF Client!Silence, Client!Become
<1>8. QED  BY <1>4, <1>5, <1>7, SeenStep DEF ClientStep

\* A workflow starts the bridge of its call, which Start refuses once it was stopped.
LEMMA StartAudioTurns ==
    ASSUME CallsInv, ClientInv, NEW t, NEW x, Turn(t, x), NEW c \in Calls, th[t].c = c,
           At(t, "audio"), x.pc = "recheck", call[c].audio = "open",
           Becomes(c, [call[c] EXCEPT !.audio = "running"])
    PROVE  ClientStep
<1> DEFINE r == [call[c] EXCEPT !.audio = "running"]
<1>0. call[c] \in CSCalls /\ t \in Threads  BY DEF CallsOK, Calls, CallsInv, Turn
<1>1. call[c].cancelled = FALSE /\ (call[c].outbound => call[c].final = 200)
  BY <1>0 DEF ClientInv, EndedIsSilent, OwnCalls, OwnCallIs, CSCalls
<1>2. /\ r.outbound = call[c].outbound /\ r.cancelled = FALSE
      /\ Seen(r) = [Seen(call[c]) EXCEPT !.audio = "running"]
  BY <1>0, <1>1 DEF CSCalls, Seen
<1>3. Becomes(c, r)  OBVIOUS
<1> HIDE DEF r
<1>4. ClientInv'
  <2>1. x.pc \in Elsewhere /\ ~r.cancelled /\ r.cancelled = call[c].cancelled
    BY <1>1, <1>2 DEF Elsewhere
  <2>2. QED  BY <1>2, <1>3, <2>1, OwnTurns
<1>5. c \in 1 .. MaxCalls /\ View[c] = Seen(call[c]) /\ View' = [View EXCEPT ![c] = Seen(r)]
  BY <1>3, OneSeen DEF ClientInv, CallsInv
<1>6. /\ View[c].stage = "up" /\ View[c].audio = "open"
      /\ View[c].outbound => View[c].final = 200
  BY <1>1, <1>5 DEF Seen
<1>7. Client!Talk(c)  BY <1>2, <1>5, <1>6 DEF Client!Talk, Client!Become, Client!Up
<1>8. QED  BY <1>4, <1>5, <1>7, SeenStep DEF ClientStep

\* The workflow that dials opens a bridge for the current call.
LEMMA OpenTurns ==
    ASSUME CallsInv, ClientInv, NEW t, NEW x, Turn(t, x), NEW c \in Calls, th[t].c = c,
           At(t, "dial"), x.pc = "dialled", current = c,
           Becomes(c, [call[c] EXCEPT !.audio = "open"])
    PROVE  ClientStep
<1> DEFINE r == [call[c] EXCEPT !.audio = "open"]
<1>0. call[c] \in CSCalls /\ t \in Threads /\ c # 0
  BY DEF CallsOK, Calls, CallsInv, Turn
<1>1. call[c].cancelled = FALSE /\ call[c].audio = "none"
  BY <1>0 DEF CurrentIsUntouched, ClientInv, CallsInv, OwnCalls, OwnCallIs, CSCalls
<1>2. /\ r.outbound = call[c].outbound /\ r.cancelled = FALSE
      /\ Seen(r) = [Seen(call[c]) EXCEPT !.audio = "open"]
  BY <1>0, <1>1 DEF CSCalls, Seen
<1>3. Becomes(c, r)  OBVIOUS
<1> HIDE DEF r
<1>4. ClientInv'
  <2>1. x.pc \in Elsewhere /\ ~r.cancelled /\ r.cancelled = call[c].cancelled
    BY <1>1, <1>2 DEF Elsewhere
  <2>2. QED  BY <1>2, <1>3, <2>1, OwnTurns
<1>5. c \in 1 .. MaxCalls /\ View[c] = Seen(call[c]) /\ View' = [View EXCEPT ![c] = Seen(r)]
  BY <1>3, OneSeen DEF ClientInv, CallsInv
<1>6. View[c].stage = "up" /\ View[c].audio = "none"  BY <1>1, <1>5 DEF Seen
<1>7. Client!OpenBridge(c)
  BY <1>2, <1>5, <1>6 DEF Client!OpenBridge, Client!Become, Client!Up
<1>8. QED  BY <1>4, <1>5, <1>7, SeenStep DEF ClientStep

\* A workflow sends the final response to the INVITE of its call while that is the current one.
LEMMA RespondTurns ==
    ASSUME CallsInv, ClientInv, NEW t, NEW x, Turn(t, x), NEW c \in Calls, th[t].c = c,
           th[t].pc \in Outgoing, current = c, call[c].final = 0,
           NEW status \in Statuses, Sends(c, status),
           x.pc \in Elsewhere \/ (x.pc = "audio" /\ x.c = c /\ status = 200)
    PROVE  ClientStep
<1> DEFINE r == [call[c] EXCEPT !.final = status]
<1>0. call[c] \in CSCalls /\ t \in Threads /\ c # 0
  BY DEF CallsOK, Calls, CallsInv, Turn
<1>1. call[c].cancelled = FALSE /\ call[c].outbound = TRUE
  BY <1>0 DEF CurrentIsUntouched, CallsInv, NumbersOK, Numbers, CSCalls
<1>2. /\ r.outbound = call[c].outbound /\ ~r.cancelled /\ r.cancelled = call[c].cancelled
      /\ r.final = status /\ Seen(r) = [Seen(call[c]) EXCEPT !.final = status]
  BY <1>0, <1>1 DEF CSCalls, Seen
<1>3. Becomes(c, r)  BY DEF Sends
<1> HIDE DEF r
<1>4. ClientInv'  BY <1>2, <1>3, OwnTurns
<1>5. c \in 1 .. MaxCalls /\ View[c] = Seen(call[c]) /\ View' = [View EXCEPT ![c] = Seen(r)]
  BY <1>3, OneSeen DEF ClientInv, CallsInv
<1>6. View[c].stage = "up" /\ View[c].outbound /\ View[c].final = 0  BY <1>1, <1>5 DEF Seen
<1>7. View' = [View EXCEPT ![c] = [View[c] EXCEPT !.final = status]]  BY <1>2, <1>5
<1>8. Client!Respond(c)
  <2> DEFINE Sent(a) == Client!Become(c, [View[c] EXCEPT !.final = a])
  <2>1. Sent(status)  BY <1>7 DEF Client!Become
  <2> HIDE DEF Sent
  <2>2. \E a \in {200, 408, 500, 503} : Sent(a)  BY <2>1 DEF Statuses
  <2>3. QED  BY <1>6, <2>2 DEF Client!Respond, Client!Up, Sent
<1>9. QED  BY <1>4, <1>5, <1>8, SeenStep DEF ClientStep

\* What a step of one goroutine that disturbs one call has to respect.
OthersStay(t) == \A s \in Threads : s # t => th'[s] = th[s]
OtherCallsStay(c) == \A d \in Calls : d # c => call'[d] = call[d]
LEMMA ClientKept ==
    ASSUME CallsInv, ClientInv, NEW t \in Threads, NEW c, OthersStay(t), OtherCallsStay(c),
           th'[t].pc # "cleanup", OwnCallIs(t)', Bounded', EndedIsSilent',
           \A s \in Threads : s # t /\ At(s, "cleanup") => th[s].taken # c,
           \A s \in Threads : s # t /\ th[s].c = c => OwnCallIs(s)'
    PROVE  ClientInv'
<1>1. TakenOnce'
  <2>1. \A s \in Threads : th[s].taken # 0 => th[s].taken \in Calls
    BY DEF CallsInv, NumbersOK, Numbers, Calls, CallsOK
  <2>2. \A s \in Threads : th'[s].pc = "cleanup" => s # t /\ th'[s] = th[s] /\ At(s, "cleanup")
    BY DEF OthersStay, At
  <2>3. QED  BY <2>1, <2>2 DEF ClientInv, TakenOnce, At, OtherCallsStay
<1>2. OwnCalls'
  <2>1. ASSUME NEW s \in Threads, s # t, th[s].c # c PROVE OwnCallIs(s)'
    <3>1. th[s].pc \in {"audio", "dial"} \cup Ringing => call'[th[s].c] = call[th[s].c]
      BY <2>1, OwnCall DEF Outgoing, Dialing, Bridging, CallsInv, OtherCallsStay
    <3>2. th'[s] = th[s] /\ OwnCallIs(s)  BY <2>1 DEF ClientInv, OwnCalls, OthersStay
    <3>3. QED  BY <3>1, <3>2 DEF OwnCallIs, At
  <2>2. QED  BY <2>1 DEF OwnCalls
<1>3. QED  BY <1>1, <1>2 DEF ClientInv

\* What the client sees of a call that is made.
LEMMA MadeSeen ==
    /\ Seen(NewCall(TRUE)) = Client!Made(TRUE, "none")
    /\ Seen([NewCall(FALSE) EXCEPT !.audio = "open"]) = Client!Made(FALSE, "open")
BY NewCallFacts DEF Seen, Client!Made

\* The call that was taken is cleaned up: its client may be told, its audio is stopped.
LEMMA CleanTurns ==
    ASSUME CallsInv, ClientInv, NEW t, NEW x, Turn(t, x), At(t, "cleanup"), x.pc \in Elsewhere,
           NEW c \in Calls, th[t].taken = c,
           Becomes(c, CleanedUp(t, call[c], Stopping(call[c].audio)))
    PROVE  ClientStep
<1> DEFINE r == CleanedUp(t, call[c], Stopping(call[c].audio))
<1>0. /\ call[c] \in CSCalls /\ t \in Threads /\ c # 0 /\ th[t].signal \in BOOLEAN
      /\ CallsOK /\ Bounded /\ ThreadsOK /\ NumbersOK
  BY DEF CallsOK, Calls, CallsInv, ClientInv, ThreadsOK, Goroutines, Turn
<1>1. ~call[c].cancelled /\ \A s \in Threads : At(s, "cleanup") /\ th[s].taken = c => s = t
  BY <1>0 DEF ClientInv, TakenOnce
<1>2. /\ r.outbound = call[c].outbound /\ r.cancelled = TRUE
      /\ r.audio = Stopping(call[c].audio) /\ r.bye \in BOOLEAN
      /\ r.final = call[c].final \/ (r.final = 503 /\ r.outbound /\ call[c].final = 0)
      /\ r.bye => r.outbound /\ r.final = 200
  <2> DEFINE f == IF call[c].outbound /\ call[c].final = 0 /\ th[t].signal /\ th[t].failed THEN 503
                  ELSE call[c].final
             b == call[c].outbound /\ th[t].signal /\ f = 200
  <2>1. f = call[c].final \/ (f = 503 /\ call[c].outbound /\ call[c].final = 0)  OBVIOUS
  <2>2. b \in BOOLEAN /\ (b => call[c].outbound /\ f = 200)  OBVIOUS
  <2>3. r = [call[c] EXCEPT !.cancelled = TRUE, !.audio = Stopping(call[c].audio), !.final = f,
                            !.bye = b]
    BY DEF CleanedUp
  <2> HIDE DEF f, b
  <2>4. /\ r.outbound = call[c].outbound /\ r.cancelled = TRUE
        /\ r.audio = Stopping(call[c].audio) /\ r.final = f /\ r.bye = b
    BY <1>0, <2>3 DEF CSCalls
  <2>5. QED  BY <2>1, <2>2, <2>4
<1>3. Becomes(c, r)  OBVIOUS
<1> HIDE DEF r
<1>4. /\ Len(call') = Len(call) /\ Calls' = Calls /\ call'[c] = r
      /\ \A d \in Calls : d # c => call'[d] = call[d]
      /\ c \in 1 .. MaxCalls /\ View[c] = Seen(call[c]) /\ View' = [View EXCEPT ![c] = Seen(r)]
  BY <1>0, <1>3, OneSeen
<1>5. th'[t] = x /\ \A s \in Threads : s # t => th'[s] = th[s]  BY <1>0, TurnFacts
<1>6. Bounded' /\ EndedIsSilent'
  BY <1>2, <1>4 DEF ClientInv, Bounded, EndedIsSilent, Stopping
<1>7. \A s \in Threads : s # t /\ th[s].c = c => OwnCallIs(s)'
  <2> SUFFICES ASSUME NEW s \in Threads, s # t, th[s].c = c PROVE OwnCallIs(s)'
    OBVIOUS
  <2>1. th'[s] = th[s] /\ OwnCallIs(s)  BY <1>5 DEF ClientInv, OwnCalls
  <2>2. QED  BY <1>2, <1>4, <2>1 DEF OwnCallIs, At, Stopping
<1>8. ClientInv'
  <2>1. OthersStay(t) /\ OtherCallsStay(c)  BY <1>4, <1>5 DEF OthersStay, OtherCallsStay
  <2>2. th'[t].pc # "cleanup" /\ OwnCallIs(t)'
    BY <1>5 DEF OwnCallIs, At, Elsewhere, Ringing
  <2>3. \A s \in Threads : s # t /\ At(s, "cleanup") => th[s].taken # c  BY <1>1
  <2>4. QED  BY <1>0, <1>6, <1>7, <2>1, <2>2, <2>3, ClientKept
<1>9. Client!Finish(c)
  <2> DEFINE Told(a, b) ==
               /\ a # View[c].final => View[c].outbound /\ View[c].final = 0
               /\ b => View[c].outbound /\ a = 200
               /\ Client!Become(c,
                     [stage |-> "ended", outbound |-> View[c].outbound, final |-> a,
                      audio |-> IF View[c].audio = "none" THEN "none" ELSE "stopped",
                      bye |-> b])
  <2>1. /\ View[c].stage = "up" /\ View[c].final = call[c].final
        /\ View[c].outbound = call[c].outbound /\ View[c].audio = call[c].audio
    BY <1>1, <1>4 DEF Seen
  <2>2. Seen(r) = [stage |-> "ended", outbound |-> call[c].outbound, final |-> r.final,
                   audio |-> Stopping(call[c].audio), bye |-> r.bye]
    BY <1>2 DEF Seen
  <2>3. Told(r.final, r.bye)  BY <1>2, <1>4, <2>1, <2>2 DEF Client!Become, Stopping
  <2>4. r.final \in {View[c].final, 503} /\ r.bye \in BOOLEAN  BY <1>2, <2>1
  <2> HIDE DEF Told
  <2>5. \E a \in {View[c].final, 503}, b \in BOOLEAN : Told(a, b)  BY <2>3, <2>4
  <2>6. QED  BY <2>1, <2>5 DEF Client!Finish, Client!Up, Told
<1>10. QED  BY <1>4, <1>8, <1>9, SeenStep DEF ClientStep

\* A call is made: the client's own, or one for which the client will get an INVITE.
LEMMA NewCallTurns ==
    ASSUME CallsInv, ClientInv, NEW t, NEW x, Turn(t, x), x.c = Len(call) + 1,
           Len(call) < MaxCalls, NEW r, call' = Append(call, r),
           \/ r = NewCall(TRUE) /\ x.pc = "dial"
           \/ r = [NewCall(FALSE) EXCEPT !.audio = "open"] /\ x.pc = "invite"
    PROVE  ClientStep
<1> DEFINE n == Len(call) + 1
<1>0. CallsOK /\ ThreadsOK /\ NumbersOK /\ t \in Threads /\ Len(call) \in Nat
  BY DEF CallsInv, Turn, CallsOK
<1>1. /\ r.cancelled = FALSE
      /\ x.pc \in {"dial", "invite"}
      /\ x.pc = "dial" => r.audio = "none" /\ Seen(r) = Client!Made(TRUE, "none")
      /\ x.pc = "invite" => r.outbound = FALSE /\ Seen(r) = Client!Made(FALSE, "open")
  BY NewCallFacts, MadeSeen
<1>2. /\ n \in 1 .. MaxCalls /\ View[n] = Client!NotMade /\ View' = [View EXCEPT ![n] = Seen(r)]
      /\ Len(call') = n /\ call'[n] = r /\ Calls' = Calls \cup {n} /\ n \notin Calls
      /\ \A d \in Calls : call'[d] = call[d]
  BY <1>0, NewSeen
<1>3. /\ n # 0 /\ n <= MaxCalls
      /\ \A s \in Threads : th[s].taken # n /\ th[s].c # n
  BY <1>0, <1>2 DEF NumbersOK, Numbers
<1>4. th'[t] = x /\ OthersStay(t)  BY <1>0, TurnFacts DEF OthersStay
<1>5. Bounded' /\ EndedIsSilent'
  <2>1. Bounded'  BY <1>2, <1>3 DEF Bounded
  <2>2. ASSUME NEW d \in Calls', call'[d].cancelled PROVE call'[d].audio \in {"none", "stopped"}
    <3>1. d \in Calls /\ call'[d] = call[d]  BY <1>1, <1>2, <2>2
    <3>2. QED  BY <2>2, <3>1 DEF ClientInv, EndedIsSilent
  <2>3. QED  BY <2>1, <2>2 DEF EndedIsSilent
<1>6. ClientInv'
  <2>1. OtherCallsStay(n)  BY <1>2 DEF OtherCallsStay
  <2>2. call'[x.c] = r  BY <1>2
  <2> HIDE DEF n
  <2>3. th'[t].pc # "cleanup" /\ OwnCallIs(t)'
    <3>1. x.pc = "dial" => call'[x.c].audio = "none"  BY <1>1, <2>2
    <3>2. x.pc = "invite" => ~call'[x.c].outbound  BY <1>1, <2>2
    <3>3. QED  BY <1>1, <1>4, <3>1, <3>2 DEF OwnCallIs, At, Ringing
  <2>4. QED  BY <1>0, <1>3, <1>4, <1>5, <2>1, <2>3, ClientKept
<1>7. Client!Place(n) \/ Client!Ring(n)
  BY <1>1, <1>2 DEF Client!Place, Client!Ring, Client!Become
<1>8. QED  BY <1>2, <1>6, <1>7, SeenStep DEF ClientStep

-----------------------------------------------------------------------------

\* A goroutine that returns, is about to end a call or goes on gets elsewhere.
LEMMA GoesElsewhere ==
    ASSUME ThreadsOK, NEW t \in Threads,
           \/ Return(t)
           \/ \E n, signal, ath : End(t, n, signal, ath)
           \/ \E pc \in Elsewhere : Goto(t, pc)
    PROVE  \E x : Turn(t, x) /\ x.pc \in Elsewhere
<1>1. CASE Return(t)
  <2>1. Turn(t, Back(t)) /\ Back(t).pc \in Elsewhere
    BY <1>1, BackFacts DEF Return, Turn, Elsewhere
  <2>2. QED  BY <2>1
<1>2. ASSUME NEW n, NEW signal, NEW ath, End(t, n, signal, ath)
      PROVE  \E x : Turn(t, x) /\ x.pc \in Elsewhere
  <2>1. Turn(t, Ender(n, signal, ath)) /\ Ender(n, signal, ath).pc \in Elsewhere
    BY <1>2 DEF End, Turn, Ender, Elsewhere, Idle
  <2>2. QED  BY <2>1
<1>3. ASSUME NEW pc \in Elsewhere, Goto(t, pc) PROVE \E x : Turn(t, x) /\ x.pc \in Elsewhere
  <2>1. Turn(t, [th[t] EXCEPT !.pc = pc])  BY <1>3 DEF Goto, Turn
  <2>2. [th[t] EXCEPT !.pc = pc].pc \in Elsewhere  BY DEF ThreadsOK, Goroutines
  <2>3. QED  BY <2>1, <2>2
<1>4. QED  BY <1>1, <1>2, <1>3

\* So it does nothing that ClientInv or a client would notice.
LEMMA QuietMoves ==
    ASSUME CallsInv, ClientInv, UNCHANGED call, NEW t \in Threads,
           \/ Return(t)
           \/ \E n, signal, ath : End(t, n, signal, ath)
           \/ \E pc \in Elsewhere : Goto(t, pc)
    PROVE  ClientStep
<1>1. PICK x : Turn(t, x) /\ x.pc \in Elsewhere  BY GoesElsewhere DEF CallsInv
<1>2. QED  BY <1>1, QuietTurns DEF CallsInv

\* The network, the events, the monitor, and Stop.
LEMMA OtherTurns ==
    ASSUME CallsInv, ClientInv, Network \/ Controlled \/ StopBegin \/ StopWaits
    PROVE  ClientStep
<1>0. {Monitor, Stopper} \cup Workflows \subseteq Threads  BY DEF Threads
<1>1. CASE Network
  <2>1. UNCHANGED <<call, th>>
    BY <1>1 DEF Network, NetworkRings, NetworkRingsAgain, NetworkAnswers, NetworkHangsUp
  <2>2. QED  BY <2>1, QuietSteps
<1>2. CASE MonitorEvents
  <2>1. UNCHANGED call
    BY <1>2 DEF MonitorEvents, Incoming, Connected, HungUp, manager
  <2>2. \/ UNCHANGED th
        \/ \E pc \in {"launch", "launchTimer", "idle"} : \E d :
              th' = [th EXCEPT ![Monitor] = Starting(pc, 0, d)]
        \/ End(Monitor, 0, TRUE, FALSE)
    BY <1>2 DEF MonitorEvents, Incoming, ToLaunch, Connected, HungUp
  <2>3. ASSUME NEW pc \in {"launch", "launchTimer", "idle"}, NEW d,
               th' = [th EXCEPT ![Monitor] = Starting(pc, 0, d)]
        PROVE  ClientStep
    <3>1. Turn(Monitor, Starting(pc, 0, d)) /\ Starting(pc, 0, d).pc \in Elsewhere
      BY <1>0, <2>3 DEF Turn, Starting, Idle, Elsewhere
    <3>2. QED  BY <2>1, <3>1, QuietTurns DEF CallsInv
  <2>4. QED  BY <1>0, <2>1, <2>2, <2>3, QuietSteps, QuietMoves
<1>3. CASE MonitorExits
  <2>1. UNCHANGED call /\ Goto(Monitor, "exited") /\ "exited" \in Elsewhere
    BY <1>3 DEF MonitorExits, Elsewhere
  <2>2. QED  BY <1>0, <2>1, QuietMoves
<1>4. CASE LaunchWorkflow
  <2>1. UNCHANGED call  BY <1>4 DEF LaunchWorkflow
  <2>2. Idle.pc = "idle" /\ \A pc, d : Starting(pc, 0, d).pc = pc  BY DEF Idle, Starting
  <2>3. ASSUME NEW pc \in {"init", "timer"}, NEW d, Launch(pc, d) PROVE ClientStep
    <3>1. \A s \in Threads : th'[s] = th[s] \/ th'[s].pc \in Elsewhere
      <4>1. CASE th' = [th EXCEPT ![Monitor] = Idle]
        BY <1>0, <2>2, <4>1 DEF CallsInv, ThreadsOK, Elsewhere
      <4>2. ASSUME NEW w \in Workflows,
                   th' = [th EXCEPT ![Monitor] = Idle, ![w] = Starting(pc, 0, d)]
            PROVE  \A s \in Threads : th'[s] = th[s] \/ th'[s].pc \in Elsewhere
        BY <1>0, <2>2, <4>2 DEF CallsInv, ThreadsOK, Elsewhere
      <4>3. QED  BY <2>3, <4>1, <4>2 DEF Launch
    <3>2. QED  BY <2>1, <3>1, QuietSteps
  <2>4. QED  BY <1>4, <2>3 DEF LaunchWorkflow
<1>5. CASE StopBegin
  <2>1. UNCHANGED call /\ End(Stopper, 0, TRUE, TRUE)  BY <1>5 DEF StopBegin
  <2>2. QED  BY <1>0, <2>1, QuietMoves
<1>6. CASE StopWaits
  <2> DEFINE x == [th[Stopper] EXCEPT !.pc = "end", !.signal = TRUE, !.ath = TRUE,
                                      !.atStop = TRUE]
  <2>1. UNCHANGED call /\ Turn(Stopper, x)  BY <1>0, <1>6 DEF StopWaits, Turn
  <2>2. x.pc \in Elsewhere  BY <1>0 DEF CallsInv, ThreadsOK, Goroutines, Elsewhere
  <2> HIDE DEF x
  <2>3. QED  BY <2>1, <2>2, QuietTurns DEF CallsInv
<1>7. QED  BY <1>1, <1>2, <1>3, <1>4, <1>5, <1>6 DEF Controlled

\* endCallAndHangup.
LEMMA EndCallTurns ==
    ASSUME CallsInv, ClientInv, NEW t \in Threads, EndCall(t)
    PROVE  ClientStep
<1>1. CASE TakeCall(t)
  <2>1. CASE Return(t) /\ UNCHANGED call  BY <2>1, QuietMoves
  <2> DEFINE x == [th[t] EXCEPT !.pc = "cleanup", !.taken = current, !.ctl = ctl,
                                !.expected = 0, !.failed = stopped]
  <2>2. CASE /\ th' = [th EXCEPT ![t] = x]
             /\ call' = IF current = 0 THEN call
                        ELSE [call EXCEPT ![current] = [@ EXCEPT !.signalled = th[t].signal]]
    <3>1. Turn(t, x)  BY <2>2 DEF Turn
    <3>2. x.pc = "cleanup" /\ x.taken = current  BY DEF CallsInv, ThreadsOK, Goroutines
    <3> HIDE DEF x
    <3>3. \/ UNCHANGED call
          \/ \E b : /\ current # 0
                    /\ call' = [call EXCEPT ![current] = [@ EXCEPT !.signalled = b]]
      BY <2>2
    <3>4. QED  BY <3>1, <3>2, <3>3, TakeTurns
  <2>3. QED  BY <1>1, <2>1, <2>2 DEF TakeCall
<1>2. CASE Cleanup(t)
  <2> DEFINE c == th[t].taken
  <2>1. /\ At(t, "cleanup") /\ Return(t)
        /\ c = 0 => UNCHANGED call
        /\ c # 0 => Becomes(c, CleanedUp(t, call[c], Stopping(call[c].audio)))
    BY <1>2 DEF Cleanup, Becomes
  <2>2. CASE c = 0  BY <2>1, <2>2, QuietMoves
  <2>3. CASE c # 0
    <3>1. c \in Calls  BY <2>3 DEF CallsInv, NumbersOK, Numbers, Calls, CallsOK
    <3>2. PICK x : Turn(t, x) /\ x.pc \in Elsewhere  BY <2>1, GoesElsewhere DEF CallsInv
    <3>3. QED  BY <2>1, <2>3, <3>1, <3>2, CleanTurns
  <2>4. QED  BY <2>2, <2>3
<1>3. QED  BY <1>1, <1>2 DEF EndCall

\* A workflow of an incoming call.
LEMMA InboundTurns ==
    ASSUME CallsInv, ClientInv, NEW t \in Threads, Inbound(t)
    PROVE  ClientStep
<1> DEFINE c == th[t].c
<1>0. {"init", "recheck", "answering"} \subseteq Elsewhere  BY DEF Elsewhere
<1>a. th[t].pc \in Bridging \cup Ringing \cup {"answering"} => c \in Calls
  BY OwnCall
<1>1. CASE Timer(t) \/ ResponseCancelled(t)
  <2>1. UNCHANGED call /\ (Return(t) \/ Goto(t, "init"))
    BY <1>1 DEF Timer, ResponseCancelled, manager
  <2>2. QED  BY <1>0, <2>1, QuietMoves
<1>2. CASE AwaitClient(t)
  <2> DEFINE x == [th[t] EXCEPT !.pc = "invite", !.c = Len(call')]
             r == [NewCall(FALSE) EXCEPT !.audio = "open"]
  <2>1. CASE Len(call) < MaxCalls /\ call' = Append(call, r) /\ th' = [th EXCEPT ![t] = x]
    <3>1. Len(call') = Len(call) + 1  BY <2>1 DEF CallsInv, CallsOK
    <3>2. Turn(t, x) /\ x.pc = "invite" /\ x.c = Len(call')
      BY <2>1 DEF Turn, CallsInv, ThreadsOK, Goroutines
    <3> HIDE DEF x
    <3>3. QED  BY <2>1, <3>1, <3>2, NewCallTurns
  <2>2. CASE UNCHANGED call /\ (End(t, 0, FALSE, TRUE) \/ Return(t))
    BY <2>2, QuietMoves
  <2>3. QED  BY <1>2, <2>1, <2>2 DEF AwaitClient
<1>3. CASE Invite(t)
  <2>0. c \in Calls /\ th[t].pc \in Ringing  BY <1>3, <1>a DEF Invite, At, Ringing
  <2>1. CASE Becomes(c, [call[c] EXCEPT !.audio = "stopped"]) /\ End(t, 0, FALSE, TRUE)
    <3>1. PICK x : Turn(t, x) /\ x.pc \in Elsewhere  BY <2>1, GoesElsewhere DEF CallsInv
    <3>2. QED  BY <2>0, <2>1, <3>1, StopAudioTurns
  <2>2. CASE Goto(t, "response") /\ UNCHANGED call
    <3> DEFINE x == [th[t] EXCEPT !.pc = "response"]
    <3>1. Turn(t, x) /\ x.pc = "response" /\ x.c = c
      BY <2>2 DEF Goto, Turn, CallsInv, ThreadsOK, Goroutines
    <3> HIDE DEF x
    <3>2. QED  BY <2>0, <2>2, <3>1, InviteTurns
  <2>3. CASE Return(t) /\ UNCHANGED call  BY <2>3, QuietMoves
  <2>4. QED  BY <1>3, <2>1, <2>2, <2>3 DEF Invite, Becomes
<1>4. CASE AudioStart(t)
  <2>0. c \in Calls /\ At(t, "audio")  BY <1>4, <1>a DEF AudioStart, At, Bridging
  <2>1. CASE /\ call[c].audio = "open" /\ Becomes(c, [call[c] EXCEPT !.audio = "running"])
             /\ Goto(t, "recheck")
    <3> DEFINE x == [th[t] EXCEPT !.pc = "recheck"]
    <3>1. Turn(t, x) /\ x.pc = "recheck"
      BY <2>1 DEF Goto, Turn, CallsInv, ThreadsOK, Goroutines
    <3> HIDE DEF x
    <3>2. QED  BY <2>0, <2>1, <3>1, StartAudioTurns
  <2> DEFINE x == [th[t] EXCEPT !.pc = "recheck", !.failed = TRUE]
  <2>2. CASE th' = [th EXCEPT ![t] = x] /\ UNCHANGED call
    <3>1. Turn(t, x) /\ x.pc = "recheck"
      BY <2>2 DEF Turn, CallsInv, ThreadsOK, Goroutines
    <3> HIDE DEF x
    <3>2. QED  BY <1>0, <2>2, <3>1, QuietTurns DEF CallsInv
  <2>3. QED  BY <1>4, <2>1, <2>2 DEF AudioStart, Becomes
<1>5. CASE AudioRecheck(t)
  <2>0. c \in Calls  BY <1>5, <1>a DEF AudioRecheck, At, Bridging
  <2> DEFINE x == [th[t] EXCEPT !.pc = "answering", !.ctl = ctl]
             n == IF call[c].outbound THEN c ELSE 0
  <2>1. CASE Becomes(c, [call[c] EXCEPT !.audio = "stopped"]) /\ Return(t)
    <3>1. PICK y : Turn(t, y) /\ y.pc \in Elsewhere  BY <2>1, GoesElsewhere DEF CallsInv
    <3>2. QED  BY <2>0, <2>1, <3>1, StopAudioTurns
  <2>2. CASE UNCHANGED call /\ (End(t, n, TRUE, TRUE) \/ Return(t))
    BY <2>2, QuietMoves
  <2>3. CASE UNCHANGED call /\ th' = [th EXCEPT ![t] = x]
    <3>1. Turn(t, x) /\ x.pc = "answering"
      BY <2>3 DEF Turn, CallsInv, ThreadsOK, Goroutines
    <3> HIDE DEF x
    <3>2. QED  BY <1>0, <2>3, <3>1, QuietTurns DEF CallsInv
  <2>4. QED  BY <1>5, <2>1, <2>2, <2>3 DEF AudioRecheck, Becomes
<1>6. CASE Answer(t)
  <2>0. c \in Calls  BY <1>6, <1>a DEF Answer, At
  <2>1. CASE Becomes(c, [call[c] EXCEPT !.audio = "stopped"]) /\ Return(t)
    <3>1. PICK y : Turn(t, y) /\ y.pc \in Elsewhere  BY <2>1, GoesElsewhere DEF CallsInv
    <3>2. QED  BY <2>0, <2>1, <3>1, StopAudioTurns
  <2>2. CASE UNCHANGED call /\ (End(t, 0, TRUE, TRUE) \/ Return(t))
    BY <2>2, QuietMoves
  <2>3. QED  BY <1>6, <2>1, <2>2 DEF Answer, Becomes
<1>7. QED  BY <1>1, <1>2, <1>3, <1>4, <1>5, <1>6 DEF Inbound

\* respondForActiveCall.
LEMMA RefuseTurns ==
    ASSUME CallsInv, ClientInv, NEW t \in Threads, th[t].pc \in Outgoing,
           NEW status \in Statuses, NEW ath, Refuse(t, status, ath)
    PROVE  ClientStep
<1> DEFINE c == th[t].c
<1>1. c \in Calls  BY OwnCall
<1>2. CASE /\ current = c /\ call[c].final = 0 /\ End(t, c, FALSE, ath)
           /\ Sends(c, status)
  <2>1. PICK x : Turn(t, x) /\ x.pc \in Elsewhere  BY <1>2, GoesElsewhere DEF CallsInv
  <2>2. QED  BY <1>1, <1>2, <2>1, RespondTurns
<1>3. CASE Return(t) /\ UNCHANGED call  BY <1>3, QuietMoves
<1>4. QED  BY <1>2, <1>3 DEF Refuse, callActive, Sends, Becomes

\* A workflow of an outgoing call.
LEMMA OutboundTurns ==
    ASSUME CallsInv, ClientInv, NEW t \in Threads, Outbound(t)
    PROVE  ClientStep
<1> DEFINE c == th[t].c
<1>0. {"poll", "ok", "dialled"} \subseteq Elsewhere  BY DEF Elsewhere
<1>a. th[t].pc \in Outgoing => c \in Calls /\ call[c] \in CSCalls
  BY OwnCall
<1>1. CASE Dial(t)
  <2>0. th[t].pc \in Outgoing /\ At(t, "dial")  BY <1>1 DEF Dial, At, Outgoing, Dialing
  <2> DEFINE x == [th[t] EXCEPT !.pc = "dialled", !.ctl = modem.id + 1]
  <2>1. CASE /\ current = c /\ Becomes(c, [call[c] EXCEPT !.audio = "open"])
             /\ th' = [th EXCEPT ![t] = x]
    <3>1. Turn(t, x) /\ x.pc = "dialled"
      BY <2>1 DEF Turn, CallsInv, ThreadsOK, Goroutines
    <3> HIDE DEF x
    <3>2. QED  BY <1>a, <2>0, <2>1, <3>1, OpenTurns
  <2>2. CASE Refuse(t, 500, FALSE) \/ Refuse(t, 503, FALSE)
    <3>1. 500 \in Statuses /\ 503 \in Statuses  BY DEF Statuses
    <3>2. QED  BY <2>0, <2>2, <3>1, RefuseTurns
  <2>3. QED  BY <1>1, <2>1, <2>2 DEF Dial, Becomes
<1>2. CASE Dialled(t)
  <2>0. c \in Calls /\ call[c] \in CSCalls  BY <1>a, <1>2 DEF Dialled, At, Outgoing, Dialing
  <2>1. CASE UNCHANGED call /\ Goto(t, "poll")  BY <1>0, <2>1, QuietMoves
  <2>2. CASE Becomes(c, [call[c] EXCEPT !.audio = Stopping(call[c].audio)]) /\ Return(t)
    <3>1. CASE call[c].audio = "none"
      <4>1. [call[c] EXCEPT !.audio = Stopping(call[c].audio)] = call[c]
        BY <2>0, <3>1 DEF Stopping, CSCalls
      <4>2. UNCHANGED call  BY <2>0, <2>2, <4>1 DEF Becomes, CallsInv, CallsOK
      <4>3. QED  BY <2>2, <4>2, QuietMoves
    <3>2. CASE call[c].audio # "none"
      <4>1. Becomes(c, [call[c] EXCEPT !.audio = "stopped"])  BY <2>2, <3>2 DEF Stopping
      <4>2. PICK x : Turn(t, x) /\ x.pc \in Elsewhere  BY <2>2, GoesElsewhere DEF CallsInv
      <4>3. QED  BY <2>0, <4>1, <4>2, StopAudioTurns
    <3>3. QED  BY <3>1, <3>2
  <2>3. QED  BY <1>2, <2>1, <2>2 DEF Dialled, Becomes
<1>3. CASE Poll(t)
  <2>0. th[t].pc \in Outgoing  BY <1>3 DEF Poll, At, Outgoing, Dialing
  <2>1. CASE UNCHANGED call /\ (Return(t) \/ Goto(t, "ok"))  BY <1>0, <2>1, QuietMoves
  <2>2. CASE Refuse(t, 408, TRUE)
    <3>1. 408 \in Statuses  BY DEF Statuses
    <3>2. QED  BY <2>0, <2>2, <3>1, RefuseTurns
  <2>3. QED  BY <1>3, <2>1, <2>2 DEF Poll
<1>4. CASE RespondOK(t)
  <2>0. th[t].pc \in Outgoing /\ c \in Calls  BY <1>a, <1>4 DEF RespondOK, At, Outgoing
  <2> DEFINE x == [th[t] EXCEPT !.pc = "audio"]
  <2>1. CASE /\ current = c /\ call[c].final = 0 /\ Goto(t, "audio")
             /\ Sends(c, 200)
    <3>1. Turn(t, x) /\ x.pc = "audio" /\ x.c = c
      BY <2>1 DEF Goto, Turn, CallsInv, ThreadsOK, Goroutines
    <3> HIDE DEF x
    <3>2. 200 \in Statuses  BY DEF Statuses
    <3>3. QED  BY <2>0, <2>1, <3>1, <3>2, RespondTurns
  <2>2. CASE UNCHANGED call /\ Return(t)  BY <2>2, QuietMoves
  <2>3. QED  BY <1>4, <2>1, <2>2 DEF RespondOK, callActive, Sends, Becomes
<1>5. QED  BY <1>1, <1>2, <1>3, <1>4 DEF Outbound

\* The client calls, answers or ends the call.
LEMMA ClientTurns ==
    ASSUME CallsInv, ClientInv, NEW t \in Threads,
           OutboundInvite(t) \/ ClientResponds(t) \/ ClientEnds(t)
    PROVE  ClientStep
<1>1. CASE OutboundInvite(t)
  <2> DEFINE x == Starting("dial", Len(call'), dialogs')
  <2>1. Len(call) < MaxCalls /\ call' = Append(call, NewCall(TRUE)) /\ Turn(t, x)
    BY <1>1 DEF OutboundInvite, Turn
  <2>2. x.pc = "dial" /\ x.c = Len(call')  BY DEF Starting, Idle
  <2>3. Len(call') = Len(call) + 1  BY <2>1 DEF CallsInv, CallsOK
  <2> HIDE DEF x
  <2>4. QED  BY <2>1, <2>2, <2>3, NewCallTurns
<1>2. CASE ClientResponds(t)
  <2>0. UNCHANGED call /\ th[t].pc \in Ringing  BY <1>2 DEF ClientResponds, At, Ringing
  <2> DEFINE x == [th[t] EXCEPT !.pc = "audio"]
  <2>1. CASE Goto(t, "audio")
    <3>1. Turn(t, x) /\ x.pc = "audio" /\ x.c = th[t].c
      BY <2>1 DEF Goto, Turn, CallsInv, ThreadsOK, Goroutines
    <3> HIDE DEF x
    <3>2. QED  BY <2>0, <3>1, InviteTurns
  <2>2. CASE End(t, 0, FALSE, TRUE) \/ End(t, 0, TRUE, TRUE) \/ Return(t)
    BY <2>0, <2>2, QuietMoves
  <2>3. QED  BY <1>2, <2>1, <2>2 DEF ClientResponds
<1>3. CASE ClientEnds(t)
  <2>1. UNCHANGED call /\ End(t, 0, FALSE, TRUE)  BY <1>3 DEF ClientEnds
  <2>2. QED  BY <2>1, QuietMoves
<1>4. QED  BY <1>1, <1>2, <1>3

\* No client has seen anything yet.
LEMMA NothingAtFirst == Init => ClientInv /\ Client!Init
<1> SUFFICES ASSUME Init PROVE ClientInv /\ Client!Init
  OBVIOUS
<1>1. Len(call) = 0 /\ Calls = {} /\ \A t \in Threads : th[t].pc = "idle"
  BY IdleFacts DEF Init, Calls
<1>2. MaxCalls \in Nat
  <2>1. MaxCalls \in {MaxDialogs, MaxCalls, MaxModemCalls, QueueLength}  OBVIOUS
  <2>2. QED  BY <2>1, CallAssumption
<1>3. ClientInv
  BY <1>1, <1>2
  DEF ClientInv, Bounded, TakenOnce, EndedIsSilent, OwnCalls, OwnCallIs, At, Ringing
<1>4. \A c \in 1 .. MaxCalls : ~(c <= Len(call))  BY <1>1, <1>2
<1>5. View = [c \in 1 .. MaxCalls |-> Client!NotMade]  BY <1>4 DEF View, Client!NotMade
<1>6. QED  BY <1>3, <1>5 DEF Client!Init

\* Every step is a step of ClientCall, or nothing to any client.
LEMMA EveryTurn == IInv /\ ClientInv /\ [Next]_vars => ClientStep
<1> SUFFICES ASSUME CallsInv, ClientInv, [Next]_vars PROVE ClientStep
  BY DEF IInv
<1>1. CASE UNCHANGED vars
  <2>1. UNCHANGED call /\ \A s \in Threads : th'[s] = th[s]  BY <1>1 DEF vars
  <2>2. QED  BY <2>1, QuietSteps
<1>2. CASE Network \/ Controlled \/ StopBegin \/ StopWaits  BY <1>2, OtherTurns
<1>3. ASSUME NEW t \in Threads,
             \/ EndCall(t) \/ Inbound(t) \/ Outbound(t)
             \/ OutboundInvite(t) \/ ClientResponds(t) \/ ClientEnds(t)
      PROVE  ClientStep
  BY <1>3, EndCallTurns, InboundTurns, OutboundTurns, ClientTurns
<1>4. QED  BY <1>1, <1>2, <1>3 DEF Next

\* ImplementsClientCall: whatever overlaps, the client of a call gets at most one final response
\* and at most one BYE, none out of turn, and no audio once the bridge was stopped.
THEOREM ClientRefinement == Spec => ImplementsClientCall
<1>1. ClientStep => ClientInv' /\ [Client!Next]_View  BY DEF ClientStep
<1>2. IInv /\ ClientInv /\ [Next]_vars => ClientInv' /\ [Client!Next]_View
  BY <1>1, EveryTurn
<1>3. QED
  BY <1>2, NothingAtFirst, Invariant, PTL DEF Spec, ImplementsClientCall, Client!Spec
=============================================================================
