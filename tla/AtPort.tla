------------------------------- MODULE AtPort -------------------------------
(***************************************************************************)
(* The AT port of a modem, modem/manager.go: callers of executeAT and of   *)
(* SendSMSWithOptions queue commands, runLoop writes them to the serial    *)
(* port one at a time and waits for the answer, readLoop turns what the    *)
(* modem sends into lines, and Stop, a dead port or too many timeouts end  *)
(* it all.                                                                 *)
(*                                                                         *)
(* The modem answers commands in the order in which it got them, at any    *)
(* time or never; a line does not say which command it answers.  It also   *)
(* says things of its own, and lines before the final one of an answer:    *)
(* handleCommand takes any line that has ERROR or > in it for the end of   *)
(* the command, before it looks whether the line is a URC.                 *)
(*                                                                         *)
(* A request's two channels are a slot.  Slots of executeAT come from a    *)
(* pool and go back to it; a new one, and a sender's own, bears the        *)
(* caller's name.                                                          *)
(***************************************************************************)
EXTENDS Naturals, Sequences

CONSTANTS
    Callers,        \* goroutines, each with at most one command under way
    Poller,         \* the caller that comes back: the periodic status poll
    Pool,           \* bound: request objects of reqPool
    None,
    QueueLength,    \* bound of cmdChan and cmdChanHigh (10 and 5 in the code)
    RxLength,       \* bound of rxChan (100)
    Threshold,      \* atTimeoutWatchdogThreshold (5)
    MaxPending      \* bound: commands the modem remembers

ASSUME PortAssumption ==
    /\ Poller \in Callers /\ None \notin Callers \cup Pool /\ Callers \cap Pool = {}
    /\ None \notin [by : Callers, of : Callers \cup {None}]     \* nor is it an answer
    /\ {QueueLength, RxLength, Threshold, MaxPending} \subseteq Nat \ {0}

VARIABLES
    stopped,    \* m.stop is closed, the port too, and m.running is FALSE (m.healthy becomes
                \* FALSE only together with it)
    streak,     \* m.atTimeoutStreak
    high,       \* m.cmdChanHigh
    normal,     \* m.cmdChan
    rx,         \* m.rxChan
    chan,       \* what respChan and errChan of each slot hold: an answer or None
    run,        \* runLoop and handleCommand: place, request, and whether an error is fatal
    read,       \* readLoop: "read", "exited", or the error it is about to pass on
    modem,      \* external: the commands the modem has yet to answer
    th,         \* the callers
    slip        \* history: "late" once a command has timed out, a sender has given up or the
                \* manager has stopped, "misread" once a line that answers nothing has been
                \* taken for an answer before that, or else "no"

loops == <<run, read>>
queues == <<high, normal>>
state == <<stopped, streak>>
vars == <<state, queues, rx, chan, loops, modem, th, slip>>

Slots == Pool \cup Callers
Kinds == {"normal", "high", "sms"}
Empty == [resp |-> None, err |-> None]
Call(pc, kind, slot) == [pc |-> pc, kind |-> kind, slot |-> slot]
Idle == Call("idle", "normal", None)
Done == Call("done", "normal", None)

Init ==
    /\ stopped = FALSE /\ streak = 0
    /\ high = <<>> /\ normal = <<>> /\ rx = <<>>
    /\ chan = [s \in Slots |-> Empty]
    /\ run = [pc |-> "top", req |-> None, fatal |-> FALSE]
    /\ read = "read"
    /\ modem = <<>>
    /\ th = [c \in Callers |-> Idle]
    /\ slip = "no"

At(c, pc) == th[c].pc = pc

\* An answer: the caller whose request handleCommand was working on, and whose command the
\* modem meant, or None; an error of the port or a timeout is about that very command.
Answer(by, of) == [by |-> by, of |-> of]

-----------------------------------------------------------------------------
(* executeAT and SendSMSWithOptions                                        *)

\* The defer of executeAT empties the slot and puts it back; a sender's is garbage.
Return(c) ==
    /\ th' = [th EXCEPT ![c] = Done]
    /\ chan' = [chan EXCEPT ![th[c].slot] = Empty]

\* The checks of executeAT; a sender has passed them with its AT+CMGF=0, a call of its own,
\* and makes its request and channels itself.
Begin(c, kind) ==
    /\ At(c, "idle")
    /\ c = Poller => kind = "normal"
    /\ th' = [th EXCEPT ![c] =
         IF kind = "sms" THEN Call("queue", kind, c)
         ELSE IF stopped THEN Done
         ELSE Call("get", kind, None)]
    /\ UNCHANGED <<state, queues, rx, chan, loops, modem, slip>>

\* reqPool.Get: a request object that no call has, or else a new one.
GetRequest(c) ==
    /\ At(c, "get")
    /\ LET free == Pool \ {th[d].slot : d \in Callers}
       IN  \E s \in IF free # {} THEN free ELSE {c} :
             th' = [th EXCEPT ![c] = Call("queue", th[c].kind, s)]
    /\ UNCHANGED <<state, queues, rx, chan, loops, modem, slip>>

Queue(c) == IF th[c].kind = "normal" THEN normal ELSE high

\* The request goes into its queue; or five seconds pass while that is full; or, for
\* executeAT, the manager stops.
Enqueue(c) ==
    /\ At(c, "queue")
    /\ \/ /\ Len(Queue(c)) < QueueLength
          /\ LET req == [c |-> c, slot |-> th[c].slot, kind |-> th[c].kind,
                         prompt |-> th[c].kind = "sms"]
             IN  IF th[c].kind = "normal"
                 THEN normal' = Append(normal, req) /\ UNCHANGED high
                 ELSE high' = Append(high, req) /\ UNCHANGED normal
          /\ th' = [th EXCEPT ![c] = Call("wait", @.kind, @.slot)]
          /\ UNCHANGED chan
       \/ /\ Len(Queue(c)) = QueueLength
          /\ Return(c) /\ UNCHANGED queues
       \/ /\ stopped /\ th[c].kind # "sms"
          /\ Return(c) /\ UNCHANGED queues
    /\ UNCHANGED <<state, rx, loops, modem, slip>>

Held(c) == {chan[th[c].slot].resp, chan[th[c].slot].err} \ {None}

\* The call takes what one of its channels holds.
Receive(c) ==
    /\ At(c, "wait")
    /\ Held(c) # {} /\ Return(c)
    /\ UNCHANGED <<state, queues, rx, loops, modem, slip>>

\* Mutant of ReceiveStopped: a call does not watch m.stop.
NotStopped(c) == FALSE /\ UNCHANGED vars

\* executeAT sees m.stop, looks at the channels once more, and finds nothing.
ReceiveStopped(c) ==
    /\ At(c, "wait") /\ th[c].kind # "sms" /\ stopped
    /\ Held(c) = {}
    /\ Return(c)
    /\ UNCHANGED <<state, queues, rx, loops, modem, slip>>

\* Mutant of GiveUp: executeAT has a timer of its own, too.
AnyoneGivesUp(c) ==
    /\ At(c, "wait")
    /\ Return(c)
    /\ slip' = "late"
    /\ UNCHANGED <<state, queues, rx, loops, modem>>

\* A sender waits twenty seconds, whether or not its command has left the queue.
GiveUp(c) ==
    /\ At(c, "wait") /\ th[c].kind = "sms"
    /\ Return(c)
    /\ slip' = "late"
    /\ UNCHANGED <<state, queues, rx, loops, modem>>

\* The poll comes back.
PollAgain ==
    /\ At(Poller, "done")
    /\ th' = [th EXCEPT ![Poller] = Idle]
    /\ UNCHANGED <<state, queues, rx, chan, loops, modem, slip>>

-----------------------------------------------------------------------------
(* runLoop and handleCommand                                               *)

RunGoto(pc) == run' = [pc |-> pc, req |-> None, fatal |-> FALSE]
Handle(req) == run' = [pc |-> "write", req |-> req, fatal |-> FALSE]

\* m.Stop(), whoever calls it: once.  With the port closed the modem is not heard again.
Stop == stopped' = TRUE /\ modem' = <<>> /\ slip' = "late"

\* The first select: the stop signal or a command of high priority, if there is one.
RunTop ==
    /\ run.pc = "top"
    /\ \/ stopped /\ RunGoto("exited") /\ UNCHANGED high
       \/ high # <<>> /\ Handle(Head(high)) /\ high' = Tail(high)
       \/ ~stopped /\ high = <<>> /\ RunGoto("second") /\ UNCHANGED high
    /\ UNCHANGED <<state, normal, rx, chan, read, modem, th, slip>>

\* The second select waits for anything.
SecondStop ==
    /\ run.pc = "second" /\ stopped
    /\ RunGoto("exited")
    /\ UNCHANGED <<state, queues, rx, chan, read, modem, th, slip>>

SecondHigh ==
    /\ run.pc = "second" /\ high # <<>>
    /\ Handle(Head(high)) /\ high' = Tail(high)
    /\ UNCHANGED <<state, normal, rx, chan, read, modem, th, slip>>

SecondNormal ==
    /\ run.pc = "second" /\ normal # <<>>
    /\ Handle(Head(normal)) /\ normal' = Tail(normal)
    /\ UNCHANGED <<state, high, rx, chan, read, modem, th, slip>>

\* A line that no command waits for is a URC, or dropped; an error stops the manager.
SecondLine ==
    /\ run.pc = "second" /\ rx # <<>>
    /\ rx' = Tail(rx)
    /\ IF Head(rx).kind \in {"fatal", "eof"} THEN Stop /\ RunGoto("exited")
       ELSE RunGoto("top") /\ UNCHANGED <<stopped, modem, slip>>
    /\ UNCHANGED <<streak, queues, chan, read, th>>

\* What handleCommand puts into a channel of its request: there is room for one.
Put(ch, of) ==
    /\ chan[run.req.slot][ch] = None
    /\ chan' = [chan EXCEPT ![run.req.slot] = [@ EXCEPT ![ch] = Answer(run.req.c, of)]]

\* The command is written (the modem forgets its oldest when it is swamped), or the write
\* fails: on a closed port, with an error that is not one of the fatal ones.
Write ==
    /\ run.pc = "write"
    /\ \/ /\ ~stopped
          /\ LET old == IF Len(modem) = MaxPending THEN Tail(modem) ELSE modem
                 stage == IF run.req.prompt THEN "message" ELSE "command"
             IN  modem' = Append(old, [of |-> run.req.c, stage |-> stage])
          /\ run' = [run EXCEPT !.pc = "wait"]
          /\ UNCHANGED chan
       \/ /\ Put("err", run.req.c)
          /\ \E fatal \in IF stopped THEN {FALSE} ELSE BOOLEAN :
               run' = [run EXCEPT !.pc = "fail", !.fatal = fatal]
          /\ UNCHANGED modem
    /\ UNCHANGED <<state, queues, rx, read, th, slip>>

\* handleFatalSerialRuntimeErr: a fatal error of a running manager stops it.
Fail ==
    /\ run.pc = "fail"
    /\ IF run.fatal /\ ~stopped
       THEN Stop
       ELSE UNCHANGED <<stopped, modem, slip>>
    /\ RunGoto("top")
    /\ UNCHANGED <<streak, queues, rx, chan, read, th>>

\* External: the modem prompts for a message, its oldest command.
Prompting == modem # <<>> /\ Head(modem).stage = "prompted"

\* Mutant of CommandTimeout: the call is not told.
TimeoutUntold ==
    /\ run.pc = "wait"
    /\ modem' = IF Prompting THEN Tail(modem) ELSE modem
    /\ run' = [run EXCEPT !.pc = "trip"]
    /\ slip' = "late"
    /\ UNCHANGED <<state, queues, rx, chan, read, th>>

\* The command's timer: ESC ends a message the modem was prompting for.
CommandTimeout ==
    /\ run.pc = "wait"
    /\ Put("err", run.req.c)
    /\ modem' = IF Prompting THEN Tail(modem) ELSE modem
    /\ run' = [run EXCEPT !.pc = "trip"]
    /\ slip' = "late"
    /\ UNCHANGED <<state, queues, rx, read, th>>

\* Mutant of Trip: timeouts are not counted.
TripNever ==
    /\ run.pc = "trip"
    /\ RunGoto("top")
    /\ UNCHANGED <<state, queues, rx, chan, read, modem, th, slip>>

\* recordATTimeout and tripATTimeoutWatchdog: only commands of normal priority count.
Trip ==
    /\ run.pc = "trip"
    /\ IF run.req.kind = "normal"
       THEN /\ streak' = IF streak < Threshold THEN streak + 1 ELSE streak
            /\ IF streak' >= Threshold /\ ~stopped
               THEN Stop
               ELSE UNCHANGED <<stopped, modem, slip>>
       ELSE UNCHANGED <<state, modem, slip>>
    /\ RunGoto("top")
    /\ UNCHANGED <<queues, rx, chan, read, th>>

\* External: what becomes of the command that the modem prompts for.
Prompted(stage) ==
    IF Prompting THEN [modem EXCEPT ![1] = [@ EXCEPT !.stage = stage]] ELSE modem

\* Where an answer goes: OK or a prompt to the one channel, a line with ERROR to the other.
Channels(l) ==
    (IF l.kind = "final" THEN {"err"} ELSE {}) \cup
    (IF l.kind = "prompt" \/ l.of # None THEN {"resp"} ELSE {})

\* What becomes of the history when a line has been taken for an answer.
Slip(l) == IF slip = "no" /\ l.of = None THEN "misread" ELSE slip

\* Mutant of Line: a prompt ends the command it belongs to.
LineEndsAtPrompt ==
    /\ run.pc = "wait" /\ rx # <<>>
    /\ LET l == Head(rx) IN
        \/ l.kind = "urc" /\ UNCHANGED <<streak, chan, run, modem, slip>>
        \/ /\ l.kind \in {"fatal", "eof"}
           /\ Put("err", run.req.c)
           /\ run' = [run EXCEPT !.pc = "fail", !.fatal = (l.kind = "fatal")]
           /\ UNCHANGED <<streak, modem, slip>>
        \/ /\ l.kind \in {"final", "prompt"}
           /\ streak' = 0
           /\ \E ch \in Channels(l) : Put(ch, l.of)
           /\ modem' = Prompted("command")
           /\ slip' = Slip(l)
           /\ RunGoto("top")
    /\ rx' = Tail(rx)
    /\ UNCHANGED <<stopped, queues, read, th>>

\* A line while a command waits.  A URC is dispatched, if there is nothing else in it; an error
\* ends the command; OK, a line with ERROR, or an unexpected line with > answers it; such a
\* line brings out the message when a sender waits for its prompt.
Line ==
    /\ run.pc = "wait" /\ rx # <<>>
    /\ LET l == Head(rx) IN
        \/ l.kind = "urc" /\ UNCHANGED <<streak, chan, run, modem, slip>>
        \/ /\ l.kind \in {"fatal", "eof"}
           /\ Put("err", run.req.c)
           /\ run' = [run EXCEPT !.pc = "fail", !.fatal = (l.kind = "fatal")]
           /\ UNCHANGED <<streak, modem, slip>>
        \/ /\ l.kind = "final" \/ (l.kind = "prompt" /\ ~run.req.prompt)
           /\ streak' = 0
           /\ \E ch \in Channels(l) : Put(ch, l.of)
           /\ slip' = Slip(l)
           /\ RunGoto("top")
           /\ UNCHANGED modem
        \/ /\ l.kind = "prompt" /\ run.req.prompt
           /\ streak' = 0
           /\ modem' = Prompted("data")
           /\ slip' = Slip(l)
           /\ run' = [run EXCEPT !.req = [@ EXCEPT !.prompt = FALSE]]
           /\ UNCHANGED chan
    /\ rx' = Tail(rx)
    /\ UNCHANGED <<stopped, queues, read, th>>

\* The pool stops the manager.
StopManager ==
    /\ ~stopped /\ Stop
    /\ UNCHANGED <<streak, queues, rx, chan, loops, th>>

-----------------------------------------------------------------------------
(* readLoop and the modem                                                  *)

Receives(line) == rx' = Append(rx, line)

\* External: the modem answers the oldest command, a message only after its prompt.
ModemAnswers ==
    /\ read = "read" /\ Len(rx) < RxLength
    /\ modem # <<>>
    /\ LET p == Head(modem) IN
        \/ /\ p.stage # "prompted"
           /\ Receives([kind |-> "final", of |-> p.of]) /\ modem' = Tail(modem)
        \/ /\ p.stage = "message"
           /\ Receives([kind |-> "prompt", of |-> p.of])
           /\ modem' = [modem EXCEPT ![1] = [@ EXCEPT !.stage = "prompted"]]
    /\ UNCHANGED <<state, queues, chan, loops, th, slip>>

\* External: the modem says something of its own, or a line before the final one of an answer.
\* The text of it (a menu of +CUSD, a name, a message) may have ERROR or > in it, which makes
\* it look like a final result or a prompt.
ModemURC ==
    /\ read = "read" /\ ~stopped /\ Len(rx) < RxLength
    /\ \E kind \in {"urc", "final", "prompt"} : Receives([kind |-> kind, of |-> None])
    /\ UNCHANGED <<state, queues, chan, loops, modem, th, slip>>

\* Read fails: a fatal error, or the thirtieth end of file in a row, whose error
\* isFatalSerialRuntimeErr does not know.
ReadError ==
    /\ read = "read" /\ ~stopped
    /\ read' \in {"fatal", "eof"}
    /\ UNCHANGED <<state, queues, rx, chan, run, modem, th, slip>>

\* The error is passed on with no look at m.stop, and the loop is over.
ReadPasses ==
    /\ read \in {"fatal", "eof"} /\ Len(rx) < RxLength
    /\ Receives([kind |-> read, of |-> None])
    /\ read' = "exited"
    /\ UNCHANGED <<state, queues, chan, run, modem, th, slip>>

ReadStops ==
    /\ read = "read" /\ stopped
    /\ read' = "exited"
    /\ UNCHANGED <<state, queues, rx, chan, run, modem, th, slip>>

-----------------------------------------------------------------------------
RunSecond == SecondStop \/ SecondHigh \/ SecondNormal \/ SecondLine
RunLoop == RunTop \/ RunSecond \/ Write \/ Fail \/ CommandTimeout \/ Trip \/ Line
ReadLoop == ReadPasses \/ ReadStops
Caller(c) == GetRequest(c) \/ Enqueue(c) \/ Receive(c) \/ ReceiveStopped(c) \/ GiveUp(c)
Modem == ModemAnswers \/ ModemURC \/ ReadError

Next ==
    \/ \E c \in Callers : Caller(c) \/ \E kind \in Kinds : Begin(c, kind)
    \/ PollAgain \/ RunLoop \/ ReadLoop \/ Modem \/ StopManager

\* The loops and the callers go on, timers fire, the poll comes back; a select picks among
\* its ready cases at random, so it does not pass one over for ever.  Nothing is assumed of
\* the modem.
Fairness ==
    /\ WF_vars(RunLoop) /\ WF_vars(CommandTimeout) /\ SF_vars(SecondNormal)
    /\ WF_vars(ReadLoop)
    /\ \A c \in Callers \ {Poller} : WF_vars(Caller(c))
    /\ WF_vars(Caller(Poller) \/ Begin(Poller, "normal") \/ PollAgain)

Spec == Init /\ [][Next]_vars /\ Fairness

-----------------------------------------------------------------------------
(* Properties                                                              *)

Answers == [by : Callers, of : Callers \cup {None}] \cup {None}
TypeOK ==
    /\ stopped \in BOOLEAN /\ slip \in {"no", "misread", "late"} /\ streak \in 0 .. Threshold
    /\ Len(high) <= QueueLength /\ Len(normal) <= QueueLength /\ Len(rx) <= RxLength
    /\ chan \in [Slots -> [resp : Answers, err : Answers]]
    /\ run.pc \in {"top", "second", "write", "wait", "fail", "trip", "exited"}
    /\ read \in {"read", "fatal", "eof", "exited"}
    /\ Len(modem) <= MaxPending
    /\ th \in [Callers -> [pc : {"idle", "get", "queue", "wait", "done"}, kind : Kinds,
                           slot : Slots \cup {None}]]

\* While the manager runs, what a call finds in its channels is what handleCommand answered
\* to that very call, though executeAT's request objects and their channels are used again
\* and again: none goes back to reqPool while handleCommand may still write to it.
AnswerFromOwnRequest ==
    ~stopped => \A c \in Callers : At(c, "wait") => \A a \in Held(c) : a.by = c

\* A call that waits is not forgotten: executeAT has no timer of its own, so while the manager
\* runs either its channels hold the answer or its request is still in a queue or the one that
\* handleCommand works on, whatever timed out, failed or was given up around it.
Unanswered ==
    {high[i] : i \in 1 .. Len(high)} \cup {normal[i] : i \in 1 .. Len(normal)}
    \cup (IF run.pc \in {"write", "wait"} THEN {run.req} ELSE {})
WaitingHasRequest ==
    ~stopped => \A c \in Callers : At(c, "wait") =>
        \/ Held(c) # {}
        \/ \E r \in Unanswered : r.c = c /\ r.slot = th[c].slot

\* The modem's answers and the commands stay in step: while the manager runs, nobody has
\* given up on a command and no line that answers nothing has been taken for an answer, a call
\* gets the line that answers its own command (handleCommand reads up to the final line,
\* through URCs and through the prompt of a message).
AnswersInStep ==
    slip = "no" => \A c \in Callers : At(c, "wait") => \A a \in Held(c) : a.of = c

\* What the comments at isURC's call in handleCommand say, that URCs are dispatched always and
\* kept out of the response of the command under way: no URC makes a call get the answer to
\* the command of another.
UrcKeepsStep ==
    slip # "late" => \A c \in Callers : At(c, "wait") => \A a \in Held(c) : a.of \in {c, None}

\* Every call returns, whatever the modem does and whenever the manager stops.
EveryCallReturns ==
    \A c \in Callers : th[c].pc \in {"get", "queue", "wait"} ~> At(c, "done")

\* A port that nobody reads any more does not go unnoticed: readLoop's error may be eaten by
\* the command under way, which does not take it for fatal, but then the poll's timeouts trip
\* the watchdog.  The exception is a port to which writes fail, again and again, with an
\* error that isFatalSerialRuntimeErr does not know.
DisconnectNoticed ==
    (read = "exited") ~> (stopped \/ (run.pc = "fail" /\ ~run.fatal))
=============================================================================
