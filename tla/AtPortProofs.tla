----------------------------- MODULE AtPortProofs -----------------------------
(***************************************************************************)
(* Theorems about AtPort for any number of callers, any pool of requests   *)
(* and any lengths of the queues: while the manager runs a call finds in   *)
(* its channels only what handleCommand answered to that very call, and as *)
(* long as nobody has given up on a command and no line that answers none  *)
(* has been taken for an answer, the line it gets is the modem's answer to *)
(* its own command; and no call that waits is forgotten.                   *)
(***************************************************************************)
EXTENDS AtPort, TLAPS

\* TypeOK in parts, with what the queues, the line buffer and the modem hold.
Requests == [c : Callers, slot : Slots, kind : Kinds, prompt : BOOLEAN]
Lines == [kind : {"final", "prompt"}, of : Callers]
         \cup [kind : {"urc", "final", "prompt", "fatal", "eof"}, of : {None}]
Outstanding == [of : Callers, stage : {"command", "message", "prompted", "data"}]

StateOK ==
    /\ stopped \in BOOLEAN /\ streak \in 0 .. Threshold /\ slip \in {"no", "misread", "late"}
    /\ read \in {"read", "fatal", "eof", "exited"}
    /\ stopped => slip = "late"
QueuesOK ==
    /\ high \in Seq(Requests) /\ Len(high) <= QueueLength
    /\ normal \in Seq(Requests) /\ Len(normal) <= QueueLength
    /\ \A i \in 1 .. Len(high) : high[i].kind # "normal"
    /\ \A i \in 1 .. Len(normal) : normal[i].kind = "normal"
RunOK ==
    /\ run \in [pc : {"top", "second", "write", "wait", "fail", "trip", "exited"},
                req : Requests \cup {None}, fatal : BOOLEAN]
    /\ run.pc \in {"write", "wait", "fail", "trip"} => run.req \in Requests
WireOK ==
    /\ rx \in Seq(Lines) /\ Len(rx) <= RxLength
    /\ modem \in Seq(Outstanding) /\ Len(modem) <= MaxPending
ChanOK == chan \in [Slots -> [resp : Answers, err : Answers]]
Calls ==
    [pc : {"idle", "get", "queue", "wait", "done"}, kind : Kinds, slot : Slots \cup {None}]
CallsOK == th \in [Callers -> Calls]

\* A call has a slot from the time it queues until it returns: its own, or one of the pool that
\* no other call has.  A sender always has its own; the poll sends nothing.
Fits(c, x) ==
    /\ x.slot \in Pool \cup {c, None}
    /\ (x.slot = None) <=> (x.pc \in {"idle", "get", "done"})
    /\ x.kind = "sms" => x.slot = c
    /\ c = Poller => x.kind = "normal"
SlotsApart ==
    \A c \in Callers :
        /\ Fits(c, th[c])
        /\ \A d \in Callers : th[c].slot = th[d].slot /\ th[c].slot # None => c = d

\* The requests that have not been answered: those in the queues and the one that handleCommand
\* works on.
Ask(r) == [c |-> r.c, slot |-> r.slot, kind |-> r.kind]
Working == run.pc \in {"write", "wait"}
Open ==
    {Ask(high[i]) : i \in 1 .. Len(high)} \cup {Ask(normal[i]) : i \in 1 .. Len(normal)}
    \cup (IF Working THEN {Ask(run.req)} ELSE {})
Asks(c) == \E r \in Open : r.c = c

\* While the manager runs, each of them belongs to a call that waits for it with the same slot,
\* or to a sender that gave up and does not come back.
Owned(r) ==
    \/ At(r.c, "wait") /\ th[r.c].slot = r.slot /\ th[r.c].kind = r.kind
    \/ r.kind = "sms" /\ At(r.c, "done") /\ r.slot = r.c /\ r.c # Poller
RequestsOwned == ~stopped => \A r \in Open : Owned(r)

\* A call has one request at most.
RequestsOnce ==
    ~stopped => /\ \A i, j \in 1 .. Len(high) : high[i].c = high[j].c => i = j
                /\ \A i, j \in 1 .. Len(normal) : normal[i].c = normal[j].c => i = j
                /\ Working => /\ \A i \in 1 .. Len(high) : high[i].c # run.req.c
                              /\ \A i \in 1 .. Len(normal) : normal[i].c # run.req.c

\* A call whose channels hold something has no request left that could be answered.
AnsweredOnce ==
    ~stopped => \A c \in Callers :
        th[c].slot # None /\ chan[th[c].slot] # Empty => At(c, "wait") /\ ~Asks(c)

\* Every call that waits has its answer, or a request that will be answered.
AllAsk ==
    ~stopped => \A c \in Callers :
        At(c, "wait") => chan[th[c].slot] # Empty \/ Asks(c)

\* What goes back to the pool is empty, and so is the slot that a call has of its own, except
\* that of a sender who gave up.
FreeSlotsEmpty ==
    ~stopped => \A s \in Slots :
        \/ chan[s] = Empty
        \/ \E c \in Callers : th[c].slot = s
        \/ s \in Callers \ {Poller} /\ At(s, "done")

\* What a slot holds.
HeldIn(s) == {chan[s].resp, chan[s].err} \ {None}

\* The answers in a call's channels are its own.
AnswersOwn ==
    ~stopped => \A c \in Callers : th[c].slot # None => \A a \in HeldIn(th[c].slot) : a.by = c

\* readLoop's error is the last thing it says.
ErrorIsLast ==
    \A i \in 1 .. Len(rx) : rx[i].kind \in {"fatal", "eof"} => i = Len(rx) /\ read = "exited"

\* Until somebody gives up or a line is misread, what the modem has yet to answer and the line
\* that answers it are about the command that handleCommand waits for, and there is one of
\* them.  (After the last line has been read the modem is not heard any more, whatever it still
\* means to answer.)  A line that looks like an answer but is none says nothing of this.
IsAnswer(l) == l.kind \in {"final", "prompt"} /\ l.of # None
Deaf == read = "exited" /\ rx = <<>>
LinesInStep ==
    slip = "no" => \A i \in 1 .. Len(rx) : IsAnswer(rx[i]) =>
        /\ run.pc = "wait" /\ rx[i].of = run.req.c
        /\ \A j \in 1 .. Len(rx) : IsAnswer(rx[j]) => j = i
        /\ rx[i].kind = "final" => modem = <<>>
        /\ rx[i].kind = "prompt" => run.req.prompt /\ Len(modem) = 1 /\ modem[1].stage = "prompted"
ModemInStep ==
    slip = "no" /\ ~Deaf /\ modem # <<>> =>
        /\ run.pc = "wait" /\ Len(modem) = 1 /\ modem[1].of = run.req.c
        /\ modem[1].stage \in {"message", "prompted"} => run.req.prompt
        /\ modem[1].stage \in {"command", "message", "data"} =>
               \A i \in 1 .. Len(rx) : ~IsAnswer(rx[i])
OfOwn ==
    slip = "no" => \A c \in Callers :
        th[c].slot # None => \A a \in HeldIn(th[c].slot) : a.of = c

IInv ==
    /\ StateOK /\ QueuesOK /\ RunOK /\ WireOK /\ ChanOK /\ CallsOK
    /\ SlotsApart /\ RequestsOwned /\ RequestsOnce /\ AnsweredOnce /\ AllAsk /\ FreeSlotsEmpty
    /\ AnswersOwn /\ ErrorIsLast /\ LinesInStep /\ ModemInStep /\ OfOwn

\* What is taken from a queue is its first element, and what stays moves up by one.
LEMMA TailFacts ==
    ASSUME NEW S, NEW s \in Seq(S), s # <<>>
    PROVE  /\ Head(s) = s[1] /\ Head(s) \in S /\ Len(s) \in Nat \ {0}
           /\ Tail(s) \in Seq(S) /\ Len(Tail(s)) = Len(s) - 1
           /\ \A i \in 1 .. Len(Tail(s)) : i + 1 \in 1 .. Len(s) /\ Tail(s)[i] = s[i + 1]
OBVIOUS

\* What is put into a queue goes to its end.
LEMMA AppendFacts ==
    ASSUME NEW S, NEW s \in Seq(S), NEW x \in S
    PROVE  /\ Append(s, x) \in Seq(S) /\ Len(Append(s, x)) = Len(s) + 1 /\ Len(s) \in Nat
           /\ \A i \in 1 .. Len(s) : Append(s, x)[i] = s[i]
           /\ Append(s, x)[Len(s) + 1] = x
OBVIOUS

\* The bounds are numbers.
LEMMA Bounds == {QueueLength, RxLength, Threshold, MaxPending} \subseteq Nat \ {0}
                /\ Threshold \in Nat \ {0} /\ MaxPending \in Nat \ {0}
                /\ QueueLength \in Nat \ {0} /\ RxLength \in Nat \ {0}
<1>1. {QueueLength, RxLength, Threshold, MaxPending} \subseteq Nat \ {0}  BY PortAssumption
<1>2. QED  BY <1>1

\* The queues are empty and everybody idle at the start.
LEMMA InitIInv == Init => IInv
<1> SUFFICES ASSUME Init PROVE IInv
  OBVIOUS
<1>1. StateOK
  <2>1. 0 \in 0 .. Threshold  BY Bounds
  <2>2. QED  BY <2>1 DEF Init, StateOK
<1>2. RunOK  BY DEF Init, RunOK
<1>3. high = <<>> /\ normal = <<>> /\ rx = <<>> /\ modem = <<>>  BY DEF Init
<1>4. QueuesOK /\ WireOK  BY <1>3, Bounds DEF QueuesOK, WireOK
<1>5. \A s \in Slots : chan[s] = Empty  BY DEF Init
<1>6. ChanOK  BY DEF Init, ChanOK, Empty, Answers
<1>7. CallsOK  BY PortAssumption DEF Init, CallsOK, Calls, Call, Idle, Kinds
<1>8. \A c \in Callers : th[c].slot = None /\ th[c].pc = "idle" /\ th[c].kind = "normal"
  BY DEF Init, Idle, Call
<1>9. SlotsApart  BY <1>8 DEF SlotsApart, Fits
<1>10. ~Working  BY DEF Init, Working
<1>11. Open = {}  BY <1>3, <1>10 DEF Open
<1>12. RequestsOwned  BY <1>11 DEF RequestsOwned
<1>13. RequestsOnce  BY <1>3, <1>10 DEF RequestsOnce
<1>14. AnsweredOnce /\ AllAsk /\ AnswersOwn /\ OfOwn
  BY <1>8 DEF AnsweredOnce, AllAsk, AnswersOwn, OfOwn, At
<1>15. FreeSlotsEmpty  BY <1>5 DEF FreeSlotsEmpty
<1>16. ErrorIsLast /\ LinesInStep /\ ModemInStep
  BY <1>3 DEF ErrorIsLast, LinesInStep, ModemInStep
<1>17. QED
  BY <1>1, <1>2, <1>4, <1>6, <1>7, <1>9, <1>12, <1>13, <1>14, <1>15, <1>16 DEF IInv

-----------------------------------------------------------------------------
(* What the steps of the callers do                                        *)

\* A call comes to x: it goes on with the slot it has, or takes one that nobody has, or returns
\* and leaves its slot empty.
Moves(c, x) ==
    /\ x \in Calls /\ Fits(c, x)
    /\ th' = [th EXCEPT ![c] = x]
    /\ \/ x.slot = th[c].slot /\ chan' = chan
       \/ /\ th[c].slot = None /\ x.slot # None /\ chan' = chan
          /\ \A d \in Callers : th[d].slot # x.slot
       \/ /\ th[c].slot # None /\ x = Done
          /\ chan' = [chan EXCEPT ![th[c].slot] = Empty]
    /\ At(c, "done") => c = Poller
    /\ UNCHANGED <<loops, rx, stopped>>

\* A return leaves the slot empty.
LEMMA ReturnMoves ==
    ASSUME CallsOK, SlotsApart, NEW c \in Callers, th[c].pc \in {"queue", "wait"}, Return(c),
           UNCHANGED <<loops, rx, stopped>>
    PROVE  Moves(c, Done)
<1>1. th[c].slot # None  BY DEF SlotsApart, Fits
<1>2. Done \in Calls  BY DEF Done, Call, Calls, Kinds
<1>3. Fits(c, Done)  BY DEF Done, Call, Fits
<1>4. QED  BY <1>1, <1>2, <1>3 DEF Moves, Return, At

\* Begin.
LEMMA BeginMoves ==
    ASSUME CallsOK, SlotsApart, NEW c \in Callers, NEW kind \in Kinds, Begin(c, kind)
    PROVE  \E x \in Calls : Moves(c, x) /\ x.pc # "wait" /\ th[c].pc = "idle"
<1>1. th[c].slot = None /\ th[c].pc = "idle"  BY DEF SlotsApart, Fits, Begin, At
<1>2. c \in Slots /\ c # None  BY PortAssumption DEF Slots
<1>3. c = Poller => kind = "normal"  BY DEF Begin
<1>4. UNCHANGED <<loops, rx, stopped, chan>>  BY DEF Begin, state, loops
<1>5. CASE kind = "sms"
  <2> DEFINE x == Call("queue", kind, c)
  <2>1. th' = [th EXCEPT ![c] = x]  BY <1>5 DEF Begin
  <2>2. x \in Calls /\ Fits(c, x)  BY <1>2, <1>3, <1>5 DEF Calls, Call, Fits
  <2>3. \A d \in Callers : th[d].slot # c
    BY <1>1, <1>2, PortAssumption DEF SlotsApart, Fits
  <2>4. QED  BY <1>1, <1>2, <1>4, <2>1, <2>2, <2>3 DEF Moves, At, Call
<1>6. CASE kind # "sms" /\ stopped
  <2>1. th' = [th EXCEPT ![c] = Done]  BY <1>6 DEF Begin
  <2>2. Done \in Calls /\ Fits(c, Done)  BY DEF Calls, Call, Done, Fits, Kinds
  <2>3. QED  BY <1>1, <1>4, <2>1, <2>2 DEF Moves, At, Done, Call
<1>7. CASE kind # "sms" /\ ~stopped
  <2> DEFINE x == Call("get", kind, None)
  <2>1. th' = [th EXCEPT ![c] = x]  BY <1>7 DEF Begin
  <2>2. x \in Calls /\ Fits(c, x)  BY <1>3, <1>7 DEF Calls, Call, Fits
  <2>3. QED  BY <1>1, <1>4, <2>1, <2>2 DEF Moves, At, Call
<1>8. QED  BY <1>5, <1>6, <1>7

\* reqPool.Get.
LEMMA GetMoves ==
    ASSUME CallsOK, SlotsApart, NEW c \in Callers, GetRequest(c)
    PROVE  \E x \in Calls : Moves(c, x) /\ x.pc # "wait" /\ th[c].pc = "get"
<1> DEFINE free == Pool \ {th[d].slot : d \in Callers}
<1>1. PICK s \in IF free # {} THEN free ELSE {c} :
        th' = [th EXCEPT ![c] = Call("queue", th[c].kind, s)]
  BY DEF GetRequest
<1>2. th[c] \in Calls  BY DEF CallsOK
<1>3. th[c].pc = "get" /\ th[c].slot = None /\ th[c].kind # "sms"
  BY PortAssumption DEF GetRequest, At, SlotsApart, Fits
<1> DEFINE x == Call("queue", th[c].kind, s)
<1>4. s \in Pool \cup {c} /\ s \in Slots /\ s # None  BY PortAssumption DEF Slots
<1>5. \A d \in Callers : th[d].slot # s
  <2>1. CASE s \in free  BY <2>1
  <2>2. CASE s = c  BY <1>3, <2>2, PortAssumption DEF SlotsApart, Fits
  <2>3. QED  BY <1>1, <2>1, <2>2
<1>6. x \in Calls  BY <1>2, <1>4 DEF Calls, Call
<1>7. Fits(c, x)  BY <1>3, <1>4 DEF Call, Fits, SlotsApart
<1>8. QED  BY <1>1, <1>3, <1>4, <1>5, <1>6, <1>7 DEF Moves, At, GetRequest, state, loops, Call

\* The open requests, with one more in a queue.
LEMMA OpenAppended ==
    ASSUME QueuesOK, NEW req \in Requests, UNCHANGED run,
           \/ high' = Append(high, req) /\ UNCHANGED normal
           \/ normal' = Append(normal, req) /\ UNCHANGED high
    PROVE  Open' = Open \cup {Ask(req)}
<1>1. high \in Seq(Requests) /\ normal \in Seq(Requests)  BY DEF QueuesOK
<1>2. CASE high' = Append(high, req) /\ UNCHANGED normal
  <2>1. Len(high') = Len(high) + 1 /\ Len(high) \in Nat  BY <1>1, <1>2, AppendFacts
  <2>2. \A i \in 1 .. Len(high) : high'[i] = high[i]  BY <1>1, <1>2, AppendFacts
  <2>3. high'[Len(high) + 1] = req  BY <1>1, <1>2, AppendFacts
  <2>4. {Ask(high'[i]) : i \in 1 .. Len(high')}
          = {Ask(high[i]) : i \in 1 .. Len(high)} \cup {Ask(req)}
    BY <2>1, <2>2, <2>3
  <2>5. QED  BY <1>2, <2>4 DEF Open, Working
<1>3. CASE normal' = Append(normal, req) /\ UNCHANGED high
  <2>1. Len(normal') = Len(normal) + 1 /\ Len(normal) \in Nat  BY <1>1, <1>3, AppendFacts
  <2>2. \A i \in 1 .. Len(normal) : normal'[i] = normal[i]  BY <1>1, <1>3, AppendFacts
  <2>3. normal'[Len(normal) + 1] = req  BY <1>1, <1>3, AppendFacts
  <2>4. {Ask(normal'[i]) : i \in 1 .. Len(normal')}
          = {Ask(normal[i]) : i \in 1 .. Len(normal)} \cup {Ask(req)}
    BY <2>1, <2>2, <2>3
  <2>5. QED  BY <1>3, <2>4 DEF Open, Working
<1>4. QED  BY <1>2, <1>3

\* What has gone into a queue.
Asking(c, x) == Open' = Open \cup {[c |-> c, slot |-> x.slot, kind |-> x.kind]}

\* A call that queues its request waits for the answer, or it returns.
LEMMA EnqueueMoves ==
    ASSUME QueuesOK, CallsOK, SlotsApart, NEW c \in Callers, Enqueue(c)
    PROVE  \E x \in Calls :
             /\ Moves(c, x) /\ th[c].pc = "queue"
             /\ \/ x.pc = "done" /\ Open' = Open
                \/ x.pc = "wait" /\ x.slot = th[c].slot /\ Asking(c, x)
<1> DEFINE req == [c |-> c, slot |-> th[c].slot, kind |-> th[c].kind,
                   prompt |-> th[c].kind = "sms"]
<1>1. th[c].pc = "queue" /\ th[c] \in Calls  BY DEF Enqueue, At, CallsOK
<1>2. UNCHANGED <<loops, rx, stopped>>  BY DEF Enqueue, state, loops
<1>3. CASE Return(c) /\ UNCHANGED queues
  <2>1. Moves(c, Done)  BY <1>1, <1>2, <1>3, ReturnMoves
  <2>2. Done \in Calls /\ Done.pc = "done"  BY DEF Done, Call, Calls, Kinds
  <2>3. Open' = Open  BY <1>2, <1>3 DEF Open, Working, queues, loops
  <2>4. QED  BY <1>1, <2>1, <2>2, <2>3
<1>4. CASE /\ IF th[c].kind = "normal"
              THEN normal' = Append(normal, req) /\ UNCHANGED high
              ELSE high' = Append(high, req) /\ UNCHANGED normal
           /\ th' = [th EXCEPT ![c] = Call("wait", @.kind, @.slot)]
           /\ UNCHANGED chan
  <2> DEFINE x == Call("wait", th[c].kind, th[c].slot)
  <2>1. x \in Calls /\ Fits(c, x) /\ x.slot = th[c].slot /\ x.pc = "wait"
    BY <1>1 DEF Call, Calls, SlotsApart, Fits
  <2>2. th' = [th EXCEPT ![c] = x]  BY <1>4 DEF CallsOK
  <2>3. Moves(c, x)  BY <1>1, <1>2, <1>4, <2>1, <2>2 DEF Moves, At
  <2>4. req \in Requests
    <3>1. th[c].slot # None  BY <1>1 DEF SlotsApart, Fits
    <3>2. QED  BY <1>1, <3>1 DEF Requests, Calls
  <2>5. Open' = Open \cup {Ask(req)}  BY <1>2, <1>4, <2>4, OpenAppended DEF loops
  <2>6. Ask(req) = [c |-> c, slot |-> x.slot, kind |-> x.kind]  BY DEF Ask, Call
  <2>7. QED  BY <1>1, <2>1, <2>3, <2>5, <2>6 DEF Asking
<1>5. QED  BY <1>3, <1>4 DEF Enqueue

\* The end of a call: it has its answer, or the manager has stopped, or a sender gives up.
LEMMA EndMoves ==
    ASSUME CallsOK, SlotsApart, NEW c \in Callers, Receive(c) \/ ReceiveStopped(c) \/ GiveUp(c)
    PROVE  /\ Moves(c, Done) /\ Done \in Calls /\ th[c].pc = "wait" /\ Open' = Open
           /\ Held(c) # {} \/ stopped \/ th[c].kind = "sms"
<1>1. th[c].pc = "wait" /\ Return(c) /\ UNCHANGED <<loops, queues, rx, stopped>>
  BY DEF Receive, ReceiveStopped, GiveUp, At, state
<1>2. Moves(c, Done)  BY <1>1, ReturnMoves
<1>3. Done \in Calls  BY DEF Done, Call, Calls, Kinds
<1>4. Open' = Open  BY <1>1 DEF Open, Working, queues, loops
<1>5. QED  BY <1>1, <1>2, <1>3, <1>4 DEF Receive, ReceiveStopped, GiveUp

\* The poll comes back.
LEMMA PollMoves ==
    ASSUME CallsOK, SlotsApart, PollAgain
    PROVE  /\ Poller \in Callers /\ Moves(Poller, Idle) /\ Idle \in Calls
           /\ th[Poller].pc = "done" /\ Idle.pc = "idle"
<1>1. Poller \in Callers  BY PortAssumption
<1>2. Idle \in Calls /\ Fits(Poller, Idle) /\ Idle.slot = None /\ Idle.pc = "idle"
  BY DEF Idle, Call, Calls, Kinds, Fits
<1>3. th[Poller].pc = "done" /\ th[Poller].slot = None
  BY <1>1 DEF PollAgain, At, SlotsApart, Fits
<1>4. QED  BY <1>1, <1>2, <1>3 DEF PollAgain, Moves, At, state, loops

\* A step of a caller: it moves; it queues its request on the way to waiting, and when it does
\* not wait any longer it has its answer, or the manager is stopped, or it is a sender.
Steps(c, x) ==
    /\ c \in Callers /\ x \in Calls /\ Moves(c, x)
    /\ \/ Open' = Open /\ x.pc # "wait"
       \/ th[c].pc = "queue" /\ x.pc = "wait" /\ x.slot = th[c].slot /\ Asking(c, x)
    /\ th[c].pc = "wait" =>
         x = Done /\ (Held(c) # {} \/ stopped \/ th[c].kind = "sms")

\* Every action of a caller is such a step.
LEMMA CallerSteps ==
    ASSUME QueuesOK, CallsOK, SlotsApart,
           PollAgain \/ \E c \in Callers : Caller(c) \/ \E kind \in Kinds : Begin(c, kind)
    PROVE  \E c, x : Steps(c, x)
<1>1. CASE PollAgain
  <2>1. Open' = Open  BY <1>1 DEF PollAgain, Open, Working, queues, loops
  <2>2. Steps(Poller, Idle)  BY <1>1, <2>1, PollMoves DEF Steps
  <2>3. QED  BY <2>2
<1>2. ASSUME NEW c \in Callers, NEW kind \in Kinds, Begin(c, kind) PROVE \E x : Steps(c, x)
  <2>1. Open' = Open  BY <1>2 DEF Begin, Open, Working, queues, loops
  <2>2. QED  BY <1>2, <2>1, BeginMoves DEF Steps
<1>3. ASSUME NEW c \in Callers, GetRequest(c) PROVE \E x : Steps(c, x)
  <2>1. Open' = Open  BY <1>3 DEF GetRequest, Open, Working, queues, loops
  <2>2. QED  BY <1>3, <2>1, GetMoves DEF Steps
<1>4. ASSUME NEW c \in Callers, Enqueue(c) PROVE \E x : Steps(c, x)
  BY <1>4, EnqueueMoves DEF Steps
<1>5. ASSUME NEW c \in Callers, Receive(c) \/ ReceiveStopped(c) \/ GiveUp(c)
      PROVE  \E x : Steps(c, x)
  <2>1. Done.pc # "wait"  BY DEF Done, Call
  <2>2. Steps(c, Done)  BY <1>5, <2>1, EndMoves DEF Steps
  <2>3. QED  BY <2>2
<1>6. QED  BY <1>1, <1>2, <1>3, <1>4, <1>5 DEF Caller

-----------------------------------------------------------------------------
(* What a caller's step preserves                                          *)

\* The calls are where they were but for the one that moves.
LEMMA StepMoves ==
    ASSUME CallsOK, SlotsApart, NEW c, NEW x, Steps(c, x)
    PROVE  /\ c \in Callers /\ x \in Calls /\ Fits(c, x) /\ CallsOK'
           /\ th'[c] = x /\ \A d \in Callers : d # c => th'[d] = th[d]
           /\ \A d \in Callers : d # c /\ x.slot # None => th[d].slot # x.slot
           /\ stopped' = stopped /\ run' = run
<1>1. c \in Callers /\ x \in Calls /\ Moves(c, x)  BY DEF Steps
<1>2. th' = [th EXCEPT ![c] = x] /\ stopped' = stopped /\ run' = run /\ Fits(c, x)
  BY <1>1 DEF Moves, loops
<1>3. \A d \in Callers : d # c /\ x.slot # None => th[d].slot # x.slot
  <2>1. CASE x.slot = th[c].slot  BY <1>1, <2>1 DEF SlotsApart
  <2>2. CASE \A d \in Callers : th[d].slot # x.slot  BY <2>2
  <2>3. CASE x = Done  BY <2>3 DEF Done, Call
  <2>4. QED  BY <1>1, <2>1, <2>2, <2>3 DEF Moves
<1>4. QED  BY <1>1, <1>2, <1>3 DEF CallsOK

\* A slot is taken only when nobody has it.
LEMMA StepSlots ==
    ASSUME CallsOK, SlotsApart, NEW c, NEW x, Steps(c, x)
    PROVE  SlotsApart'
<1>1. /\ c \in Callers /\ Fits(c, x)
      /\ th'[c] = x /\ \A d \in Callers : d # c => th'[d] = th[d]
      /\ \A d \in Callers : d # c /\ x.slot # None => th[d].slot # x.slot
  BY StepMoves
<1>2. \A d \in Callers : Fits(d, th'[d])  BY <1>1 DEF SlotsApart
<1>3. ASSUME NEW d \in Callers, NEW e \in Callers, th'[d].slot = th'[e].slot, th'[d].slot # None
      PROVE  d = e
  <2>1. CASE d = c \/ e = c  BY <1>1, <1>3, <2>1
  <2>2. CASE d # c /\ e # c  BY <1>1, <1>3, <2>2 DEF SlotsApart
  <2>3. QED  BY <2>1, <2>2
<1>4. QED  BY <1>2, <1>3 DEF SlotsApart, Fits

\* A slot changes only when its call returns: then it is empty.
LEMMA StepChan ==
    ASSUME CallsOK, SlotsApart, ChanOK, NEW c, NEW x, Steps(c, x)
    PROVE  /\ ChanOK'
           /\ \A s \in Slots : s # th[c].slot => chan'[s] = chan[s]
           /\ th[c].slot # None /\ x.slot = None => chan'[th[c].slot] = Empty
           /\ x.slot # None => chan' = chan
<1>1. c \in Callers /\ x \in Calls /\ Moves(c, x) /\ th[c] \in Calls  BY DEF Steps, CallsOK
<1>2. CASE chan' = chan /\ ~(th[c].slot # None /\ x.slot = None)  BY <1>2 DEF ChanOK
<1>3. CASE th[c].slot # None /\ x = Done /\ chan' = [chan EXCEPT ![th[c].slot] = Empty]
  <2>1. th[c].slot \in Slots  BY <1>1, <1>3 DEF Calls
  <2>2. x.slot = None  BY <1>3 DEF Done, Call
  <2>3. Empty \in [resp : Answers, err : Answers]  BY DEF Empty, Answers
  <2>4. QED  BY <1>3, <2>1, <2>2, <2>3 DEF ChanOK
<1>4. QED  BY <1>1, <1>2, <1>3 DEF Moves

\* The open requests are those of callers.
LEMMA OpenTyped ==
    ASSUME QueuesOK, RunOK
    PROVE  Open \subseteq [c : Callers, slot : Slots, kind : Kinds]
<1>1. \A r \in Requests : Ask(r) \in [c : Callers, slot : Slots, kind : Kinds]
  BY DEF Requests, Ask
<1>2. \A i \in 1 .. Len(high) : high[i] \in Requests  BY DEF QueuesOK
<1>3. \A i \in 1 .. Len(normal) : normal[i] \in Requests  BY DEF QueuesOK
<1>4. Working => run.req \in Requests  BY DEF RunOK, Working
<1>5. QED  BY <1>1, <1>2, <1>3, <1>4 DEF Open

\* Who queues a request waits for the answer; who stops waiting has no request, unless a sender
\* gives up.
LEMMA StepOwned ==
    ASSUME QueuesOK, RunOK, CallsOK, SlotsApart, AnsweredOnce, RequestsOwned,
           NEW c, NEW x, Steps(c, x)
    PROVE  RequestsOwned'
<1>1. /\ c \in Callers /\ x \in Calls /\ Fits(c, x)
      /\ th'[c] = x /\ \A d \in Callers : d # c => th'[d] = th[d]
      /\ stopped' = stopped
  BY StepMoves
<1> SUFFICES ASSUME ~stopped, NEW r \in Open' PROVE Owned(r)'
  BY <1>1 DEF RequestsOwned
<1>2. CASE r \in Open
  <2>1. Owned(r)  BY <1>2 DEF RequestsOwned
  <2>2. CASE r.c # c
    <3>1. r.c \in Callers  BY <1>2, OpenTyped
    <3>2. th'[r.c] = th[r.c]  BY <1>1, <2>2, <3>1
    <3>3. QED  BY <2>1, <3>2 DEF Owned, At
  <2>3. CASE r.c = c /\ At(c, "done")
    <3>1. r.kind = "sms" /\ c # Poller
      BY <2>1, <2>3 DEF Owned, At
    <3>2. QED  BY <2>3, <3>1 DEF Steps, Moves
  <2>4. CASE r.c = c /\ At(c, "wait")
    <3>1. th[c].slot = r.slot /\ th[c].kind = r.kind  BY <2>1, <2>4 DEF Owned, At
    <3>2. x = Done /\ (Held(c) # {} \/ th[c].kind = "sms")  BY <2>4 DEF Steps, At
    <3>3. th[c].slot # None  BY <1>1, <2>4 DEF SlotsApart, Fits, At
    <3>4. Held(c) = {}
      <4>1. Asks(c)  BY <1>2, <2>4 DEF Asks
      <4>2. chan[th[c].slot] = Empty  BY <1>1, <3>3, <4>1 DEF AnsweredOnce
      <4>3. QED  BY <4>2 DEF Held, Empty
    <3>5. th[c].kind = "sms" /\ th[c].slot = c /\ c # Poller
      BY <1>1, <3>2, <3>4 DEF SlotsApart, Fits
    <3>6. x.pc = "done"  BY <3>2 DEF Done, Call
    <3>7. QED  BY <1>1, <2>4, <3>1, <3>5, <3>6 DEF Owned, At
  <2>5. QED  BY <2>1, <2>2, <2>3, <2>4 DEF Owned
<1>3. CASE r \notin Open
  <2>1. r = [c |-> c, slot |-> x.slot, kind |-> x.kind] /\ x.pc = "wait"
    BY <1>3 DEF Steps, Asking
  <2>2. QED  BY <1>1, <2>1 DEF Owned, At
<1>4. QED  BY <1>2, <1>3

\* A call that goes on finds its slot as it was; one that gets a slot finds it empty.
LEMMA StepFindsEmpty ==
    ASSUME CallsOK, SlotsApart, ChanOK, AnsweredOnce, FreeSlotsEmpty, ~stopped,
           NEW c, NEW x, Steps(c, x), x.slot # None
    PROVE  chan'[x.slot] = Empty
<1>1. c \in Callers /\ x \in Calls /\ Fits(c, x) /\ Moves(c, x) /\ x.slot \in Slots
  BY StepMoves DEF Steps, Calls
<1>2. chan' = chan  BY StepChan
<1>3. CASE th[c].slot # None
  <2>1. th[c].pc # "wait"  BY <1>1 DEF Steps, Done, Call
  <2>2. x.slot = th[c].slot  BY <1>1, <1>3 DEF Moves, Done, Call
  <2>3. QED  BY <1>1, <1>2, <1>3, <2>1, <2>2 DEF AnsweredOnce, At
<1>4. CASE th[c].slot = None
  <2>1. \A d \in Callers : th[d].slot # x.slot  BY <1>1, <1>4 DEF Moves, Done, Call
  <2>2. CASE x.slot \in Callers \ {Poller} /\ At(x.slot, "done")
    <3>1. x.slot = c  BY <1>1, <2>2, PortAssumption DEF Fits
    <3>2. QED  BY <1>1, <2>2, <3>1 DEF Moves
  <2>3. QED  BY <1>1, <1>2, <2>1, <2>2 DEF FreeSlotsEmpty
<1>5. QED  BY <1>3, <1>4

\* Only a call that waits has something in its channels, and it has no request left.
LEMMA StepAnswered ==
    ASSUME CallsOK, SlotsApart, ChanOK, AnsweredOnce, FreeSlotsEmpty, NEW c, NEW x, Steps(c, x)
    PROVE  AnsweredOnce'
<1>1. /\ c \in Callers /\ x \in Calls
      /\ th'[c] = x /\ \A d \in Callers : d # c => th'[d] = th[d]
      /\ stopped' = stopped
  BY StepMoves
<1> SUFFICES ASSUME ~stopped, NEW d \in Callers, th'[d].slot # None, chan'[th'[d].slot] # Empty
             PROVE  At(d, "wait")' /\ ~Asks(d)'
  BY <1>1 DEF AnsweredOnce
<1>2. d # c  BY <1>1, StepFindsEmpty
<1>3. th'[d] = th[d] /\ th[d].slot \in Slots  BY <1>1, <1>2 DEF CallsOK, Calls
<1>4. th[d].slot # th[c].slot  BY <1>1, <1>2, <1>3 DEF SlotsApart
<1>5. chan'[th[d].slot] = chan[th[d].slot]  BY <1>3, <1>4, StepChan
<1>6. At(d, "wait") /\ ~Asks(d)  BY <1>3, <1>5 DEF AnsweredOnce
<1>7. \A r \in Open' : r \in Open \/ r.c = c  BY DEF Steps, Asking
<1>8. QED  BY <1>2, <1>3, <1>6, <1>7 DEF Asks, At

\* A call that comes to wait has just queued its request.
LEMMA StepAsks ==
    ASSUME CallsOK, SlotsApart, ChanOK, AllAsk, NEW c, NEW x, Steps(c, x)
    PROVE  AllAsk'
<1>1. /\ c \in Callers /\ x \in Calls
      /\ th'[c] = x /\ \A d \in Callers : d # c => th'[d] = th[d]
      /\ stopped' = stopped
  BY StepMoves
<1> SUFFICES ASSUME ~stopped, NEW d \in Callers, th'[d].pc = "wait"
             PROVE  chan'[th'[d].slot] # Empty \/ Asks(d)'
  BY <1>1 DEF AllAsk, At
<1>2. CASE d = c
  <2>1. Asking(c, x)  BY <1>1, <1>2 DEF Steps
  <2>2. [c |-> c, slot |-> x.slot, kind |-> x.kind] \in Open'  BY <2>1 DEF Asking
  <2>3. QED  BY <1>2, <2>2 DEF Asks
<1>3. CASE d # c
  <2>1. th'[d] = th[d] /\ th[d].slot \in Slots
    BY <1>1, <1>3 DEF CallsOK, Calls, SlotsApart, Fits
  <2>2. th[d].slot # th[c].slot  BY <1>1, <1>3, <2>1, PortAssumption DEF SlotsApart, Slots
  <2>3. chan'[th[d].slot] = chan[th[d].slot]  BY <2>1, <2>2, StepChan
  <2>4. Open \subseteq Open'  BY DEF Steps, Asking
  <2>5. QED  BY <2>1, <2>3, <2>4 DEF AllAsk, At, Asks
<1>4. QED  BY <1>2, <1>3

\* What a call gives back is empty.
LEMMA StepFree ==
    ASSUME CallsOK, SlotsApart, ChanOK, FreeSlotsEmpty, NEW c, NEW x, Steps(c, x)
    PROVE  FreeSlotsEmpty'
<1>1. /\ c \in Callers /\ x \in Calls /\ Moves(c, x)
      /\ th'[c] = x /\ \A d \in Callers : d # c => th'[d] = th[d]
      /\ stopped' = stopped
  BY StepMoves DEF Steps
<1> SUFFICES ASSUME ~stopped, NEW s \in Slots
             PROVE  \/ chan'[s] = Empty
                    \/ \E d \in Callers : th'[d].slot = s
                    \/ s \in Callers \ {Poller} /\ At(s, "done")'
  BY <1>1 DEF FreeSlotsEmpty
<1>2. CASE s = th[c].slot
  <2>1. s # None  BY PortAssumption DEF Slots
  <2>2. CASE x.slot = None  BY <1>2, <2>1, <2>2, StepChan
  <2>3. CASE x.slot # None
    <3>1. x.slot = s  BY <1>1, <1>2, <2>1, <2>3 DEF Moves, Done, Call
    <3>2. QED  BY <1>1, <3>1
  <2>4. QED  BY <2>2, <2>3
<1>3. CASE s # th[c].slot
  <2>1. chan'[s] = chan[s]  BY <1>3, StepChan
  <2>2. CASE chan[s] = Empty  BY <2>1, <2>2
  <2>3. CASE \E d \in Callers : th[d].slot = s  BY <1>1, <1>3, <2>3
  <2>4. CASE s \in Callers \ {Poller} /\ At(s, "done")
    <3>1. s # c  BY <1>1, <2>4 DEF Moves
    <3>2. QED  BY <1>1, <2>4, <3>1 DEF At
  <2>5. QED  BY <2>2, <2>3, <2>4 DEF FreeSlotsEmpty
<1>4. QED  BY <1>2, <1>3

\* The answers that a call finds were there before.
LEMMA StepHolds ==
    ASSUME CallsOK, SlotsApart, ChanOK, AnsweredOnce, FreeSlotsEmpty, ~stopped,
           NEW c, NEW x, Steps(c, x), NEW d \in Callers, th'[d].slot # None
    PROVE  HeldIn(th[d].slot)' # {} =>
             th'[d].slot = th[d].slot /\ chan'[th[d].slot] = chan[th[d].slot]
<1>1. /\ c \in Callers /\ x \in Calls
      /\ th'[c] = x /\ \A e \in Callers : e # c => th'[e] = th[e]
  BY StepMoves
<1>2. CASE d = c
  <2>1. chan'[th'[d].slot] = Empty  BY <1>1, <1>2, StepFindsEmpty
  <2>2. HeldIn(th[d].slot)' = {}  BY <2>1 DEF HeldIn, Empty
  <2>3. QED  BY <2>2
<1>3. CASE d # c
  <2>1. th'[d] = th[d] /\ th[d].slot \in Slots  BY <1>1, <1>3 DEF CallsOK, Calls
  <2>2. th[d].slot # th[c].slot  BY <1>1, <1>3, <2>1 DEF SlotsApart
  <2>3. QED  BY <2>1, <2>2, StepChan
<1>4. QED  BY <1>2, <1>3

-----------------------------------------------------------------------------
(* What the loops, the modem and a Stop do                                 *)

\* A request that is taken from a queue is the one that is worked on.
LEMMA OpenPopped ==
    ASSUME QueuesOK, ~Working,
           \/ /\ high # <<>> /\ Handle(Head(high)) /\ high' = Tail(high) /\ UNCHANGED normal
           \/ /\ normal # <<>> /\ Handle(Head(normal)) /\ normal' = Tail(normal)
              /\ UNCHANGED high
    PROVE  Open' = Open
<1>1. high \in Seq(Requests) /\ normal \in Seq(Requests)  BY DEF QueuesOK
<1>2. CASE high # <<>> /\ Handle(Head(high)) /\ high' = Tail(high) /\ UNCHANGED normal
  <2>1. /\ Head(high) = high[1] /\ Len(high) \in Nat \ {0}
        /\ \A i \in 1 .. Len(Tail(high)) :
             i + 1 \in 1 .. Len(high) /\ Tail(high)[i] = high[i + 1]
    BY <1>1, <1>2, TailFacts
  <2>2. run'.req = high[1] /\ 1 \in 1 .. Len(high) /\ Working'
    BY <1>2, <2>1 DEF Handle, Working
  <2>3. \A i \in 1 .. Len(high) :
          i # 1 => i - 1 \in 1 .. Len(Tail(high)) /\ high[i] = Tail(high)[i - 1]
    BY <1>1, <1>2
  <2>4. Open' \subseteq Open  BY <1>2, <2>1, <2>2 DEF Open
  <2>5. Open \subseteq Open'  BY <1>2, <2>2, <2>3 DEF Open
  <2>6. QED  BY <2>4, <2>5
<1>3. CASE normal # <<>> /\ Handle(Head(normal)) /\ normal' = Tail(normal) /\ UNCHANGED high
  <2>1. /\ Head(normal) = normal[1] /\ Len(normal) \in Nat \ {0}
        /\ \A i \in 1 .. Len(Tail(normal)) :
             i + 1 \in 1 .. Len(normal) /\ Tail(normal)[i] = normal[i + 1]
    BY <1>1, <1>3, TailFacts
  <2>2. run'.req = normal[1] /\ 1 \in 1 .. Len(normal) /\ Working'
    BY <1>3, <2>1 DEF Handle, Working
  <2>3. \A i \in 1 .. Len(normal) :
          i # 1 => i - 1 \in 1 .. Len(Tail(normal)) /\ normal[i] = Tail(normal)[i - 1]
    BY <1>1, <1>3
  <2>4. Open' \subseteq Open  BY <1>3, <2>1, <2>2 DEF Open
  <2>5. Open \subseteq Open'  BY <1>3, <2>2, <2>3 DEF Open
  <2>6. QED  BY <2>4, <2>5
<1>4. QED  BY <1>2, <1>3

\* What a Put does: the slot of the request holds one more answer.
LEMMA PutEffect ==
    ASSUME ChanOK, RunOK, run.req \in Requests, NEW ch \in {"resp", "err"},
           NEW of \in Callers \cup {None}, Put(ch, of)
    PROVE  /\ ChanOK'
           /\ \A s \in Slots : s # run.req.slot => chan'[s] = chan[s]
           /\ \A s \in Slots : s = run.req.slot =>
                HeldIn(s)' \subseteq HeldIn(s) \cup {Answer(run.req.c, of)}
<1> DEFINE slot == run.req.slot
           a == Answer(run.req.c, of)
<1>1. slot \in Slots /\ run.req.c \in Callers  BY DEF Requests
<1>2. a \in Answers /\ a # None  BY <1>1, PortAssumption DEF Answers, Answer
<1>3. chan' = [chan EXCEPT ![slot] = [@ EXCEPT ![ch] = a]]  BY DEF Put
<1>4. {chan'[slot].resp, chan'[slot].err} \ {None} \subseteq HeldIn(slot) \cup {a}
      /\ chan'[slot] \in [resp : Answers, err : Answers]
  <2>1. CASE ch = "resp"
    <3>1. chan'[slot] = [resp |-> a, err |-> chan[slot].err]  BY <1>1, <1>3, <2>1 DEF ChanOK
    <3>2. QED  BY <1>1, <1>2, <3>1 DEF ChanOK, HeldIn
  <2>2. CASE ch = "err"
    <3>1. chan'[slot] = [resp |-> chan[slot].resp, err |-> a]  BY <1>1, <1>3, <2>2 DEF ChanOK
    <3>2. QED  BY <1>1, <1>2, <3>1 DEF ChanOK, HeldIn
  <2>3. QED  BY <2>1, <2>2
<1>5. \A s \in Slots : s # slot => chan'[s] = chan[s]  BY <1>1, <1>3 DEF ChanOK
<1>6. ChanOK'  BY <1>1, <1>3, <1>4, <1>5 DEF ChanOK
<1>7. QED  BY <1>4, <1>5, <1>6 DEF HeldIn

\* handleCommand answers the request it works on, and goes on to something else.  Until somebody
\* gives up or a line is misread, the answer is what the modem says to that command.
Settles ==
    /\ Working /\ ~Working' /\ UNCHANGED <<queues, stopped>>
    /\ \E ch \in {"resp", "err"}, of \in Callers \cup {None} :
        Put(ch, of) /\ (slip' = "no" => of = run.req.c)

\* A step of anybody but a caller: nothing is put into a channel, or a request is answered.
Turns ==
    /\ th' = th /\ (stopped => stopped') /\ (slip # "no" => slip' # "no")
    /\ \/ chan' = chan /\ Open' = Open
       \/ Settles

\* The first select.
LEMMA TopTurns == ASSUME QueuesOK, RunTop PROVE Turns
<1>1. th' = th /\ stopped' = stopped /\ slip' = slip /\ chan' = chan /\ ~Working
      /\ UNCHANGED normal
  BY DEF RunTop, state, Working
<1>2. CASE high # <<>> /\ Handle(Head(high)) /\ high' = Tail(high)
  BY <1>1, <1>2, OpenPopped DEF Turns
<1>3. CASE UNCHANGED high /\ (RunGoto("exited") \/ RunGoto("second"))
  <2>1. ~Working'  BY <1>3 DEF RunGoto, Working
  <2>2. QED  BY <1>1, <1>3, <2>1 DEF Turns, Open
<1>4. QED  BY <1>2, <1>3 DEF RunTop

\* The second select.
LEMMA SecondTurns == ASSUME QueuesOK, RunSecond PROVE Turns
<1>1. th' = th /\ chan' = chan /\ ~Working
  BY DEF RunSecond, SecondStop, SecondHigh, SecondNormal, SecondLine, Working
<1>2. CASE SecondHigh \/ SecondNormal
  <2>1. stopped' = stopped /\ slip' = slip  BY <1>2 DEF SecondHigh, SecondNormal, state
  <2>2. Open' = Open  BY <1>1, <1>2, OpenPopped DEF SecondHigh, SecondNormal
  <2>3. QED  BY <1>1, <2>1, <2>2 DEF Turns
<1>3. CASE SecondStop \/ SecondLine
  <2>1. (stopped => stopped') /\ (slip # "no" => slip' # "no")
    BY <1>3 DEF SecondStop, SecondLine, Stop, state
  <2>2. ~Working' /\ UNCHANGED queues
    BY <1>3 DEF SecondStop, SecondLine, RunGoto, Working, queues
  <2>3. QED  BY <1>1, <2>1, <2>2 DEF Turns, Open, queues
<1>4. QED  BY <1>2, <1>3 DEF RunSecond

\* The command is written or refused.
LEMMA WriteTurns == ASSUME RunOK, Write PROVE Turns
<1>1. th' = th /\ stopped' = stopped /\ slip' = slip /\ UNCHANGED queues /\ run.pc = "write"
  BY DEF Write, state
<1>2. CASE run' = [run EXCEPT !.pc = "wait"] /\ UNCHANGED chan
  <2>1. Working /\ Working' /\ run'.req = run.req  BY <1>1, <1>2 DEF Working, RunOK
  <2>2. QED  BY <1>1, <1>2, <2>1 DEF Turns, Open, queues
<1>3. CASE Put("err", run.req.c) /\ run'.pc = "fail"
  <2>1. run.req.c \in Callers  BY <1>1 DEF RunOK, Requests
  <2>2. Working /\ ~Working'  BY <1>1, <1>3 DEF Working
  <2>3. Settles  BY <1>1, <1>3, <2>1, <2>2 DEF Settles
  <2>4. QED  BY <1>1, <2>3 DEF Turns
<1>4. QED  BY <1>2, <1>3 DEF Write, RunOK

\* A command that is not answered in time.
LEMMA TimeoutTurns == ASSUME RunOK, CommandTimeout PROVE Turns
<1>1. th' = th /\ stopped' = stopped /\ slip' = "late" /\ UNCHANGED queues /\ run.pc = "wait"
  BY DEF CommandTimeout, state
<1>2. run.req.c \in Callers  BY <1>1 DEF RunOK, Requests
<1>3. Working /\ ~Working'  BY <1>1 DEF Working, CommandTimeout, RunOK
<1>4. Put("err", run.req.c)  BY DEF CommandTimeout
<1>5. Settles  BY <1>1, <1>2, <1>3, <1>4 DEF Settles
<1>6. QED  BY <1>1, <1>5 DEF Turns

\* A line that comes while a command waits.  The error that readLoop passes on says nothing of
\* the modem; a line of the modem's, until somebody gives up, is about the very command or is
\* misread.
LEMMA LineTurns == ASSUME RunOK, WireOK, LinesInStep, Line PROVE Turns
<1>1. th' = th /\ stopped' = stopped /\ (slip' = slip \/ slip' = Slip(Head(rx)))
      /\ UNCHANGED queues /\ run.pc = "wait" /\ rx # <<>> /\ run.req \in Requests
  BY DEF Line, RunOK
<1>2. rx \in Seq(Lines) /\ Head(rx) = rx[1] /\ Head(rx) \in Lines /\ 1 \in 1 .. Len(rx)
  BY <1>1, TailFacts DEF WireOK
<1>3. run.req.c \in Callers /\ (slip # "no" => slip' # "no")  BY <1>1 DEF Requests, Slip
<1> DEFINE l == Head(rx)
<1>4. CASE l.kind = "urc" /\ UNCHANGED <<chan, run>>
  BY <1>1, <1>3, <1>4 DEF Turns, Open, Working, queues
<1>5. CASE Put("err", run.req.c) /\ run' = [run EXCEPT !.pc = "fail", !.fatal = (l.kind = "fatal")]
  <2>1. Working /\ ~Working'  BY <1>1, <1>5 DEF Working, RunOK
  <2>2. Settles  BY <1>1, <1>3, <1>5, <2>1 DEF Settles
  <2>3. QED  BY <1>1, <1>3, <2>2 DEF Turns
<1>6. CASE /\ l.kind \in {"final", "prompt"} /\ RunGoto("top") /\ slip' = Slip(l)
           /\ \E ch \in Channels(l) : Put(ch, l.of)
  <2>1. Working /\ ~Working'  BY <1>1, <1>6 DEF Working, RunGoto
  <2>2. l.of \in Callers \cup {None}  BY <1>2, <1>6 DEF Lines
  <2>3. slip' = "no" => l.of = run.req.c  BY <1>2, <1>3, <1>6 DEF LinesInStep, IsAnswer, Slip
  <2>4. PICK ch \in {"resp", "err"} : Put(ch, l.of)  BY <1>6 DEF Channels
  <2>5. Settles  BY <1>1, <2>1, <2>2, <2>3, <2>4 DEF Settles
  <2>6. QED  BY <1>1, <1>3, <2>5 DEF Turns
<1>7. CASE run' = [run EXCEPT !.req = [@ EXCEPT !.prompt = FALSE]] /\ UNCHANGED chan
  <2>1. Working /\ Working' /\ Ask(run'.req) = Ask(run.req)
    BY <1>1, <1>7 DEF Working, RunOK, Ask, Requests
  <2>2. QED  BY <1>1, <1>3, <1>7, <2>1 DEF Turns, Open, queues
<1>8. QED  BY <1>4, <1>5, <1>6, <1>7 DEF Line

\* Every step that is not a caller's is such a turn.
LEMMA LoopTurns ==
    ASSUME QueuesOK, RunOK, WireOK, LinesInStep, RunLoop \/ ReadLoop \/ Modem \/ StopManager
    PROVE  Turns
<1>1. CASE RunTop \/ RunSecond  BY <1>1, TopTurns, SecondTurns
<1>2. CASE Write \/ CommandTimeout \/ Line  BY <1>2, WriteTurns, TimeoutTurns, LineTurns
<1>3. CASE Fail \/ Trip
  <2>1. th' = th /\ chan' = chan /\ UNCHANGED queues /\ ~Working' /\ ~Working
    BY <1>3 DEF Fail, Trip, RunGoto, Working
  <2>2. (stopped => stopped') /\ (slip # "no" => slip' # "no")  BY <1>3 DEF Fail, Trip, Stop, state
  <2>3. QED  BY <2>1, <2>2 DEF Turns, Open, queues
<1>4. CASE ReadLoop \/ Modem \/ StopManager
  <2>1. th' = th /\ chan' = chan /\ UNCHANGED <<queues, run>>
    BY <1>4 DEF ReadLoop, ReadPasses, ReadStops, Modem, ModemAnswers, ModemURC, ReadError,
        StopManager, loops
  <2>2. (stopped => stopped') /\ (slip # "no" => slip' # "no")
    BY <1>4 DEF ReadLoop, ReadPasses, ReadStops, Modem, ModemAnswers, ModemURC, ReadError,
        StopManager, Stop, state
  <2>3. QED  BY <2>1, <2>2 DEF Turns, Open, Working, queues
<1>5. QED  BY <1>1, <1>2, <1>3, <1>4 DEF RunLoop

-----------------------------------------------------------------------------
(* What such a step preserves                                              *)

\* What is answered is open no longer, and nothing else of that call is.
LEMMA SettledIsClosed ==
    ASSUME RequestsOnce, ~stopped, Settles
    PROVE  Open' \subseteq Open /\ \A r \in Open' : r.c # run.req.c
<1>1. Open' = {Ask(high[i]) : i \in 1 .. Len(high)} \cup {Ask(normal[i]) : i \in 1 .. Len(normal)}
  BY DEF Settles, Open, queues
<1>2. /\ \A i \in 1 .. Len(high) : high[i].c # run.req.c
      /\ \A i \in 1 .. Len(normal) : normal[i].c # run.req.c
  BY DEF RequestsOnce, Settles
<1>3. Open' \subseteq Open  BY <1>1 DEF Open
<1>4. \A r : Ask(r).c = r.c  BY DEF Ask
<1>5. QED  BY <1>1, <1>2, <1>3, <1>4

\* The request that is answered belongs to its call, or to a sender who gave up; the slot is
\* nobody else's.
LEMMA SettledIsOwned ==
    ASSUME RunOK, CallsOK, SlotsApart, RequestsOwned, ~stopped, Settles
    PROVE  /\ run.req \in Requests /\ Owned(run.req)
           /\ \A d \in Callers : th[d].slot = run.req.slot => d = run.req.c /\ At(d, "wait")
<1>1. run.req \in Requests  BY DEF Settles, Working, RunOK
<1>2. Ask(run.req) \in Open  BY DEF Settles, Open
<1>3. Owned(Ask(run.req))  BY <1>2 DEF RequestsOwned
<1>4. Owned(run.req)  BY <1>3 DEF Owned, Ask
<1>5. run.req.c \in Callers /\ run.req.slot \in Slots /\ run.req.slot # None
  BY <1>1, PortAssumption DEF Requests, Slots
<1>6. ASSUME NEW d \in Callers, th[d].slot = run.req.slot PROVE d = run.req.c /\ At(d, "wait")
  <2>1. CASE At(run.req.c, "wait") /\ th[run.req.c].slot = run.req.slot
    BY <1>5, <1>6, <2>1 DEF SlotsApart
  <2>2. CASE At(run.req.c, "done") /\ run.req.slot = run.req.c
    <3>1. th[d].slot = d  BY <1>5, <1>6, <2>2, PortAssumption DEF SlotsApart, Fits
    <3>2. th[d].slot = None  BY <1>6, <2>2, <3>1 DEF SlotsApart, Fits, At
    <3>3. QED  BY <1>5, <1>6, <3>2
  <2>3. QED  BY <1>4, <2>1, <2>2 DEF Owned
<1>7. QED  BY <1>1, <1>4, <1>6

\* Nothing comes into the queues.
LEMMA TurnOwned == ASSUME RequestsOwned, RequestsOnce, Turns PROVE RequestsOwned'
<1> SUFFICES ASSUME ~stopped' PROVE \A r \in Open' : Owned(r)'
  BY DEF RequestsOwned
<1>1. ~stopped /\ th' = th  BY DEF Turns
<1>2. Open' \subseteq Open  BY <1>1, SettledIsClosed DEF Turns
<1>3. QED  BY <1>1, <1>2 DEF RequestsOwned, Owned, At

\* A call that is answered has had its one request.
LEMMA TurnAnswered ==
    ASSUME RunOK, CallsOK, SlotsApart, ChanOK, RequestsOwned, RequestsOnce, AnsweredOnce, Turns
    PROVE  AnsweredOnce'
<1> SUFFICES ASSUME ~stopped', NEW d \in Callers, th[d].slot # None, chan'[th[d].slot] # Empty
             PROVE  At(d, "wait") /\ ~Asks(d)'
  BY DEF AnsweredOnce, Turns, At
<1>1. ~stopped /\ th[d].slot \in Slots  BY DEF Turns, CallsOK, Calls
<1>2. CASE chan' = chan /\ Open' = Open  BY <1>1, <1>2 DEF AnsweredOnce, Asks
<1>3. CASE Settles
  <2>1. Open' \subseteq Open /\ \A r \in Open' : r.c # run.req.c
    BY <1>1, <1>3, SettledIsClosed
  <2>2. CASE th[d].slot = run.req.slot
    <3>1. d = run.req.c /\ At(d, "wait")  BY <1>1, <1>3, <2>2, SettledIsOwned
    <3>2. QED  BY <2>1, <3>1 DEF Asks
  <2>3. CASE th[d].slot # run.req.slot
    <3>1. run.req \in Requests  BY <1>1, <1>3, SettledIsOwned
    <3>2. chan'[th[d].slot] = chan[th[d].slot]  BY <1>1, <1>3, <2>3, <3>1, PutEffect DEF Settles
    <3>3. QED  BY <1>1, <2>1, <3>2 DEF AnsweredOnce, Asks
  <2>4. QED  BY <2>2, <2>3
<1>4. QED  BY <1>2, <1>3 DEF Turns

\* What an answer leaves open is what it is not about; the slot it is put into is not empty.
LEMMA SettledIsAnswered ==
    ASSUME ChanOK, RunOK, Settles
    PROVE  /\ \A r \in Open : r \in Open' \/ r = Ask(run.req)
           /\ chan'[run.req.slot] # Empty
<1>1. run.req \in Requests  BY DEF Settles, Working, RunOK
<1>2. \A r \in Open : r \in Open' \/ r = Ask(run.req)
  BY DEF Settles, Open, queues
<1>3. PICK ch \in {"resp", "err"}, of \in Callers \cup {None} : Put(ch, of)  BY DEF Settles
<1> DEFINE slot == run.req.slot
           a == Answer(run.req.c, of)
<1>4. slot \in Slots /\ a # None
  BY <1>1, PortAssumption DEF Requests, Answer
<1>5. chan'[slot] = [chan[slot] EXCEPT ![ch] = a]  BY <1>3, <1>4 DEF Put, ChanOK
<1>6. chan'[slot][ch] = a  BY <1>4, <1>5 DEF ChanOK
<1>7. Empty[ch] = None  BY DEF Empty
<1>8. chan'[slot] # Empty  BY <1>4, <1>6, <1>7
<1>9. QED  BY <1>2, <1>8

\* A call loses its request to the answer, and the answer is in its slot.
LEMMA TurnAsks ==
    ASSUME RunOK, CallsOK, SlotsApart, ChanOK, RequestsOwned, AllAsk, Turns
    PROVE  AllAsk'
<1> SUFFICES ASSUME ~stopped', NEW d \in Callers, th[d].pc = "wait"
             PROVE  chan'[th[d].slot] # Empty \/ Asks(d)'
  BY DEF AllAsk, Turns, At
<1>1. ~stopped /\ th[d].slot \in Slots  BY DEF Turns, CallsOK, Calls, SlotsApart, Fits
<1>2. CASE chan' = chan /\ Open' = Open  BY <1>1, <1>2 DEF AllAsk, Asks, At
<1>3. CASE Settles
  <2>1. run.req \in Requests /\ Owned(run.req)  BY <1>1, <1>3, SettledIsOwned
  <2>2. /\ \A r \in Open : r \in Open' \/ r = Ask(run.req)
        /\ chan'[run.req.slot] # Empty
    BY <1>3, SettledIsAnswered
  <2>3. CASE d = run.req.c
    <3>1. th[d].slot = run.req.slot  BY <2>1, <2>3 DEF Owned, At
    <3>2. QED  BY <2>2, <3>1
  <2>4. CASE d # run.req.c
    <3>1. CASE Asks(d)  BY <2>2, <2>4, <3>1 DEF Asks, Ask
    <3>2. CASE chan[th[d].slot] # Empty
      <4>1. CASE th[d].slot = run.req.slot  BY <2>2, <4>1
      <4>2. CASE th[d].slot # run.req.slot
        <5>1. chan'[th[d].slot] = chan[th[d].slot]
          BY <1>1, <1>3, <2>1, <4>2, PutEffect DEF Settles
        <5>2. QED  BY <3>2, <5>1
      <4>3. QED  BY <4>1, <4>2
    <3>3. QED  BY <1>1, <3>1, <3>2 DEF AllAsk, At
  <2>5. QED  BY <2>3, <2>4
<1>4. QED  BY <1>2, <1>3 DEF Turns

\* Only a slot that somebody has is written to, or one of a sender who gave up.
LEMMA TurnFree ==
    ASSUME RunOK, CallsOK, SlotsApart, ChanOK, RequestsOwned, FreeSlotsEmpty, Turns
    PROVE  FreeSlotsEmpty'
<1> SUFFICES ASSUME ~stopped', NEW s \in Slots
             PROVE  \/ chan'[s] = Empty
                    \/ \E d \in Callers : th[d].slot = s
                    \/ s \in Callers \ {Poller} /\ At(s, "done")
  BY DEF FreeSlotsEmpty, Turns, At
<1>1. ~stopped  BY DEF Turns
<1>2. CASE chan'[s] = chan[s]  BY <1>1, <1>2 DEF FreeSlotsEmpty
<1>3. CASE Settles /\ s = run.req.slot
  BY <1>1, <1>3, SettledIsOwned DEF Owned, Requests
<1>4. CASE Settles /\ s # run.req.slot
  <2>1. run.req \in Requests  BY <1>1, <1>4, SettledIsOwned
  <2>2. chan'[s] = chan[s]  BY <1>4, <2>1, PutEffect DEF Settles
  <2>3. QED  BY <1>2, <2>2
<1>5. QED  BY <1>2, <1>3, <1>4 DEF Turns

\* The answers that a call finds are those it had and, if its request was answered, one more.
LEMMA TurnHolds ==
    ASSUME RunOK, CallsOK, SlotsApart, ChanOK, RequestsOwned, ~stopped, Turns,
           NEW d \in Callers, th[d].slot # None, NEW a \in HeldIn(th[d].slot)'
    PROVE  \/ a \in HeldIn(th[d].slot)
           \/ \E of \in Callers \cup {None} : a = Answer(d, of) /\ (slip' = "no" => of = d)
<1>1. th' = th /\ th[d].slot \in Slots  BY DEF Turns, CallsOK, Calls
<1>2. CASE chan'[th[d].slot] = chan[th[d].slot]  BY <1>1, <1>2 DEF HeldIn
<1>3. CASE Settles
  <2>1. run.req \in Requests  BY <1>3, SettledIsOwned
  <2>2. PICK ch \in {"resp", "err"}, of \in Callers \cup {None} :
          Put(ch, of) /\ (slip' = "no" => of = run.req.c)
    BY <1>3 DEF Settles
  <2>3. CASE th[d].slot = run.req.slot
    <3>1. d = run.req.c  BY <1>3, <2>3, SettledIsOwned
    <3>2. a \in HeldIn(th[d].slot) \cup {Answer(run.req.c, of)}
      BY <1>1, <2>1, <2>2, <2>3, PutEffect
    <3>3. QED  BY <2>2, <3>1, <3>2
  <2>4. CASE th[d].slot # run.req.slot
    BY <1>1, <1>2, <2>1, <2>2, <2>4, PutEffect
  <2>5. QED  BY <2>3, <2>4
<1>4. QED  BY <1>2, <1>3 DEF Turns

\* The channels hold answers.
LEMMA TurnChan == ASSUME RunOK, ChanOK, Turns PROVE ChanOK'
<1>1. CASE chan' = chan  BY <1>1 DEF ChanOK
<1>2. CASE Settles
  <2>1. run.req \in Requests  BY <1>2 DEF Settles, Working, RunOK
  <2>2. QED  BY <1>2, <2>1, PutEffect DEF Settles
<1>3. QED  BY <1>1, <1>2 DEF Turns

-----------------------------------------------------------------------------
(* The loops, action by action                                             *)

\* A port that is stopped stays so, and its silence is known.
LEMMA StateStep ==
    ASSUME StateOK, [Next]_vars
    PROVE  StateOK'
<1> USE DEF StateOK
<1>1. CASE UNCHANGED vars  BY <1>1 DEF vars, state, loops
<1>2. ASSUME NEW c \in Callers, NEW kind \in Kinds, Begin(c, kind) PROVE StateOK'
  BY <1>2 DEF Begin, state, loops
<1>3. ASSUME NEW c \in Callers, Caller(c) PROVE StateOK'
  <2>1. UNCHANGED <<state, read>> /\ slip' \in {slip, "late"}
    BY <1>3 DEF Caller, GetRequest, Enqueue, Receive, ReceiveStopped, GiveUp, loops
  <2>2. QED  BY <2>1 DEF state
<1>4. CASE PollAgain \/ RunTop \/ SecondStop \/ SecondHigh \/ SecondNormal \/ Write
  <2>1. UNCHANGED <<state, read, slip>>
    BY <1>4 DEF PollAgain, RunTop, SecondStop, SecondHigh, SecondNormal, Write, loops
  <2>2. QED  BY <2>1 DEF state
<1>5. CASE SecondLine \/ Fail \/ StopManager
  BY <1>5 DEF SecondLine, Fail, StopManager, Stop, loops
<1>6. CASE CommandTimeout  BY <1>6 DEF CommandTimeout, state
<1>7. CASE Trip
  <2>1. streak' \in {streak, IF streak < Threshold THEN streak + 1 ELSE streak}
    BY <1>7 DEF Trip, state
  <2>2. streak' \in 0 .. Threshold  BY <2>1, Bounds
  <2>3. read' = read /\ (UNCHANGED <<stopped, slip>> \/ Stop)  BY <1>7 DEF Trip, state
  <2>4. CASE UNCHANGED <<stopped, slip>>  BY <2>2, <2>3, <2>4
  <2>5. CASE Stop  BY <2>2, <2>3, <2>5 DEF Stop
  <2>6. QED  BY <2>3, <2>4, <2>5
<1>8. CASE Line
  <2>1. streak' \in {streak, 0} /\ UNCHANGED <<stopped, read>>
        /\ (slip' = slip \/ slip' = Slip(Head(rx)))
    BY <1>8 DEF Line
  <2>2. 0 \in 0 .. Threshold  BY Bounds
  <2>3. QED  BY <2>1, <2>2 DEF Slip
<1>9. CASE ReadPasses \/ ReadStops  BY <1>9 DEF ReadPasses, ReadStops, state
<1>10. CASE ModemAnswers \/ ModemURC \/ ReadError
  <2>1. UNCHANGED <<state, slip>> /\ read' \in {read, "fatal", "eof"}
    BY <1>10 DEF ModemAnswers, ModemURC, ReadError, loops
  <2>2. QED  BY <2>1 DEF state
<1>11. QED
  BY <1>1, <1>2, <1>3, <1>4, <1>5, <1>6, <1>7, <1>8, <1>9, <1>10
  DEF Next, RunLoop, RunSecond, ReadLoop, Modem

\* The callers leave the loops, the lines and the modem alone.
LEMMA CallersLeave ==
    ASSUME PollAgain \/ \E c \in Callers : Caller(c) \/ \E kind \in Kinds : Begin(c, kind)
    PROVE  UNCHANGED <<loops, rx, modem, stopped>> /\ (slip # "no" => slip' # "no")
<1>1. CASE PollAgain  BY <1>1 DEF PollAgain, state
<1>2. ASSUME NEW c \in Callers, NEW kind \in Kinds, Begin(c, kind)
      PROVE  UNCHANGED <<loops, rx, modem, stopped>> /\ (slip # "no" => slip' # "no")
  BY <1>2 DEF Begin, state
<1>3. ASSUME NEW c \in Callers, Caller(c)
      PROVE  UNCHANGED <<loops, rx, modem, stopped>> /\ (slip # "no" => slip' # "no")
  BY <1>3 DEF Caller, GetRequest, Enqueue, Receive, ReceiveStopped, GiveUp, state
<1>4. QED  BY <1>1, <1>2, <1>3

\* The readers leave runLoop and the queues alone.
LEMMA ReadersLeave ==
    ASSUME ReadLoop \/ Modem \/ StopManager
    PROVE  UNCHANGED <<queues, run>> /\ (stopped => stopped')
BY DEF ReadLoop, ReadPasses, ReadStops, Modem, ModemAnswers, ModemURC, ReadError, StopManager,
       Stop, loops, state

\* handleCommand works on a request.
LEMMA RunStep ==
    ASSUME RunOK, QueuesOK, [Next]_vars
    PROVE  RunOK'
<1> USE DEF RunOK
<1>1. CASE UNCHANGED run  BY <1>1
<1>2. CASE \E pc \in {"top", "second", "exited"} : RunGoto(pc)  BY <1>2 DEF RunGoto
<1>3. ASSUME NEW req \in Requests, Handle(req) PROVE RunOK'  BY <1>3 DEF Handle
<1>4. high # <<>> => Head(high) \in Requests  BY TailFacts DEF QueuesOK
<1>5. normal # <<>> => Head(normal) \in Requests  BY TailFacts DEF QueuesOK
<1>6. CASE RunTop  BY <1>1, <1>2, <1>3, <1>4, <1>6 DEF RunTop
<1>7. CASE RunSecond
  BY <1>2, <1>3, <1>4, <1>5, <1>7
  DEF RunSecond, SecondStop, SecondHigh, SecondNormal, SecondLine
<1>8. CASE Write
  BY <1>8 DEF Write
<1>9. CASE Fail \/ Trip  BY <1>2, <1>9 DEF Fail, Trip
<1>10. CASE CommandTimeout  BY <1>10 DEF CommandTimeout
<1>11. CASE Line
  <2>1. run.pc = "wait" /\ run.req \in Requests  BY <1>11 DEF Line
  <2>2. CASE run' = [run EXCEPT !.pc = "fail", !.fatal = (Head(rx).kind = "fatal")]
    BY <2>1, <2>2
  <2>3. CASE run' = [run EXCEPT !.req = [@ EXCEPT !.prompt = FALSE]]
    <3>1. [run.req EXCEPT !.prompt = FALSE] \in Requests  BY <2>1 DEF Requests
    <3>2. QED  BY <2>1, <2>3, <3>1
  <2>4. QED  BY <1>1, <1>2, <1>11, <2>2, <2>3 DEF Line
<1>12. QED
  BY <1>1, <1>6, <1>7, <1>8, <1>9, <1>10, <1>11, CallersLeave, ReadersLeave
  DEF Next, RunLoop, vars, loops

\* The requests are queued by their priority.
LEMMA QueuesStep ==
    ASSUME QueuesOK, CallsOK, SlotsApart, [Next]_vars
    PROVE  QueuesOK'
<1>1. CASE UNCHANGED queues  BY <1>1 DEF QueuesOK, queues
<1>2. CASE high # <<>> /\ high' = Tail(high) /\ UNCHANGED normal
  <2>1. /\ high' \in Seq(Requests) /\ Len(high') = Len(high) - 1 /\ Len(high) \in Nat \ {0}
        /\ \A i \in 1 .. Len(high') : i + 1 \in 1 .. Len(high) /\ high'[i] = high[i + 1]
    BY <1>2, TailFacts DEF QueuesOK
  <2>2. QED  BY <1>2, <2>1, Bounds DEF QueuesOK
<1>3. CASE normal # <<>> /\ normal' = Tail(normal) /\ UNCHANGED high
  <2>1. /\ normal' \in Seq(Requests) /\ Len(normal') = Len(normal) - 1
        /\ Len(normal) \in Nat \ {0}
        /\ \A i \in 1 .. Len(normal') : i + 1 \in 1 .. Len(normal) /\ normal'[i] = normal[i + 1]
    BY <1>3, TailFacts DEF QueuesOK
  <2>2. QED  BY <1>3, <2>1, Bounds DEF QueuesOK
<1>4. ASSUME NEW c \in Callers, Enqueue(c) PROVE QueuesOK'
  <2> DEFINE req == [c |-> c, slot |-> th[c].slot, kind |-> th[c].kind,
                     prompt |-> th[c].kind = "sms"]
  <2>1. th[c].slot # None /\ th[c] \in Calls  BY <1>4 DEF Enqueue, SlotsApart, Fits, At, CallsOK
  <2>2. req \in Requests  BY <2>1 DEF Requests, Calls
  <2>3. CASE UNCHANGED queues  BY <1>1, <2>3
  <2>4. CASE /\ Len(normal) < QueueLength /\ th[c].kind = "normal"
             /\ normal' = Append(normal, req) /\ UNCHANGED high
    <3>1. /\ normal' \in Seq(Requests) /\ Len(normal') = Len(normal) + 1 /\ Len(normal) \in Nat
          /\ \A i \in 1 .. Len(normal) : normal'[i] = normal[i]
          /\ normal'[Len(normal) + 1] = req
      BY <2>2, <2>4, AppendFacts DEF QueuesOK
    <3>2. \A i \in 1 .. Len(normal') : normal'[i].kind = "normal"
      BY <2>4, <3>1 DEF QueuesOK
    <3>3. QED  BY <2>4, <3>1, <3>2, Bounds DEF QueuesOK
  <2>5. CASE /\ Len(high) < QueueLength /\ th[c].kind # "normal"
             /\ high' = Append(high, req) /\ UNCHANGED normal
    <3>1. /\ high' \in Seq(Requests) /\ Len(high') = Len(high) + 1 /\ Len(high) \in Nat
          /\ \A i \in 1 .. Len(high) : high'[i] = high[i]
          /\ high'[Len(high) + 1] = req
      BY <2>2, <2>5, AppendFacts DEF QueuesOK
    <3>2. \A i \in 1 .. Len(high') : high'[i].kind # "normal"
      BY <2>5, <3>1 DEF QueuesOK
    <3>3. QED  BY <2>5, <3>1, <3>2, Bounds DEF QueuesOK
  <2>6. QED  BY <1>4, <2>3, <2>4, <2>5 DEF Enqueue, Queue
<1>5. CASE RunLoop
  BY <1>1, <1>2, <1>3, <1>5
  DEF RunLoop, RunTop, RunSecond, SecondStop, SecondHigh, SecondNormal, SecondLine, Write, Fail,
      CommandTimeout, Trip, Line, queues
<1>6. ASSUME NEW c \in Callers, Caller(c) \/ \E kind \in Kinds : Begin(c, kind) PROVE QueuesOK'
  BY <1>1, <1>4, <1>6 DEF Caller, Begin, GetRequest, Receive, ReceiveStopped, GiveUp
<1>7. CASE UNCHANGED vars \/ PollAgain  BY <1>1, <1>7 DEF vars, PollAgain
<1>8. QED  BY <1>1, <1>5, <1>6, <1>7, ReadersLeave DEF Next

\* What the buffers hold, and how much.
LEMMA WireStep ==
    ASSUME WireOK, RunOK, [Next]_vars
    PROVE  WireOK'
<1>1. rx \in Seq(Lines) /\ modem \in Seq(Outstanding) /\ Len(rx) \in Nat /\ Len(modem) \in Nat
  BY DEF WireOK
<1>2. rx # <<>> => Tail(rx) \in Seq(Lines) /\ Len(Tail(rx)) <= RxLength
  BY <1>1, TailFacts, Bounds DEF WireOK
<1>3. modem # <<>> => /\ Tail(modem) \in Seq(Outstanding) /\ Len(Tail(modem)) <= MaxPending
                      /\ Len(Tail(modem)) = Len(modem) - 1 /\ Head(modem) \in Outstanding
                      /\ Head(modem) = modem[1] /\ 1 \in 1 .. Len(modem)
  BY <1>1, TailFacts, Bounds DEF WireOK
<1>4. ASSUME NEW l \in Lines, Len(rx) < RxLength, Receives(l)
      PROVE  rx' \in Seq(Lines) /\ Len(rx') <= RxLength
  BY <1>1, <1>4, AppendFacts, Bounds DEF Receives
<1>5. ASSUME NEW stage \in {"command", "message", "prompted", "data"}, modem # <<>>
      PROVE  LET m == [modem EXCEPT ![1] = [@ EXCEPT !.stage = stage]]
             IN  m \in Seq(Outstanding) /\ Len(m) = Len(modem)
  <2>1. [modem[1] EXCEPT !.stage = stage] \in Outstanding  BY <1>3, <1>5 DEF Outstanding
  <2>2. QED  BY <1>1, <1>3, <1>5, <2>1
<1>6. CASE UNCHANGED <<rx, modem>>  BY <1>6 DEF WireOK
<1>7. CASE UNCHANGED rx /\ Stop  BY <1>7, Bounds DEF WireOK, Stop
<1>8. CASE RunTop \/ SecondStop \/ SecondHigh \/ SecondNormal
  BY <1>6, <1>8 DEF RunTop, SecondStop, SecondHigh, SecondNormal
<1>9. CASE SecondLine
  <2>1. rx' \in Seq(Lines) /\ Len(rx') <= RxLength  BY <1>2, <1>9 DEF SecondLine
  <2>2. modem' = modem \/ modem' = <<>>  BY <1>9 DEF SecondLine, Stop
  <2>3. <<>> \in Seq(Outstanding) /\ Len(<<>>) <= MaxPending  BY Bounds
  <2>4. QED  BY <1>1, <2>1, <2>2, <2>3 DEF WireOK
<1>10. CASE Write
  <2> DEFINE old == IF Len(modem) = MaxPending THEN Tail(modem) ELSE modem
             stage == IF run.req.prompt THEN "message" ELSE "command"
             p == [of |-> run.req.c, stage |-> stage]
  <2>1. rx' = rx /\ (modem' = modem \/ modem' = Append(old, p)) /\ run.req \in Requests
    BY <1>10 DEF Write, RunOK
  <2>2. p \in Outstanding  BY <2>1 DEF Outstanding, Requests
  <2>3. modem = <<>> => Len(modem) = 0  OBVIOUS
  <2>4. old \in Seq(Outstanding) /\ Len(old) < MaxPending
    BY <1>1, <1>3, <2>3, Bounds DEF WireOK
  <2>5. Append(old, p) \in Seq(Outstanding) /\ Len(Append(old, p)) <= MaxPending
    BY <2>2, <2>4, AppendFacts, Bounds
  <2>6. QED  BY <2>1, <2>5 DEF WireOK
<1>11. CASE Fail \/ Trip  BY <1>6, <1>7, <1>11 DEF Fail, Trip
<1>12. CASE CommandTimeout
  BY <1>3, <1>12 DEF CommandTimeout, Prompting, WireOK
<1>13. CASE Line
  <2>1. rx' \in Seq(Lines) /\ Len(rx') <= RxLength  BY <1>2, <1>13 DEF Line
  <2>2. modem' = modem \/ modem' = Prompted("data")  BY <1>13 DEF Line
  <2>3. QED  BY <1>5, <2>1, <2>2 DEF WireOK, Prompted, Prompting
<1>14. CASE ReadPasses
  <2>1. [kind |-> read, of |-> None] \in Lines  BY <1>14 DEF ReadPasses, Lines
  <2>2. QED  BY <1>4, <1>14, <2>1 DEF ReadPasses, WireOK
<1>15. CASE ReadStops \/ ReadError  BY <1>6, <1>15 DEF ReadStops, ReadError
<1>16. CASE ModemURC
  <2>1. \A kind \in {"urc", "final", "prompt"} : [kind |-> kind, of |-> None] \in Lines
    BY DEF Lines
  <2>2. QED  BY <1>4, <1>16, <2>1 DEF ModemURC, WireOK
<1>17. CASE ModemAnswers
  <2>1. modem # <<>> /\ Head(modem).of \in Callers  BY <1>3, <1>17 DEF ModemAnswers, Outstanding
  <2>2. \A kind \in {"final", "prompt"} : [kind |-> kind, of |-> Head(modem).of] \in Lines
    BY <2>1 DEF Lines
  <2>3. rx' \in Seq(Lines) /\ Len(rx') <= RxLength  BY <1>4, <1>17, <2>2 DEF ModemAnswers
  <2>4. modem' = Tail(modem) \/ modem' = [modem EXCEPT ![1] = [@ EXCEPT !.stage = "prompted"]]
    BY <1>17 DEF ModemAnswers
  <2>5. QED  BY <1>3, <1>5, <2>1, <2>3, <2>4 DEF WireOK
<1>18. CASE StopManager  BY <1>7, <1>18 DEF StopManager
<1>19. QED
  BY <1>6, <1>8, <1>9, <1>10, <1>11, <1>12, <1>13, <1>14, <1>15, <1>16, <1>17, <1>18, CallersLeave
  DEF Next, RunLoop, RunSecond, ReadLoop, Modem, vars

\* A caller that queues a request has none open; what is taken from a queue is not in the other.
LEMMA OnceStep ==
    ASSUME QueuesOK, RunOK, CallsOK, SlotsApart, RequestsOwned, RequestsOnce, [Next]_vars
    PROVE  RequestsOnce'
<1>1. CASE UNCHANGED queues /\ (stopped => stopped')
           /\ (Working' => Working /\ run'.req.c = run.req.c)
  BY <1>1 DEF RequestsOnce, queues
<1>2. high \in Seq(Requests) /\ normal \in Seq(Requests) /\ Len(high) \in Nat /\ Len(normal) \in Nat
  BY DEF QueuesOK
<1>3. \A i \in 1 .. Len(high) : Ask(high[i]) \in Open /\ high[i].kind # "normal"
  BY DEF Open, QueuesOK
<1>4. \A i \in 1 .. Len(normal) : Ask(normal[i]) \in Open /\ normal[i].kind = "normal"
  BY DEF Open, QueuesOK
<1>5. ASSUME ~stopped, NEW i \in 1 .. Len(high), NEW j \in 1 .. Len(normal)
      PROVE  high[i].c # normal[j].c
  <2>1. Owned(Ask(high[i])) /\ Owned(Ask(normal[j]))  BY <1>3, <1>4, <1>5 DEF RequestsOwned
  <2>2. QED  BY <1>3, <1>4, <2>1 DEF Owned, Ask, At
<1>6. CASE /\ ~Working /\ high # <<>> /\ Handle(Head(high)) /\ high' = Tail(high)
           /\ UNCHANGED <<normal, stopped>>
  <2>1. /\ Head(high) = high[1] /\ Len(high) \in Nat \ {0} /\ Len(high') = Len(high) - 1
        /\ \A i \in 1 .. Len(high') : i + 1 \in 1 .. Len(high) /\ high'[i] = high[i + 1]
    BY <1>2, <1>6, TailFacts
  <2>2. run'.req = high[1] /\ 1 \in 1 .. Len(high)  BY <1>6, <2>1 DEF Handle
  <2>3. ~stopped => \A i \in 1 .. Len(high') : high'[i].c # high[1].c
    <3>1. \A i \in 1 .. Len(high') : i + 1 # 1 /\ i + 1 \in 1 .. Len(high) /\ high'[i] = high[i + 1]
      BY <2>1
    <3>2. QED  BY <2>2, <3>1 DEF RequestsOnce
  <2>4. ~stopped => \A i, j \in 1 .. Len(high') : high'[i].c = high'[j].c => i = j
    <3>1. \A i, j \in 1 .. Len(high') : i + 1 = j + 1 => i = j  BY <2>1
    <3>2. QED  BY <2>1, <3>1 DEF RequestsOnce
  <2>5. ~stopped => \A i \in 1 .. Len(normal) : normal[i].c # high[1].c  BY <1>5, <2>2
  <2>6. QED  BY <1>6, <2>2, <2>3, <2>4, <2>5 DEF RequestsOnce
<1>7. CASE /\ ~Working /\ normal # <<>> /\ Handle(Head(normal)) /\ normal' = Tail(normal)
           /\ UNCHANGED <<high, stopped>>
  <2>1. /\ Head(normal) = normal[1] /\ Len(normal) \in Nat \ {0}
        /\ Len(normal') = Len(normal) - 1
        /\ \A i \in 1 .. Len(normal') : i + 1 \in 1 .. Len(normal) /\ normal'[i] = normal[i + 1]
    BY <1>2, <1>7, TailFacts
  <2>2. run'.req = normal[1] /\ 1 \in 1 .. Len(normal)  BY <1>7, <2>1 DEF Handle
  <2>3. ~stopped => \A i \in 1 .. Len(normal') : normal'[i].c # normal[1].c
    <3>1. \A i \in 1 .. Len(normal') :
            i + 1 # 1 /\ i + 1 \in 1 .. Len(normal) /\ normal'[i] = normal[i + 1]
      BY <2>1
    <3>2. QED  BY <2>2, <3>1 DEF RequestsOnce
  <2>4. ~stopped => \A i, j \in 1 .. Len(normal') : normal'[i].c = normal'[j].c => i = j
    <3>1. \A i, j \in 1 .. Len(normal') : i + 1 = j + 1 => i = j  BY <2>1
    <3>2. QED  BY <2>1, <3>1 DEF RequestsOnce
  <2>5. ~stopped => \A i \in 1 .. Len(high) : high[i].c # normal[1].c  BY <1>5, <2>2
  <2>6. QED  BY <1>7, <2>2, <2>3, <2>4, <2>5 DEF RequestsOnce
<1>8. ASSUME NEW c \in Callers, Enqueue(c) PROVE RequestsOnce'
  <2> DEFINE req == [c |-> c, slot |-> th[c].slot, kind |-> th[c].kind,
                     prompt |-> th[c].kind = "sms"]
  <2>1. UNCHANGED <<run, stopped>> /\ th[c].pc = "queue"  BY <1>8 DEF Enqueue, At, state, loops
  <2>2. ~stopped => \A r \in Open : r.c # c  BY <2>1 DEF RequestsOwned, Owned, At
  <2>3. /\ ~stopped => \A i \in 1 .. Len(high) : high[i].c # c
        /\ ~stopped => \A i \in 1 .. Len(normal) : normal[i].c # c
        /\ ~stopped /\ Working => run.req.c # c
    <3>1. \A r : Ask(r).c = r.c  BY DEF Ask
    <3>2. Working => Ask(run.req) \in Open  BY DEF Open
    <3>3. QED  BY <1>3, <1>4, <2>2, <3>1, <3>2
  <2>4. CASE UNCHANGED queues  BY <1>1, <2>1, <2>4 DEF Working
  <2>5. req \in Requests
    BY <2>1 DEF Requests, CallsOK, Calls, SlotsApart, Fits
  <2>6. CASE normal' = Append(normal, req) /\ UNCHANGED high
    <3>1. /\ Len(normal') = Len(normal) + 1
          /\ \A i \in 1 .. Len(normal) : normal'[i] = normal[i]
          /\ normal'[Len(normal) + 1].c = c
      BY <1>2, <2>5, <2>6, AppendFacts
    <3>2. \A i \in 1 .. Len(normal') : i \in 1 .. Len(normal) \/ i = Len(normal) + 1
      BY <1>2, <3>1
    <3>3. QED  BY <2>1, <2>3, <2>6, <3>1, <3>2 DEF RequestsOnce, Working
  <2>7. CASE high' = Append(high, req) /\ UNCHANGED normal
    <3>1. /\ Len(high') = Len(high) + 1
          /\ \A i \in 1 .. Len(high) : high'[i] = high[i]
          /\ high'[Len(high) + 1].c = c
      BY <1>2, <2>5, <2>7, AppendFacts
    <3>2. \A i \in 1 .. Len(high') : i \in 1 .. Len(high) \/ i = Len(high) + 1
      BY <1>2, <3>1
    <3>3. QED  BY <2>1, <2>3, <2>7, <3>1, <3>2 DEF RequestsOnce, Working
  <2>8. QED  BY <1>8, <2>4, <2>6, <2>7 DEF Enqueue
<1>9. CASE RunTop \/ RunSecond
  <2>1. ~Working
    BY <1>9 DEF RunTop, RunSecond, SecondStop, SecondHigh, SecondNormal, SecondLine, Working
  <2>2. CASE \E pc \in {"second", "exited", "top"} :
               RunGoto(pc) /\ UNCHANGED queues /\ (stopped => stopped')
    BY <1>1, <2>2 DEF RunGoto, Working
  <2>3. CASE RunTop  BY <1>6, <2>1, <2>2, <2>3 DEF RunTop, state, queues
  <2>4. CASE SecondHigh \/ SecondNormal
    BY <1>6, <1>7, <2>1, <2>4 DEF SecondHigh, SecondNormal, state
  <2>5. CASE SecondStop \/ SecondLine
    BY <2>2, <2>5 DEF SecondStop, SecondLine, Stop, state
  <2>6. QED  BY <1>9, <2>3, <2>4, <2>5 DEF RunSecond
<1>10. CASE Write \/ Fail \/ CommandTimeout \/ Trip \/ Line
  <2>1. UNCHANGED queues /\ (stopped => stopped')
    <3>1. UNCHANGED queues  BY <1>10 DEF Write, Fail, CommandTimeout, Trip, Line, queues
    <3>2. UNCHANGED stopped \/ Stop
      BY <1>10 DEF Write, Fail, CommandTimeout, Trip, Line, state
    <3>3. QED  BY <3>1, <3>2 DEF Stop
  <2>2. Working' => Working /\ run'.req.c = run.req.c
    <3>1. CASE Fail \/ Trip  BY <3>1 DEF Fail, Trip, RunGoto, Working
    <3>2. CASE Write \/ CommandTimeout
      BY <3>2 DEF Write, CommandTimeout, Working, RunOK
    <3>3. CASE Line
      <4>1. run.pc = "wait" /\ run.req \in Requests  BY <3>3 DEF Line, RunOK
      <4>2. CASE run' = run  BY <4>2 DEF Working
      <4>3. CASE run' = [run EXCEPT !.pc = "fail", !.fatal = (Head(rx).kind = "fatal")]
        BY <4>3 DEF Working, RunOK
      <4>4. CASE RunGoto("top")  BY <4>4 DEF Working, RunGoto
      <4>5. CASE run' = [run EXCEPT !.req = [@ EXCEPT !.prompt = FALSE]]
        BY <4>1, <4>5 DEF Working, RunOK, Requests
      <4>6. QED  BY <3>3, <4>2, <4>3, <4>4, <4>5 DEF Line
    <3>4. QED  BY <1>10, <3>1, <3>2, <3>3
  <2>3. QED  BY <1>1, <2>1, <2>2
<1>11. CASE ReadLoop \/ Modem \/ StopManager
  BY <1>1, <1>11, ReadersLeave DEF Working
<1>12. ASSUME NEW c \in Callers, Caller(c) \/ \E kind \in Kinds : Begin(c, kind)
       PROVE  RequestsOnce'
  <2>1. UNCHANGED <<loops, stopped>>  BY <1>12, CallersLeave
  <2>2. UNCHANGED queues \/ Enqueue(c)
    BY <1>12 DEF Caller, Begin, GetRequest, Receive, ReceiveStopped, GiveUp
  <2>3. QED  BY <1>1, <1>8, <2>1, <2>2 DEF Working, loops
<1>13. CASE UNCHANGED vars \/ PollAgain
  BY <1>1, <1>13 DEF vars, PollAgain, state, loops, Working
<1>14. QED  BY <1>9, <1>10, <1>11, <1>12, <1>13 DEF Next, RunLoop

-----------------------------------------------------------------------------
(* The lines                                                               *)

\* What a line more, or a line less, does to the buffer.
LEMMA RxFacts ==
    ASSUME WireOK
    PROVE  /\ Len(rx) \in Nat /\ (Len(rx) = 0 <=> rx = <<>>)
           /\ rx # <<>> => Head(rx) = rx[1] /\ 1 \in 1 .. Len(rx)
           /\ rx # <<>> /\ rx' = Tail(rx) =>
                /\ Len(rx') = Len(rx) - 1
                /\ \A i \in 1 .. Len(rx') : i + 1 \in 1 .. Len(rx) /\ rx'[i] = rx[i + 1]
           /\ \A l \in Lines : Receives(l) =>
                /\ Len(rx') = Len(rx) + 1 /\ rx'[Len(rx) + 1] = l
                /\ \A i \in 1 .. Len(rx) : rx'[i] = rx[i]
                /\ rx' # <<>>
<1>1. rx \in Seq(Lines)  BY DEF WireOK
<1>2. ASSUME NEW l \in Lines, Receives(l)
      PROVE  /\ Len(rx') = Len(rx) + 1 /\ rx'[Len(rx) + 1] = l
             /\ \A i \in 1 .. Len(rx) : rx'[i] = rx[i]
             /\ rx' # <<>>
  <2>1. rx' = Append(rx, l)  BY <1>2 DEF Receives
  <2>2. QED  BY <1>1, <2>1, AppendFacts
<1>3. rx # <<>> /\ rx' = Tail(rx) =>
        /\ Len(rx') = Len(rx) - 1
        /\ \A i \in 1 .. Len(rx') : i + 1 \in 1 .. Len(rx) /\ rx'[i] = rx[i + 1]
  BY <1>1, TailFacts
<1>4. Len(rx) \in Nat /\ (Len(rx) = 0 <=> rx = <<>>)  BY <1>1
<1>5. rx # <<>> => Head(rx) = rx[1] /\ 1 \in 1 .. Len(rx)  BY <1>1, TailFacts
<1>6. QED  BY <1>2, <1>3, <1>4, <1>5

\* readLoop's error is the last thing it says.
LEMMA ErrorStep == ASSUME WireOK, ErrorIsLast, [Next]_vars PROVE ErrorIsLast'
<1>1. CASE UNCHANGED rx /\ (read = "exited" => read' = read)  BY <1>1 DEF ErrorIsLast
<1>2. CASE rx # <<>> /\ rx' = Tail(rx) /\ read' = read
  <2>1. /\ Len(rx) \in Nat /\ Len(rx') = Len(rx) - 1
        /\ \A i \in 1 .. Len(rx') : i + 1 \in 1 .. Len(rx) /\ rx'[i] = rx[i + 1]
    BY <1>2, RxFacts
  <2>2. \A i \in 1 .. Len(rx') : i + 1 = Len(rx) => i = Len(rx')  BY <2>1
  <2>3. QED  BY <1>2, <2>1, <2>2 DEF ErrorIsLast
<1>3. ASSUME NEW l \in Lines, Receives(l), read # "exited",
             l.kind \in {"fatal", "eof"} => read' = "exited"
      PROVE  ErrorIsLast'
  <2>1. /\ Len(rx') = Len(rx) + 1 /\ rx'[Len(rx) + 1] = l /\ Len(rx) \in Nat
        /\ \A i \in 1 .. Len(rx) : rx'[i] = rx[i]
    BY <1>3, RxFacts
  <2>2. \A i \in 1 .. Len(rx') : i \in 1 .. Len(rx) \/ i = Len(rx')  BY <2>1
  <2>3. QED  BY <1>3, <2>1, <2>2 DEF ErrorIsLast
<1>4. CASE UNCHANGED vars \/ PollAgain \/ RunTop \/ SecondStop \/ SecondHigh \/ SecondNormal
  BY <1>1, <1>4 DEF vars, loops, PollAgain, RunTop, SecondStop, SecondHigh, SecondNormal
<1>5. CASE Write \/ Fail \/ CommandTimeout \/ Trip \/ StopManager \/ ReadStops \/ ReadError
  BY <1>1, <1>5
  DEF loops, Write, Fail, CommandTimeout, Trip, StopManager, ReadStops, ReadError
<1>6. CASE SecondLine \/ Line  BY <1>2, <1>6 DEF SecondLine, Line
<1>7. CASE ReadPasses
  <2>1. [kind |-> read, of |-> None] \in Lines  BY <1>7 DEF ReadPasses, Lines
  <2>2. QED  BY <1>3, <1>7, <2>1 DEF ReadPasses
<1>8. CASE ModemURC
  <2>1. \A kind \in {"urc", "final", "prompt"} : [kind |-> kind, of |-> None] \in Lines
    BY DEF Lines
  <2>2. QED  BY <1>3, <1>8, <2>1 DEF ModemURC
<1>9. CASE ModemAnswers
  <2>1. modem # <<>> /\ read # "exited" /\ modem \in Seq(Outstanding)
    BY <1>9 DEF ModemAnswers, WireOK
  <2>2. Head(modem) \in Outstanding  BY <2>1, TailFacts
  <2>3. \A kind \in {"final", "prompt"} : [kind |-> kind, of |-> Head(modem).of] \in Lines
    BY <2>2 DEF Lines, Outstanding
  <2>4. QED  BY <1>3, <1>9, <2>1, <2>3 DEF ModemAnswers
<1>10. CASE \E c \in Callers : Caller(c) \/ \E kind \in Kinds : Begin(c, kind)
  BY <1>1, <1>10, CallersLeave DEF loops
<1>11. QED
  BY <1>4, <1>5, <1>6, <1>7, <1>8, <1>9, <1>10 DEF Next, RunLoop, RunSecond, ReadLoop, Modem

\* No line answers a command, and the modem has nothing to answer or is not heard.
Quiet == /\ \A i \in 1 .. Len(rx) : ~IsAnswer(rx[i])
         /\ Deaf \/ modem = <<>>

\* The lines and the modem speak of the command that handleCommand waits for; when it does not
\* wait, they are quiet.
LEMMA QuietFacts ==
    /\ Quiet' => LinesInStep' /\ ModemInStep'
    /\ LinesInStep /\ ModemInStep /\ slip = "no" /\ run.pc # "wait" => Quiet
BY DEF Quiet, LinesInStep, ModemInStep

\* Quiet stays quiet, whatever runLoop does, as long as it writes nothing.
LEMMA QuietStays ==
    ASSUME WireOK, Quiet, modem' = modem,
           \/ UNCHANGED <<rx, read>>
           \/ rx # <<>> /\ rx' = Tail(rx) /\ read' = read
    PROVE  Quiet'
<1>1. CASE UNCHANGED <<rx, read>>  BY <1>1 DEF Quiet, Deaf
<1>2. CASE rx # <<>> /\ rx' = Tail(rx) /\ read' = read
  <2>1. \A i \in 1 .. Len(rx') : i + 1 \in 1 .. Len(rx) /\ rx'[i] = rx[i + 1]
    BY <1>2, RxFacts
  <2>2. modem = <<>>  BY <1>2 DEF Quiet, Deaf
  <2>3. QED  BY <2>1, <2>2 DEF Quiet, IsAnswer
<1>3. QED  BY <1>1, <1>2

\* The command that is written is the one that the modem has to answer.
LEMMA WriteInStep ==
    ASSUME RunOK, WireOK, Write, slip = "no", LinesInStep, ModemInStep
    PROVE  LinesInStep' /\ ModemInStep'
<1>1. run.pc = "write" /\ UNCHANGED <<rx, read>>  BY DEF Write
<1>2. Quiet  BY <1>1, QuietFacts
<1>3. CASE modem' = modem  BY <1>1, <1>2, <1>3, QuietStays, QuietFacts
<1>4. CASE run' = [run EXCEPT !.pc = "wait"] /\ modem' # modem
  <2> DEFINE stage == IF run.req.prompt THEN "message" ELSE "command"
             p == [of |-> run.req.c, stage |-> stage]
  <2>1. \A i \in 1 .. Len(rx') : ~IsAnswer(rx'[i])  BY <1>1, <1>2 DEF Quiet
  <2>2. LinesInStep'  BY <2>1 DEF LinesInStep
  <2>3. CASE Deaf  BY <1>1, <2>2, <2>3 DEF Deaf, ModemInStep
  <2>4. CASE modem = <<>>
    <3>1. Len(modem) = 0 /\ Len(modem) # MaxPending  BY <2>4, Bounds
    <3>2. modem' = Append(modem, p)  BY <1>4, <3>1 DEF Write
    <3>3. p \in Outstanding  BY <1>1 DEF RunOK, Requests, Outstanding
    <3>4. Len(modem') = 1 /\ modem'[1] = p
      BY <3>1, <3>2, <3>3, AppendFacts DEF WireOK
    <3>5. run'.pc = "wait" /\ run'.req = run.req  BY <1>4 DEF RunOK
    <3>6. QED  BY <2>1, <2>2, <3>4, <3>5 DEF ModemInStep
  <2>5. QED  BY <1>2, <2>3, <2>4 DEF Quiet
<1>5. QED  BY <1>3, <1>4 DEF Write

\* The line that answers leaves nothing behind; the prompt brings out the message.
LEMMA LineInStep ==
    ASSUME RunOK, WireOK, ErrorIsLast, Line, slip = "no", slip' = "no", LinesInStep, ModemInStep
    PROVE  LinesInStep' /\ ModemInStep'
<1> DEFINE l == Head(rx)
<1>1. /\ run.pc = "wait" /\ rx # <<>> /\ rx' = Tail(rx) /\ read' = read
      /\ run.req \in Requests
  BY DEF Line, RunOK
<1>2. /\ l = rx[1] /\ 1 \in 1 .. Len(rx) /\ Len(rx) \in Nat /\ Len(rx') = Len(rx) - 1
      /\ \A i \in 1 .. Len(rx') : i + 1 \in 1 .. Len(rx) /\ i + 1 # 1 /\ rx'[i] = rx[i + 1]
  <2>1. /\ l = rx[1] /\ 1 \in 1 .. Len(rx) /\ Len(rx) \in Nat /\ Len(rx') = Len(rx) - 1
        /\ \A i \in 1 .. Len(rx') : i + 1 \in 1 .. Len(rx) /\ rx'[i] = rx[i + 1]
    BY <1>1, RxFacts
  <2>2. \A i \in 1 .. Len(rx') : i + 1 # 1  BY <2>1
  <2>3. QED  BY <2>1, <2>2
<1>3. CASE l.kind = "urc" /\ UNCHANGED <<run, modem>>
  <2>1. ~Deaf /\ ~IsAnswer(rx[1])  BY <1>1, <1>2, <1>3 DEF Deaf, IsAnswer
  <2>2. LinesInStep'
    <3>1. \A i, j \in 1 .. Len(rx') : i + 1 = j + 1 => i = j  BY <1>2
    <3>2. QED  BY <1>1, <1>2, <1>3, <3>1 DEF LinesInStep, IsAnswer
  <2>3. ModemInStep'  BY <1>1, <1>2, <1>3, <2>1 DEF ModemInStep, IsAnswer
  <2>4. QED  BY <2>2, <2>3
<1>4. CASE l.kind \in {"fatal", "eof"}
  <2>1. Len(rx) = 1 /\ read = "exited"  BY <1>2, <1>4 DEF ErrorIsLast
  <2>2. rx \in Seq(Lines)  BY DEF WireOK
  <2>3. rx' = <<>>  BY <1>1, <2>1, <2>2
  <2>4. Deaf' /\ Len(rx') = 0  BY <1>1, <1>2, <2>1, <2>3 DEF Deaf
  <2>5. QED  BY <2>4 DEF LinesInStep, ModemInStep
<1>5. CASE l.kind \in {"final", "prompt"}
  <2>1. /\ rx[1].of = run.req.c
        /\ \A j \in 1 .. Len(rx) : IsAnswer(rx[j]) => j = 1
        /\ l.kind = "final" => modem = <<>>
        /\ l.kind = "prompt" => run.req.prompt /\ Len(modem) = 1 /\ modem[1].stage = "prompted"
    <3>1. slip' = Slip(l)  BY <1>5 DEF Line
    <3>2. IsAnswer(rx[1])  BY <1>2, <1>5, <3>1 DEF Slip, IsAnswer
    <3>3. QED  BY <1>2, <3>2 DEF LinesInStep
  <2>2. \A i \in 1 .. Len(rx') : ~IsAnswer(rx'[i])  BY <1>2, <2>1
  <2>3. LinesInStep'  BY <2>2 DEF LinesInStep
  <2>4. CASE l.kind = "final"
    <3>1. modem' = <<>>  BY <2>1, <2>4 DEF Line
    <3>2. QED  BY <2>3, <3>1 DEF ModemInStep
  <2>5. CASE l.kind = "prompt"
    <3>1. /\ modem' = Prompted("data")
          /\ run' = [run EXCEPT !.req = [@ EXCEPT !.prompt = FALSE]]
      BY <2>1, <2>5 DEF Line
    <3>2. run'.pc = "wait" /\ run'.req.c = run.req.c  BY <1>1, <3>1 DEF RunOK, Requests
    <3>3. modem \in Seq(Outstanding) /\ modem # <<>> /\ ~Deaf /\ Head(modem) = modem[1]
      BY <1>1, <2>1, <2>5 DEF WireOK, Deaf
    <3>4. modem[1].of = run.req.c  BY <3>3 DEF ModemInStep
    <3>5. modem[1] \in Outstanding  BY <2>1, <2>5, <3>3
    <3>6. modem' = [modem EXCEPT ![1] = [@ EXCEPT !.stage = "data"]]
      BY <2>1, <2>5, <3>1, <3>3 DEF Prompted, Prompting
    <3>7. Len(modem') = 1 /\ modem'[1] = [modem[1] EXCEPT !.stage = "data"]
      BY <2>1, <2>5, <3>3, <3>6
    <3>8. modem'[1].of = run.req.c /\ modem'[1].stage = "data"
      BY <3>4, <3>5, <3>7 DEF Outstanding
    <3>9. ModemInStep'  BY <2>2, <3>2, <3>7, <3>8 DEF ModemInStep
    <3>10. QED  BY <2>3, <3>9
  <2>6. QED  BY <1>5, <2>4, <2>5
<1>6. QED  BY <1>3, <1>4, <1>5 DEF Line

\* The modem answers once.
LEMMA ModemStep ==
    ASSUME RunOK, WireOK, ModemAnswers, slip = "no", LinesInStep, ModemInStep
    PROVE  LinesInStep' /\ ModemInStep'
<1> DEFINE p == Head(modem)
<1>1. /\ read = "read" /\ modem # <<>> /\ UNCHANGED <<run, slip, read>>
      /\ modem \in Seq(Outstanding)
  BY DEF ModemAnswers, WireOK, loops
<1>2. p = modem[1] /\ p \in Outstanding  BY <1>1, TailFacts
<1>3. ~Deaf /\ ~Deaf'  BY <1>1 DEF Deaf
<1>4. /\ run.pc = "wait" /\ Len(modem) = 1 /\ p.of = run.req.c
      /\ p.stage \in {"message", "prompted"} => run.req.prompt
      /\ p.stage # "prompted" => \A i \in 1 .. Len(rx) : ~IsAnswer(rx[i])
  BY <1>1, <1>2, <1>3 DEF ModemInStep, Outstanding
<1>5. ASSUME NEW kind \in {"final", "prompt"}, Receives([kind |-> kind, of |-> p.of]),
             p.stage # "prompted",
             kind = "final" => modem' = <<>>,
             kind = "prompt" => /\ run.req.prompt /\ Len(modem') = 1
                                /\ modem'[1].stage = "prompted"
      PROVE  LinesInStep'
  <2> DEFINE l == [kind |-> kind, of |-> p.of]
  <2>1. l \in Lines  BY <1>2 DEF Lines, Outstanding
  <2>2. /\ Len(rx') = Len(rx) + 1 /\ rx'[Len(rx) + 1] = l /\ Len(rx) \in Nat
        /\ \A i \in 1 .. Len(rx) : rx'[i] = rx[i]
    BY <1>5, <2>1, RxFacts
  <2>3. \A i \in 1 .. Len(rx') : i \in 1 .. Len(rx) \/ i = Len(rx')  BY <2>2
  <2>4. \A i \in 1 .. Len(rx') : IsAnswer(rx'[i]) => i = Len(rx')
    BY <1>4, <1>5, <2>2, <2>3 DEF IsAnswer
  <2>5. rx'[Len(rx')] = l  BY <2>2
  <2>6. QED  BY <1>1, <1>4, <1>5, <2>4, <2>5 DEF LinesInStep
<1>6. CASE p.stage # "prompted" /\ Receives([kind |-> "final", of |-> p.of]) /\ modem' = Tail(modem)
  <2>1. modem' = <<>>  BY <1>1, <1>4, <1>6
  <2>2. LinesInStep'  BY <1>5, <1>6, <2>1
  <2>3. QED  BY <2>1, <2>2 DEF ModemInStep
<1>7. CASE /\ p.stage = "message" /\ Receives([kind |-> "prompt", of |-> p.of])
           /\ modem' = [modem EXCEPT ![1] = [@ EXCEPT !.stage = "prompted"]]
  <2>1. Len(modem') = 1 /\ modem'[1] = [modem[1] EXCEPT !.stage = "prompted"]
    BY <1>1, <1>4, <1>7
  <2>2. modem'[1].of = run.req.c /\ modem'[1].stage = "prompted"
    BY <1>2, <1>4, <2>1 DEF Outstanding
  <2>3. LinesInStep'  BY <1>4, <1>5, <1>7, <2>1, <2>2
  <2>4. ModemInStep'  BY <1>1, <1>4, <1>7, <2>1, <2>2 DEF ModemInStep
  <2>5. QED  BY <2>3, <2>4
<1>8. QED  BY <1>6, <1>7 DEF ModemAnswers

\* A URC or an error of the port answers nothing.
LEMMA OtherLine ==
    ASSUME WireOK, slip = "no", LinesInStep, ModemInStep, read # "exited",
           UNCHANGED <<run, modem, slip>>,
           NEW l \in Lines, Receives(l), ~IsAnswer(l)
    PROVE  LinesInStep' /\ ModemInStep'
<1>1. /\ Len(rx') = Len(rx) + 1 /\ rx'[Len(rx) + 1] = l /\ Len(rx) \in Nat
      /\ \A i \in 1 .. Len(rx) : rx'[i] = rx[i]
  BY RxFacts
<1>2. \A i \in 1 .. Len(rx') : i \in 1 .. Len(rx) \/ rx'[i] = l  BY <1>1
<1>3. \A i \in 1 .. Len(rx') : IsAnswer(rx'[i]) => i \in 1 .. Len(rx) /\ rx'[i] = rx[i]
  BY <1>1, <1>2
<1>4. LinesInStep'  BY <1>3 DEF LinesInStep
<1>5. ~Deaf  BY DEF Deaf
<1>6. ModemInStep'  BY <1>3, <1>5 DEF ModemInStep
<1>7. QED  BY <1>4, <1>6

\* Until somebody gives up or a line is misread, the modem's answers are about the command that
\* is waited for.
LEMMA InStep ==
    ASSUME StateOK, RunOK, WireOK, ErrorIsLast, LinesInStep, ModemInStep, [Next]_vars
    PROVE  LinesInStep' /\ ModemInStep'
<1> SUFFICES ASSUME slip' = "no" PROVE LinesInStep' /\ ModemInStep'
  BY DEF LinesInStep, ModemInStep
<1>1. CASE slip # "no"
  <2>1. slip' # "no"
    <3>1. CASE UNCHANGED slip  BY <1>1, <3>1
    <3>2. CASE RunLoop
      BY <1>1, <3>2
      DEF RunLoop, RunTop, RunSecond, SecondStop, SecondHigh, SecondNormal, SecondLine, Write,
          Fail, CommandTimeout, Trip, Line, Stop, Slip
    <3>3. CASE ReadLoop \/ Modem \/ StopManager
      BY <1>1, <3>3
      DEF ReadLoop, ReadPasses, ReadStops, Modem, ModemAnswers, ModemURC, ReadError, StopManager,
          Stop
    <3>4. QED  BY <1>1, <3>1, <3>2, <3>3, CallersLeave DEF Next, vars
  <2>2. QED  BY <2>1
<1>2. CASE slip = "no"
  <2>1. CASE UNCHANGED <<run, rx, read, modem>>
    BY <1>2, <2>1 DEF LinesInStep, ModemInStep, Deaf, IsAnswer
  <2>2. CASE /\ run.pc # "wait" /\ modem' = modem
             /\ read' = read /\ (rx' = rx \/ (rx # <<>> /\ rx' = Tail(rx)))
    BY <1>2, <2>2, QuietFacts, QuietStays
  <2>3. CASE RunTop \/ SecondStop \/ SecondHigh \/ SecondNormal
    <3>1. run.pc # "wait" /\ UNCHANGED <<rx, read, modem>>
      BY <2>3 DEF RunTop, SecondStop, SecondHigh, SecondNormal
    <3>2. QED  BY <2>2, <3>1
  <2>4. CASE SecondLine  BY <2>2, <2>4 DEF SecondLine, Stop
  <2>5. CASE Write  BY <1>2, <2>5, WriteInStep
  <2>6. CASE Fail \/ Trip
    <3>1. UNCHANGED <<rx, read>> /\ run.pc # "wait"  BY <2>6 DEF Fail, Trip
    <3>2. modem' = modem \/ slip' = "late"  BY <2>6 DEF Fail, Trip, Stop
    <3>3. modem' = modem  BY <3>2
    <3>4. QED  BY <2>2, <3>1, <3>3
  <2>7. CASE CommandTimeout \/ StopManager  BY <2>7 DEF CommandTimeout, StopManager, Stop
  <2>8. CASE Line  BY <1>2, <2>8, LineInStep
  <2>9. CASE ReadPasses
    <3>1. [kind |-> read, of |-> None] \in Lines /\ ~IsAnswer([kind |-> read, of |-> None])
      BY <2>9 DEF ReadPasses, Lines, IsAnswer
    <3>2. QED  BY <1>2, <2>9, <3>1, OtherLine DEF ReadPasses
  <2>10. CASE ReadStops  BY <1>2, <2>10 DEF ReadStops, StateOK
  <2>11. CASE ModemAnswers  BY <1>2, <2>11, ModemStep
  <2>12. CASE ModemURC
    <3>1. \A kind \in {"urc", "final", "prompt"} :
            [kind |-> kind, of |-> None] \in Lines /\ ~IsAnswer([kind |-> kind, of |-> None])
      BY DEF Lines, IsAnswer
    <3>2. QED  BY <1>2, <2>12, <3>1, OtherLine DEF ModemURC, loops
  <2>13. CASE ReadError
    <3>1. UNCHANGED <<run, rx, modem>> /\ ~Deaf  BY <2>13 DEF ReadError, Deaf
    <3>2. QED  BY <1>2, <3>1 DEF LinesInStep, ModemInStep, IsAnswer
  <2>14. CASE UNCHANGED vars  BY <2>1, <2>14 DEF vars, loops
  <2>15. QED
    BY <2>1, <2>3, <2>4, <2>5, <2>6, <2>7, <2>8, <2>9, <2>10, <2>11, <2>12, <2>13, <2>14,
       CallersLeave
    DEF Next, RunLoop, RunSecond, ReadLoop, Modem, loops
<1>3. QED  BY <1>1, <1>2

-----------------------------------------------------------------------------
(* The theorems                                                            *)

\* Every step of the specification keeps the invariant.
THEOREM Inductive == IInv /\ [Next]_vars => IInv'
<1> SUFFICES ASSUME IInv, [Next]_vars PROVE IInv'
  OBVIOUS
<1> USE DEF IInv
<1>1. StateOK' /\ QueuesOK' /\ RunOK' /\ WireOK'  BY StateStep, QueuesStep, RunStep, WireStep
<1>2. RequestsOnce' /\ ErrorIsLast' /\ LinesInStep' /\ ModemInStep'
  BY OnceStep, ErrorStep, InStep
<1>3. CASE PollAgain \/ \E c \in Callers : Caller(c) \/ \E kind \in Kinds : Begin(c, kind)
  <2>1. PICK c, x : Steps(c, x)  BY <1>3, CallerSteps
  <2>2. CallsOK' /\ SlotsApart' /\ ChanOK'  BY <2>1, StepMoves, StepSlots, StepChan
  <2>3. RequestsOwned' /\ AnsweredOnce' /\ AllAsk' /\ FreeSlotsEmpty'
    BY <2>1, StepOwned, StepAnswered, StepAsks, StepFree
  <2>4. stopped' = stopped /\ (slip # "no" => slip' # "no")  BY <1>3, CallersLeave
  <2>5. ASSUME ~stopped, NEW d \in Callers, th'[d].slot # None, NEW a \in HeldIn(th[d].slot)'
        PROVE  th[d].slot # None /\ a \in HeldIn(th[d].slot)
    <3>1. th'[d].slot = th[d].slot /\ chan'[th[d].slot] = chan[th[d].slot]
      BY <2>1, <2>5, StepHolds
    <3>2. QED  BY <2>5, <3>1 DEF HeldIn
  <2>6. AnswersOwn'  BY <2>4, <2>5 DEF AnswersOwn
  <2>7. OfOwn'  BY <2>4, <2>5 DEF OfOwn, StateOK
  <2>8. QED  BY <1>1, <1>2, <2>2, <2>3, <2>6, <2>7
<1>4. CASE Turns
  <2>1. th' = th /\ (stopped => stopped') /\ (slip # "no" => slip' # "no")  BY <1>4 DEF Turns
  <2>2. CallsOK' /\ SlotsApart' /\ ChanOK'  BY <1>4, <2>1, TurnChan DEF CallsOK, SlotsApart
  <2>3. RequestsOwned' /\ AnsweredOnce' /\ AllAsk' /\ FreeSlotsEmpty'
    BY <1>4, TurnOwned, TurnAnswered, TurnAsks, TurnFree
  <2>4. ASSUME ~stopped, NEW d \in Callers, th[d].slot # None, NEW a \in HeldIn(th[d].slot)'
        PROVE  \/ a \in HeldIn(th[d].slot)
               \/ a.by = d /\ (slip' = "no" => a.of = d)
    BY <1>4, <2>4, TurnHolds DEF Answer
  <2>5. AnswersOwn'  BY <2>1, <2>4 DEF AnswersOwn
  <2>6. OfOwn'  BY <2>1, <2>4 DEF OfOwn, StateOK
  <2>7. QED  BY <1>1, <1>2, <2>2, <2>3, <2>5, <2>6
<1>5. CASE UNCHANGED vars
  <2>1. Turns  BY <1>5 DEF vars, state, queues, loops, Turns, Open, Working
  <2>2. QED  BY <1>4, <2>1
<1>6. QED  BY <1>3, <1>4, <1>5, LoopTurns DEF Next

\* The invariant holds of every reachable state.
THEOREM Invariant == Spec => []IInv
BY InitIInv, Inductive, PTL DEF Spec

\* Every variable keeps its type, and no queue or buffer grows beyond its bound.
THEOREM TypeCorrect == Spec => []TypeOK
<1>1. IInv => TypeOK
  BY DEF IInv, StateOK, QueuesOK, RunOK, WireOK, ChanOK, CallsOK, Calls, TypeOK
<1>2. QED  BY <1>1, Invariant, PTL

\* While the manager runs, what a call finds in its channels is what handleCommand answered to
\* that very call, though request objects are used again and again.
THEOREM AnswerIsOwn == Spec => []AnswerFromOwnRequest
<1>1. IInv => AnswerFromOwnRequest
  BY DEF IInv, SlotsApart, Fits, AnswersOwn, HeldIn, AnswerFromOwnRequest, Held, At
<1>2. QED  BY <1>1, Invariant, PTL

\* While the manager runs, a call that waits has its answer in its channels or its request in a
\* queue or in handleCommand's hands (executeAT waits for nothing else but Stop).
THEOREM NobodyIsForgotten == Spec => []WaitingHasRequest
<1> DEFINE mine(c) == \E r \in Unanswered : r.c = c /\ r.slot = th[c].slot
<1>1. ASSUME IInv, ~stopped, NEW c \in Callers, At(c, "wait"), chan[th[c].slot] # Empty
      PROVE  Held(c) # {}
  <2>1. th[c].slot \in Slots  BY <1>1 DEF IInv, CallsOK, Calls, SlotsApart, Fits, At
  <2>2. QED  BY <1>1, <2>1 DEF IInv, ChanOK, Held, Empty
<1>2. ASSUME IInv, ~stopped, NEW c \in Callers, At(c, "wait"), Asks(c)
      PROVE  mine(c)
  <2>1. PICK r \in Open : r.c = c  BY <1>2 DEF Asks
  <2>2. Owned(r)  BY <1>2, <2>1 DEF IInv, RequestsOwned
  <2>3. th[c].slot = r.slot  BY <1>2, <2>1, <2>2 DEF Owned, At
  <2>4. PICK q \in Unanswered : r = Ask(q)  BY <2>1 DEF Open, Unanswered, Working
  <2>5. q.c = c /\ q.slot = th[c].slot  BY <2>1, <2>3, <2>4 DEF Ask
  <2>6. QED  BY <2>5
<1>3. IInv => WaitingHasRequest  BY <1>1, <1>2 DEF IInv, AllAsk, WaitingHasRequest
<1>4. QED  BY <1>3, Invariant, PTL

\* As long as nobody has given up on a command, and handleCommand has not taken a line that
\* answers none (with ERROR or > in its text) for an answer, a call gets the line with which the
\* modem answers its own command, whatever URCs and prompts come between.
THEOREM AnswersStayInStep == Spec => []AnswersInStep
<1>1. IInv => AnswersInStep
  BY DEF IInv, SlotsApart, Fits, OfOwn, HeldIn, AnswersInStep, Held, At
<1>2. QED  BY <1>1, Invariant, PTL
=============================================================================
