------------------------------- MODULE Arbiter -------------------------------
(***************************************************************************)
(* The APDU arbiter of one device: internal/apduarbiter/arbiter.go.        *)
(*                                                                         *)
(* Every access to a SIM or eUICC asks the device's Arbiter for a lease    *)
(* (AcquireTransport, AcquireSession, AcquireOneShot) or, to switch eSIM   *)
(* profiles, for a barrier (BeginBarrier).  Requests wait in one queue;    *)
(* each waiting goroutine re-evaluates its own admission whenever the      *)
(* notify channel is closed (signalLocked) and gives up when its context   *)
(* ends.  Leases carry a watchdog that takes back a silent holder's lease. *)
(*                                                                         *)
(* A call is one execution of acquire or BeginBarrier with the handle it   *)
(* returns; its identity stands for the ticket id, which is never reused.  *)
(* Each action is one critical section of Arbiter.mu, except NewTicket,    *)
(* Age and Lapse, which are a step outside it and the passing of time.     *)
(***************************************************************************)
EXTENDS Naturals, Sequences, FiniteSets

CONSTANTS
    Calls,              \* the calls of acquire and BeginBarrier
    Idlers,             \* the calls of WaitIdle
    Requests,           \* the requests a call may carry, as the callers write them
    MaxSessions,        \* Options.MaxSessions
    MaxQMITransports,   \* Options.MaxQMITransports
    WaitsMayAge         \* whether a wait may last transportPriorityAging

LeaseTypes == {"session", "oneshot", "transport", "barrier"}
Classes == {"EUICCWrite", "EUICCRead", "USIMAKA", "SMSC", "SwitchBarrier", "Recovery"}
Scopes == {"exclusive", "qmi_channel"}

\* A request before normalisation: "" is the Go zero value of class and scope.
RawRequest == [type : LeaseTypes, mode : {"AT", "QMI", "MBIM"},
               class : Classes \cup {""}, channel : Nat,
               scope : Scopes \cup {""}, blocked : SUBSET Classes]

\* A ticket, as it stands in Arbiter.queue; "none" before the call begins.
Ticket == [type : LeaseTypes \cup {"none"}, class : Classes, channel : Nat,
           scope : Scopes, blocked : SUBSET Classes]

NoTicket == [type |-> "none", class |-> "EUICCWrite", channel |-> 0,
             scope |-> "exclusive", blocked |-> {}]

ASSUME RequestsAssumption == Requests \subseteq RawRequest
ASSUME LimitsAssumption == /\ MaxSessions \in Nat \ {0}
                           /\ MaxQMITransports \in Nat \ {0}
ASSUME AgingAssumption == WaitsMayAge \in BOOLEAN

VARIABLES
    phase,      \* where each call stands, see Phases
    req,        \* the normalised ticket of each call
    stamp,      \* the order in which the tickets took their enqueued time
    seq,        \* Arbiter.seq
    queue,      \* Arbiter.queue
    aged,       \* calls whose wait has reached transportPriorityAging
    active,     \* activeSessions, activeOneshot and activeTransports together
    barriers,   \* activeBarriers
    lapsed,     \* leases whose expiresAt has passed
    firing,     \* leases with a timer callback started and not yet run
    idler       \* where each WaitIdle stands

vars == <<phase, req, stamp, seq, queue, aged, active, barriers, lapsed, firing, idler>>

\* "woken" has to lock the mutex and evaluate; "parked" sleeps on a notify
\* channel that is still open; "busy" has returned ErrAPDUBusy.
Phases == {"idle", "created", "woken", "parked", "held", "released", "busy"}
Waiting == {"woken", "parked"}

-----------------------------------------------------------------------------
(* Normalisation of a request, done before the ticket is built.            *)

NormalizeClass(class, type) ==
    IF class # "" THEN class
    ELSE IF type = "oneshot" THEN "USIMAKA"
    ELSE IF type = "barrier" THEN "SwitchBarrier"
    ELSE "EUICCWrite"

NormalizeTransportScope(r) ==
    IF /\ r.type = "transport" /\ r.scope = "qmi_channel"
       /\ r.mode = "QMI" /\ r.channel > 0
    THEN "qmi_channel" ELSE "exclusive"

BlockedClasses(r) ==
    IF r.type # "barrier" THEN {}
    ELSE IF r.blocked = {} THEN {"USIMAKA", "SMSC"}
    ELSE r.blocked

Normalize(r) ==
    [type |-> r.type, class |-> NormalizeClass(r.class, r.type),
     channel |-> r.channel, scope |-> NormalizeTransportScope(r),
     blocked |-> BlockedClasses(r)]

-----------------------------------------------------------------------------
(* What is active.                                                         *)

ActiveOf(type) == {c \in active : req[c].type = type}
Transports == ActiveOf("transport")
ExclusiveTransports == {c \in Transports : req[c].scope = "exclusive"}
QMITransports == {c \in Transports : req[c].scope = "qmi_channel"}

BlockedByActiveBarrier(class) == \E b \in barriers : class \in req[b].blocked

IsIdle == active = {} /\ barriers = {} /\ queue = <<>>

-----------------------------------------------------------------------------
(* Admission, evaluated by each waiter for its own ticket on a queue q.    *)

PendingBarrierAhead(c, q) ==
    \E i, j \in DOMAIN q : /\ j < i /\ q[i] = c
                           /\ req[q[j]].type = "barrier"
                           /\ req[c].class \in req[q[j]].blocked

\* Mutant: an exclusive transport that overlooks the QMI channels.
ExclusiveIgnoresChannels(c) ==
    /\ ExclusiveTransports = {}
    /\ req[c].scope = "qmi_channel" => /\ Cardinality(QMITransports) < MaxQMITransports
                                       /\ \A t \in QMITransports : req[t].channel # req[c].channel

CanAcquireTransportNow(c) ==
    \/ /\ req[c].scope = "exclusive"
       /\ Transports = {}
    \/ /\ req[c].scope = "qmi_channel"
       /\ ExclusiveTransports = {}
       /\ Cardinality(QMITransports) < MaxQMITransports
       /\ \A t \in QMITransports : req[t].channel # req[c].channel

TransportWaitGatesQueue(c) ==
    \/ req[c].scope = "exclusive"
    \/ ExclusiveTransports # {}
    \/ Cardinality(QMITransports) >= MaxQMITransports

\* Mutant: only transports end the scan.
ScanPassesOthers(c) ==
    /\ req[c].type = "transport"
    /\ ~BlockedByActiveBarrier(req[c].class)
    /\ ~CanAcquireTransportNow(c)
    /\ TransportWaitGatesQueue(c)

\* The scan of selectedTransportLocked breaks at this ticket.
ScanStops(c) ==
    \/ req[c].type # "transport"
    \/ /\ ~BlockedByActiveBarrier(req[c].class)
       /\ ~CanAcquireTransportNow(c)
       /\ TransportWaitGatesQueue(c)

Eligible(q) ==
    {i \in DOMAIN q : /\ \A j \in 1..i : ~ScanStops(q[j])
                      /\ ~BlockedByActiveBarrier(req[q[i]].class)
                      /\ CanAcquireTransportNow(q[i])}

\* Mutant: no class goes first.
NoPreference(q) == Eligible(q)

\* An aged ticket that is not AKA goes first, then AKA, then anything.
Preferred(q) ==
    LET agedNonAKA == {i \in Eligible(q) : req[q[i]].class # "USIMAKA" /\ q[i] \in aged}
        aka == {i \in Eligible(q) : req[q[i]].class = "USIMAKA"}
    IN IF agedNonAKA # {} THEN agedNonAKA ELSE IF aka # {} THEN aka ELSE Eligible(q)

\* Mutant: the scan keeps the last candidate.
SelectsLast(c, q) == \E i \in Preferred(q) : q[i] = c /\ \A j \in Preferred(q) : j <= i

SelectedTransport(c, q) ==
    \E i \in Preferred(q) : q[i] = c /\ \A j \in Preferred(q) : i <= j

SelectedBarrier(c, q) ==
    \E i \in DOMAIN q : q[i] = c /\ \A j \in 1..(i-1) : req[q[j]].type # "barrier"

CanAcquireLease(c, q) ==
    /\ req[c].type # "barrier"
    /\ ~BlockedByActiveBarrier(req[c].class)
    /\ ~PendingBarrierAhead(c, q)
    /\ \/ /\ req[c].type = "session"
          /\ Head(q) = c
          /\ ActiveOf("oneshot") = {} /\ Transports = {}
          /\ Cardinality(ActiveOf("session")) < MaxSessions
       \/ /\ req[c].type = "oneshot"
          /\ Head(q) = c
          /\ active = {}
       \/ /\ req[c].type = "transport"
          /\ ActiveOf("session") = {} /\ ActiveOf("oneshot") = {}
          /\ SelectedTransport(c, q)

\* Mutant: the barrier does not wait for the leases to end.
BarrierOverLeases(c, q) == req[c].type = "barrier" /\ SelectedBarrier(c, q)

CanAcquireBarrier(c, q) ==
    /\ req[c].type = "barrier"
    /\ active = {}
    /\ SelectedBarrier(c, q)

CanAcquire(c, q) == CanAcquireLease(c, q) \/ CanAcquireBarrier(c, q)

-----------------------------------------------------------------------------
Init ==
    /\ phase = [c \in Calls |-> "idle"]
    /\ req = [c \in Calls |-> NoTicket]
    /\ stamp = [c \in Calls |-> 0]
    /\ seq = 0
    /\ queue = <<>>
    /\ aged = {}
    /\ active = {}
    /\ barriers = {}
    /\ lapsed = {}
    /\ firing = {}
    /\ idler = [w \in Idlers |-> "idle"]

\* signalLocked: everyone parked on the notify channel is woken.
Signalled(f) == [x \in DOMAIN f |-> IF f[x] = "parked" THEN "woken" ELSE f[x]]

Without(q, c) ==
    LET i == CHOOSE j \in DOMAIN q : q[j] = c
    IN SubSeq(q, 1, i - 1) \o SubSeq(q, i + 1, Len(q))

\* The ticket takes its id and its enqueued time before the mutex is locked.
NewTicket(c, r) ==
    /\ phase[c] = "idle"
    /\ phase' = [phase EXCEPT ![c] = "created"]
    /\ req' = [req EXCEPT ![c] = Normalize(r)]
    /\ seq' = seq + 1
    /\ stamp' = [stamp EXCEPT ![c] = seq + 1]
    /\ UNCHANGED <<queue, aged, active, barriers, lapsed, firing, idler>>

\* The body of the loop when admission succeeds: from queue q into the active set.
Acquire(c, q) ==
    /\ CanAcquire(c, q)
    /\ queue' = Without(q, c)
    /\ aged' = aged \ {c}
    /\ \/ req[c].type = "barrier" /\ barriers' = barriers \cup {c} /\ UNCHANGED active
       \/ req[c].type # "barrier" /\ active' = active \cup {c} /\ UNCHANGED barriers
    /\ phase' = [Signalled(phase) EXCEPT ![c] = "held"]
    /\ idler' = Signalled(idler)

\* Append, signal, and the first evaluation, all under one lock.
Enqueue(c) ==
    /\ phase[c] = "created"
    /\ LET q == Append(queue, c) IN
       \/ Acquire(c, q)
       \/ /\ ~CanAcquire(c, q)
          /\ queue' = q
          /\ phase' = [Signalled(phase) EXCEPT ![c] = "parked"]
          /\ idler' = Signalled(idler)
          /\ UNCHANGED <<aged, active, barriers>>
    /\ UNCHANGED <<req, stamp, seq, lapsed, firing>>

\* A woken waiter locks the mutex and evaluates again.
Retry(c) ==
    /\ phase[c] = "woken"
    /\ \/ Acquire(c, queue)
       \/ /\ ~CanAcquire(c, queue)
          /\ phase' = [phase EXCEPT ![c] = "parked"]
          /\ UNCHANGED <<queue, aged, active, barriers, idler>>
    /\ UNCHANGED <<req, stamp, seq, lapsed, firing>>

\* Mutant: the ticket of a timed out call stays in the queue.
TimeoutLeavesTicket(c) ==
    /\ phase[c] \in Waiting
    /\ phase' = [Signalled(phase) EXCEPT ![c] = "busy"]
    /\ idler' = Signalled(idler)
    /\ UNCHANGED <<req, stamp, seq, queue, aged, active, barriers, lapsed, firing>>

\* The select of a waiter takes ctx.Done: the ticket is withdrawn.
Timeout(c) ==
    /\ phase[c] \in Waiting
    /\ queue' = Without(queue, c)
    /\ aged' = aged \ {c}
    /\ phase' = [Signalled(phase) EXCEPT ![c] = "busy"]
    /\ idler' = Signalled(idler)
    /\ UNCHANGED <<req, stamp, seq, active, barriers, lapsed, firing>>

\* Mutant: a release that wakes nobody.
SilentRelease(c) ==
    /\ phase[c] = "held"
    /\ active' = active \ {c}
    /\ barriers' = barriers \ {c}
    /\ lapsed' = lapsed \ {c}
    /\ phase' = [phase EXCEPT ![c] = "released"]
    /\ UNCHANGED <<req, stamp, seq, queue, aged, firing, idler>>

\* Lease.Release and Barrier.Release: once per handle; nothing happens when the
\* watchdog has already taken the lease back.
Release(c) ==
    /\ phase[c] = "held"
    /\ active' = active \ {c}
    /\ barriers' = barriers \ {c}
    /\ lapsed' = lapsed \ {c}
    /\ LET p == [phase EXCEPT ![c] = "released"] IN
       IF c \in active \cup barriers
       THEN phase' = Signalled(p) /\ idler' = Signalled(idler)
       ELSE phase' = p /\ UNCHANGED idler
    /\ UNCHANGED <<req, stamp, seq, queue, aged, firing>>

\* Lease.Touch pushes expiresAt forward and resets the timer.
Touch(c) ==
    /\ phase[c] = "held"
    /\ c \in active
    /\ lapsed' = lapsed \ {c}
    /\ UNCHANGED <<phase, req, stamp, seq, queue, aged, active, barriers, firing, idler>>

\* MaxLeaseHold passes since the last touch; the timer starts its callback.
Lapse(c) ==
    /\ c \in active \ lapsed
    /\ lapsed' = lapsed \cup {c}
    /\ firing' = firing \cup {c}
    /\ UNCHANGED <<phase, req, stamp, seq, queue, aged, active, barriers, idler>>

\* Mutant: the callback does not look at expiresAt.
ExpireTouched(c) ==
    /\ c \in firing \cap active
    /\ firing' = firing \ {c}
    /\ active' = active \ {c}
    /\ lapsed' = lapsed \ {c}
    /\ phase' = Signalled(phase) /\ idler' = Signalled(idler)
    /\ UNCHANGED <<req, stamp, seq, queue, aged, barriers>>

\* releaseExpired: the callback gets the mutex.  A touch since then, or a
\* release, makes it harmless.
ReleaseExpired(c) ==
    /\ c \in firing
    /\ firing' = firing \ {c}
    /\ IF c \in active \cap lapsed
       THEN /\ active' = active \ {c}
            /\ lapsed' = lapsed \ {c}
            /\ phase' = Signalled(phase)
            /\ idler' = Signalled(idler)
       ELSE UNCHANGED <<active, lapsed, phase, idler>>
    /\ UNCHANGED <<req, stamp, seq, queue, aged, barriers>>

\* Time passes for a ticket; the earlier a ticket was stamped the earlier it ages.
Age(c) ==
    /\ WaitsMayAge
    /\ phase[c] \in Waiting \cup {"created"}
    /\ c \notin aged
    /\ \A d \in Calls : stamp[d] \in 1..(stamp[c] - 1)
                        => d \in aged \/ phase[d] \notin Waiting \cup {"created"}
    /\ aged' = aged \cup {c}
    /\ UNCHANGED <<phase, req, stamp, seq, queue, active, barriers, lapsed, firing, idler>>

\* WaitIdle reads idleness and the notify channel under one lock.
WaitIdle(w) ==
    /\ idler[w] \in {"idle", "woken"}
    /\ idler' = [idler EXCEPT ![w] = IF IsIdle THEN "done" ELSE "parked"]
    /\ UNCHANGED <<phase, req, stamp, seq, queue, aged, active, barriers, lapsed, firing>>

Next ==
    \/ \E c \in Calls :
          \/ \E r \in Requests : NewTicket(c, r)
          \/ Enqueue(c) \/ Retry(c) \/ Timeout(c) \/ Release(c)
          \/ Touch(c) \/ Lapse(c) \/ ReleaseExpired(c) \/ Age(c)
    \/ \E w \in Idlers : WaitIdle(w)

Spec == Init /\ [][Next]_vars

\* Goroutines run, holders release (every caller defers it), a WaitIdle that has
\* begun goes on.  New requests, the passing of time and contexts are not fair.
Fairness ==
    /\ \A c \in Calls : WF_vars(Enqueue(c)) /\ WF_vars(Retry(c)) /\ WF_vars(Release(c))
    /\ \A w \in Idlers : WF_vars(idler[w] = "woken" /\ WaitIdle(w))

FairSpec == Spec /\ Fairness

\* The promise: the arbiter's active set without its machinery.
Card == INSTANCE CardAccess WITH Tickets <- Ticket
-----------------------------------------------------------------------------
(* Properties.                                                             *)

\* Every variable has its type; the watchdog only runs on active leases; a lease
\* is a session, a oneshot or a transport and a barrier a barrier.
TypeOK ==
    /\ phase \in [Calls -> Phases]
    /\ req \in [Calls -> Ticket]
    /\ stamp \in [Calls -> Nat]
    /\ seq \in Nat
    /\ queue \in Seq(Calls)
    /\ aged \subseteq Calls
    /\ active \subseteq Calls
    /\ barriers \subseteq Calls
    /\ lapsed \subseteq active
    /\ firing \subseteq Calls
    /\ idler \in [Idlers -> {"idle", "woken", "parked", "done"}]

\* One card, one user: whatever the interleaving of requests, timeouts, releases
\* and watchdogs, the active leases are pairwise compatible.
CardExclusive == \A c, d \in active : c # d => Card!MayShare(req[c], req[d])

\* MaxSessions and MaxQMITransports bound what is active.
WithinLimits == /\ Cardinality(ActiveOf("session")) <= MaxSessions
                /\ Cardinality(QMITransports) <= MaxQMITransports

\* While a barrier stands, no lease of a class it blocks is active: not one
\* admitted before it, and not one that was waiting when it was raised.
BarrierHolds == \A b \in barriers, c \in active : req[c].class \notin req[b].blocked

\* Every step of the arbiter is a step, or a stutter, of CardAccess: admission never
\* looks at more than it may and nothing is taken off the card twice.
ImplementsCardAccess == Card!Spec

\* The queue holds each waiting call once and nothing else: a ticket left behind
\* by a timeout or a grant would block every session and oneshot for ever.
QueueIsWaiters ==
    /\ \A c \in Calls : phase[c] \in Waiting <=> \E i \in DOMAIN queue : queue[i] = c
    /\ \A i, j \in DOMAIN queue : queue[i] = queue[j] => i = j

\* Nobody sleeps who could go: a parked waiter's admission is false and a parked
\* WaitIdle has seen a busy arbiter, so each change that matters signals.
NobodySleepsAdmissible ==
    /\ \A c \in Calls : phase[c] = "parked" => ~CanAcquire(c, queue)
    /\ \A w \in Idlers : idler[w] = "parked" => ~IsIdle

\* A lease ends by its own holder's Release, or by the watchdog after a full
\* MaxLeaseHold without Touch: never by a stale handle or a late timer callback.
LeaseEndsByOwnerOrWatchdog ==
    [][\A c \in active : c \in active' \/ phase'[c] = "released" \/ c \in lapsed]_vars

\* Nothing overtakes a queued barrier: a call behind one in the queue is admitted
\* only after the barrier has been raised or has given up, whatever its class.
NothingPassesBarrier ==
    [][\A c \in (active' \ active), i, j \in DOMAIN queue :
          i < j /\ queue[j] = c => req[queue[i]].type # "barrier"]_vars

\* USIM AKA goes before a write that has waited less than the aging time: such a
\* ticket is never admitted while an AKA ticket is eligible in the queue.
AKABeforeFreshWrites ==
    [][\A c \in (active' \ active) :
          req[c].type = "transport" /\ req[c].class # "USIMAKA" /\ c \notin aged
          => \A i \in Eligible(queue) : req[queue[i]].class # "USIMAKA"]_vars

\* Within one class transports are served in order: a ticket is not admitted over
\* an eligible one of its class that is ahead of it both in the queue and in age.
ClassFIFO ==
    [][\A c \in (active' \ active) : req[c].type = "transport" =>
          \A i \in Eligible(queue) :
             LET d == queue[i] IN
             /\ d # c /\ req[d].class = req[c].class
             /\ \E j \in DOMAIN queue : queue[j] = c
             => ~(stamp[d] < stamp[c] /\ \E j \in DOMAIN queue : i < j /\ queue[j] = c)]_vars

\* With holders that release, every queued request is eventually admitted (or
\* gives up): no wakeup is lost and nobody is overtaken for ever.
EveryRequestServed ==
    \A c \in Calls : phase[c] \in Waiting ~> phase[c] \notin Waiting

\* TestTransportPriorityAgingPreventsEUICCStarvation: an eUICC write that has waited
\* out the aging time is the next to be admitted, so it does not wait for ever.  The
\* code breaks this: the passing of the aging time signals nobody, so a write that
\* evaluated just before it and an AKA that evaluates just after it both park.
PriorityAgingPreventsEUICCStarvation ==
    \A c \in Calls : phase[c] \in Waiting /\ req[c].class = "EUICCWrite"
                     ~> phase[c] \notin Waiting

\* A WaitIdle returns once the arbiter stays idle.
WaitIdleReturns ==
    \A w \in Idlers : (<>[]IsIdle) => (idler[w] = "parked" ~> idler[w] = "done")
=============================================================================
