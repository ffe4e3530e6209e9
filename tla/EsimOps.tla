------------------------------- MODULE EsimOps -------------------------------
(***************************************************************************)
(* The operation lock of one eSIM manager: internal/esim/manager.go.       *)
(*                                                                         *)
(* opMu is held by one card operation at a time.  Switch, disable,         *)
(* download, rename, delete and retry-notification block on it (Lock);     *)
(* the notification lists try it and wait for opDone (lockOperation);      *)
(* reads only check that it is free before they scan the card              *)
(* (waitForNoWriteOperation), and WriteInProgress tells the SMS path       *)
(* whether it is.  A check is a TryLock followed by an Unlock, so it holds *)
(* the lock for a moment itself.  After Unlock an operation replaces the   *)
(* opDone channel and closes the old one (notifyWriteDone), under no lock. *)
(***************************************************************************)
EXTENDS Naturals, FiniteSets

CONSTANTS
    Writers,    \* operations that block on opMu.Lock
    Listers,    \* operations that go through lockOperation
    Readers,    \* reads that go through forEachEUICC
    Observers,  \* calls of WriteInProgress
    None

Ops == Writers \cup Listers \cup Readers \cup Observers
Timed == Listers \cup Readers

ASSUME KindsAssumption ==
    /\ Writers \cap (Timed \cup Observers) = {}
    /\ Listers \cap (Readers \cup Observers) = {}
    /\ Readers \cap Observers = {}
    /\ None \notin Ops

VARIABLES
    pc,         \* where each operation stands, see Places
    opMu,       \* the holder of the mutex, or None
    opDone,     \* the channel in Manager.opDone, numbered as they are made
    made,       \* the number of the channel made last
    closed,     \* the channels that have been closed
    seen,       \* the channel an operation has read from Manager.opDone
    metWrite    \* timed operations during whose wait a card operation held opMu

vars == <<pc, opMu, opDone, made, closed, seen, metWrite>>

\* "peek" holds opMu only to learn that it is free; "choose" is about to evaluate
\* m.opDone for its select; "swap" and "close" are inside notifyWriteDone.
Places == {"start", "peek", "choose", "asleep", "awake", "working", "unlocked",
           "swap", "close", "idleWait", "reading", "done", "busy", "panicked"}

Returned == {"done", "busy", "panicked"}

Working == {o \in Ops : pc[o] = "working"}

Init ==
    /\ pc = [o \in Ops |-> "start"]
    /\ opMu = None
    /\ opDone = 0
    /\ made = 0
    /\ closed = {}
    /\ seen = [o \in Ops |-> 0]
    /\ metWrite = {}

Goto(o, place) == pc' = [pc EXCEPT ![o] = place]

\* A card operation that gets the lock is met by every wait that is under way.
Meets(o) == metWrite' = metWrite \cup {o} \cup
                        {t \in Timed : pc[t] \in {"choose", "asleep", "awake"}}

\* opMu.Lock.
Lock(o) ==
    /\ o \in Writers
    /\ pc[o] = "start"
    /\ opMu = None
    /\ opMu' = o
    /\ Goto(o, "working")
    /\ Meets(o)
    /\ UNCHANGED <<opDone, made, closed, seen>>

\* Mutant: a woken lister goes on without the lock.
TryLockUnchecked(o) ==
    /\ o \notin Writers
    /\ pc[o] \in {"start", "awake"}
    /\ \/ /\ opMu = None \/ (pc[o] = "awake" /\ o \in Listers)
          /\ opMu' = o
          /\ IF o \in Listers THEN Goto(o, "working") /\ Meets(o)
             ELSE Goto(o, "peek") /\ UNCHANGED metWrite
       \/ /\ opMu # None /\ ~(pc[o] = "awake" /\ o \in Listers)
          /\ Goto(o, IF o \in Observers THEN "busy" ELSE "choose")
          /\ metWrite' = IF Working # {} THEN metWrite \cup {o} ELSE metWrite
          /\ UNCHANGED opMu
    /\ UNCHANGED <<opDone, made, closed, seen>>

\* opMu.TryLock, the first one or the one after a wakeup.  It fails for a card
\* operation and for another call's peek alike.
TryLock(o) ==
    /\ o \notin Writers
    /\ pc[o] \in {"start", "awake"}
    /\ \/ /\ opMu = None
          /\ opMu' = o
          /\ IF o \in Listers THEN Goto(o, "working") /\ Meets(o)
             ELSE Goto(o, "peek") /\ UNCHANGED metWrite
       \/ /\ opMu # None
          /\ Goto(o, IF o \in Observers THEN "busy" ELSE "choose")
          /\ metWrite' = IF Working # {} THEN metWrite \cup {o} ELSE metWrite
          /\ UNCHANGED opMu
    /\ UNCHANGED <<opDone, made, closed, seen>>

\* Mutant: a read whose check succeeds keeps the lock.
PeekKeepsLock(o) ==
    /\ pc[o] = "peek"
    /\ Goto(o, IF o \in Readers THEN "idleWait" ELSE "done")
    /\ UNCHANGED <<opMu, opDone, made, closed, seen, metWrite>>

\* The Unlock of a check: nobody is told.
PeekUnlock(o) ==
    /\ pc[o] = "peek"
    /\ opMu' = None
    /\ Goto(o, IF o \in Readers THEN "idleWait" ELSE "done")
    /\ UNCHANGED <<opDone, made, closed, seen, metWrite>>

\* The select evaluates m.opDone and goes to sleep on what it finds.
Choose(o) ==
    /\ pc[o] = "choose"
    /\ seen' = [seen EXCEPT ![o] = opDone]
    /\ Goto(o, "asleep")
    /\ UNCHANGED <<opMu, opDone, made, closed, metWrite>>

Wake(o) ==
    /\ pc[o] = "asleep"
    /\ seen[o] \in closed
    /\ Goto(o, "awake")
    /\ UNCHANGED <<opMu, opDone, made, closed, seen, metWrite>>

\* readQueueWaitTimeout: ErrOperationInProgress.  The timeout is seconds long, so
\* no check is still between its TryLock and its Unlock.
Expire(o) ==
    /\ pc[o] = "asleep"
    /\ \A p \in Ops : pc[p] # "peek"
    /\ Goto(o, "busy")
    /\ UNCHANGED <<opMu, opDone, made, closed, seen, metWrite>>

\* waitForAPDUIdleForRead, then the scan of the card.
APDUIdle(o) ==
    /\ pc[o] = "idleWait"
    /\ \E place \in {"reading", "busy"} : Goto(o, place)
    /\ UNCHANGED <<opMu, opDone, made, closed, seen, metWrite>>

ReadDone(o) ==
    /\ pc[o] = "reading"
    /\ Goto(o, "done")
    /\ UNCHANGED <<opMu, opDone, made, closed, seen, metWrite>>

\* The operation ends, well or not: its deferred Unlock runs either way.
Unlock(o) ==
    /\ pc[o] = "working"
    /\ opMu' = None
    /\ Goto(o, "unlocked")
    /\ UNCHANGED <<opDone, made, closed, seen, metWrite>>

\* notifyWriteDone: old := m.opDone; m.opDone = make(...); close(old).
TakeOld(o) ==
    /\ pc[o] = "unlocked"
    /\ seen' = [seen EXCEPT ![o] = opDone]
    /\ Goto(o, "swap")
    /\ UNCHANGED <<opMu, opDone, made, closed, metWrite>>

MakeNew(o) ==
    /\ pc[o] = "swap"
    /\ made' = made + 1
    /\ opDone' = made + 1
    /\ Goto(o, "close")
    /\ UNCHANGED <<opMu, closed, seen, metWrite>>

\* Closing a closed channel panics; the HTTP layer recovers, the call fails.
CloseOld(o) ==
    /\ pc[o] = "close"
    /\ closed' = closed \cup {seen[o]}
    /\ Goto(o, IF seen[o] \in closed THEN "panicked" ELSE "done")
    /\ UNCHANGED <<opMu, opDone, made, seen, metWrite>>

Next == \E o \in Ops :
    \/ Lock(o) \/ TryLock(o) \/ PeekUnlock(o)
    \/ Choose(o) \/ Wake(o) \/ Expire(o)
    \/ APDUIdle(o) \/ ReadDone(o)
    \/ Unlock(o) \/ TakeOld(o) \/ MakeNew(o) \/ CloseOld(o)

Spec == Init /\ [][Next]_vars

\* Goroutines run and timers fire; that calls begin is not assumed of the timed ones.
Step(o) == \/ PeekUnlock(o) \/ Choose(o) \/ Wake(o) \/ Expire(o)
           \/ APDUIdle(o) \/ ReadDone(o)
           \/ Unlock(o) \/ TakeOld(o) \/ MakeNew(o) \/ CloseOld(o)
           \/ (pc[o] = "awake" /\ TryLock(o))

FairSpec == /\ Spec
            /\ \A o \in Ops : WF_vars(Step(o))
            /\ \A o \in Writers : SF_vars(Lock(o))

-----------------------------------------------------------------------------
(* Properties.                                                             *)

\* Whoever works on the card or peeks holds the mutex, so only one call does: a list
\* of notifications never shares the card with a switch or a download.
OneOperationAtATime ==
    \A o \in Ops : pc[o] \in {"working", "peek"} => opMu = o

\* Every variable has its type, the mutex is held by a call that will unlock it, and
\* nobody knows a channel that was never made.
TypeOK ==
    /\ pc \in [Ops -> Places]
    /\ opMu \in {o \in Ops : pc[o] \in {"working", "peek"}} \cup {None}
    /\ made \in Nat
    /\ opDone \in 0..made
    /\ closed \subseteq 0..made
    /\ seen \in [Ops -> 0..made]
    /\ metWrite \subseteq Ops

\* Whatever the order of locks, checks and notifications, every operation that
\* wants the lock gets it or gives up, and every read that waits goes on.
EveryOperationReturns ==
    /\ \A o \in Writers : <>(pc[o] \in Returned)
    /\ \A o \in Timed : pc[o] # "start" ~> pc[o] \in Returned

\* ErrOperationInProgress says that a write operation is in progress: a call that
\* gives up waiting has met one.  The code breaks this: a check that fails on
\* another call's check sleeps for the whole timeout with nobody to wake it.
BusyMeansWriteInProgress ==
    [][\A o \in Timed : pc[o] = "asleep" /\ pc'[o] = "busy" => o \in metWrite]_vars

\* notifyWriteDone closes the old channel and makes one for the next write: each
\* channel is closed once.  The code breaks this: two operations that finish
\* together read the same channel.
ChannelClosedOnce == \A o \in Ops : pc[o] # "panicked"
=============================================================================
