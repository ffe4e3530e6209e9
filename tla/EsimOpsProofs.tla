---------------------------- MODULE EsimOpsProofs ----------------------------
(***************************************************************************)
(* Theorems about EsimOps for any writers, listers, readers and observers: *)
(* type correctness and the mutual exclusion of card operations.           *)
(***************************************************************************)
EXTENDS EsimOps, TLAPS

\* The types need the exclusion (an unlock frees the mutex of nobody else), and the
\* exclusion needs the types.
IInv == TypeOK /\ OneOperationAtATime

\* Nobody holds the mutex at the start.
LEMMA InitIInv == Init => IInv
BY DEF Init, IInv, TypeOK, OneOperationAtATime, Places

\* A step that leaves the mutex alone and moves one call between places at which
\* nobody holds it keeps the exclusion.
LEMMA OutsideKeepsExclusion ==
    ASSUME IInv, NEW o \in Ops, NEW place \in Places \ {"working", "peek"},
           pc[o] \notin {"working", "peek"}, Goto(o, place), UNCHANGED opMu
    PROVE  /\ pc' \in [Ops -> Places]
           /\ opMu' \in {p \in Ops : pc'[p] \in {"working", "peek"}} \cup {None}
           /\ OneOperationAtATime'
BY DEF IInv, TypeOK, OneOperationAtATime, Goto

\* A call that finds the mutex free takes it to work or to peek.
LEMMA TakingKeepsExclusion ==
    ASSUME IInv, NEW o \in Ops, NEW place \in {"working", "peek"},
           opMu = None, opMu' = o, Goto(o, place)
    PROVE  /\ pc' \in [Ops -> Places]
           /\ opMu' \in {p \in Ops : pc'[p] \in {"working", "peek"}} \cup {None}
           /\ OneOperationAtATime'
BY KindsAssumption DEF IInv, TypeOK, OneOperationAtATime, Goto, Places

\* The holder, and nobody else, gives it back.
LEMMA GivingBackKeepsExclusion ==
    ASSUME IInv, NEW o \in Ops, NEW place \in Places \ {"working", "peek"},
           pc[o] \in {"working", "peek"}, opMu' = None, Goto(o, place)
    PROVE  /\ pc' \in [Ops -> Places]
           /\ opMu' \in {p \in Ops : pc'[p] \in {"working", "peek"}} \cup {None}
           /\ OneOperationAtATime'
BY DEF IInv, TypeOK, OneOperationAtATime, Goto

\* Every step keeps the invariant.
LEMMA NextIInv == IInv /\ [Next]_vars => IInv'
<1> SUFFICES ASSUME IInv, [Next]_vars PROVE IInv'
  OBVIOUS
<1>0. CASE UNCHANGED vars
  BY <1>0 DEF IInv, TypeOK, OneOperationAtATime, vars
<1> SUFFICES ASSUME NEW o \in Ops,
                    \/ Lock(o) \/ TryLock(o) \/ PeekUnlock(o)
                    \/ Choose(o) \/ Wake(o) \/ Expire(o)
                    \/ APDUIdle(o) \/ ReadDone(o)
                    \/ Unlock(o) \/ TakeOld(o) \/ MakeNew(o) \/ CloseOld(o)
             PROVE  IInv'
  BY <1>0 DEF Next
<1> DEFINE Exclusion == /\ pc' \in [Ops -> Places]
                        /\ opMu' \in {p \in Ops : pc'[p] \in {"working", "peek"}} \cup {None}
                        /\ OneOperationAtATime'
           Channels == /\ made' \in Nat /\ opDone' \in 0..made'
                       /\ closed' \subseteq 0..made' /\ seen' \in [Ops -> 0..made']
                       /\ metWrite' \subseteq Ops
<1>1. SUFFICES Exclusion /\ Channels
  BY DEF IInv, TypeOK
<1>2. /\ made \in Nat /\ opDone \in 0..made /\ closed \subseteq 0..made
      /\ seen \in [Ops -> 0..made] /\ metWrite \subseteq Ops
  BY DEF IInv, TypeOK
<1>3. (Writers \cup Timed) \subseteq Ops /\ Timed = Listers \cup Readers
  BY DEF Ops, Timed
<1> DEFINE Quiet == UNCHANGED <<opDone, made, closed, seen, metWrite>>
<1>4. Quiet => Channels
  BY <1>2
<1>5. CASE Lock(o)
  <2>1. Exclusion  BY <1>5, TakingKeepsExclusion DEF Lock
  <2>2. metWrite' \subseteq Ops  BY <1>5, <1>2, <1>3 DEF Lock, Meets
  <2>3. UNCHANGED <<opDone, made, closed, seen>>  BY <1>5 DEF Lock
  <2>4. QED  BY <1>2, <2>1, <2>2, <2>3
<1>6. CASE TryLock(o)
  <2>1. Exclusion
    <3>1. CASE opMu = None
      <4>1. opMu' = o  BY <1>6, <3>1 DEF TryLock
      <4>2. Goto(o, "working") \/ Goto(o, "peek")  BY <1>6, <3>1 DEF TryLock
      <4>3. QED  BY <3>1, <4>1, <4>2, TakingKeepsExclusion
    <3>2. CASE opMu # None
      <4>1. UNCHANGED opMu /\ pc[o] \notin {"working", "peek"}
        BY <1>6, <3>2 DEF TryLock
      <4>2. Goto(o, "busy") \/ Goto(o, "choose")  BY <1>6, <3>2 DEF TryLock
      <4>3. QED  BY <4>1, <4>2, OutsideKeepsExclusion DEF Places
    <3>3. QED  BY <3>1, <3>2
  <2>2. metWrite' \subseteq Ops  BY <1>6, <1>2, <1>3 DEF TryLock, Meets
  <2>3. UNCHANGED <<opDone, made, closed, seen>>  BY <1>6 DEF TryLock
  <2>4. QED  BY <1>2, <2>1, <2>2, <2>3
<1>7. CASE PeekUnlock(o)
  <2>1. Goto(o, "idleWait") \/ Goto(o, "done")  BY <1>7 DEF PeekUnlock
  <2>2. Exclusion  BY <1>7, <2>1, GivingBackKeepsExclusion DEF PeekUnlock, Places
  <2>3. QED  BY <1>7, <1>4, <2>2 DEF PeekUnlock
<1>8. CASE Choose(o)
  <2>1. Exclusion  BY <1>8, OutsideKeepsExclusion DEF Choose, Places
  <2>2. Channels  BY <1>8, <1>2 DEF Choose
  <2>3. QED  BY <2>1, <2>2
<1>9. CASE Wake(o) \/ Expire(o) \/ ReadDone(o)
  <2>1. Exclusion
    BY <1>9, OutsideKeepsExclusion DEF Wake, Expire, ReadDone, Places
  <2>2. QED  BY <1>9, <1>4, <2>1 DEF Wake, Expire, ReadDone
<1>10. CASE APDUIdle(o)
  <2>1. Goto(o, "reading") \/ Goto(o, "busy")  BY <1>10 DEF APDUIdle
  <2>2. Exclusion  BY <1>10, <2>1, OutsideKeepsExclusion DEF APDUIdle, Places
  <2>3. QED  BY <1>10, <1>4, <2>2 DEF APDUIdle
<1>11. CASE Unlock(o)
  <2>1. Exclusion  BY <1>11, GivingBackKeepsExclusion DEF Unlock, Places
  <2>2. QED  BY <1>11, <1>4, <2>1 DEF Unlock
<1>12. CASE TakeOld(o)
  <2>1. Exclusion  BY <1>12, OutsideKeepsExclusion DEF TakeOld, Places
  <2>2. Channels  BY <1>12, <1>2 DEF TakeOld
  <2>3. QED  BY <2>1, <2>2
<1>13. CASE MakeNew(o)
  <2>1. Exclusion  BY <1>13, OutsideKeepsExclusion DEF MakeNew, Places
  <2>2. Channels
    <3>1. 0..made \subseteq 0..(made + 1) /\ made + 1 \in 0..(made + 1)  BY <1>2
    <3>2. QED  BY <1>13, <1>2, <3>1 DEF MakeNew
  <2>3. QED  BY <2>1, <2>2
<1>14. CASE CloseOld(o)
  <2>1. Goto(o, "panicked") \/ Goto(o, "done")  BY <1>14 DEF CloseOld
  <2>2. Exclusion  BY <1>14, <2>1, OutsideKeepsExclusion DEF CloseOld, Places
  <2>3. Channels  BY <1>14, <1>2 DEF CloseOld
  <2>4. QED  BY <2>2, <2>3
<1>15. QED
  BY <1>5, <1>6, <1>7, <1>8, <1>9, <1>10, <1>11, <1>12, <1>13, <1>14

\* opMu's variables keep their types for any number of calls, and it is held by a
\* call that will unlock it.
THEOREM TypeCorrect == Spec => []TypeOK
<1>1. IInv => TypeOK  BY DEF IInv
<1>2. QED  BY InitIInv, NextIInv, <1>1, PTL DEF Spec

\* Any number of switches, downloads, lists and checks: one at a time has the lock.
THEOREM OneOperation == Spec => []OneOperationAtATime
<1>1. IInv => OneOperationAtATime  BY DEF IInv
<1>2. QED  BY InitIInv, NextIInv, <1>1, PTL DEF Spec
=============================================================================
