-------------------------- MODULE WorkerPoolProofs --------------------------
(***************************************************************************)
(* Theorems about WorkerPool for any number of threads, workers, recovery  *)
(* rounds and rebuilds: the slot of a device always has a thread that will *)
(* free it, an active transport event one that will finish it, and no      *)
(* worker is lost with its modem or core open but for the two kinds that   *)
(* WorkerPool names.                                                       *)
(***************************************************************************)
EXTENDS WorkerPool, TLAPS

\* Where a thread goes back to, and from which places it can: RemoveWorker and
\* AddWorkerFromConfig are called by one operation each time, and a recovery that is in
\* its rounds gets its thread back from every operation it calls.  Without it a thread
\* that will free the slot or finish the event could simply end.
StackOK(t) ==
    /\ th[t].ret # "done" => th[t].pc \in Calling
    /\ th[t].ret \notin {"done", "unlock"} => th[t].pc \notin {"add"} \cup Bootstrapping
    /\ th[t].ret = "handover" => th[t].round = 0
    /\ th[t].round > 0 =>
         \/ th[t].pc \in {"round", "rescan", "unlock", "refresh", "finish", "transport"}
         \/ th[t].ret \in {"unlock", "readd", "readdIfRemoved", "round"}

\* A worker that is registered, or about to be, has a generation.
HasWorker(t) ==
    th[t].pc \in {"generation", "modem", "current", "register", "start"} => th[t].w # 0

\* TypeOK in two parts: the pool's own variables, and the threads.
PoolOK ==
    /\ worker \in Nat /\ attempt \in Nat /\ generation \in Nat /\ trGeneration \in Nat
    /\ rebuilds \in Nat
    /\ {rebuilding, recovering, shutting, active} \subseteq BOOLEAN
    /\ open \subseteq Nat \ {0} /\ left \subseteq Nat /\ fired \subseteq Nat /\ pending \subseteq Nat
    /\ rescanMu \in Threads \cup {None}
ThreadsOK == th \in [Threads -> Thread]

Locals == \A t \in Threads : StackOK(t) /\ HasWorker(t)

IInv == PoolOK /\ ThreadsOK /\ Locals /\ SlotHasOwner /\ ActiveHasRecovery

-----------------------------------------------------------------------------
(* What the ways of moving a thread do.                                    *)

Others(t) == \A u \in Threads : u # t => th'[u] = th[u]

\* The fields of a thread that the invariants are about.
View(t, pc, ret, w, att, own, observed, round) ==
    /\ ThreadsOK' /\ Others(t)
    /\ th'[t].pc = pc /\ th'[t].ret = ret /\ th'[t].w = w /\ th'[t].att = att
    /\ th'[t].own = own /\ th'[t].observed = observed /\ th'[t].round = round

\* A thread becomes another record.
LEMMA SetThread ==
    ASSUME ThreadsOK, NEW t \in Threads, NEW r \in Thread, th' = [th EXCEPT ![t] = r]
    PROVE  ThreadsOK' /\ th'[t] = r /\ Others(t)
BY DEF ThreadsOK, Others

\* It goes to another place.
LEMMA GotoEffect ==
    ASSUME ThreadsOK, NEW t \in Threads, NEW place \in Pcs, Goto(t, place)
    PROVE  View(t, place, th[t].ret, th[t].w, th[t].att, th[t].own, th[t].observed, th[t].round)
<1>1. [th[t] EXCEPT !.pc = place] \in Thread  BY DEF ThreadsOK, Thread
<1>2. ThreadsOK' /\ th'[t] = [th[t] EXCEPT !.pc = place] /\ Others(t)
  BY <1>1, SetThread DEF Goto
<1>3. QED  BY <1>2 DEF View, ThreadsOK, Thread

\* It calls an operation.
LEMMA CallEffect ==
    ASSUME ThreadsOK, NEW t \in Threads, NEW place \in Pcs, NEW ret \in Rets,
           Call(t, place, ret)
    PROVE  View(t, place, ret, th[t].w, th[t].att, th[t].own, th[t].observed, th[t].round)
<1>1. [th[t] EXCEPT !.pc = place, !.ret = ret] \in Thread  BY DEF ThreadsOK, Thread
<1>2. ThreadsOK' /\ th'[t] = [th[t] EXCEPT !.pc = place, !.ret = ret] /\ Others(t)
  BY <1>1, SetThread DEF Call
<1>3. QED  BY <1>2 DEF View, ThreadsOK, Thread

\* It ends.
LEMMA DoneEffect ==
    ASSUME ThreadsOK, NEW t \in Threads, Done(t)
    PROVE  View(t, "done", "done", 0, 0, FALSE, FALSE, 0)
<1>1. [Idle EXCEPT !.pc = "done"] \in Thread  BY DEF Idle, Thread, Pcs, Rets
<1>2. ThreadsOK' /\ th'[t] = [Idle EXCEPT !.pc = "done"] /\ Others(t)
  BY <1>1, SetThread DEF Done
<1>3. QED  BY <1>2 DEF View, Idle

\* It returns from an operation: to the end, to its caller, or from RemoveWorker to
\* AddWorkerFromConfig in the same rescan.
LEMMA ReturnEffect ==
    ASSUME ThreadsOK, NEW t \in Threads, NEW ok, Return(t, ok)
    PROVE  \/ /\ th[t].ret = "done"
              /\ View(t, "done", "done", 0, 0, FALSE, FALSE, 0)
           \/ /\ th[t].ret \in {"handover", "unlock", "round"}
              /\ View(t, th[t].ret, "done", 0, 0, FALSE, th[t].observed, th[t].round)
           \/ /\ th[t].ret \in {"readd", "readdIfRemoved"}
              /\ View(t, "add", "unlock", 0, 0, FALSE, th[t].observed, th[t].round)
           \/ /\ th[t].ret = "readdIfRemoved"
              /\ View(t, "unlock", "done", 0, 0, FALSE, th[t].observed, th[t].round)
<1> DEFINE next == Continuation(th[t].ret, ok)
           back == IF next = "add" THEN "unlock" ELSE "done"
           r == [th[t] EXCEPT !.pc = next, !.ret = back, !.w = 0, !.att = 0,
                              !.timer = FALSE, !.own = FALSE, !.ok = FALSE]
<1>1. th[t] \in Thread /\ th[t].ret \in Rets  BY DEF ThreadsOK, Thread
<1>2. CASE th[t].ret = "done"
  <2>1. next = "done"  BY <1>2 DEF Continuation
  <2>2. Done(t)  BY <2>1 DEF Return
  <2>3. QED  BY <1>2, <2>2, DoneEffect
<1>3. CASE th[t].ret # "done"
  <2>1. \/ next = th[t].ret /\ th[t].ret \in {"handover", "unlock", "round"}
        \/ next = "add" /\ th[t].ret \in {"readd", "readdIfRemoved"}
        \/ next = "unlock" /\ th[t].ret = "readdIfRemoved"
    BY <1>1, <1>3 DEF Continuation, Rets
  <2>2. next # "done" /\ next \in Pcs /\ back \in Rets
    BY <2>1 DEF Pcs, Calling, Rets
  <2>3. r \in Thread  BY <1>1, <2>2 DEF Thread
  <2>4. th' = [th EXCEPT ![t] = r]  BY <2>2 DEF Return
  <2>5. ThreadsOK' /\ th'[t] = r /\ Others(t)  BY <2>3, <2>4, SetThread
  <2>6. /\ r.pc = next /\ r.ret = back /\ r.w = 0 /\ r.att = 0 /\ r.own = FALSE
        /\ r.observed = th[t].observed /\ r.round = th[t].round
    BY <1>1 DEF Thread
  <2>7. View(t, next, back, 0, 0, FALSE, th[t].observed, th[t].round)
    BY <2>5, <2>6 DEF View
  <2>8. QED  BY <2>1, <2>7
<1>4. QED  BY <1>2, <1>3

-----------------------------------------------------------------------------
(* What a step of a thread must do for the invariants.                     *)

\* It leaves the other threads alone and its own stack in order; the slot it leaves
\* taken, and the event it leaves active, have somebody if they had somebody, or itself.
Promise(t) ==
    /\ ThreadsOK' /\ Others(t)
    /\ StackOK(t)' /\ HasWorker(t)'
    /\ rebuilding' => \/ rebuilding /\ attempt' = attempt /\ (WillFree(t) => WillFree(t)')
                      \/ WillFree(t)'
    /\ active' => (active /\ (WillFinish(t) => WillFinish(t)')) \/ WillFinish(t)'

\* That is enough.
LEMMA PromiseIsEnough ==
    ASSUME Locals, SlotHasOwner, ActiveHasRecovery, NEW t \in Threads, Promise(t)
    PROVE  Locals' /\ SlotHasOwner' /\ ActiveHasRecovery'
<1>1. Locals'
  BY DEF Locals, Promise, Others, StackOK, HasWorker
<1>2. SlotHasOwner'
  <2>1. \A u \in Threads : u # t /\ attempt' = attempt => (WillFree(u) <=> WillFree(u)')
    BY DEF Promise, Others, WillFree, At
  <2>2. QED  BY <2>1 DEF Promise, SlotHasOwner
<1>3. ActiveHasRecovery'
  <2>1. \A u \in Threads : u # t => (WillFinish(u) <=> WillFinish(u)')
    BY DEF Promise, Others, WillFinish, At
  <2>2. QED  BY <2>1 DEF Promise, ActiveHasRecovery
<1>4. QED  BY <1>1, <1>2, <1>3

\* A bootstrap that goes on.
LEMMA BootstrapGoesOn ==
    ASSUME ThreadsOK, Locals, NEW t \in Threads, NEW place \in Bootstrapping \ {"generation"},
           th[t].pc \in Bootstrapping \ {"probe"}, Goto(t, place),
           place \in {"modem", "current", "register", "start"} => th[t].w # 0,
           UNCHANGED <<rebuilding, attempt, active>>
    PROVE  Promise(t)
<1>1. View(t, place, th[t].ret, th[t].w, th[t].att, th[t].own, th[t].observed, th[t].round)
  BY GotoEffect DEF Pcs, Calling
<1>2. StackOK(t)  BY DEF Locals
<1>3. th'[t].pc \in Calling /\ th'[t].pc \notin {"add", "begin", "stop", "release", "handover"}
  BY <1>1 DEF View, Calling, Bootstrapping
<1>4. QED  BY <1>1, <1>2, <1>3 DEF Promise, View, StackOK, HasWorker, WillFree, WillFinish, At, Calling, Bootstrapping

\* AddWorkerFromConfig after the probe.
LEMMA BootstrapKeeps ==
    ASSUME PoolOK, ThreadsOK, Locals, NEW t \in Threads,
           \/ SetWorkerGeneration(t) \/ StartModem(t) \/ CheckAttempt(t) \/ Abandon(t)
           \/ registerWorkerStarting(t) \/ StartCore(t) \/ Discard(t)
    PROVE  Promise(t)
<1>0. StackOK(t) /\ HasWorker(t) /\ th[t].round \in Nat  BY DEF Locals, ThreadsOK, Thread
<1>1. CASE SetWorkerGeneration(t)
  <2>1. Goto(t, "modem")  BY <1>1 DEF SetWorkerGeneration
  <2>2. /\ th[t].pc \in Bootstrapping \ {"probe"} /\ UNCHANGED <<rebuilding, attempt, active>>
        /\ th[t].pc \in {"generation", "modem", "current", "register"} => th[t].w # 0
    BY <1>1, <1>0 DEF SetWorkerGeneration, At, HasWorker, Bootstrapping, slot, controller, held
  <2>3. QED  BY <1>1, <2>1, <2>2, BootstrapGoesOn DEF SetWorkerGeneration, At, Bootstrapping
<1>2. CASE StartModem(t)
  <2>1. Goto(t, "current") \/ Goto(t, "discard")  BY <1>2 DEF StartModem
  <2>2. /\ th[t].pc \in Bootstrapping \ {"probe"} /\ UNCHANGED <<rebuilding, attempt, active>>
        /\ th[t].pc \in {"generation", "modem", "current", "register"} => th[t].w # 0
    BY <1>2, <1>0 DEF StartModem, At, HasWorker, Bootstrapping, slot, controller, held
  <2>3. QED  BY <1>2, <2>1, <2>2, BootstrapGoesOn DEF StartModem, At, Bootstrapping
<1>3. CASE CheckAttempt(t)
  <2>1. Goto(t, "register") \/ Goto(t, "abandon")  BY <1>3 DEF CheckAttempt
  <2>2. /\ th[t].pc \in Bootstrapping \ {"probe"} /\ UNCHANGED <<rebuilding, attempt, active>>
        /\ th[t].pc \in {"generation", "modem", "current", "register"} => th[t].w # 0
    BY <1>3, <1>0 DEF CheckAttempt, At, HasWorker, Bootstrapping, slot, controller, held
  <2>3. QED  BY <1>3, <2>1, <2>2, BootstrapGoesOn DEF CheckAttempt, At, Bootstrapping
<1>4. CASE registerWorkerStarting(t)
  <2>1. Goto(t, "discard") \/ Goto(t, "start") \/ Goto(t, "verify")  BY <1>4 DEF registerWorkerStarting
  <2>2. /\ th[t].pc \in Bootstrapping \ {"probe"} /\ UNCHANGED <<rebuilding, attempt, active>>
        /\ th[t].pc \in {"generation", "modem", "current", "register"} => th[t].w # 0
    BY <1>4, <1>0 DEF registerWorkerStarting, At, HasWorker, Bootstrapping, slot, controller, held
  <2>3. QED  BY <1>4, <2>1, <2>2, BootstrapGoesOn DEF registerWorkerStarting, At, Bootstrapping
<1>5. CASE StartCore(t)
  <2>1. Goto(t, "verify") \/ Goto(t, "discard")  BY <1>5 DEF StartCore
  <2>2. /\ th[t].pc \in Bootstrapping \ {"probe"} /\ UNCHANGED <<rebuilding, attempt, active>>
        /\ th[t].pc \in {"generation", "modem", "current", "register"} => th[t].w # 0
    BY <1>5, <1>0 DEF StartCore, At, HasWorker, Bootstrapping, slot, controller, held
  <2>3. QED  BY <1>5, <2>1, <2>2, BootstrapGoesOn DEF StartCore, At, Bootstrapping
<1>6. CASE Discard(t)
  <2>1. Goto(t, "end")  BY <1>6 DEF Discard
  <2>2. /\ th[t].pc \in Bootstrapping \ {"probe"} /\ UNCHANGED <<rebuilding, attempt, active>>
        /\ th[t].pc \in {"generation", "modem", "current", "register"} => th[t].w # 0
    BY <1>6, <1>0 DEF Discard, At, HasWorker, Bootstrapping, slot, controller, held
  <2>3. QED  BY <1>6, <2>1, <2>2, BootstrapGoesOn DEF Discard, At, Bootstrapping
<1>7. CASE Abandon(t)
  <2>1. Goto(t, "end")  BY <1>7 DEF Abandon
  <2>2. th[t].pc \in Bootstrapping \ {"probe"} /\ UNCHANGED <<rebuilding, attempt, active>>
    BY <1>7 DEF Abandon, At, Bootstrapping, slot, controller
  <2>3. QED  BY <2>1, <2>2, BootstrapGoesOn DEF Bootstrapping
<1>8. QED  BY <1>1, <1>2, <1>3, <1>4, <1>5, <1>6, <1>7

\* Operations begin, call one another and hand over.
LEMMA OperationsKeep ==
    ASSUME PoolOK, ThreadsOK, Locals, NEW t \in Threads,
           \/ Begin(t) \/ RebuildBegin(t) \/ Handover(t) \/ Rescan(t) \/ RescanUnlock(t)
    PROVE  Promise(t)
<1>0. StackOK(t) /\ HasWorker(t) /\ th[t].round \in Nat  BY DEF Locals, ThreadsOK, Thread
<1>1. CASE Begin(t)
  <2>1.
        \/ View(t, "add", th[t].ret, th[t].w, th[t].att, th[t].own, th[t].observed, th[t].round)
        \/ View(t, "remove", th[t].ret, th[t].w, th[t].att, th[t].own, th[t].observed, th[t].round)
        \/ View(t, "rebuild", th[t].ret, th[t].w, th[t].att, th[t].own, th[t].observed, th[t].round)
        \/ View(t, "rescan", th[t].ret, th[t].w, th[t].att, th[t].own, th[t].observed, th[t].round)
    BY <1>1, GotoEffect DEF Begin, Pcs, Calling, Bootstrapping
  <2>2. th[t].pc = "idle" /\ UNCHANGED <<rebuilding, attempt, active>>
    BY <1>1 DEF Begin, At, slot, controller, held
  <2>3. QED  BY <1>0, <2>1, <2>2 DEF Promise, View, StackOK, HasWorker, WillFree, WillFinish, At, Calling, Bootstrapping
<1>2. CASE RebuildBegin(t)
  <2>1.
        \/ View(t, "remove", "handover", th[t].w, th[t].att, th[t].own, th[t].observed, th[t].round)
        \/ View(t, "release", th[t].ret, th[t].w, th[t].att, th[t].own, th[t].observed, th[t].round)
    BY <1>2, GotoEffect, CallEffect DEF RebuildBegin, Pcs, Rets, Calling, Bootstrapping
  <2>2. th[t].pc = "rebuild" /\ active' = active
    BY <1>2 DEF RebuildBegin, At, slot, controller, held
  <2>3. QED  BY <1>0, <2>1, <2>2 DEF Promise, View, StackOK, HasWorker, WillFree, WillFinish, At, Calling, Bootstrapping
<1>3. CASE Handover(t)
  <2>1. View(t, "add", th[t].ret, th[t].w, th[t].att, th[t].own, th[t].observed, th[t].round)
    BY <1>3, GotoEffect DEF Handover, Pcs, Calling, Bootstrapping
  <2>2. th[t].pc = "handover" /\ ~rebuilding' /\ active' = active
    BY <1>3 DEF Handover, At, slot, controller, held
  <2>3. QED  BY <1>0, <2>1, <2>2 DEF Promise, View, StackOK, HasWorker, WillFree, WillFinish, At, Calling, Bootstrapping
<1>4. CASE Rescan(t)
  <2>1.
        \/ View(t, "unlock", th[t].ret, th[t].w, th[t].att, th[t].own, th[t].observed, th[t].round)
        \/ View(t, "add", "unlock", th[t].w, th[t].att, th[t].own, th[t].observed, th[t].round)
        \/ View(t, "remove", "readd", th[t].w, th[t].att, th[t].own, th[t].observed, th[t].round)
        \/ View(t, "remove", "readdIfRemoved", th[t].w, th[t].att, th[t].own, th[t].observed, th[t].round)
        \/ View(t, "remove", "unlock", th[t].w, th[t].att, th[t].own, th[t].observed, th[t].round)
    BY <1>4, GotoEffect, CallEffect DEF Rescan, Pcs, Rets, Calling, Bootstrapping
  <2>2. th[t].pc = "rescan" /\ UNCHANGED <<rebuilding, attempt, active>>
    BY <1>4 DEF Rescan, At, slot, controller, held
  <2>3. QED  BY <1>0, <2>1, <2>2 DEF Promise, View, StackOK, HasWorker, WillFree, WillFinish, At, Calling, Bootstrapping
<1>5. CASE RescanUnlock(t)
  <2>1.
        \/ th[t].round > 0 /\ View(t, "refresh", th[t].ret, th[t].w, th[t].att, th[t].own, th[t].observed, th[t].round)
        \/ ~(th[t].round > 0) /\ View(t, "done", "done", 0, 0, FALSE, FALSE, 0)
    BY <1>5, GotoEffect, DoneEffect DEF RescanUnlock, Pcs, Calling, Bootstrapping
  <2>2. th[t].pc = "unlock" /\ UNCHANGED <<rebuilding, attempt, active>>
    BY <1>5 DEF RescanUnlock, At, slot, controller, held
  <2>3. QED  BY <1>0, <2>1, <2>2 DEF Promise, View, StackOK, HasWorker, WillFree, WillFinish, At, Calling, Bootstrapping
<1>6. QED  BY <1>1, <1>2, <1>3, <1>4, <1>5

\* Reports and recoveries: an active event stays with its recovery until that finishes it.
LEMMA RecoveryKeeps ==
    ASSUME PoolOK, ThreadsOK, Locals, NEW t \in Threads,
           \/ AllowRebuild(t) \/ ReporterRegistered(t) \/ RecoveryBegin(t)
           \/ RefreshRecovered(t) \/ finishModemRebootRecovery(t) \/ FinishTransport(t)
    PROVE  Promise(t)
<1>0. StackOK(t) /\ HasWorker(t) /\ th[t].round \in Nat  BY DEF Locals, ThreadsOK, Thread
<1>1. CASE AllowRebuild(t)
  <2>1.
        \/ View(t, "reporter", th[t].ret, th[t].w, th[t].att, th[t].own, th[t].observed, th[t].round)
        \/ View(t, "done", "done", 0, 0, FALSE, FALSE, 0)
    BY <1>1, GotoEffect, DoneEffect DEF AllowRebuild, Pcs, Calling, Bootstrapping
  <2>2. th[t].pc = "exhausted" /\ UNCHANGED <<rebuilding, attempt, active>>
    BY <1>1 DEF AllowRebuild, At, slot, controller, held
  <2>3. QED  BY <1>0, <2>1, <2>2 DEF Promise, View, StackOK, HasWorker, WillFree, WillFinish, At, Calling, Bootstrapping
<1>2. CASE ReporterRegistered(t)
  <2>1.
        \/ View(t, "observe", th[t].ret, th[t].w, th[t].att, th[t].own, th[t].observed, th[t].round)
        \/ View(t, "done", "done", 0, 0, FALSE, FALSE, 0)
    BY <1>2, GotoEffect, DoneEffect DEF ReporterRegistered, Pcs, Calling, Bootstrapping
  <2>2. th[t].pc = "reporter" /\ UNCHANGED <<rebuilding, attempt, active>>
    BY <1>2 DEF ReporterRegistered, At, slot, controller, held
  <2>3. QED  BY <1>0, <2>1, <2>2 DEF Promise, View, StackOK, HasWorker, WillFree, WillFinish, At, Calling, Bootstrapping
<1>3. CASE RecoveryBegin(t)
  <2>1.
        \/ active' = active /\ View(t, "remove", "round", th[t].w, th[t].att, th[t].own, th[t].observed, th[t].round)
        \/ active' = active /\ View(t, "round", th[t].ret, th[t].w, th[t].att, th[t].own, th[t].observed, th[t].round)
        \/ (active' => active /\ ~th[t].observed) /\ View(t, "done", "done", 0, 0, FALSE, FALSE, 0)
    BY <1>3, GotoEffect, CallEffect, DoneEffect DEF RecoveryBegin, Pcs, Rets, Calling, Bootstrapping
  <2>2. th[t].pc = "begin" /\ UNCHANGED <<rebuilding, attempt>>
    BY <1>3 DEF RecoveryBegin, At, slot, controller, held
  <2>3. QED  BY <1>0, <2>1, <2>2 DEF Promise, View, StackOK, HasWorker, WillFree, WillFinish, At, Calling, Bootstrapping
<1>4. CASE RefreshRecovered(t)
  <2>1.
        \/ View(t, "finish", th[t].ret, th[t].w, th[t].att, th[t].own, th[t].observed, th[t].round)
        \/ View(t, "round", th[t].ret, th[t].w, th[t].att, th[t].own, th[t].observed, th[t].round)
        \/ View(t, "remove", "round", th[t].w, th[t].att, th[t].own, th[t].observed, th[t].round)
    BY <1>4, GotoEffect, CallEffect DEF RefreshRecovered, Pcs, Rets, Calling, Bootstrapping
  <2>2. th[t].pc = "refresh" /\ UNCHANGED <<rebuilding, attempt, active>>
    BY <1>4 DEF RefreshRecovered, At, slot, controller, held
  <2>3. QED  BY <1>0, <2>1, <2>2 DEF Promise, View, StackOK, HasWorker, WillFree, WillFinish, At, Calling, Bootstrapping
<1>5. CASE finishModemRebootRecovery(t)
  <2>1. View(t, "transport", th[t].ret, th[t].w, th[t].att, th[t].own, th[t].observed, th[t].round)
    BY <1>5, GotoEffect DEF finishModemRebootRecovery, Pcs, Calling, Bootstrapping
  <2>2. th[t].pc = "finish" /\ UNCHANGED <<rebuilding, attempt, active>>
    BY <1>5 DEF finishModemRebootRecovery, At, slot, controller, held
  <2>3. QED  BY <1>0, <2>1, <2>2 DEF Promise, View, StackOK, HasWorker, WillFree, WillFinish, At, Calling, Bootstrapping
<1>6. CASE FinishTransport(t)
  <2>1. View(t, "done", "done", 0, 0, FALSE, FALSE, 0)
    BY <1>6, DoneEffect DEF FinishTransport, Pcs, Calling, Bootstrapping
  <2>2. th[t].pc = "transport" /\ ~active' /\ UNCHANGED <<rebuilding, attempt>>
    BY <1>6 DEF FinishTransport, At, slot, controller, held
  <2>3. QED  BY <1>0, <2>1, <2>2 DEF Promise, View, StackOK, HasWorker, WillFree, WillFinish, At, Calling, Bootstrapping
<1>7. QED  BY <1>1, <1>2, <1>3, <1>4, <1>5, <1>6

\* A return keeps the promises of a thread unless the slot was to be freed by that very
\* operation: a caller that will free the slot, or finish the event, is returned to.
LEMMA ReturnKeeps ==
    ASSUME ThreadsOK, Locals, NEW t \in Threads, NEW ok, Return(t, ok), th[t].pc \in Calling,
           rebuilding' => /\ rebuilding /\ attempt' = attempt
                          /\ WillFree(t) => th[t].ret = "handover",
           active' = active
    PROVE  Promise(t)
<1>0. StackOK(t) /\ th[t].round \in Nat  BY DEF Locals, ThreadsOK, Thread
<1> DEFINE E == View(t, "done", "done", 0, 0, FALSE, FALSE, 0)
           R(pc, ret) == View(t, pc, ret, 0, 0, FALSE, th[t].observed, th[t].round)
<1>1. CASE th[t].ret = "done" /\ E
  <2>1. ~WillFinish(t)
    BY <1>0, <1>1 DEF WillFinish, StackOK, At, Calling, Bootstrapping
  <2>2. ~rebuilding' \/ ~WillFree(t)  BY <1>1
  <2>3. QED  BY <1>1, <2>1, <2>2 DEF Promise, View, StackOK, HasWorker
<1>2. CASE th[t].ret \in {"handover", "unlock", "round"} /\ R(th[t].ret, "done")
  <2>1. th[t].ret = "handover" => WillFree(t)'  BY <1>2 DEF View, WillFree, At
  <2>2. WillFinish(t) => WillFinish(t)'
    BY <1>0, <1>2 DEF View, WillFinish, StackOK, At, Calling, Bootstrapping
  <2>3. StackOK(t)' /\ HasWorker(t)'  BY <1>0, <1>2 DEF View, StackOK, HasWorker
  <2>4. QED  BY <1>2, <2>1, <2>2, <2>3 DEF Promise, View
<1>3. CASE th[t].ret \in {"readd", "readdIfRemoved"} /\ R("add", "unlock")
  <2>1. WillFinish(t) => WillFinish(t)'
    BY <1>0, <1>3 DEF View, WillFinish, StackOK, At, Calling, Bootstrapping
  <2>2. StackOK(t)' /\ HasWorker(t)'
    BY <1>0, <1>3 DEF View, StackOK, HasWorker, Calling, Bootstrapping
  <2>3. QED  BY <1>3, <2>1, <2>2 DEF Promise, View
<1>4. CASE th[t].ret = "readdIfRemoved" /\ R("unlock", "done")
  <2>1. WillFinish(t) => WillFinish(t)'
    BY <1>0, <1>4 DEF View, WillFinish, StackOK, At, Calling, Bootstrapping
  <2>2. StackOK(t)' /\ HasWorker(t)'  BY <1>0, <1>4 DEF View, StackOK, HasWorker
  <2>3. QED  BY <1>4, <2>1, <2>2 DEF Promise, View
<1>5. QED  BY <1>1, <1>2, <1>3, <1>4, ReturnEffect

\* RemoveWorker, and AddWorkerFromConfig at its ends.
LEMMA RemovesKeep ==
    ASSUME PoolOK, ThreadsOK, Locals, NEW t \in Threads,
           \/ AddBegin(t) \/ endRebuildAttemptIfCurrent(t) \/ Remove(t) \/ Settle(t) \/ Stop(t)
           \/ ReleaseSlot(t)
    PROVE  Promise(t)
<1>0. StackOK(t) /\ HasWorker(t) /\ th[t].round \in Nat  BY DEF Locals, ThreadsOK, Thread
<1>1. CASE AddBegin(t)
  <2>1. th[t].pc = "add" /\ active' = active  BY <1>1 DEF AddBegin, At, controller
  <2>2. CASE Return(t, FALSE) /\ UNCHANGED slot
    BY <2>1, <2>2, ReturnKeeps DEF Calling, Bootstrapping, WillFree, At, slot
  <2>3. CASE /\ attempt' = attempt + 1
             /\ th' = [th EXCEPT ![t] = [@ EXCEPT !.pc = "probe", !.att = attempt', !.timer = TRUE]]
    <3> DEFINE r == [th[t] EXCEPT !.pc = "probe", !.att = attempt', !.timer = TRUE]
    <3>1. attempt' \in Nat /\ th[t] \in Thread  BY <2>3 DEF PoolOK, ThreadsOK
    <3>2. r \in Thread  BY <3>1 DEF Thread, Pcs, Calling, Bootstrapping
    <3>3. ThreadsOK' /\ th'[t] = r /\ Others(t)  BY <2>3, <3>2, SetThread
    <3>4. View(t, "probe", th[t].ret, th[t].w, attempt', th[t].own, th[t].observed, th[t].round)
      BY <3>1, <3>3 DEF View, Thread
    <3>5. QED  BY <1>0, <2>1, <3>4 DEF Promise, View, StackOK, HasWorker, WillFree, WillFinish, At, Calling, Bootstrapping
  <2>4. QED  BY <1>1, <2>2, <2>3 DEF AddBegin
<1>2. CASE endRebuildAttemptIfCurrent(t)
  <2>1. Return(t, th[t].ok) /\ th[t].pc = "end"  BY <1>2 DEF endRebuildAttemptIfCurrent, At
  <2>2. /\ active' = active /\ attempt' = attempt
        /\ rebuilding' => rebuilding /\ attempt # th[t].att
    BY <1>2 DEF endRebuildAttemptIfCurrent, controller, isRebuildAttemptCurrent
  <2>3. rebuilding' /\ WillFree(t) => th[t].ret = "handover"
    BY <2>1, <2>2 DEF WillFree, At, Bootstrapping
  <2>4. QED  BY <2>1, <2>2, <2>3, ReturnKeeps DEF Calling, Bootstrapping
<1>3. CASE Remove(t)
  <2>1. th[t].pc = "remove" /\ active' = active /\ attempt' = attempt  BY <1>3 DEF Remove, At, controller
  <2>2. CASE Return(t, FALSE) /\ rebuilding' = rebuilding
    BY <2>1, <2>2, ReturnKeeps DEF Calling, Bootstrapping, WillFree, At
  <2>3. CASE Goto(t, "settle") /\ rebuilding' = rebuilding
    <3>1. View(t, "settle", th[t].ret, th[t].w, th[t].att, th[t].own, th[t].observed, th[t].round)
      BY <2>3, GotoEffect DEF Pcs, Calling
    <3>2. QED  BY <1>0, <2>1, <2>3, <3>1 DEF Promise, View, StackOK, HasWorker, WillFree, WillFinish, At, Calling, Bootstrapping
  <2>4. CASE th' = [th EXCEPT ![t] = [@ EXCEPT !.pc = "stop", !.w = worker, !.own = ~rebuilding]]
    <3> DEFINE r == [th[t] EXCEPT !.pc = "stop", !.w = worker, !.own = ~rebuilding]
    <3>1. th[t] \in Thread /\ worker \in Nat  BY DEF PoolOK, ThreadsOK
    <3>2. r \in Thread  BY <3>1 DEF Thread, Pcs, Calling
    <3>3. ThreadsOK' /\ th'[t] = r /\ Others(t)  BY <2>4, <3>2, SetThread
    <3>4. View(t, "stop", th[t].ret, worker, th[t].att, ~rebuilding, th[t].observed, th[t].round)
      BY <3>1, <3>3 DEF View, Thread
    <3>5. QED  BY <1>0, <2>1, <3>4 DEF Promise, View, StackOK, HasWorker, WillFree, WillFinish, At, Calling, Bootstrapping
  <2>5. QED  BY <1>3, <2>2, <2>3, <2>4 DEF Remove
<1>4. CASE Settle(t)
  <2>1. th[t].pc = "settle" /\ UNCHANGED <<rebuilding, attempt, active>>
    BY <1>4 DEF Settle, At, slot, controller, held
  <2>2. CASE Goto(t, "remove")
    <3>1. View(t, "remove", th[t].ret, th[t].w, th[t].att, th[t].own, th[t].observed, th[t].round)
      BY <2>2, GotoEffect DEF Pcs, Calling
    <3>2. QED  BY <1>0, <2>1, <3>1 DEF Promise, View, StackOK, HasWorker, WillFree, WillFinish, At, Calling, Bootstrapping
  <2>3. CASE Return(t, FALSE)
    BY <2>1, <2>3, ReturnKeeps DEF Calling, Bootstrapping, WillFree, At
  <2>4. QED  BY <1>4, <2>2, <2>3 DEF Settle
<1>5. CASE Stop(t)
  <2>1. th[t].pc = "stop" /\ UNCHANGED <<rebuilding, attempt, active>>
    BY <1>5 DEF Stop, At, slot, controller, held
  <2>2. ASSUME NEW cleanup \in BOOLEAN, ~th[t].own, Return(t, cleanup) PROVE Promise(t)
    BY <2>1, <2>2, ReturnKeeps DEF Calling, Bootstrapping, WillFree, At
  <2>3. ASSUME NEW cleanup \in BOOLEAN,
               th' = [th EXCEPT ![t] = [@ EXCEPT !.pc = "release", !.ok = cleanup]]
        PROVE  Promise(t)
    <3> DEFINE r == [th[t] EXCEPT !.pc = "release", !.ok = cleanup]
    <3>1. th[t] \in Thread  BY DEF ThreadsOK
    <3>2. r \in Thread  BY <3>1 DEF Thread, Pcs, Calling
    <3>3. ThreadsOK' /\ th'[t] = r /\ Others(t)  BY <2>3, <3>2, SetThread
    <3>4. View(t, "release", th[t].ret, th[t].w, th[t].att, th[t].own, th[t].observed, th[t].round)
      BY <3>1, <3>3 DEF View, Thread
    <3>5. QED  BY <1>0, <2>1, <3>4 DEF Promise, View, StackOK, HasWorker, WillFree, WillFinish, At, Calling, Bootstrapping
  <2>4. QED  BY <1>5, <2>2, <2>3 DEF Stop
<1>6. CASE ReleaseSlot(t)
  <2>1. Return(t, th[t].ok) /\ th[t].pc = "release"  BY <1>6 DEF ReleaseSlot, At
  <2>2. active' = active /\ ~rebuilding'  BY <1>6 DEF ReleaseSlot, controller
  <2>3. QED  BY <2>1, <2>2, ReturnKeeps DEF Calling
<1>7. QED  BY <1>1, <1>2, <1>3, <1>4, <1>5, <1>6

\* The steps that remember something.
LEMMA RecordsKeep ==
    ASSUME PoolOK, ThreadsOK, Locals, NEW t \in Threads,
           \/ BeginRecovery(t) \/ BeginExhausted(t) \/ BeginSuspect(t) \/ Probe(t)
           \/ VerifyRegistration(t) \/ WatchdogTimer(t) \/ Observe(t) \/ Round(t)
    PROVE  Promise(t)
<1>0. StackOK(t) /\ HasWorker(t) /\ th[t].round \in Nat  BY DEF Locals, ThreadsOK, Thread
<1>1. CASE BeginRecovery(t)
  <2>0. PICK remove \in BOOLEAN :
          th' = [th EXCEPT ![t] = [@ EXCEPT !.pc = "begin", !.remove = remove]]
    BY <1>1 DEF BeginRecovery
  <2> DEFINE r == [th[t] EXCEPT !.pc = "begin", !.remove = remove]
  <2>1. th[t] \in Thread  BY <1>1, <2>0 DEF PoolOK, ThreadsOK, BeginRecovery
  <2>2. r \in Thread  BY <2>1 DEF Thread, Pcs, Calling, Bootstrapping
  <2>3. ThreadsOK' /\ th'[t] = r /\ Others(t)  BY <1>1, <2>0, <2>2, SetThread DEF BeginRecovery
  <2>4. View(t, "begin", th[t].ret, th[t].w, th[t].att, th[t].own, th[t].observed, th[t].round)
    BY <2>1, <2>3 DEF View, Thread
  <2>5. th[t].pc = "idle" /\ UNCHANGED <<rebuilding, attempt, active>>
    BY <1>1, <2>0 DEF BeginRecovery, At, slot, controller, held
  <2>6. QED  BY <1>0, <2>4, <2>5 DEF Promise, View, StackOK, HasWorker, WillFree, WillFinish, At, Calling, Bootstrapping
<1>2. CASE BeginExhausted(t)
  <2>0. PICK w \in open : th' = [th EXCEPT ![t] = [@ EXCEPT !.pc = "exhausted", !.event = w]]
    BY <1>2 DEF BeginExhausted
  <2> DEFINE r == [th[t] EXCEPT !.pc = "exhausted", !.event = w]
  <2>1. th[t] \in Thread /\ w \in Nat  BY <1>2, <2>0 DEF PoolOK, ThreadsOK, BeginExhausted
  <2>2. r \in Thread  BY <2>1 DEF Thread, Pcs, Calling, Bootstrapping
  <2>3. ThreadsOK' /\ th'[t] = r /\ Others(t)  BY <1>2, <2>0, <2>2, SetThread DEF BeginExhausted
  <2>4. View(t, "exhausted", th[t].ret, th[t].w, th[t].att, th[t].own, th[t].observed, th[t].round)
    BY <2>1, <2>3 DEF View, Thread
  <2>5. th[t].pc = "idle" /\ UNCHANGED <<rebuilding, attempt, active>>
    BY <1>2, <2>0 DEF BeginExhausted, At, slot, controller, held
  <2>6. QED  BY <1>0, <2>4, <2>5 DEF Promise, View, StackOK, HasWorker, WillFree, WillFinish, At, Calling, Bootstrapping
<1>3. CASE BeginSuspect(t)
  <2> DEFINE r == [th[t] EXCEPT !.pc = "observe", !.event = worker]
  <2>1. th[t] \in Thread /\ worker \in Nat  BY <1>3 DEF PoolOK, ThreadsOK, BeginSuspect
  <2>2. r \in Thread  BY <2>1 DEF Thread, Pcs, Calling, Bootstrapping
  <2>3. ThreadsOK' /\ th'[t] = r /\ Others(t)  BY <1>3, <2>2, SetThread DEF BeginSuspect
  <2>4. View(t, "observe", th[t].ret, th[t].w, th[t].att, th[t].own, th[t].observed, th[t].round)
    BY <2>1, <2>3 DEF View, Thread
  <2>5. th[t].pc = "idle" /\ UNCHANGED <<rebuilding, attempt, active>>
    BY <1>3 DEF BeginSuspect, At, slot, controller, held
  <2>6. QED  BY <1>0, <2>4, <2>5 DEF Promise, View, StackOK, HasWorker, WillFree, WillFinish, At, Calling, Bootstrapping
<1>4. CASE Probe(t)
  <2>1. th[t].pc = "probe" /\ UNCHANGED <<rebuilding, attempt, active>>
    BY <1>4 DEF Probe, At, slot, controller, held
  <2>2. CASE Goto(t, "end")
    <3>1. View(t, "end", th[t].ret, th[t].w, th[t].att, th[t].own, th[t].observed, th[t].round)
      BY <2>2, GotoEffect DEF Pcs, Calling, Bootstrapping
    <3>2. QED  BY <1>0, <2>1, <3>1 DEF Promise, View, StackOK, HasWorker, WillFree, WillFinish, At, Calling, Bootstrapping
  <2>3. CASE /\ generation' = generation + 1
             /\ th' = [th EXCEPT ![t] = [@ EXCEPT !.pc = "generation", !.w = generation']]
    <3> DEFINE r == [th[t] EXCEPT !.pc = "generation", !.w = generation']
    <3>1. th[t] \in Thread /\ generation' \in Nat /\ generation' # 0
      BY <2>3 DEF PoolOK, ThreadsOK
    <3>2. r \in Thread  BY <3>1 DEF Thread, Pcs, Calling, Bootstrapping
    <3>3. ThreadsOK' /\ th'[t] = r /\ Others(t)  BY <2>3, <3>2, SetThread
    <3>4. View(t, "generation", th[t].ret, generation', th[t].att, th[t].own, th[t].observed,
               th[t].round)
      BY <3>1, <3>3 DEF View, Thread
    <3>5. QED  BY <1>0, <2>1, <3>1, <3>4 DEF Promise, View, StackOK, HasWorker, WillFree, WillFinish, At, Calling, Bootstrapping
  <2>4. QED  BY <1>4, <2>2, <2>3 DEF Probe
<1>5. CASE VerifyRegistration(t)
  <2> DEFINE r == [th[t] EXCEPT !.pc = "end", !.ok = ~shutting /\ worker = th[t].w]
  <2>1. th[t] \in Thread  BY <1>5 DEF PoolOK, ThreadsOK, VerifyRegistration
  <2>2. r \in Thread  BY <2>1 DEF Thread, Pcs, Calling, Bootstrapping
  <2>3. ThreadsOK' /\ th'[t] = r /\ Others(t)  BY <1>5, <2>2, SetThread DEF VerifyRegistration
  <2>4. View(t, "end", th[t].ret, th[t].w, th[t].att, th[t].own, th[t].observed, th[t].round)
    BY <2>1, <2>3 DEF View, Thread
  <2>5. th[t].pc = "verify" /\ UNCHANGED <<rebuilding, attempt, active>>
    BY <1>5 DEF VerifyRegistration, At, slot, controller, held
  <2>6. QED  BY <1>0, <2>4, <2>5 DEF Promise, View, StackOK, HasWorker, WillFree, WillFinish, At, Calling, Bootstrapping
<1>6. CASE WatchdogTimer(t)
  <2> DEFINE r == [th[t] EXCEPT !.timer = FALSE]
  <2>1. th[t] \in Thread  BY <1>6 DEF PoolOK, ThreadsOK, WatchdogTimer
  <2>2. r \in Thread  BY <2>1 DEF Thread, Pcs, Calling, Bootstrapping
  <2>3. ThreadsOK' /\ th'[t] = r /\ Others(t)  BY <1>6, <2>2, SetThread DEF WatchdogTimer
  <2>4. View(t, th[t].pc, th[t].ret, th[t].w, th[t].att, th[t].own, th[t].observed, th[t].round)
    BY <2>1, <2>3 DEF View, Thread
  <2>5. UNCHANGED <<rebuilding, attempt, active>>
    BY <1>6 DEF WatchdogTimer, At, slot, controller, held
  <2>6. QED  BY <1>0, <2>4, <2>5 DEF Promise, View, StackOK, HasWorker, WillFree, WillFinish, At, Calling, Bootstrapping
<1>7. CASE Observe(t)
  <2>1. th[t].pc = "observe" /\ UNCHANGED <<rebuilding, attempt>>
    BY <1>7 DEF Observe, At, slot
  <2>2. CASE Done(t) /\ active' = active
    <3>1. View(t, "done", "done", 0, 0, FALSE, FALSE, 0)  BY <2>2, DoneEffect
    <3>2. QED  BY <1>0, <2>1, <2>2, <3>1 DEF Promise, View, StackOK, HasWorker, WillFree, WillFinish, At, Calling, Bootstrapping
  <2>3. CASE th' = [th EXCEPT ![t] = [@ EXCEPT !.pc = "begin", !.observed = TRUE, !.remove = TRUE]]
    <3> DEFINE r == [th[t] EXCEPT !.pc = "begin", !.observed = TRUE, !.remove = TRUE]
    <3>1. th[t] \in Thread  BY DEF ThreadsOK
    <3>2. r \in Thread  BY <3>1 DEF Thread, Pcs
    <3>3. ThreadsOK' /\ th'[t] = r /\ Others(t)  BY <2>3, <3>2, SetThread
    <3>4. View(t, "begin", th[t].ret, th[t].w, th[t].att, th[t].own, TRUE, th[t].round)
      BY <3>1, <3>3 DEF View, Thread
    <3>5. QED  BY <1>0, <2>1, <3>4 DEF Promise, View, StackOK, HasWorker, WillFree, WillFinish, At, Calling, Bootstrapping
  <2>4. QED  BY <1>7, <2>2, <2>3 DEF Observe
<1>8. CASE Round(t)
  <2>1. th[t].pc = "round" /\ UNCHANGED <<rebuilding, attempt, active>>
    BY <1>8 DEF Round, At, slot, controller, held
  <2>2. CASE Goto(t, "finish")
    <3>1. View(t, "finish", th[t].ret, th[t].w, th[t].att, th[t].own, th[t].observed, th[t].round)
      BY <2>2, GotoEffect DEF Pcs
    <3>2. QED  BY <1>0, <2>1, <3>1 DEF Promise, View, StackOK, HasWorker, WillFree, WillFinish, At, Calling, Bootstrapping
  <2>3. ASSUME NEW place \in {"rescan", "round"},
               th' = [th EXCEPT ![t] = [@ EXCEPT !.round = th[t].round + 1, !.pc = place]]
        PROVE  Promise(t)
    <3> DEFINE r == [th[t] EXCEPT !.round = th[t].round + 1, !.pc = place]
    <3>1. th[t] \in Thread /\ th[t].round + 1 \in Nat /\ th[t].round + 1 > 0
      BY <1>0 DEF ThreadsOK
    <3>2. r \in Thread  BY <3>1 DEF Thread, Pcs
    <3>3. ThreadsOK' /\ th'[t] = r /\ Others(t)  BY <2>3, <3>2, SetThread
    <3>4. View(t, place, th[t].ret, th[t].w, th[t].att, th[t].own, th[t].observed, th[t].round + 1)
      BY <3>1, <3>3 DEF View, Thread
    <3>5. QED  BY <1>0, <2>1, <3>1, <3>4 DEF Promise, View, StackOK, HasWorker, WillFree, WillFinish, At, Calling, Bootstrapping
  <2>4. QED  BY <1>8, <2>2, <2>3 DEF Round
<1>9. QED  BY <1>1, <1>2, <1>3, <1>4, <1>5, <1>6, <1>7, <1>8

-----------------------------------------------------------------------------
(* Every step keeps the invariant.                                         *)

ThreadStep(t) ==
    \/ Begin(t) \/ BeginRecovery(t) \/ BeginExhausted(t) \/ BeginSuspect(t)
    \/ Runs(t) \/ MayHang(t) \/ WatchdogTimer(t)

\* Every step of a thread keeps its promises.
LEMMA ThreadKeepsPromise ==
    ASSUME PoolOK, ThreadsOK, Locals, NEW t \in Threads, ThreadStep(t)
    PROVE  Promise(t)
BY BootstrapKeeps, OperationsKeep, RecoveryKeeps, RemovesKeep, RecordsKeep
   DEF ThreadStep, Runs, MayHang, Add, RemoveOrRebuild, Recover

\* The pool's variables keep their types.
LEMMA PoolStep == PoolOK /\ ThreadsOK /\ Locals /\ [Next]_vars => PoolOK'
<1> SUFFICES ASSUME PoolOK, ThreadsOK, Locals, [Next]_vars PROVE PoolOK'
  OBVIOUS
<1> USE DEF PoolOK, held
<1>1. CASE UNCHANGED vars  BY <1>1 DEF vars, slot, controller, held
<1>2. ASSUME NEW t \in Threads,
             \/ Begin(t) \/ BeginRecovery(t) \/ BeginExhausted(t) \/ BeginSuspect(t)
             \/ StartModem(t) \/ CheckAttempt(t) \/ VerifyRegistration(t) \/ Settle(t)
             \/ ReporterRegistered(t) \/ Round(t) \/ RefreshRecovered(t)
      PROVE  PoolOK'
  BY <1>2 DEF Begin, BeginRecovery, BeginExhausted, BeginSuspect, StartModem, CheckAttempt,
     VerifyRegistration, Settle, ReporterRegistered, Round, RefreshRecovered, slot, controller, held
<1>3. ASSUME NEW t \in Threads, AddBegin(t) PROVE PoolOK'
  <2>1. CASE UNCHANGED slot  BY <1>3, <2>1 DEF AddBegin, slot, controller, held
  <2>2. CASE rebuilding' = TRUE /\ attempt' = attempt + 1
    BY <1>3, <2>2 DEF AddBegin, controller
  <2>3. QED  BY <1>3, <2>1, <2>2 DEF AddBegin
<1>4. ASSUME NEW t \in Threads, Probe(t) PROVE PoolOK'
  BY <1>4 DEF Probe, slot, controller, held
<1>5. ASSUME NEW t \in Threads, SetWorkerGeneration(t) PROVE PoolOK'
  BY <1>5 DEF SetWorkerGeneration, ThreadsOK, Thread, slot, controller, held
<1>6. ASSUME NEW t \in Threads, registerWorkerStarting(t) PROVE PoolOK'
  BY <1>6 DEF registerWorkerStarting, ThreadsOK, Thread, slot, controller, held
<1>7. ASSUME NEW t \in Threads, StartCore(t) PROVE PoolOK'
  <2>1. th[t].w \in Nat \ {0}  BY <1>7 DEF StartCore, At, Locals, HasWorker, ThreadsOK, Thread
  <2>2. open' \in {open, open \cup {th[t].w}} /\ left' \in {left, left \cup {th[t].w}}
    BY <1>7 DEF StartCore
  <2>3. open' \subseteq Nat \ {0} /\ left' \subseteq Nat  BY <2>1, <2>2
  <2>4. worker' \in {0, worker}  BY <1>7 DEF StartCore
  <2>5. QED  BY <1>7, <2>3, <2>4 DEF StartCore, slot, controller
<1>8. ASSUME NEW t \in Threads, Discard(t) PROVE PoolOK'
  BY <1>8 DEF Discard, slot, controller, held
<1>9. ASSUME NEW t \in Threads, endRebuildAttemptIfCurrent(t) PROVE PoolOK'
  BY <1>9 DEF endRebuildAttemptIfCurrent, slot, controller, held
<1>10. ASSUME NEW t \in Threads, WatchdogTimer(t) PROVE PoolOK'
  BY <1>10 DEF WatchdogTimer, ThreadsOK, Thread, slot, controller, held
<1>11. ASSUME NEW t \in Threads, Remove(t) PROVE PoolOK'
  <2>1. CASE worker' = 0 /\ rebuilding' = TRUE  BY <1>11, <2>1 DEF Remove, controller
  <2>2. CASE UNCHANGED <<worker, rebuilding>>  BY <1>11, <2>2 DEF Remove, controller
  <2>3. QED  BY <1>11, <2>1, <2>2 DEF Remove
<1>12. ASSUME NEW t \in Threads, Stop(t) PROVE PoolOK'
  BY <1>12 DEF Stop, slot, controller, held
<1>13. ASSUME NEW t \in Threads, ReleaseSlot(t) PROVE PoolOK'
  BY <1>13 DEF ReleaseSlot, slot, controller, held
<1>14. ASSUME NEW t \in Threads, RebuildBegin(t) PROVE PoolOK'
  BY <1>14 DEF RebuildBegin, slot, controller, held
<1>15. ASSUME NEW t \in Threads, Handover(t) PROVE PoolOK'
  BY <1>15 DEF Handover, slot, controller, held
<1>16. ASSUME NEW t \in Threads, Rescan(t) PROVE PoolOK'
  BY <1>16 DEF Rescan, slot, controller, held
<1>17. ASSUME NEW t \in Threads, RescanUnlock(t) PROVE PoolOK'
  BY <1>17 DEF RescanUnlock, slot, controller, held
<1>18. ASSUME NEW t \in Threads, AllowRebuild(t) PROVE PoolOK'
  BY <1>18 DEF AllowRebuild, slot, controller, held
<1>19. ASSUME NEW t \in Threads, Observe(t) PROVE PoolOK'
  BY <1>19 DEF Observe, slot, controller, held
<1>20. ASSUME NEW t \in Threads, RecoveryBegin(t) PROVE PoolOK'
  BY <1>20 DEF RecoveryBegin, slot, controller, held
<1>21. ASSUME NEW t \in Threads, finishModemRebootRecovery(t) PROVE PoolOK'
  BY <1>21 DEF finishModemRebootRecovery, slot, controller, held
<1>22. ASSUME NEW t \in Threads, FinishTransport(t) PROVE PoolOK'
  BY <1>22 DEF FinishTransport, slot, controller, held
<1>23. CASE WatchdogRelease
  BY <1>23 DEF WatchdogRelease, slot, controller, held
<1>24. CASE WindowPasses
  BY <1>24 DEF WindowPasses, slot, controller, held
<1>25. CASE Shutdown
  BY <1>25 DEF Shutdown, slot, controller, held
<1>26. CASE ShutdownStops
  BY <1>26 DEF ShutdownStops, slot, controller, held
<1>27. ASSUME NEW t \in Threads, Abandon(t) PROVE PoolOK'
  <2>1. open' \subseteq open /\ left' \in {left, left \cup {th[t].w}} /\ th[t].w \in Nat
    BY <1>27 DEF Abandon, ThreadsOK, Thread
  <2>2. QED  BY <1>27, <2>1 DEF Abandon, slot, controller
<1>28. QED
  BY <1>1, <1>2, <1>3, <1>4, <1>5, <1>6, <1>7, <1>8, <1>9, <1>10, <1>11, <1>12, <1>13, <1>14,
     <1>15, <1>16, <1>17, <1>18, <1>19, <1>20, <1>21, <1>22, <1>23, <1>24, <1>25, <1>26, <1>27
  DEF Next, Runs, MayHang, Add, RemoveOrRebuild, Recover

\* The pool at its start.
LEMMA InitIInv == Init => IInv
<1> SUFFICES ASSUME Init PROVE IInv
  OBVIOUS
<1>1. PoolOK
  <2>1. worker \in Nat /\ open \subseteq Nat \ {0} /\ left = {}  BY DEF Init
  <2>2. QED  BY <2>1 DEF Init, PoolOK
<1>2. Idle \in Thread  BY DEF Idle, Thread, Pcs, Rets
<1>3. ThreadsOK  BY <1>2 DEF Init, ThreadsOK
<1>4. \A t \in Threads : th[t].pc = "idle" /\ th[t].ret = "done" /\ ~(th[t].round > 0)
  <2>1. \A t \in Threads : th[t] = Idle  BY DEF Init
  <2>2. Idle.pc = "idle" /\ Idle.ret = "done" /\ Idle.round = 0  BY DEF Idle
  <2>3. ~(Idle.round > 0)  BY <2>2
  <2>4. QED  BY <2>1, <2>2, <2>3
<1>5. Locals  BY <1>4 DEF Locals, StackOK, HasWorker
<1>6. SlotHasOwner /\ ActiveHasRecovery  BY DEF Init, SlotHasOwner, ActiveHasRecovery
<1>7. QED  BY <1>1, <1>3, <1>5, <1>6 DEF IInv

\* A step of a thread, of a watchdog, of the clock or of Shutdown keeps the invariant.
LEMMA NextIInv == IInv /\ [Next]_vars => IInv'
<1> SUFFICES ASSUME IInv, [Next]_vars PROVE IInv'
  OBVIOUS
<1>1. PoolOK'  BY PoolStep DEF IInv
<1>2. ASSUME NEW t \in Threads, ThreadStep(t) PROVE IInv'
  <2>1. Promise(t)  BY <1>2, ThreadKeepsPromise DEF IInv
  <2>2. Locals' /\ SlotHasOwner' /\ ActiveHasRecovery'
    BY <2>1, PromiseIsEnough DEF IInv
  <2>3. QED  BY <1>1, <2>1, <2>2 DEF IInv, Promise
<1>3. CASE WatchdogRelease \/ WindowPasses \/ Shutdown \/ ShutdownStops \/ UNCHANGED vars
  <2>1. th' = th /\ attempt' = attempt /\ active' = active
    BY <1>3 DEF WatchdogRelease, WindowPasses, Shutdown, ShutdownStops, vars, slot, controller, held
  <2>2. rebuilding' => rebuilding
    BY <1>3 DEF WatchdogRelease, WindowPasses, Shutdown, ShutdownStops, vars, slot
  <2>3. ThreadsOK' /\ Locals'
    BY <2>1 DEF IInv, ThreadsOK, Locals, StackOK, HasWorker
  <2>4. SlotHasOwner'  BY <2>1, <2>2 DEF IInv, SlotHasOwner, WillFree, At
  <2>5. ActiveHasRecovery'  BY <2>1 DEF IInv, ActiveHasRecovery, WillFinish, At
  <2>6. QED  BY <1>1, <2>3, <2>4, <2>5 DEF IInv
<1>4. QED  BY <1>2, <1>3 DEF Next, ThreadStep

-----------------------------------------------------------------------------
(* No worker is lost.                                                      *)

\* Shutdown finds nothing that an earlier one has yet to stop, and after it no worker is
\* registered any more.
PendingOnlyAtShutdown ==
    /\ pending # {} => shutting
    /\ shutting => worker = 0

\* A step of a thread loses no worker if it keeps those it is in charge of, or has
\* registered or stopped them, or they are of the two kinds a bootstrap leaves open.
LEMMA ChargeIsEnough ==
    ASSUME NoLeak, NEW t \in Threads, Others(t), UNCHANGED <<pending>>,
           \A w \in open' \ left' : w \in open \ left \/ InCharge(t, w)',
           \A w \in open' \ left' : worker = w => worker' = w \/ InCharge(t, w)',
           \A w \in open' \ left' : InCharge(t, w) => worker' = w \/ InCharge(t, w)'
    PROVE  NoLeak'
<1> SUFFICES ASSUME NEW w \in open' \ left'
             PROVE  worker' = w \/ w \in pending' \/ \E u \in Threads : InCharge(u, w)'
  BY DEF NoLeak
<1>1. ASSUME NEW u \in Threads, u # t, InCharge(u, w) PROVE InCharge(u, w)'
  BY <1>1 DEF Others, InCharge
<1>2. QED  BY <1>1 DEF NoLeak

\* Every step.
LEMMA LeakStep ==
    ASSUME IInv, IInv', NoLeak, PendingOnlyAtShutdown, [Next]_vars
    PROVE  NoLeak' /\ PendingOnlyAtShutdown'
<1>0. PoolOK /\ ThreadsOK /\ Locals  BY DEF IInv
<1>1. ASSUME NEW t \in Threads, ThreadStep(t) PROVE NoLeak' /\ PendingOnlyAtShutdown'
  <2>1. Others(t)  BY <1>0, <1>1, ThreadKeepsPromise DEF Promise
  <2>2. UNCHANGED <<pending, shutting>>
    BY <1>1 DEF ThreadStep, Runs, MayHang, Add, RemoveOrRebuild, Recover, Begin, BeginRecovery,
       BeginExhausted, BeginSuspect, AddBegin, Probe, SetWorkerGeneration, StartModem,
       CheckAttempt, Abandon, registerWorkerStarting, StartCore, Discard, VerifyRegistration,
       endRebuildAttemptIfCurrent, WatchdogTimer, Remove, Settle, Stop, ReleaseSlot,
       RebuildBegin, Handover, Rescan, RescanUnlock, AllowRebuild, ReporterRegistered, Observe,
       RecoveryBegin, Round, RefreshRecovered, finishModemRebootRecovery, FinishTransport
  <2>3. SUFFICES NoLeak'
    <3>1. worker' \in {0, worker} \/ ~shutting
      BY <1>1 DEF ThreadStep, Runs, MayHang, Add, RemoveOrRebuild, Recover, Begin, BeginRecovery,
         BeginExhausted, BeginSuspect, AddBegin, Probe, SetWorkerGeneration, StartModem,
         CheckAttempt, Abandon, registerWorkerStarting, StartCore, Discard, VerifyRegistration,
         endRebuildAttemptIfCurrent, WatchdogTimer, Remove, Settle, Stop, ReleaseSlot,
         RebuildBegin, Handover, Rescan, RescanUnlock, AllowRebuild, ReporterRegistered, Observe,
         RecoveryBegin, Round, RefreshRecovered, finishModemRebootRecovery, FinishTransport
    <3>2. QED  BY <2>2, <3>1 DEF PendingOnlyAtShutdown
  <2>4. CASE \/ Begin(t) \/ BeginRecovery(t) \/ BeginExhausted(t) \/ BeginSuspect(t)
            \/ AddBegin(t) \/ VerifyRegistration(t) \/ endRebuildAttemptIfCurrent(t)
            \/ Settle(t) \/ ReleaseSlot(t) \/ RebuildBegin(t) \/ Handover(t) \/ Rescan(t)
            \/ RescanUnlock(t) \/ AllowRebuild(t) \/ ReporterRegistered(t) \/ Observe(t)
            \/ RecoveryBegin(t) \/ Round(t) \/ RefreshRecovered(t)
            \/ finishModemRebootRecovery(t) \/ FinishTransport(t)
    <3>1. UNCHANGED <<worker, open, left>>
      BY <2>4 DEF held, Begin, BeginRecovery, BeginExhausted, BeginSuspect, AddBegin, VerifyRegistration,
         endRebuildAttemptIfCurrent, Settle, ReleaseSlot, RebuildBegin, Handover, Rescan,
         RescanUnlock, AllowRebuild, ReporterRegistered, Observe, RecoveryBegin, Round,
         RefreshRecovered, finishModemRebootRecovery, FinishTransport
    <3>2. th[t].pc \notin Charge
      BY <2>4 DEF Charge, At, Begin, BeginRecovery, BeginExhausted, BeginSuspect, AddBegin,
         VerifyRegistration, endRebuildAttemptIfCurrent, Settle, ReleaseSlot, RebuildBegin,
         Handover, Rescan, RescanUnlock, AllowRebuild, ReporterRegistered, Observe, RecoveryBegin,
         Round, RefreshRecovered, finishModemRebootRecovery, FinishTransport
    <3>3. QED  BY <2>1, <2>2, <3>1, <3>2, ChargeIsEnough DEF InCharge
  <2>5. CASE SetWorkerGeneration(t) \/ StartModem(t) \/ CheckAttempt(t)
    <3>1. \E place \in {"modem", "current", "register", "abandon", "discard"} : Goto(t, place)
      BY <2>5 DEF SetWorkerGeneration, StartModem, CheckAttempt
    <3>2. th'[t].w = th[t].w /\ th'[t].pc \in Charge
      BY <1>0, <3>1, GotoEffect DEF View, Charge, Pcs, Calling, Bootstrapping
    <3>3. UNCHANGED <<worker, open, left>>
      BY <2>5 DEF held, SetWorkerGeneration, StartModem, CheckAttempt
    <3>4. QED  BY <2>1, <2>2, <3>2, <3>3, ChargeIsEnough DEF InCharge
  <2>6. CASE registerWorkerStarting(t)
    <3>1. CASE Goto(t, "discard") /\ UNCHANGED worker
      <4>1. th'[t].w = th[t].w /\ th'[t].pc = "discard"
        BY <1>0, <3>1, GotoEffect DEF View, Pcs, Calling, Bootstrapping
      <4>2. open' = open /\ left' = left  BY <2>6 DEF registerWorkerStarting, held
      <4>3. QED  BY <2>1, <2>2, <3>1, <4>1, <4>2, ChargeIsEnough DEF InCharge, Charge
    <3>2. CASE worker = 0 /\ worker' = th[t].w
      <4>1. open' = open /\ left' = left /\ 0 \notin open
        BY <2>6, <1>0 DEF registerWorkerStarting, held, PoolOK
      <4>2. QED  BY <2>1, <2>2, <3>2, <4>1, ChargeIsEnough DEF InCharge
    <3>3. QED  BY <2>6, <3>1, <3>2 DEF registerWorkerStarting
  <2>7. CASE StartCore(t)
    <3>1. open' \ left' \subseteq open \ left /\ th[t].pc = "start"
      BY <2>7 DEF StartCore, At, held
    <3>2. CASE UNCHANGED worker
      BY <2>1, <2>2, <3>1, <3>2, ChargeIsEnough DEF InCharge, Charge
    <3>3. CASE worker' = (IF worker = th[t].w THEN 0 ELSE worker) /\ Goto(t, "discard")
      <4>1. th'[t].w = th[t].w /\ th'[t].pc = "discard"
        BY <1>0, <3>3, GotoEffect DEF View, Pcs, Calling, Bootstrapping
      <4>2. QED  BY <2>1, <2>2, <3>1, <3>3, <4>1, ChargeIsEnough DEF InCharge, Charge
    <3>4. QED  BY <2>7, <3>2, <3>3 DEF StartCore
  <2>8. CASE Discard(t) \/ Stop(t)
    <3>1. open' = open \ {th[t].w} /\ UNCHANGED <<worker, left>>  BY <2>8 DEF Discard, Stop
    <3>2. QED  BY <2>1, <2>2, <3>1, ChargeIsEnough DEF InCharge
  <2>9. CASE Remove(t)
    <3>1. th[t].pc = "remove" /\ open' = open /\ left' = left  BY <2>9 DEF Remove, At, held
    <3>2. CASE UNCHANGED worker
      BY <2>1, <2>2, <3>1, <3>2, ChargeIsEnough DEF InCharge, Charge
    <3>3. CASE th' = [th EXCEPT ![t] = [@ EXCEPT !.pc = "stop", !.w = worker, !.own = ~rebuilding]]
      <4>1. th'[t].w = worker /\ th'[t].pc = "stop"  BY <1>0, <3>3 DEF ThreadsOK, Thread
      <4>2. QED  BY <2>1, <2>2, <3>1, <4>1, ChargeIsEnough DEF InCharge, Charge
    <3>4. QED  BY <2>9, <3>2, <3>3 DEF Remove
  <2>10. CASE Probe(t)
    <3>1. th[t].pc = "probe" /\ UNCHANGED <<worker, left>>  BY <2>10 DEF Probe, At
    <3>2. CASE UNCHANGED open
      BY <2>1, <2>2, <3>1, <3>2, ChargeIsEnough DEF InCharge, Charge
    <3>3. CASE /\ open' = open \cup {generation'}
               /\ th' = [th EXCEPT ![t] = [@ EXCEPT !.pc = "generation", !.w = generation']]
      <4>1. th'[t].w = generation' /\ th'[t].pc = "generation"
        BY <1>0, <3>3 DEF ThreadsOK, Thread
      <4>2. QED  BY <2>1, <2>2, <3>1, <3>3, <4>1, ChargeIsEnough DEF InCharge, Charge
    <3>4. QED  BY <2>10, <3>2, <3>3 DEF Probe
  <2>11. CASE WatchdogTimer(t)
    <3>1. th'[t].w = th[t].w /\ th'[t].pc = th[t].pc
      BY <2>11, <1>0 DEF WatchdogTimer, ThreadsOK, Thread
    <3>2. UNCHANGED <<worker, open, left>>  BY <2>11 DEF WatchdogTimer, held
    <3>3. QED  BY <2>1, <2>2, <3>1, <3>2, ChargeIsEnough DEF InCharge
  <2>12. CASE Abandon(t)
    <3>1. open' \ left' = (open \ left) \ {th[t].w} /\ UNCHANGED worker  BY <2>12 DEF Abandon
    <3>2. QED  BY <2>1, <2>2, <3>1, ChargeIsEnough DEF InCharge
  <2>13. QED
    BY <1>1, <2>4, <2>5, <2>6, <2>7, <2>8, <2>9, <2>10, <2>11, <2>12
       DEF ThreadStep, Runs, MayHang, Add, RemoveOrRebuild, Recover
<1>2. CASE WatchdogRelease \/ WindowPasses \/ UNCHANGED vars
  BY <1>2 DEF WatchdogRelease, WindowPasses, vars, held, NoLeak, PendingOnlyAtShutdown, InCharge
<1>3. CASE Shutdown
  <2>1. pending = {}  BY <1>3 DEF Shutdown, PendingOnlyAtShutdown
  <2>2. 0 \notin open  BY <1>0 DEF PoolOK
  <2>3. QED  BY <1>3, <2>1, <2>2 DEF Shutdown, held, NoLeak, PendingOnlyAtShutdown, InCharge
<1>4. CASE ShutdownStops
  BY <1>4 DEF ShutdownStops, NoLeak, PendingOnlyAtShutdown, InCharge
<1>5. QED  BY <1>1, <1>2, <1>3, <1>4 DEF Next, ThreadStep

\* What is lost depends on what the pool is about to do, too.
LInv == IInv /\ NoLeak /\ PendingOnlyAtShutdown

LEMMA LeakInductive == Spec => []LInv
<1>1. Init => LInv
  BY InitIInv DEF Init, NoLeak, PendingOnlyAtShutdown, LInv
<1>2. LInv /\ [Next]_vars => LInv'  BY NextIInv, LeakStep DEF LInv
<1>3. QED  BY <1>1, <1>2, PTL DEF Spec

-----------------------------------------------------------------------------
(* What the pool promises.                                                 *)

\* The invariant holds of every behaviour.
THEOREM Inductive == Spec => []IInv
<1>1. QED  BY InitIInv, NextIInv, PTL DEF Spec

\* Type correctness, for any number of threads, workers and rounds.
THEOREM TypeCorrect == Spec => []TypeOK
<1>1. IInv => TypeOK  BY DEF IInv, PoolOK, ThreadsOK, TypeOK
<1>2. QED  BY <1>1, Inductive, PTL

\* While the slot of a device is taken, a thread is on its way to free it: no return of
\* AddWorkerFromConfig, RemoveWorker or RebuildWorker leaves p.rebuilding set behind.
THEOREM SlotIsOwned == Spec => []SlotHasOwner
<1>1. IInv => SlotHasOwner  BY DEF IInv
<1>2. QED  BY <1>1, Inductive, PTL

\* An active transport event has a recovery that will call Finish, however recoveries,
\* rescans and removals nest.
THEOREM EventIsOwned == Spec => []ActiveHasRecovery
<1>1. IInv => ActiveHasRecovery  BY DEF IInv
<1>2. QED  BY <1>1, Inductive, PTL

\* No worker is lost open, for any backend, any threads and any number of workers, but for
\* the two kinds that a bootstrap leaves open (Abandon, StartCore).
THEOREM NoWorkerLost == Spec => []NoLeak
<1>1. LInv => NoLeak  BY DEF LInv
<1>2. QED  BY <1>1, LeakInductive, PTL

\* A shutdown that has stopped what was pending, with no bootstrap or removal under way,
\* leaves open only those: this is what is true of ShutdownReleasesAll.
THEOREM ShutdownLeavesOnly ==
    Spec => [](shutting /\ pending = {} /\ (\A t \in Threads : th[t].pc \notin Bootstrapping \cup {"stop"})
                 => open \subseteq left)
<1> DEFINE Over == /\ shutting /\ pending = {}
                   /\ \A t \in Threads : th[t].pc \notin Bootstrapping \cup {"stop"}
<1>1. LInv => (Over => open \subseteq left)
  <2> SUFFICES ASSUME LInv, Over PROVE open \subseteq left
    OBVIOUS
  <2>1. worker = 0 /\ 0 \notin open  BY DEF LInv, IInv, PoolOK, PendingOnlyAtShutdown
  <2>2. \A t \in Threads : th[t].pc \notin Charge  BY DEF Charge, Bootstrapping
  <2>3. QED  BY <2>1, <2>2 DEF LInv, NoLeak, InCharge
<1>2. QED  BY <1>1, LeakInductive, PTL
=============================================================================
