--------------------------- MODULE RunManagerRuns ---------------------------
(* What becomes of a run: who waits for it is woken, its agy process ends  *)
(* with the run loop, a kill is reported as what it was, and its session   *)
(* and transcript keep the result after the run manager forgot it.         *)
EXTENDS RunManagerLedger, Functions, FiniteSetTheorems

USE DEF Thread, Goto, Move, Leave, CallSetStatus, TypeInv, TypeOK

-----------------------------------------------------------------------------
(* Waiters are woken.                                                      *)

(* The thread that settles a run has yet to notify its waiters.            *)
Waking(t) == \/ pc[t] \in {"setDone", "notify"}
             \/ InSetStatus(t) /\ ret[t] = "setDone"
Ended(r) == result[r] # None \/ done[r]

(* What a step looks like that ends no run, settles none and wakes nobody. *)
WakeQuiet ==
  /\ UNCHANGED <<result, done>>
  /\ \A c \in Caller : pc'[c] = "waiting" => pc[c] = "waiting" /\ cur'[c] = cur[c]
  /\ \A t \in Thread : Waking(t) => Waking(t)' /\ cur'[t] = cur[t]

LEMMA WakeQuietStep ==
  ASSUME NoLostWakeup, WakeQuiet
  PROVE  NoLostWakeup'
  BY DEF NoLostWakeup, WakeQuiet, Waking, InSetStatus

LEMMA SharedWakeQuiet ==
  ASSUME TypeInv, NEW t \in Thread
  PROVE  /\ SetStatus(t) => WakeQuiet
         /\ LogStatus(t) => WakeQuiet
         /\ Signal(t) => WakeQuiet
         /\ Kill(t) => WakeQuiet
         /\ Evict(t) => WakeQuiet
  <1>1. SetStatus(t) => WakeQuiet
    BY Sets DEF WakeQuiet, Waking, ThreadTypeOK, RunTypeOK, ControlOK,
      InSetStatus, InTerminate, Idle, SetStatus, managerVars, runVars,
      procVars, keyVars
  <1>2. LogStatus(t) => WakeQuiet
    BY Sets DEF WakeQuiet, Waking, ThreadTypeOK, RunTypeOK, ControlOK,
      InSetStatus, InTerminate, Idle, LogStatus, managerVars, runVars,
      procVars, keyVars
  <1>3. Signal(t) => WakeQuiet
    BY Sets DEF WakeQuiet, Waking, ThreadTypeOK, RunTypeOK, ControlOK,
      InSetStatus, InTerminate, Idle, Signal, managerVars, runVars,
      sessionVars, keyVars
  <1>4. Kill(t) => WakeQuiet
    BY Sets DEF WakeQuiet, Waking, ThreadTypeOK, RunTypeOK, ControlOK,
      InSetStatus, InTerminate, Idle, Kill, managerVars, runVars, sessionVars,
      keyVars
  <1>5. Evict(t) => WakeQuiet
    BY Sets DEF WakeQuiet, Waking, ThreadTypeOK, RunTypeOK, ControlOK,
      InSetStatus, InTerminate, Idle, Evict, runVars, sessionVars, procVars,
      keyVars
  <1> QED
    BY <1>1, <1>2, <1>3, <1>4, <1>5

LEMMA CallerWakeQuiet ==
  ASSUME TypeInv, NEW c \in Caller
  PROVE  /\ StartLock(c) => WakeQuiet
         /\ AcquireKey(c) => WakeQuiet
         /\ FindInMemory(c) => WakeQuiet
         /\ FindOnDisk(c) => WakeQuiet
         /\ CreateSession(c) => WakeQuiet
         /\ Insert(c) => WakeQuiet
         /\ Accept(c) => WakeQuiet
         /\ Release(c) => WakeQuiet
         /\ Cancel(c) => WakeQuiet
         /\ CancelFlag(c) => WakeQuiet
         /\ CancelCond(c) => WakeQuiet
         /\ CancelIfStillQueued(c) => WakeQuiet
         /\ CancelEnd(c) => WakeQuiet
         /\ CancelUnmanaged(c) => WakeQuiet
         /\ Await(c) => WakeQuiet
         /\ AwaitTimeout(c) => WakeQuiet
         /\ Shutdown(c) => WakeQuiet
         /\ ShutdownRun(c) => WakeQuiet
         /\ Exit(c) => WakeQuiet
  <1>1. StartLock(c) => WakeQuiet
    BY Sets DEF WakeQuiet, Waking, ThreadTypeOK, RunTypeOK, ControlOK,
      InSetStatus, InTerminate, Idle, StartLock, managerVars, runVars,
      sessionVars, procVars
  <1>2. AcquireKey(c) => WakeQuiet
    BY Sets DEF WakeQuiet, Waking, ThreadTypeOK, RunTypeOK, ControlOK,
      InSetStatus, InTerminate, Idle, AcquireKey, managerVars, runVars,
      sessionVars, procVars
  <1>3. FindInMemory(c) => WakeQuiet
    BY Sets DEF WakeQuiet, Waking, ThreadTypeOK, RunTypeOK, ControlOK,
      InSetStatus, InTerminate, Idle, FindInMemory, managerVars, runVars,
      sessionVars, procVars, keyVars
  <1>4. FindOnDisk(c) => WakeQuiet
    BY Sets DEF WakeQuiet, Waking, ThreadTypeOK, RunTypeOK, ControlOK,
      InSetStatus, InTerminate, Idle, FindOnDisk, AcceptedFor, runVars,
      sessionVars, procVars, keyVars
  <1>5. CreateSession(c) => WakeQuiet
    BY Sets DEF WakeQuiet, Waking, ThreadTypeOK, RunTypeOK, ControlOK,
      InSetStatus, InTerminate, Idle, CreateSession, managerVars, runVars,
      procVars, keyVars
  <1>6. Insert(c) => WakeQuiet
    BY Sets DEF WakeQuiet, Waking, ThreadTypeOK, RunTypeOK, ControlOK,
      InSetStatus, InTerminate, Idle, Insert, sessionVars, procVars, keyVars
  <1>7. Accept(c) => WakeQuiet
    BY Sets DEF WakeQuiet, Waking, ThreadTypeOK, RunTypeOK, ControlOK,
      InSetStatus, InTerminate, Idle, Accept, managerVars, runVars, procVars,
      keyVars
  <1>8. Release(c) => WakeQuiet
    BY Sets DEF WakeQuiet, Waking, ThreadTypeOK, RunTypeOK, ControlOK,
      InSetStatus, InTerminate, Idle, Release, managerVars, runVars,
      sessionVars, procVars
  <1>9. Cancel(c) => WakeQuiet
    BY Sets DEF WakeQuiet, Waking, ThreadTypeOK, RunTypeOK, ControlOK,
      InSetStatus, InTerminate, Idle, Cancel, managerVars, runVars,
      sessionVars, procVars, keyVars
  <1>10. CancelFlag(c) => WakeQuiet
    BY Sets DEF WakeQuiet, Waking, ThreadTypeOK, RunTypeOK, ControlOK,
      InSetStatus, InTerminate, Idle, CancelFlag, managerVars, sessionVars,
      procVars, keyVars
  <1>11. CancelCond(c) => WakeQuiet
    BY Sets DEF WakeQuiet, Waking, ThreadTypeOK, RunTypeOK, ControlOK,
      InSetStatus, InTerminate, Idle, CancelCond, managerVars, sessionVars,
      procVars, keyVars
  <1>12. CancelIfStillQueued(c) => WakeQuiet
    BY Sets DEF WakeQuiet, Waking, ThreadTypeOK, RunTypeOK, ControlOK,
      InSetStatus, InTerminate, Idle, CancelIfStillQueued, managerVars,
      runVars, sessionVars, procVars, keyVars
  <1>13. CancelEnd(c) => WakeQuiet
    BY Sets DEF WakeQuiet, Waking, ThreadTypeOK, RunTypeOK, ControlOK,
      InSetStatus, InTerminate, Idle, CancelEnd, managerVars, sessionVars,
      procVars, keyVars
  <1>14. CancelUnmanaged(c) => WakeQuiet
    BY Sets DEF WakeQuiet, Waking, ThreadTypeOK, RunTypeOK, ControlOK,
      InSetStatus, InTerminate, Idle, CancelUnmanaged, managerVars, runVars,
      sessionVars, procVars, keyVars
  <1>15. Await(c) => WakeQuiet
    BY Sets DEF WakeQuiet, Waking, ThreadTypeOK, RunTypeOK, ControlOK,
      InSetStatus, InTerminate, Idle, Await, managerVars, runVars, sessionVars,
      procVars, keyVars
  <1>16. AwaitTimeout(c) => WakeQuiet
    BY Sets DEF WakeQuiet, Waking, ThreadTypeOK, RunTypeOK, ControlOK,
      InSetStatus, InTerminate, Idle, AwaitTimeout, managerVars, runVars,
      sessionVars, procVars, keyVars
  <1>17. Shutdown(c) => WakeQuiet
    BY Sets DEF WakeQuiet, Waking, ThreadTypeOK, RunTypeOK, ControlOK,
      InSetStatus, InTerminate, Idle, Shutdown, runVars, sessionVars, procVars,
      keyVars
  <1>18. ShutdownRun(c) => WakeQuiet
    BY Sets DEF WakeQuiet, Waking, ThreadTypeOK, RunTypeOK, ControlOK,
      InSetStatus, InTerminate, Idle, ShutdownRun, sessionVars, procVars,
      keyVars
  <1>19. Exit(c) => WakeQuiet
    BY Sets DEF WakeQuiet, Waking, ThreadTypeOK, RunTypeOK, ControlOK,
      InSetStatus, InTerminate, Idle, Exit, managerVars, runVars, sessionVars,
      procVars, keyVars
  <1> QED
    BY <1>1, <1>2, <1>3, <1>4, <1>5, <1>6, <1>7, <1>8, <1>9, <1>10, <1>11,
      <1>12, <1>13, <1>14, <1>15, <1>16, <1>17, <1>18, <1>19

LEMMA WorkerWakeQuiet ==
  ASSUME TypeInv, NEW w \in Worker
  PROVE  /\ WorkerLoop(w) => WakeQuiet
         /\ GetEmpty(w) => WakeQuiet
         /\ GetRun(w) => WakeQuiet
         /\ RunManaged(w) => WakeQuiet
         /\ PreparePrompt(w) => WakeQuiet
         /\ StartAgy(w) => WakeQuiet
         /\ RegisterProcess(w) => WakeQuiet
         /\ PollExited(w) => WakeQuiet
         /\ PollCancelled(w) => WakeQuiet
         /\ PollTimeout(w) => WakeQuiet
         /\ Classify(w) => WakeQuiet
  <1>1. WorkerLoop(w) => WakeQuiet
    BY Sets DEF WakeQuiet, Waking, ThreadTypeOK, RunTypeOK, ControlOK,
      InSetStatus, InTerminate, Idle, WorkerLoop, managerVars, runVars,
      sessionVars, procVars, keyVars
  <1>2. GetEmpty(w) => WakeQuiet
    BY Sets DEF WakeQuiet, Waking, ThreadTypeOK, RunTypeOK, ControlOK,
      InSetStatus, InTerminate, Idle, GetEmpty, managerVars, runVars,
      sessionVars, procVars, keyVars
  <1>3. GetRun(w) => WakeQuiet
    BY Sets DEF WakeQuiet, Waking, ThreadTypeOK, RunTypeOK, ControlOK,
      InSetStatus, InTerminate, Idle, GetRun, runVars, sessionVars, procVars,
      keyVars
  <1>4. RunManaged(w) => WakeQuiet
    BY Sets DEF WakeQuiet, Waking, ThreadTypeOK, RunTypeOK, ControlOK,
      InSetStatus, InTerminate, Idle, RunManaged, managerVars, runVars,
      sessionVars, procVars, keyVars
  <1>5. PreparePrompt(w) => WakeQuiet
    BY Sets DEF WakeQuiet, Waking, ThreadTypeOK, RunTypeOK, ControlOK,
      InSetStatus, InTerminate, Idle, PreparePrompt, managerVars, runVars,
      procVars, keyVars
  <1>6. StartAgy(w) => WakeQuiet
    BY Sets DEF WakeQuiet, Waking, ThreadTypeOK, RunTypeOK, ControlOK,
      InSetStatus, InTerminate, Idle, StartAgy, managerVars, runVars,
      sessionVars, keyVars
  <1>7. RegisterProcess(w) => WakeQuiet
    BY Sets DEF WakeQuiet, Waking, ThreadTypeOK, RunTypeOK, ControlOK,
      InSetStatus, InTerminate, Idle, RegisterProcess, Woken, managerVars,
      sessionVars, procVars, keyVars
  <1>8. PollExited(w) => WakeQuiet
    BY Sets DEF WakeQuiet, Waking, ThreadTypeOK, RunTypeOK, ControlOK,
      InSetStatus, InTerminate, Idle, PollExited, managerVars, runVars,
      sessionVars, procVars, keyVars
  <1>9. PollCancelled(w) => WakeQuiet
    BY Sets DEF WakeQuiet, Waking, ThreadTypeOK, RunTypeOK, ControlOK,
      InSetStatus, InTerminate, Idle, PollCancelled, PollStop, managerVars,
      runVars, sessionVars, keyVars
  <1>10. PollTimeout(w) => WakeQuiet
    BY Sets DEF WakeQuiet, Waking, ThreadTypeOK, RunTypeOK, ControlOK,
      InSetStatus, InTerminate, Idle, PollTimeout, PollStop, managerVars,
      runVars, sessionVars, keyVars
  <1>11. Classify(w) => WakeQuiet
    BY Sets DEF WakeQuiet, Waking, ThreadTypeOK, RunTypeOK, ControlOK,
      InSetStatus, InTerminate, Idle, Classify, Outcomes, Verdict, managerVars,
      runVars, sessionVars, keyVars
  <1> QED
    BY <1>1, <1>2, <1>3, <1>4, <1>5, <1>6, <1>7, <1>8, <1>9, <1>10, <1>11

(* The step that ends a run leaves its thread bound to notify.             *)
WakeSettle(t) ==
  /\ \A r \in Run : r # cur[t] => result'[r] = result[r] /\ done'[r] = done[r]
  /\ Waking(t)' /\ cur'[t] = cur[t]
  /\ \A c \in Caller : pc'[c] = "waiting" => pc[c] = "waiting" /\ cur'[c] = cur[c]
  /\ \A u \in Thread : Waking(u) => Waking(u)' /\ cur'[u] = cur[u]

LEMMA WakeSettleStep ==
  ASSUME TypeInv, NoLostWakeup, NEW t \in Thread, WakeSettle(t)
  PROVE  NoLostWakeup'
  <1>1. SUFFICES ASSUME NEW c \in Caller, pc'[c] = "waiting", Ended(cur[c])'
                 PROVE  \E u \in Thread : cur'[u] = cur[c] /\ Waking(u)'
    BY DEF NoLostWakeup, WakeSettle, Waking, InSetStatus, Ended
  <1>2. pc[c] = "waiting" /\ cur'[c] = cur[c] /\ cur[c] \in Run
    BY <1>1 DEF WakeSettle, ControlOK, Idle
  <1>3. CASE cur[c] = cur[t]
    BY <1>3 DEF WakeSettle
  <1>4. CASE cur[c] # cur[t]
    <2>1. Ended(cur[c])
      BY <1>1, <1>2, <1>4 DEF WakeSettle, Ended
    <2>2. \E u \in Thread : cur[u] = cur[c] /\ Waking(u)
      BY <1>2, <2>1 DEF NoLostWakeup, Waking, InSetStatus, Ended
    <2> QED
      BY <2>2 DEF WakeSettle
  <1> QED
    BY <1>3, <1>4

LEMMA EndersWake ==
  ASSUME TypeInv, NEW t \in Thread
  PROVE  /\ SetDone(t) => WakeSettle(t)
         /\ t \in Caller /\ Enqueue(t) => WakeQuiet \/ WakeSettle(t)
         /\ t \in Worker /\ Return(t) => WakeSettle(t)
         /\ t \in Worker /\ Raise(t) => WakeSettle(t)
  <1>1. SetDone(t) => WakeSettle(t)
    BY DEF SetDone, WakeSettle, Waking, InSetStatus, RunTypeOK, ThreadTypeOK, ControlOK, Idle
  <1>2. t \in Caller /\ Enqueue(t) => WakeQuiet \/ WakeSettle(t)
    BY DEF Enqueue, WakeSettle, WakeQuiet, Waking, InSetStatus, RunTypeOK, ThreadTypeOK
  <1>3. t \in Worker /\ Return(t) => WakeSettle(t)
    BY DEF Return, WakeSettle, Waking, InSetStatus, RunTypeOK, ThreadTypeOK
  <1>4. t \in Worker /\ Raise(t) => WakeSettle(t)
    BY DEF Raise, WakeSettle, Waking, InSetStatus, RunTypeOK, ThreadTypeOK
  <1> QED
    BY <1>1, <1>2, <1>3, <1>4

(* Whoever notifies leaves nobody asleep on its run, and whoever falls     *)
(* asleep found its run unended, under the lock of the condition.          *)
LEMMA NotifyAllWake ==
  ASSUME TypeInv, NoLostWakeup, NEW t \in Thread, NotifyAll(t)
  PROVE  NoLostWakeup'
  <1>1. SUFFICES ASSUME NEW c \in Caller, pc'[c] = "waiting", Ended(cur[c])
                 PROVE  \E u \in Thread : cur[u] = cur[c] /\ Waking(u)'
    BY DEF NotifyAll, NoLostWakeup, Waking, InSetStatus, Ended, runVars
  <1>2. pc[c] = "waiting" /\ cur[c] # cur[t]
    BY <1>1 DEF NotifyAll, Woken, ThreadTypeOK
  <1>3. PICK u \in Thread : cur[u] = cur[c] /\ Waking(u)
    BY <1>1, <1>2 DEF NoLostWakeup, Waking, InSetStatus, Ended
  <1>4. pc'[u] = pc[u] /\ ret'[u] = ret[u]
    BY <1>2, <1>3 DEF NotifyAll, Woken, ThreadTypeOK, Waking, InSetStatus
  <1> QED
    BY <1>3, <1>4 DEF Waking, InSetStatus

LEMMA AwaitCheckWake ==
  ASSUME TypeInv, NoLostWakeup, NEW c \in Caller, AwaitCheck(c)
  PROVE  NoLostWakeup'
  <1>1. /\ UNCHANGED <<result, done>>
        /\ pc'[c] = "waiting" => ~Ended(cur[c]) /\ cur'[c] = cur[c]
        /\ \A u \in Thread : u # c => pc'[u] = pc[u] /\ cur'[u] = cur[u] /\ ret'[u] = ret[u]
        /\ ~Waking(c)
    BY DEF AwaitCheck, Ended, Waking, InSetStatus, runVars, ThreadTypeOK
  <1> QED
    BY <1>1 DEF NoLostWakeup, Waking, InSetStatus, Ended

LEMMA WakeStep ==
  ASSUME TypeInv, NoLostWakeup, [Next]_vars
  PROVE  NoLostWakeup'
  <1>1. ASSUME NEW t \in Thread, Shared(t) PROVE NoLostWakeup'
    BY <1>1, SharedWakeQuiet, WakeQuietStep, EndersWake, WakeSettleStep, NotifyAllWake
      DEF Shared
  <1>2. ASSUME NEW c \in Caller, CallerCalls(c) \/ CallerGoesOn(c) \/ AwaitTimeout(c)
        PROVE NoLostWakeup'
    BY <1>1, <1>2, CallerWakeQuiet, WakeQuietStep, EndersWake, WakeSettleStep,
      AwaitCheckWake DEF CallerCalls, CallerGoesOn
  <1>3. ASSUME NEW w \in Worker, WorkerStep(w) \/ PollTimeout(w) \/ Raise(w)
        PROVE NoLostWakeup'
    BY <1>1, <1>3, WorkerWakeQuiet, WakeQuietStep, EndersWake, WakeSettleStep
      DEF WorkerStep
  <1>4. ASSUME \/ UNCHANGED vars
               \/ \E r \in Run : AgyExits(r)
        PROVE NoLostWakeup'
    <2>1. UNCHANGED <<runVars, threadVars>>
      BY <1>4 DEF AgyExits, vars
    <2> QED
      BY <2>1 DEF NoLostWakeup, runVars, threadVars
  <1> QED
    BY <1>2, <1>3, <1>4 DEF Next

(* However the steps of a settling thread and of threads in await_run      *)
(* interleave, nobody sleeps on an ended run without a notify_all to come. *)
THEOREM NobodyOversleeps == Spec => []NoLostWakeup
  <1>1. Init => NoLostWakeup
    BY Sets DEF Init, NoLostWakeup
  <1> QED
    BY <1>1, TypeInit, TypeStep, WakeStep, PTL DEF Spec

-----------------------------------------------------------------------------
(* The agy process of a run and its worker.                                *)

(* What a step looks like that starts no process and lets go of none.      *)
ProcessQuiet ==
  /\ \A r \in Run : proc'[r] = "alive" => proc[r] = "alive"
  /\ \A r \in Run : process[r] => process'[r]
  /\ \A w \in Worker : /\ Tending(w) => Tending(w)' /\ cur'[w] = cur[w]
                       /\ Looping(w)' => Looping(w) /\ cur'[w] = cur[w]

LEMMA ProcessQuietStep ==
  ASSUME TypeInv, ProcessOK, ProcessQuiet
  PROVE  ProcessOK'
  <1>1. AliveTended'
    BY DEF ProcessOK, AliveTended, ProcessQuiet
  <1>2. Registered'
    BY DEF ProcessOK, Registered, ProcessQuiet, ControlOK, Looping, InSetStatus, Idle
  <1> QED
    BY <1>1, <1>2 DEF ProcessOK

LEMMA SharedProcessQuiet ==
  ASSUME TypeInv, ~HubMayFail, NEW t \in Thread
  PROVE  /\ SetStatus(t) => ProcessQuiet
         /\ LogStatus(t) => ProcessQuiet
         /\ SetDone(t) => ProcessQuiet
         /\ NotifyAll(t) => ProcessQuiet
         /\ Evict(t) => ProcessQuiet
  <1>1. SetStatus(t) => ProcessQuiet
    BY Sets DEF ProcessQuiet, Tending, Looping, ThreadTypeOK, ControlOK,
      InSetStatus, InTerminate, ProcTypeOK, RunTypeOK, Idle, SetStatus,
      managerVars, runVars, procVars, keyVars
  <1>2. LogStatus(t) => ProcessQuiet
    BY Sets DEF ProcessQuiet, Tending, Looping, ThreadTypeOK, ControlOK,
      InSetStatus, InTerminate, ProcTypeOK, RunTypeOK, Idle, LogStatus,
      managerVars, runVars, procVars, keyVars
  <1>3. SetDone(t) => ProcessQuiet
    BY Sets DEF ProcessQuiet, Tending, Looping, ThreadTypeOK, ControlOK,
      InSetStatus, InTerminate, ProcTypeOK, RunTypeOK, Idle, SetDone,
      managerVars, sessionVars, procVars, keyVars
  <1>4. NotifyAll(t) => ProcessQuiet
    BY Sets DEF ProcessQuiet, Tending, Looping, ThreadTypeOK, ControlOK,
      InSetStatus, InTerminate, ProcTypeOK, RunTypeOK, Idle, NotifyAll, Woken,
      managerVars, runVars, sessionVars, procVars, keyVars
  <1>5. Evict(t) => ProcessQuiet
    BY Sets DEF ProcessQuiet, Tending, Looping, ThreadTypeOK, ControlOK,
      InSetStatus, InTerminate, ProcTypeOK, RunTypeOK, Idle, Evict, runVars,
      sessionVars, procVars, keyVars
  <1> QED
    BY <1>1, <1>2, <1>3, <1>4, <1>5

LEMMA CallerProcessQuiet ==
  ASSUME TypeInv, ~HubMayFail, NEW c \in Caller
  PROVE  /\ StartLock(c) => ProcessQuiet
         /\ AcquireKey(c) => ProcessQuiet
         /\ FindInMemory(c) => ProcessQuiet
         /\ FindOnDisk(c) => ProcessQuiet
         /\ CreateSession(c) => ProcessQuiet
         /\ Insert(c) => ProcessQuiet
         /\ Enqueue(c) => ProcessQuiet
         /\ Accept(c) => ProcessQuiet
         /\ Release(c) => ProcessQuiet
         /\ Cancel(c) => ProcessQuiet
         /\ CancelFlag(c) => ProcessQuiet
         /\ CancelCond(c) => ProcessQuiet
         /\ CancelIfStillQueued(c) => ProcessQuiet
         /\ CancelEnd(c) => ProcessQuiet
         /\ CancelUnmanaged(c) => ProcessQuiet
         /\ Await(c) => ProcessQuiet
         /\ AwaitCheck(c) => ProcessQuiet
         /\ AwaitTimeout(c) => ProcessQuiet
         /\ Shutdown(c) => ProcessQuiet
         /\ ShutdownRun(c) => ProcessQuiet
         /\ Exit(c) => ProcessQuiet
  <1>1. StartLock(c) => ProcessQuiet
    BY Sets DEF ProcessQuiet, Tending, Looping, ThreadTypeOK, ControlOK,
      InSetStatus, InTerminate, ProcTypeOK, RunTypeOK, Idle, StartLock,
      managerVars, runVars, sessionVars, procVars
  <1>2. AcquireKey(c) => ProcessQuiet
    BY Sets DEF ProcessQuiet, Tending, Looping, ThreadTypeOK, ControlOK,
      InSetStatus, InTerminate, ProcTypeOK, RunTypeOK, Idle, AcquireKey,
      managerVars, runVars, sessionVars, procVars
  <1>3. FindInMemory(c) => ProcessQuiet
    BY Sets DEF ProcessQuiet, Tending, Looping, ThreadTypeOK, ControlOK,
      InSetStatus, InTerminate, ProcTypeOK, RunTypeOK, Idle, FindInMemory,
      managerVars, runVars, sessionVars, procVars, keyVars
  <1>4. FindOnDisk(c) => ProcessQuiet
    BY Sets DEF ProcessQuiet, Tending, Looping, ThreadTypeOK, ControlOK,
      InSetStatus, InTerminate, ProcTypeOK, RunTypeOK, Idle, FindOnDisk,
      AcceptedFor, runVars, sessionVars, procVars, keyVars
  <1>5. CreateSession(c) => ProcessQuiet
    BY Sets DEF ProcessQuiet, Tending, Looping, ThreadTypeOK, ControlOK,
      InSetStatus, InTerminate, ProcTypeOK, RunTypeOK, Idle, CreateSession,
      managerVars, runVars, procVars, keyVars
  <1>6. Insert(c) => ProcessQuiet
    BY Sets DEF ProcessQuiet, Tending, Looping, ThreadTypeOK, ControlOK,
      InSetStatus, InTerminate, ProcTypeOK, RunTypeOK, Idle, Insert,
      sessionVars, procVars, keyVars
  <1>7. Enqueue(c) => ProcessQuiet
    BY Sets DEF ProcessQuiet, Tending, Looping, ThreadTypeOK, ControlOK,
      InSetStatus, InTerminate, ProcTypeOK, RunTypeOK, Idle, Enqueue,
      sessionVars, procVars, keyVars
  <1>8. Accept(c) => ProcessQuiet
    BY Sets DEF ProcessQuiet, Tending, Looping, ThreadTypeOK, ControlOK,
      InSetStatus, InTerminate, ProcTypeOK, RunTypeOK, Idle, Accept,
      managerVars, runVars, procVars, keyVars
  <1>9. Release(c) => ProcessQuiet
    BY Sets DEF ProcessQuiet, Tending, Looping, ThreadTypeOK, ControlOK,
      InSetStatus, InTerminate, ProcTypeOK, RunTypeOK, Idle, Release,
      managerVars, runVars, sessionVars, procVars
  <1>10. Cancel(c) => ProcessQuiet
    BY Sets DEF ProcessQuiet, Tending, Looping, ThreadTypeOK, ControlOK,
      InSetStatus, InTerminate, ProcTypeOK, RunTypeOK, Idle, Cancel,
      managerVars, runVars, sessionVars, procVars, keyVars
  <1>11. CancelFlag(c) => ProcessQuiet
    BY Sets DEF ProcessQuiet, Tending, Looping, ThreadTypeOK, ControlOK,
      InSetStatus, InTerminate, ProcTypeOK, RunTypeOK, Idle, CancelFlag,
      managerVars, sessionVars, procVars, keyVars
  <1>12. CancelCond(c) => ProcessQuiet
    BY Sets DEF ProcessQuiet, Tending, Looping, ThreadTypeOK, ControlOK,
      InSetStatus, InTerminate, ProcTypeOK, RunTypeOK, Idle, CancelCond,
      managerVars, sessionVars, procVars, keyVars
  <1>13. CancelIfStillQueued(c) => ProcessQuiet
    BY Sets DEF ProcessQuiet, Tending, Looping, ThreadTypeOK, ControlOK,
      InSetStatus, InTerminate, ProcTypeOK, RunTypeOK, Idle,
      CancelIfStillQueued, managerVars, runVars, sessionVars, procVars, keyVars
  <1>14. CancelEnd(c) => ProcessQuiet
    BY Sets DEF ProcessQuiet, Tending, Looping, ThreadTypeOK, ControlOK,
      InSetStatus, InTerminate, ProcTypeOK, RunTypeOK, Idle, CancelEnd,
      managerVars, sessionVars, procVars, keyVars
  <1>15. CancelUnmanaged(c) => ProcessQuiet
    BY Sets DEF ProcessQuiet, Tending, Looping, ThreadTypeOK, ControlOK,
      InSetStatus, InTerminate, ProcTypeOK, RunTypeOK, Idle, CancelUnmanaged,
      managerVars, runVars, sessionVars, procVars, keyVars
  <1>16. Await(c) => ProcessQuiet
    BY Sets DEF ProcessQuiet, Tending, Looping, ThreadTypeOK, ControlOK,
      InSetStatus, InTerminate, ProcTypeOK, RunTypeOK, Idle, Await,
      managerVars, runVars, sessionVars, procVars, keyVars
  <1>17. AwaitCheck(c) => ProcessQuiet
    BY Sets DEF ProcessQuiet, Tending, Looping, ThreadTypeOK, ControlOK,
      InSetStatus, InTerminate, ProcTypeOK, RunTypeOK, Idle, AwaitCheck,
      managerVars, runVars, sessionVars, procVars, keyVars
  <1>18. AwaitTimeout(c) => ProcessQuiet
    BY Sets DEF ProcessQuiet, Tending, Looping, ThreadTypeOK, ControlOK,
      InSetStatus, InTerminate, ProcTypeOK, RunTypeOK, Idle, AwaitTimeout,
      managerVars, runVars, sessionVars, procVars, keyVars
  <1>19. Shutdown(c) => ProcessQuiet
    BY Sets DEF ProcessQuiet, Tending, Looping, ThreadTypeOK, ControlOK,
      InSetStatus, InTerminate, ProcTypeOK, RunTypeOK, Idle, Shutdown, runVars,
      sessionVars, procVars, keyVars
  <1>20. ShutdownRun(c) => ProcessQuiet
    BY Sets DEF ProcessQuiet, Tending, Looping, ThreadTypeOK, ControlOK,
      InSetStatus, InTerminate, ProcTypeOK, RunTypeOK, Idle, ShutdownRun,
      sessionVars, procVars, keyVars
  <1>21. Exit(c) => ProcessQuiet
    BY Sets DEF ProcessQuiet, Tending, Looping, ThreadTypeOK, ControlOK,
      InSetStatus, InTerminate, ProcTypeOK, RunTypeOK, Idle, Exit, managerVars,
      runVars, sessionVars, procVars, keyVars
  <1> QED
    BY <1>1, <1>2, <1>3, <1>4, <1>5, <1>6, <1>7, <1>8, <1>9, <1>10, <1>11,
      <1>12, <1>13, <1>14, <1>15, <1>16, <1>17, <1>18, <1>19, <1>20, <1>21

LEMMA WorkerProcessQuiet ==
  ASSUME TypeInv, ~HubMayFail, NEW w \in Worker
  PROVE  /\ WorkerLoop(w) => ProcessQuiet
         /\ GetEmpty(w) => ProcessQuiet
         /\ GetRun(w) => ProcessQuiet
         /\ RunManaged(w) => ProcessQuiet
         /\ PreparePrompt(w) => ProcessQuiet
         /\ PollCancelled(w) => ProcessQuiet
         /\ PollTimeout(w) => ProcessQuiet
         /\ Classify(w) => ProcessQuiet
         /\ Return(w) => ProcessQuiet
         /\ Raise(w) => ProcessQuiet
  <1>1. WorkerLoop(w) => ProcessQuiet
    BY Sets DEF ProcessQuiet, Tending, Looping, ThreadTypeOK, ControlOK,
      InSetStatus, InTerminate, ProcTypeOK, RunTypeOK, Idle, WorkerLoop,
      managerVars, runVars, sessionVars, procVars, keyVars
  <1>2. GetEmpty(w) => ProcessQuiet
    BY Sets DEF ProcessQuiet, Tending, Looping, ThreadTypeOK, ControlOK,
      InSetStatus, InTerminate, ProcTypeOK, RunTypeOK, Idle, GetEmpty,
      managerVars, runVars, sessionVars, procVars, keyVars
  <1>3. GetRun(w) => ProcessQuiet
    BY Sets DEF ProcessQuiet, Tending, Looping, ThreadTypeOK, ControlOK,
      InSetStatus, InTerminate, ProcTypeOK, RunTypeOK, Idle, GetRun, runVars,
      sessionVars, procVars, keyVars
  <1>4. RunManaged(w) => ProcessQuiet
    BY Sets DEF ProcessQuiet, Tending, Looping, ThreadTypeOK, ControlOK,
      InSetStatus, InTerminate, ProcTypeOK, RunTypeOK, Idle, RunManaged,
      managerVars, runVars, sessionVars, procVars, keyVars
  <1>5. PreparePrompt(w) => ProcessQuiet
    BY Sets DEF ProcessQuiet, Tending, Looping, ThreadTypeOK, ControlOK,
      InSetStatus, InTerminate, ProcTypeOK, RunTypeOK, Idle, PreparePrompt,
      managerVars, runVars, procVars, keyVars
  <1>6. PollCancelled(w) => ProcessQuiet
    BY Sets DEF ProcessQuiet, Tending, Looping, ThreadTypeOK, ControlOK,
      InSetStatus, InTerminate, ProcTypeOK, RunTypeOK, Idle, PollCancelled,
      PollStop, managerVars, runVars, sessionVars, keyVars
  <1>7. PollTimeout(w) => ProcessQuiet
    BY Sets DEF ProcessQuiet, Tending, Looping, ThreadTypeOK, ControlOK,
      InSetStatus, InTerminate, ProcTypeOK, RunTypeOK, Idle, PollTimeout,
      PollStop, managerVars, runVars, sessionVars, keyVars
  <1>8. Classify(w) => ProcessQuiet
    BY Sets DEF ProcessQuiet, Tending, Looping, ThreadTypeOK, ControlOK,
      InSetStatus, InTerminate, ProcTypeOK, RunTypeOK, Idle, Classify,
      Outcomes, Verdict, managerVars, runVars, sessionVars, keyVars
  <1>9. Return(w) => ProcessQuiet
    BY Sets DEF ProcessQuiet, Tending, Looping, ThreadTypeOK, ControlOK,
      InSetStatus, InTerminate, ProcTypeOK, RunTypeOK, Idle, Return,
      managerVars, sessionVars, procVars, keyVars
  <1>10. Raise(w) => ProcessQuiet
    BY Sets DEF ProcessQuiet, Tending, Looping, ThreadTypeOK, ControlOK,
      InSetStatus, InTerminate, ProcTypeOK, RunTypeOK, Idle, Raise,
      managerVars, sessionVars, procVars, keyVars
  <1> QED
    BY <1>1, <1>2, <1>3, <1>4, <1>5, <1>6, <1>7, <1>8, <1>9, <1>10

LEMMA StartedMoves ==
  ASSUME TypeInv, NEW w \in Worker,
         Started(w) \/ pc[w] \in {"check", "send", "spawn", "classify"}
  PROVE  Moves(w) /\ Unsettled(w) /\ cur[w] \in Run
  BY Sets DEF Moves, Unsettled, Started, Tending, Looping, InSetStatus, InTerminate,
    ControlOK, Idle

(* Only the worker of a run that is in its run loop has its process alive. *)
LEMMA AliveIsTended ==
  ASSUME TypeInv, OneMover, ProcessOK, NEW t \in Thread, Moves(t), ~Tending(t),
         cur[t] \in Run
  PROVE  proc[cur[t]] # "alive"
  <1>1. SUFFICES ASSUME NEW w \in Worker, cur[w] = cur[t], Tending(w) PROVE FALSE
    BY DEF ProcessOK, AliveTended
  <1>2. Moves(w)
    BY <1>1, StartedMoves DEF Started
  <1> QED
    BY <1>1, <1>2 DEF OneMover, MoverIsOne

LEMMA SignalProcess ==
  ASSUME TypeInv, ProcessOK, NEW t \in Thread, Signal(t)
  PROVE  ProcessOK'
  <1>1. ASSUME NEW w \in Worker PROVE Tending(w) => Tending(w)' /\ Looping(w)' = Looping(w)
    <2>1. t = w => process[cur[t]]
      BY DEF Signal, ProcessOK, Registered, Looping
    <2> QED
      BY <2>1 DEF Signal, Tending, Looping, InSetStatus, InTerminate, ControlOK, ThreadTypeOK
  <1> QED
    BY <1>1 DEF Signal, ProcessOK, AliveTended, Registered, Looping, Tending, InSetStatus,
      ThreadTypeOK, runVars
  
LEMMA KillProcess ==
  ASSUME TypeInv, OneMover, ProcessOK, NEW t \in Thread, Kill(t)
  PROVE  ProcessOK'
  <1>1. /\ cur[t] \in Run /\ proc'[cur[t]] # "alive"
        /\ \A r \in Run : proc'[r] = "alive" => proc[r] = "alive"
        /\ UNCHANGED <<process, cur, ret>> /\ pc[t] = "kill"
        /\ \A u \in Thread : u # t => pc'[u] = pc[u]
        /\ t \in Worker => pc'[t] = "classify"
    BY DEF Kill, runVars, ProcTypeOK, ThreadTypeOK, ControlOK, Idle, InTerminate
  <1>2. AliveTended'
    BY <1>1 DEF ProcessOK, AliveTended, Tending, Looping, InSetStatus
  <1>3. Registered'
    BY <1>1 DEF ProcessOK, Registered, Looping, InSetStatus
  <1> QED
    BY <1>2, <1>3 DEF ProcessOK

LEMMA StartAgyProcess ==
  ASSUME TypeInv, ProcessOK, NEW w \in Worker, StartAgy(w)
  PROVE  ProcessOK'
  <1>1. /\ cur[w] \in Run /\ pc[w] = "spawn"
        /\ \A r \in Run : proc'[r] = "alive" =>
             proc[r] = "alive" \/ (r = cur[w] /\ pc'[w] = "register")
        /\ UNCHANGED <<process, cur>>
        /\ \A u \in Thread : u # w => pc'[u] = pc[u] /\ ret'[u] = ret[u]
        /\ \/ pc'[w] = "register"
           \/ pc'[w] = "setStatus" /\ ret'[w] = "return"
    BY DEF StartAgy, runVars, ProcTypeOK, ThreadTypeOK, ControlOK, Idle
  <1>2. AliveTended'
    BY <1>1 DEF ProcessOK, AliveTended, Tending, Looping, InSetStatus
  <1>3. Registered'
    BY <1>1 DEF ProcessOK, Registered, Looping, InSetStatus
  <1> QED
    BY <1>2, <1>3 DEF ProcessOK

LEMMA RegisterProcessProcess ==
  ASSUME TypeInv, OneMover, ProcessOK, NEW w \in Worker, RegisterProcess(w)
  PROVE  ProcessOK'
  <1>1. cur[w] \in runs
    <2>1. Moves(w)
      BY StartedMoves DEF RegisterProcess, Started, Tending
    <2> QED
      BY <2>1 DEF OneMover, MoverManages, RegisterProcess
  <1>2. /\ cur[w] \in Run /\ pc[w] = "register"
        /\ process' = [process EXCEPT ![cur[w]] = TRUE]
        /\ pc'[w] = "setStatus" /\ ret'[w] = "poll"
        /\ UNCHANGED <<proc, cur>>
        /\ \A u \in Worker : u # w => pc'[u] = pc[u] /\ ret'[u] = ret[u]
    BY <1>1, Sets DEF RegisterProcess, Woken, procVars, ThreadTypeOK, ControlOK, Idle,
      WorkerLabel, SharedLabel
  <1>3. AliveTended'
    BY <1>2 DEF ProcessOK, AliveTended, Tending, Looping, InSetStatus
  <1>4. Registered'
    BY <1>2 DEF ProcessOK, Registered, Looping, InSetStatus, RunTypeOK
  <1> QED
    BY <1>3, <1>4 DEF ProcessOK

LEMMA PollExitedProcess ==
  ASSUME TypeInv, ProcessOK, NEW w \in Worker, PollExited(w)
  PROVE  ProcessOK'
  <1>1. /\ proc[cur[w]] # "alive" /\ pc'[w] = "classify"
        /\ UNCHANGED <<process, proc, cur, ret>>
        /\ \A u \in Thread : u # w => pc'[u] = pc[u]
    BY DEF PollExited, runVars, procVars, ThreadTypeOK
  <1>2. AliveTended'
    BY <1>1 DEF ProcessOK, AliveTended, Tending, Looping, InSetStatus
  <1>3. Registered'
    BY <1>1 DEF ProcessOK, Registered, Looping, InSetStatus
  <1> QED
    BY <1>2, <1>3 DEF ProcessOK

LEMMA ProcessStep ==
  ASSUME TypeInv, OneMover, ProcessOK, ~HubMayFail, [Next]_vars
  PROVE  ProcessOK'
  <1>1. ASSUME NEW t \in Thread, Shared(t) PROVE ProcessOK'
    BY <1>1, SharedProcessQuiet, ProcessQuietStep, SignalProcess, KillProcess
      DEF Shared
  <1>2. ASSUME NEW c \in Caller, CallerCalls(c) \/ CallerGoesOn(c) \/ AwaitTimeout(c)
        PROVE ProcessOK'
    BY <1>1, <1>2, CallerProcessQuiet, ProcessQuietStep DEF CallerCalls, CallerGoesOn
  <1>3. ASSUME NEW w \in Worker, WorkerStep(w) \/ PollTimeout(w) \/ Raise(w)
        PROVE ProcessOK'
    BY <1>1, <1>3, WorkerProcessQuiet, ProcessQuietStep, StartAgyProcess,
      RegisterProcessProcess, PollExitedProcess DEF WorkerStep
  <1>4. ASSUME \/ UNCHANGED vars
               \/ \E r \in Run : AgyExits(r)
        PROVE ProcessOK'
    <2>1. UNCHANGED <<runVars, threadVars>> /\ \A r \in Run : proc'[r] = "alive" => proc[r] = "alive"
      BY <1>4 DEF AgyExits, vars, procVars, ProcTypeOK
    <2>2. ProcessQuiet
      BY <2>1 DEF ProcessQuiet, Tending, Looping, InSetStatus, runVars, threadVars
    <2> QED
      BY <2>2, ProcessQuietStep
  <1> QED
    BY <1>2, <1>3, <1>4 DEF Next

(* Each process that is alive has a worker of its own.                     *)
LEMMA LimitFollows ==
  ASSUME TypeInv, OneMover, ProcessOK
  PROVE  ConcurrencyLimit
  <1> DEFINE Alive == {r \in Run : proc[r] = "alive"}
             tender == [r \in Alive |-> CHOOSE w \in Worker : cur[w] = r /\ Tending(w)]
  <1>1. \A r \in Alive : tender[r] \in Worker /\ cur[tender[r]] = r /\ Tending(tender[r])
    BY DEF ProcessOK, AliveTended
  <1>2. tender \in Injection(Alive, Worker)
    BY <1>1 DEF Injection, IsInjective
  <1>3. Cardinality(Alive) <= Cardinality(Worker)
    BY <1>2, Sets, FS_Injection
  <1>4. ASSUME NEW r \in Run, result[r] # None, proc[r] = "alive" PROVE FALSE
    <2>1. PICK w \in Worker : cur[w] = r /\ Tending(w)
      BY <1>4 DEF ProcessOK, AliveTended
    <2> QED
      BY <1>4, <2>1, StartedMoves DEF Started, OneMover, ResultIsLast
  <1> QED
    BY <1>3, <1>4 DEF ConcurrencyLimit

-----------------------------------------------------------------------------
(* Kills and what is reported of them.                                     *)

(* What a step looks like that touches no process and no flag of a run.    *)
Asking(c) == InTerminate(c) \/ pc[c] \in {"cancelCond", "cancelQueued"}
KillQuiet ==
  /\ UNCHANGED <<result, process, cancelEvent, procVars>>
  /\ \A w \in Worker :
       /\ Started(w) => Started(w)' /\ cur'[w] = cur[w]
       /\ (Tending(w) \/ pc[w] = "classify")' =>
            (Tending(w) \/ pc[w] = "classify") /\ cur'[w] = cur[w]
       /\ Reporting(w)' => Reporting(w) /\ cur'[w] = cur[w] /\ want'[w] = want[w]
       /\ InTerminate(w)' => InTerminate(w) /\ cur'[w] = cur[w]
  /\ \A t \in Thread : pc'[t] = "kill" => pc[t] = "kill" /\ cur'[t] = cur[t]
  /\ \A c \in Caller : Asking(c)' => Asking(c) /\ cur'[c] = cur[c]

LEMMA KillQuietStep ==
  ASSUME TypeInv, KillOK, KillQuiet
  PROVE  KillOK'
  <1>1. ProcessStarted'
    BY DEF KillOK, ProcessStarted, KillQuiet, procVars
  <1>2. ProcessSeen'
    BY DEF KillOK, ProcessSeen, KillQuiet, procVars
  <1>3. KillAsked'
    BY DEF KillOK, KillAsked, KillQuiet, Asking, procVars
  <1>4. KillMarked'
    BY DEF KillOK, KillMarked, KillQuiet, procVars
  <1>5. KillReported'
    BY DEF KillOK, KillReported, Reported, KillQuiet, procVars
  <1> QED
    BY <1>1, <1>2, <1>3, <1>4, <1>5 DEF KillOK

LEMMA SharedKillQuiet ==
  ASSUME TypeInv, ~HubMayFail, NEW t \in Thread
  PROVE  /\ SetStatus(t) => KillQuiet
         /\ LogStatus(t) => KillQuiet
         /\ SetDone(t) => KillQuiet
         /\ NotifyAll(t) => KillQuiet
         /\ Evict(t) => KillQuiet
  <1>1. SetStatus(t) => KillQuiet
    BY Sets DEF KillQuiet, Asking, Started, Reporting, Tending, Looping,
      ThreadTypeOK, ControlOK, InSetStatus, InTerminate, RunTypeOK, Idle,
      SetStatus, managerVars, runVars, procVars, keyVars
  <1>2. LogStatus(t) => KillQuiet
    BY Sets DEF KillQuiet, Asking, Started, Reporting, Tending, Looping,
      ThreadTypeOK, ControlOK, InSetStatus, InTerminate, RunTypeOK, Idle,
      LogStatus, managerVars, runVars, procVars, keyVars
  <1>3. SetDone(t) => KillQuiet
    BY Sets DEF KillQuiet, Asking, Started, Reporting, Tending, Looping,
      ThreadTypeOK, ControlOK, InSetStatus, InTerminate, RunTypeOK, Idle,
      SetDone, managerVars, sessionVars, procVars, keyVars
  <1>4. NotifyAll(t) => KillQuiet
    BY Sets DEF KillQuiet, Asking, Started, Reporting, Tending, Looping,
      ThreadTypeOK, ControlOK, InSetStatus, InTerminate, RunTypeOK, Idle,
      NotifyAll, Woken, managerVars, runVars, sessionVars, procVars, keyVars
  <1>5. Evict(t) => KillQuiet
    BY Sets DEF KillQuiet, Asking, Started, Reporting, Tending, Looping,
      ThreadTypeOK, ControlOK, InSetStatus, InTerminate, RunTypeOK, Idle,
      Evict, runVars, sessionVars, procVars, keyVars
  <1> QED
    BY <1>1, <1>2, <1>3, <1>4, <1>5

LEMMA CallerKillQuiet ==
  ASSUME TypeInv, ~HubMayFail, NEW c \in Caller
  PROVE  /\ StartLock(c) => KillQuiet
         /\ AcquireKey(c) => KillQuiet
         /\ FindInMemory(c) => KillQuiet
         /\ FindOnDisk(c) => KillQuiet
         /\ CreateSession(c) => KillQuiet
         /\ Insert(c) => KillQuiet
         /\ Accept(c) => KillQuiet
         /\ Release(c) => KillQuiet
         /\ Cancel(c) => KillQuiet
         /\ CancelCond(c) => KillQuiet
         /\ CancelIfStillQueued(c) => KillQuiet
         /\ CancelEnd(c) => KillQuiet
         /\ CancelUnmanaged(c) => KillQuiet
         /\ Await(c) => KillQuiet
         /\ AwaitCheck(c) => KillQuiet
         /\ AwaitTimeout(c) => KillQuiet
         /\ Shutdown(c) => KillQuiet
         /\ Exit(c) => KillQuiet
  <1>1. StartLock(c) => KillQuiet
    BY Sets DEF KillQuiet, Asking, Started, Reporting, Tending, Looping,
      ThreadTypeOK, ControlOK, InSetStatus, InTerminate, RunTypeOK, Idle,
      StartLock, managerVars, runVars, sessionVars, procVars
  <1>2. AcquireKey(c) => KillQuiet
    BY Sets DEF KillQuiet, Asking, Started, Reporting, Tending, Looping,
      ThreadTypeOK, ControlOK, InSetStatus, InTerminate, RunTypeOK, Idle,
      AcquireKey, managerVars, runVars, sessionVars, procVars
  <1>3. FindInMemory(c) => KillQuiet
    BY Sets DEF KillQuiet, Asking, Started, Reporting, Tending, Looping,
      ThreadTypeOK, ControlOK, InSetStatus, InTerminate, RunTypeOK, Idle,
      FindInMemory, managerVars, runVars, sessionVars, procVars, keyVars
  <1>4. FindOnDisk(c) => KillQuiet
    BY Sets DEF KillQuiet, Asking, Started, Reporting, Tending, Looping,
      ThreadTypeOK, ControlOK, InSetStatus, InTerminate, RunTypeOK, Idle,
      FindOnDisk, AcceptedFor, runVars, sessionVars, procVars, keyVars
  <1>5. CreateSession(c) => KillQuiet
    BY Sets DEF KillQuiet, Asking, Started, Reporting, Tending, Looping,
      ThreadTypeOK, ControlOK, InSetStatus, InTerminate, RunTypeOK, Idle,
      CreateSession, managerVars, runVars, procVars, keyVars
  <1>6. Insert(c) => KillQuiet
    BY Sets DEF KillQuiet, Asking, Started, Reporting, Tending, Looping,
      ThreadTypeOK, ControlOK, InSetStatus, InTerminate, RunTypeOK, Idle,
      Insert, sessionVars, procVars, keyVars
  <1>7. Accept(c) => KillQuiet
    BY Sets DEF KillQuiet, Asking, Started, Reporting, Tending, Looping,
      ThreadTypeOK, ControlOK, InSetStatus, InTerminate, RunTypeOK, Idle,
      Accept, managerVars, runVars, procVars, keyVars
  <1>8. Release(c) => KillQuiet
    BY Sets DEF KillQuiet, Asking, Started, Reporting, Tending, Looping,
      ThreadTypeOK, ControlOK, InSetStatus, InTerminate, RunTypeOK, Idle,
      Release, managerVars, runVars, sessionVars, procVars
  <1>9. Cancel(c) => KillQuiet
    BY Sets DEF KillQuiet, Asking, Started, Reporting, Tending, Looping,
      ThreadTypeOK, ControlOK, InSetStatus, InTerminate, RunTypeOK, Idle,
      Cancel, managerVars, runVars, sessionVars, procVars, keyVars
  <1>10. CancelCond(c) => KillQuiet
    BY Sets DEF KillQuiet, Asking, Started, Reporting, Tending, Looping,
      ThreadTypeOK, ControlOK, InSetStatus, InTerminate, RunTypeOK, Idle,
      CancelCond, managerVars, sessionVars, procVars, keyVars
  <1>11. CancelIfStillQueued(c) => KillQuiet
    BY Sets DEF KillQuiet, Asking, Started, Reporting, Tending, Looping,
      ThreadTypeOK, ControlOK, InSetStatus, InTerminate, RunTypeOK, Idle,
      CancelIfStillQueued, managerVars, runVars, sessionVars, procVars, keyVars
  <1>12. CancelEnd(c) => KillQuiet
    BY Sets DEF KillQuiet, Asking, Started, Reporting, Tending, Looping,
      ThreadTypeOK, ControlOK, InSetStatus, InTerminate, RunTypeOK, Idle,
      CancelEnd, managerVars, sessionVars, procVars, keyVars
  <1>13. CancelUnmanaged(c) => KillQuiet
    BY Sets DEF KillQuiet, Asking, Started, Reporting, Tending, Looping,
      ThreadTypeOK, ControlOK, InSetStatus, InTerminate, RunTypeOK, Idle,
      CancelUnmanaged, managerVars, runVars, sessionVars, procVars, keyVars
  <1>14. Await(c) => KillQuiet
    BY Sets DEF KillQuiet, Asking, Started, Reporting, Tending, Looping,
      ThreadTypeOK, ControlOK, InSetStatus, InTerminate, RunTypeOK, Idle,
      Await, managerVars, runVars, sessionVars, procVars, keyVars
  <1>15. AwaitCheck(c) => KillQuiet
    BY Sets DEF KillQuiet, Asking, Started, Reporting, Tending, Looping,
      ThreadTypeOK, ControlOK, InSetStatus, InTerminate, RunTypeOK, Idle,
      AwaitCheck, managerVars, runVars, sessionVars, procVars, keyVars
  <1>16. AwaitTimeout(c) => KillQuiet
    BY Sets DEF KillQuiet, Asking, Started, Reporting, Tending, Looping,
      ThreadTypeOK, ControlOK, InSetStatus, InTerminate, RunTypeOK, Idle,
      AwaitTimeout, managerVars, runVars, sessionVars, procVars, keyVars
  <1>17. Shutdown(c) => KillQuiet
    BY Sets DEF KillQuiet, Asking, Started, Reporting, Tending, Looping,
      ThreadTypeOK, ControlOK, InSetStatus, InTerminate, RunTypeOK, Idle,
      Shutdown, runVars, sessionVars, procVars, keyVars
  <1>18. Exit(c) => KillQuiet
    BY Sets DEF KillQuiet, Asking, Started, Reporting, Tending, Looping,
      ThreadTypeOK, ControlOK, InSetStatus, InTerminate, RunTypeOK, Idle, Exit,
      managerVars, runVars, sessionVars, procVars, keyVars
  <1> QED
    BY <1>1, <1>2, <1>3, <1>4, <1>5, <1>6, <1>7, <1>8, <1>9, <1>10, <1>11,
      <1>12, <1>13, <1>14, <1>15, <1>16, <1>17, <1>18

LEMMA WorkerKillQuiet ==
  ASSUME TypeInv, ~HubMayFail, NEW w \in Worker
  PROVE  /\ WorkerLoop(w) => KillQuiet
         /\ GetEmpty(w) => KillQuiet
         /\ GetRun(w) => KillQuiet
         /\ PreparePrompt(w) => KillQuiet
         /\ PollExited(w) => KillQuiet
         /\ Raise(w) => KillQuiet
  <1>1. WorkerLoop(w) => KillQuiet
    BY Sets DEF KillQuiet, Asking, Started, Reporting, Tending, Looping,
      ThreadTypeOK, ControlOK, InSetStatus, InTerminate, RunTypeOK, Idle,
      WorkerLoop, managerVars, runVars, sessionVars, procVars, keyVars
  <1>2. GetEmpty(w) => KillQuiet
    BY Sets DEF KillQuiet, Asking, Started, Reporting, Tending, Looping,
      ThreadTypeOK, ControlOK, InSetStatus, InTerminate, RunTypeOK, Idle,
      GetEmpty, managerVars, runVars, sessionVars, procVars, keyVars
  <1>3. GetRun(w) => KillQuiet
    BY Sets DEF KillQuiet, Asking, Started, Reporting, Tending, Looping,
      ThreadTypeOK, ControlOK, InSetStatus, InTerminate, RunTypeOK, Idle,
      GetRun, runVars, sessionVars, procVars, keyVars
  <1>4. PreparePrompt(w) => KillQuiet
    BY Sets DEF KillQuiet, Asking, Started, Reporting, Tending, Looping,
      ThreadTypeOK, ControlOK, InSetStatus, InTerminate, RunTypeOK, Idle,
      PreparePrompt, managerVars, runVars, procVars, keyVars
  <1>5. PollExited(w) => KillQuiet
    BY Sets DEF KillQuiet, Asking, Started, Reporting, Tending, Looping,
      ThreadTypeOK, ControlOK, InSetStatus, InTerminate, RunTypeOK, Idle,
      PollExited, managerVars, runVars, sessionVars, procVars, keyVars
  <1>6. Raise(w) => KillQuiet
    BY Sets DEF KillQuiet, Asking, Started, Reporting, Tending, Looping,
      ThreadTypeOK, ControlOK, InSetStatus, InTerminate, RunTypeOK, Idle,
      Raise, managerVars, sessionVars, procVars, keyVars
  <1> QED
    BY <1>1, <1>2, <1>3, <1>4, <1>5, <1>6

(* A run whose agy was not started yet has no process, and nobody killed it. *)
LEMMA FreshProcess ==
  ASSUME TypeInv, OneMover, KillOK, NEW t \in Thread, Unsettled(t), cur[t] \in Run,
         t \in Worker => ~Started(t)
  PROVE  /\ proc[cur[t]] = "none" /\ killedBy[cur[t]] = None /\ ~process[cur[t]]
         /\ result[cur[t]] = None
  <1>1. result[cur[t]] = None
    BY DEF OneMover, ResultIsLast
  <1>2. ASSUME NEW w \in Worker, cur[w] = cur[t], Started(w) PROVE FALSE
    <2>1. Moves(w) /\ Moves(t)
      BY <1>2, StartedMoves DEF Moves
    <2>2. w = t
      BY <1>2, <2>1 DEF OneMover, MoverIsOne
    <2> QED
      BY <1>2, <2>2
  <1>3. proc[cur[t]] = "none" /\ ~process[cur[t]]
    BY <1>1, <1>2 DEF KillOK, ProcessStarted
  <1> QED
    BY <1>1, <1>3 DEF KillOK, KillMarked

(* The worker of a run is the only one to report about it.                 *)
LEMMA OneReporter ==
  ASSUME TypeInv, OneMover, NEW w \in Worker, Started(w), NEW u \in Worker, Started(u),
         cur[u] = cur[w]
  PROVE  u = w
  BY StartedMoves DEF OneMover, MoverIsOne

LEMMA SignalKill ==
  ASSUME TypeInv, KillOK, NEW t \in Thread, Signal(t)
  PROVE  KillOK'
  <1> DEFINE r == cur[t]
  <1>1. /\ r \in Run /\ pc[t] = "signal"
        /\ UNCHANGED <<result, process, cancelEvent, proc, verdict, killedBy, cur, want, ret>>
        /\ \A u \in Thread : u # t => pc'[u] = pc[u]
        /\ \/ /\ pc'[t] = "kill" /\ process[r]
              /\ proc[r] = "alive" => termReq'[r]
           \/ pc'[t] = ret[t]
        /\ \A s \in Run : termReq[s] => termReq'[s]
    BY DEF Signal, runVars, ThreadTypeOK, ProcTypeOK, ControlOK, Idle
  <1>2. /\ t \in Caller => ret[t] \in {"cancelCond", "sweep"}
        /\ t \in Worker => ret[t] = "classify"
    BY <1>1 DEF ControlOK, InTerminate
  <1>3. ProcessStarted'
    <2>1. \A w \in Worker : Started(w) => Started(w)'
      BY <1>1, <1>2 DEF Started, Tending, Looping, InSetStatus
    <2> QED
      BY <1>1, <2>1 DEF KillOK, ProcessStarted
  <1>4. ProcessSeen'
    BY <1>1, <1>2 DEF KillOK, ProcessSeen, Tending, Looping, InSetStatus
  <1>5. KillAsked'
    BY <1>1, <1>2, Sets DEF KillOK, KillAsked, InTerminate, ControlOK, Idle
  <1>6. KillMarked'
    BY <1>1 DEF KillOK, KillMarked
  <1>7. KillReported'
    <2>1. \A w \in Worker : Reporting(w)' => Reporting(w)
      BY <1>1, <1>2 DEF Reporting, InSetStatus
    <2> QED
      BY <1>1, <2>1 DEF KillOK, KillReported, Reported
  <1> QED
    BY <1>3, <1>4, <1>5, <1>6, <1>7 DEF KillOK

LEMMA KillKill ==
  ASSUME TypeInv, KillOK, NEW t \in Thread, Kill(t)
  PROVE  KillOK'
  <1> DEFINE r == cur[t]
  <1>1. /\ r \in Run /\ pc[t] = "kill" /\ pc'[t] = ret[t]
        /\ UNCHANGED <<result, process, cancelEvent, termReq, verdict, cur, want, ret>>
        /\ \A u \in Thread : u # t => pc'[u] = pc[u]
    BY DEF Kill, runVars, ThreadTypeOK, ControlOK, Idle
  <1>2. /\ t \in Caller => ret[t] \in {"cancelCond", "sweep"}
        /\ t \in Worker => ret[t] = "classify"
    BY <1>1 DEF ControlOK, InTerminate
  <1>3. \/ proc[r] # "alive" /\ UNCHANGED <<proc, killedBy>>
        \/ /\ proc[r] = "alive" /\ proc'[r] \in {"ok", "failed"}
           /\ killedBy'[r] = IF t \in Worker THEN "worker" ELSE "caller"
    BY <1>1 DEF Kill, ProcTypeOK
  <1>4. \A s \in Run : s # r => proc'[s] = proc[s] /\ killedBy'[s] = killedBy[s]
    BY <1>1 DEF Kill, ProcTypeOK
  <1>5. ProcessStarted'
    <2>1. \A w \in Worker : Started(w) => Started(w)'
      BY <1>1, <1>2 DEF Started, Tending, Looping, InSetStatus
    <2> QED
      BY <1>1, <1>3, <1>4, <2>1 DEF KillOK, ProcessStarted
  <1>6. ProcessSeen'
    BY <1>1, <1>2, <1>3, <1>4 DEF KillOK, ProcessSeen, Tending, Looping, InSetStatus,
      InTerminate, ControlOK, Idle
  <1>7. KillAsked'
    BY <1>1, <1>2, <1>3, <1>4, Sets DEF KillOK, KillAsked, InTerminate, ControlOK, Idle
  <1>8. KillMarked'
    <2>1. /\ proc[r] = "alive" => termReq[r]
          /\ t \in Caller => cancelEvent[r]
          /\ t \in Worker => verdict[r] # "none"
      BY <1>1 DEF KillOK, KillAsked, InTerminate
    <2> QED
      BY <1>1, <1>3, <1>4, <2>1 DEF KillOK, KillMarked
  <1>9. KillReported'
    <2>1. \A w \in Worker : Reporting(w)' => Reporting(w) /\ cur[w] \in Run
      BY <1>1, <1>2 DEF Reporting, InSetStatus, ControlOK, Idle
    <2>2. \A s \in Run : proc[s] # "alive" =>
            proc'[s] = proc[s] /\ killedBy'[s] = killedBy[s]
      BY <1>3, <1>4
    <2> QED
      BY <1>1, <2>1, <2>2 DEF KillOK, KillReported, Reported
  <1> QED
    BY <1>5, <1>6, <1>7, <1>8, <1>9 DEF KillOK

LEMMA EnqueueKill ==
  ASSUME TypeInv, OneMover, KillOK, NEW c \in Caller, Enqueue(c)
  PROVE  KillOK'
  <1> DEFINE r == cur[c]
  <1>1. /\ r \in Run /\ Unsettled(c) /\ c \notin Worker
        /\ UNCHANGED <<process, cancelEvent, proc, termReq, verdict, killedBy, cur>>
        /\ \A w \in Worker : pc'[w] = pc[w] /\ ret'[w] = ret[w] /\ want'[w] = want[w]
        /\ \A t \in Thread : pc'[t] = "kill" => pc[t] = "kill"
        /\ \A d \in Caller : InTerminate(d)' \/ pc'[d] \in {"cancelCond", "cancelQueued"}
             => pc'[d] = pc[d]
        /\ UNCHANGED result \/ result' = [result EXCEPT ![r] = "rejected"]
    BY Sets DEF Enqueue, Unsettled, InTerminate, procVars, ThreadTypeOK, ControlOK, Idle
  <1>2. proc[r] = "none" /\ killedBy[r] = None
    BY <1>1, FreshProcess
  <1>3. ProcessStarted' /\ ProcessSeen'
    <2>1. \A w \in Worker : Started(w)' = Started(w) /\ Tending(w)' = Tending(w)
      BY <1>1 DEF Started, Tending, Looping, InSetStatus
    <2>2. \A s \in Run : result'[s] = None => result[s] = None
      BY <1>1, <1>2, Sets DEF RunTypeOK, Outcome
    <2> QED
      BY <1>1, <2>1, <2>2 DEF KillOK, ProcessStarted, ProcessSeen
  <1>4. KillAsked'
    BY <1>1 DEF KillOK, KillAsked, InTerminate
  <1>5. KillMarked'
    BY <1>1 DEF KillOK, KillMarked
  <1>6. KillReported'
    <2>1. \A w \in Worker : Reporting(w)' => Reporting(w)
      BY <1>1 DEF Reporting, InSetStatus
    <2>2. \A s \in Run : result'[s] = result[s] \/ (s = r /\ result'[s] = "rejected")
      BY <1>1 DEF RunTypeOK
    <2> QED
      BY <1>1, <1>2, <2>1, <2>2, NoneIsNone DEF KillOK, KillReported, Reported
  <1> QED
    BY <1>3, <1>4, <1>5, <1>6 DEF KillOK

(* cancel and shutdown set the event of a run before they terminate it.    *)
LEMMA EventKill ==
  ASSUME TypeInv, KillOK, NEW c \in Caller, NEW r \in Run,
         UNCHANGED <<result, process, procVars>>,
         cancelEvent' = [cancelEvent EXCEPT ![r] = TRUE],
         pc'[c] = "signal", cur'[c] = r,
         \A t \in Thread : t # c => /\ pc'[t] = pc[t] /\ cur'[t] = cur[t]
                                    /\ ret'[t] = ret[t] /\ want'[t] = want[t]
  PROVE  KillOK'
  <1>1. /\ UNCHANGED <<proc, termReq, verdict, killedBy>>
        /\ c \notin Worker
        /\ \A s \in Run : cancelEvent[s] => cancelEvent'[s]
        /\ cancelEvent'[r]
    BY Sets DEF procVars, RunTypeOK
  <1>2. ProcessStarted' /\ ProcessSeen'
    BY <1>1 DEF KillOK, ProcessStarted, ProcessSeen, Started, Tending, Looping, InSetStatus,
      InTerminate
  <1>3. KillAsked'
    BY <1>1 DEF KillOK, KillAsked, InTerminate, ControlOK, Idle
  <1>4. KillMarked'
    BY <1>1 DEF KillOK, KillMarked
  <1>5. KillReported'
    BY <1>1 DEF KillOK, KillReported, Reported, Reporting, InSetStatus
  <1> QED
    BY <1>2, <1>3, <1>4, <1>5 DEF KillOK

LEMMA CancelFlagKill ==
  ASSUME TypeInv, KillOK, NEW c \in Caller, CancelFlag(c)
  PROVE  KillOK'
  <1>1. CASE result[cur[c]] # None
    <2>1. KillQuiet
      BY <1>1, Sets DEF CancelFlag, KillQuiet, Asking, Started, Reporting, Tending, Looping,
        InSetStatus, InTerminate, sessionVars, procVars, ThreadTypeOK
    <2> QED
      BY <2>1, KillQuietStep
  <1>2. CASE result[cur[c]] = None
    BY <1>2, EventKill DEF CancelFlag, ThreadTypeOK, ControlOK, Idle
  <1> QED
    BY <1>1, <1>2

LEMMA ShutdownRunKill ==
  ASSUME TypeInv, KillOK, NEW c \in Caller, ShutdownRun(c)
  PROVE  KillOK'
  <1>1. CASE pc' = [pc EXCEPT ![c] = "join"] /\ UNCHANGED <<cancelEvent, cur, ret>>
    <2>1. KillQuiet
      BY <1>1, Sets DEF ShutdownRun, KillQuiet, Asking, Started, Reporting, Tending, Looping,
        InSetStatus, InTerminate, sessionVars, procVars, ThreadTypeOK
    <2> QED
      BY <2>1, KillQuietStep
  <1>2. ASSUME NEW r \in sweep, cancelEvent' = [cancelEvent EXCEPT ![r] = TRUE],
               pc' = [pc EXCEPT ![c] = "signal"], cur' = [cur EXCEPT ![c] = r],
               ret' = [ret EXCEPT ![c] = "sweep"]
        PROVE  KillOK'
    BY <1>2, EventKill DEF ShutdownRun, ManagerTypeOK, ThreadTypeOK
  <1> QED
    BY <1>1, <1>2 DEF ShutdownRun

LEMMA RunManagedKill ==
  ASSUME TypeInv, OneMover, KillOK, NEW w \in Worker, RunManaged(w)
  PROVE  KillOK'
  <1>1. /\ pc[w] = "check" /\ cur[w] \in Run
        /\ UNCHANGED <<result, process, cancelEvent, proc, termReq, verdict, killedBy, cur>>
        /\ \A t \in Thread : t # w =>
             pc'[t] = pc[t] /\ ret'[t] = ret[t] /\ want'[t] = want[t]
        /\ \/ pc'[w] = "send"
           \/ pc'[w] = "setStatus" /\ want'[w] = "cancelled" /\ ret'[w] = "return"
    BY DEF RunManaged, runVars, procVars, ThreadTypeOK, ControlOK, Idle
  <1>2. proc[cur[w]] = "none" /\ killedBy[cur[w]] = None
    BY <1>1, FreshProcess, StartedMoves, Sets DEF Started, Tending, Looping, InSetStatus
  <1>3. ProcessStarted' /\ ProcessSeen'
    BY <1>1 DEF KillOK, ProcessStarted, ProcessSeen, Started, Tending, Looping, InSetStatus
  <1>4. KillAsked' /\ KillMarked'
    BY <1>1, Sets DEF KillOK, KillAsked, KillMarked, InTerminate
  <1>5. KillReported'
    BY <1>1, <1>2, NoneIsNone DEF KillOK, KillReported, Reported, Reporting, InSetStatus
  <1> QED
    BY <1>3, <1>4, <1>5 DEF KillOK

LEMMA StartAgyKill ==
  ASSUME TypeInv, OneMover, KillOK, NEW w \in Worker, StartAgy(w)
  PROVE  KillOK'
  <1> DEFINE r == cur[w]
  <1>1. /\ pc[w] = "spawn" /\ r \in Run
        /\ UNCHANGED <<result, process, cancelEvent, termReq, verdict, killedBy, cur>>
        /\ \A t \in Thread : t # w =>
             pc'[t] = pc[t] /\ ret'[t] = ret[t] /\ want'[t] = want[t]
        /\ \/ /\ pc'[w] = "setStatus" /\ want'[w] = "error" /\ ret'[w] = "return"
              /\ UNCHANGED proc
           \/ pc'[w] = "register" /\ proc' = [proc EXCEPT ![r] = "alive"]
    BY DEF StartAgy, runVars, ThreadTypeOK, ControlOK, Idle
  <1>2. ~Started(w)
    BY <1>1 DEF Started, Tending, Looping, InSetStatus
  <1>3. /\ proc[r] = "none" /\ killedBy[r] = None /\ ~process[r] /\ result[r] = None
    BY <1>1, <1>2, FreshProcess, StartedMoves
  <1>4. /\ \A s \in Run : s # r => proc'[s] = proc[s]
        /\ pc'[w] = "register" => proc'[r] = "alive"
        /\ pc'[w] # "register" => proc'[r] = "none"
    BY <1>1, <1>3 DEF ProcTypeOK
  <1>5. \A u \in Worker : u # w /\ Started(u) => cur[u] \in Run \ {r}
    <2>1. \A u \in Worker : Started(u) => Moves(u) /\ cur[u] \in Run
      BY StartedMoves
    <2>2. Moves(w)
      BY <1>1, StartedMoves
    <2> QED
      BY <2>1, <2>2 DEF OneMover, MoverIsOne
  <1>6. \A u \in Worker : u # w => Started(u)' = Started(u) /\ Reporting(u)' = Reporting(u)
    BY <1>1 DEF Started, Tending, Looping, InSetStatus, Reporting
  <1>7. ProcessStarted'
    BY <1>1, <1>2, <1>3, <1>4, <1>6 DEF KillOK, ProcessStarted, Started, Tending
  <1>8. ProcessSeen'
    <2>1. \A u \in Worker : Tending(u) \/ pc[u] = "classify" => cur[u] \in Run
      BY StartedMoves DEF Started
    <2>2. \A u \in Worker : u # w => Tending(u)' = Tending(u)
      BY <1>1 DEF Tending, Looping, InSetStatus
    <2>3. Tending(w)' \/ pc'[w] = "classify" => pc'[w] = "register"
      BY <1>1 DEF Tending, Looping, InSetStatus
    <2> QED
      BY <1>1, <1>4, <2>1, <2>2, <2>3 DEF KillOK, ProcessSeen
  <1>9. KillAsked'
    BY <1>1, <1>3, <1>4, Sets DEF KillOK, KillAsked, InTerminate, ControlOK, Idle
  <1>10. KillMarked'
    BY <1>1, <1>3, <1>4 DEF KillOK, KillMarked
  <1>11. KillReported'
    <2>1. \A u \in Worker : Reporting(u) => Started(u)
      BY DEF Reporting, Started
    <2>2. Reporting(w)' => pc'[w] = "setStatus"
      BY <1>1 DEF Reporting, InSetStatus
    <2> QED
      BY <1>1, <1>3, <1>4, <1>5, <1>6, <2>1, <2>2, NoneIsNone
        DEF KillOK, KillReported, Reported
  <1> QED
    BY <1>7, <1>8, <1>9, <1>10, <1>11 DEF KillOK

LEMMA RegisterProcessKill ==
  ASSUME TypeInv, KillOK, NEW w \in Worker, RegisterProcess(w)
  PROVE  KillOK'
  <1> DEFINE r == cur[w]
  <1>1. /\ pc[w] = "register" /\ r \in Run
        /\ UNCHANGED <<result, cancelEvent, proc, termReq, verdict, killedBy, cur>>
        /\ \A s \in Run : /\ process[s] => process'[s]
                          /\ process'[s] => process[s] \/ s = r
        /\ pc'[w] = "setStatus" /\ ret'[w] = "poll"
        /\ \A t \in Thread : t # w =>
             /\ pc'[t] = pc[t] \/ (pc[t] = "waiting" /\ pc'[t] = "await")
             /\ ret'[t] = ret[t] /\ want'[t] = want[t]
    BY Sets DEF RegisterProcess, Woken, procVars, ThreadTypeOK, RunTypeOK, ControlOK, Idle
  <1>2. proc[r] # "none"
    BY <1>1 DEF KillOK, ProcessSeen, Tending
  <1>3. \A u \in Worker : u # w => pc'[u] = pc[u]
    BY <1>1, Sets DEF ControlOK, WorkerLabel, SharedLabel
  <1>4. ProcessStarted'
    BY <1>1, <1>2, <1>3 DEF KillOK, ProcessStarted, Started, Tending, Looping, InSetStatus
  <1>5. ProcessSeen'
    BY <1>1, <1>2, <1>3 DEF KillOK, ProcessSeen, Tending, Looping, InSetStatus
  <1>6. KillAsked'
    BY <1>1, Sets DEF KillOK, KillAsked, InTerminate, ControlOK, Idle
  <1>7. KillMarked'
    BY <1>1 DEF KillOK, KillMarked
  <1>8. KillReported'
    BY <1>1, <1>3 DEF KillOK, KillReported, Reported, Reporting, InSetStatus
  <1> QED
    BY <1>4, <1>5, <1>6, <1>7, <1>8 DEF KillOK

(* The verdict on a run changes only before anything is reported about it. *)
LEMMA VerdictReported ==
  ASSUME TypeInv, OneMover, KillOK, NEW w \in Worker, Started(w), ~Reporting(w),
         UNCHANGED <<result, proc, killedBy, cur>>,
         \A s \in Run : s # cur[w] => verdict'[s] = verdict[s],
         \A u \in Worker : u # w =>
           pc'[u] = pc[u] /\ ret'[u] = ret[u] /\ want'[u] = want[u],
         Reporting(w)' => Reported(cur[w], want[w])'
  PROVE  KillReported'
  <1>1. result[cur[w]] = None /\ cur[w] \in Run
    BY StartedMoves DEF OneMover, ResultIsLast
  <1>2. ASSUME NEW u \in Worker, u # w, Reporting(u)'
        PROVE  Reporting(u) /\ cur[u] \in Run /\ cur[u] # cur[w]
    <2>1. Reporting(u) /\ Started(u)
      BY <1>2 DEF Reporting, Started, InSetStatus
    <2> QED
      BY <1>2, <2>1, OneReporter, StartedMoves
  <1>3. ASSUME NEW u \in Worker, Reporting(u)' PROVE Reported(cur[u], want[u])'
    <2>1. CASE u = w
      BY <1>3, <2>1
    <2>2. CASE u # w
      BY <1>2, <1>3, <2>2 DEF KillOK, KillReported, Reported
    <2> QED
      BY <2>1, <2>2
  <1>4. ASSUME NEW s \in Run, result'[s] # None PROVE Reported(s, result[s])'
    <2>1. s # cur[w]
      BY <1>1, <1>4
    <2> QED
      BY <1>4, <2>1 DEF KillOK, KillReported, Reported
  <1> QED
    BY <1>3, <1>4 DEF KillReported

LEMMA PollStopKill ==
  ASSUME TypeInv, OneMover, KillOK, NEW w \in Worker, NEW v \in {"cancelled", "timed_out"},
         PollStop(w, v)
  PROVE  KillOK'
  <1> DEFINE r == cur[w]
  <1>1. /\ pc[w] = "poll" /\ r \in Run
        /\ UNCHANGED <<result, process, cancelEvent, proc, termReq, killedBy, cur, want>>
        /\ \A s \in Run : s # r => verdict'[s] = verdict[s]
        /\ verdict'[r] # "none"
        /\ pc'[w] = "signal" /\ ret'[w] = "classify"
        /\ \A t \in Thread : t # w => pc'[t] = pc[t] /\ ret'[t] = ret[t]
    BY DEF PollStop, runVars, ThreadTypeOK, ProcTypeOK, ControlOK, Idle
  <1>2. ProcessStarted' /\ ProcessSeen'
    BY <1>1 DEF KillOK, ProcessStarted, ProcessSeen, Started, Tending, Looping, InSetStatus
  <1>3. KillAsked'
    <2>1. \A u \in Worker : u # w /\ InTerminate(u) => verdict'[cur[u]] # "none"
      BY <1>1 DEF KillOK, KillAsked, InTerminate, ControlOK, Idle
    <2> QED
      BY <1>1, <2>1, Sets DEF KillOK, KillAsked, InTerminate
  <1>4. KillMarked'
    BY <1>1 DEF KillOK, KillMarked
  <1>5. KillReported'
    <2>1. Started(w) /\ ~Reporting(w) /\ ~Reporting(w)'
      BY <1>1 DEF Started, Tending, Looping, Reporting, InSetStatus
    <2> QED
      BY <1>1, <2>1, VerdictReported
  <1> QED
    BY <1>2, <1>3, <1>4, <1>5 DEF KillOK

(* Who killed the process had said why: classify reports it.               *)
LEMMA ClassifyKill ==
  ASSUME TypeInv, OneMover, ProcessOK, KillOK, NEW w \in Worker, Classify(w)
  PROVE  KillOK'
  <1> DEFINE r == cur[w]
  <1>1. /\ pc[w] = "classify" /\ r \in Run
        /\ UNCHANGED <<result, process, cancelEvent, proc, termReq, killedBy, cur>>
        /\ verdict' = [verdict EXCEPT ![r] = Verdict(r)]
        /\ pc'[w] = "setStatus" /\ ret'[w] = "return" /\ want'[w] \in Outcomes(r)
        /\ \A t \in Thread : t # w =>
             pc'[t] = pc[t] /\ ret'[t] = ret[t] /\ want'[t] = want[t]
    BY DEF Classify, runVars, ThreadTypeOK, ControlOK, Idle
  <1>2. /\ \A s \in Run : s # r => verdict'[s] = verdict[s]
        /\ verdict'[r] = Verdict(r)
        /\ verdict[r] # "none" => Verdict(r) = verdict[r]
        /\ Verdict(r) \in {"none", "cancelled", "timed_out"}
    BY <1>1 DEF ProcTypeOK, Verdict
  <1>3. Started(w) /\ ~Reporting(w)
    BY <1>1 DEF Started, Reporting, InSetStatus
  <1>4. proc[r] # "alive"
    BY <1>1, <1>3, AliveIsTended, StartedMoves DEF Tending, Looping, InSetStatus
  <1>5. ProcessStarted' /\ ProcessSeen'
    BY <1>1 DEF KillOK, ProcessStarted, ProcessSeen, Started, Tending, Looping, InSetStatus
  <1>6. KillAsked'
    <2>1. \A u \in Worker : InTerminate(u) => u # w /\ verdict'[cur[u]] # "none"
      BY <1>1, <1>2 DEF KillOK, KillAsked, InTerminate, ControlOK, Idle
    <2> QED
      BY <1>1, <2>1, Sets DEF KillOK, KillAsked, InTerminate
  <1>7. KillMarked'
    BY <1>1, <1>2 DEF KillOK, KillMarked
  <1>8. Reported(cur[w], want[w])'
    <2>1. killedBy[r] = "caller" => Verdict(r) \in {"cancelled", "timed_out"}
      BY <1>1, <1>2 DEF KillOK, KillMarked, Verdict
    <2>2. killedBy[r] = "worker" => Verdict(r) # "none"
      BY <1>1, <1>2 DEF KillOK, KillMarked
    <2>3. /\ Verdict(r) = "cancelled" => want'[w] = "cancelled"
          /\ Verdict(r) = "timed_out" => want'[w] = "error"
      BY <1>1 DEF Outcomes
    <2>4. killedBy[r] \in {"worker", "caller", None}
      BY <1>1 DEF ProcTypeOK
    <2> QED
      BY <1>1, <1>2, <1>4, <2>1, <2>2, <2>3, <2>4 DEF Reported
  <1>9. KillReported'
    BY <1>1, <1>2, <1>3, <1>8, VerdictReported
  <1> QED
    BY <1>5, <1>6, <1>7, <1>9 DEF KillOK

LEMMA ReturnKill ==
  ASSUME TypeInv, KillOK, NEW w \in Worker, Return(w)
  PROVE  KillOK'
  <1> DEFINE r == cur[w]
  <1>1. /\ pc[w] = "return" /\ r \in Run /\ want[w] \in FinalStatus
        /\ UNCHANGED <<process, cancelEvent, proc, termReq, verdict, killedBy, cur, want, ret>>
        /\ result' = [result EXCEPT ![r] = want[w]]
        /\ pc'[w] = "setDone"
        /\ \A t \in Thread : t # w => pc'[t] = pc[t]
    BY DEF Return, procVars, ThreadTypeOK, ControlOK, Idle
  <1>2. /\ \A s \in Run : s # r => result'[s] = result[s]
        /\ result'[r] = want[w] /\ want[w] # None
    BY <1>1, Sets DEF RunTypeOK, Outcome
  <1>3. ProcessStarted'
    BY <1>1, <1>2 DEF KillOK, ProcessStarted, Started, Tending, Looping, InSetStatus
  <1>4. ProcessSeen' /\ KillAsked' /\ KillMarked'
    BY <1>1, Sets DEF KillOK, ProcessSeen, KillAsked, KillMarked, InTerminate, Tending, Looping,
      InSetStatus
  <1>5. KillReported'
    BY <1>1, <1>2 DEF KillOK, KillReported, Reported, Reporting, InSetStatus
  <1> QED
    BY <1>3, <1>4, <1>5 DEF KillOK

LEMMA AgyExitsKill ==
  ASSUME TypeInv, KillOK, NEW r \in Run, AgyExits(r)
  PROVE  KillOK'
  <1>1. /\ UNCHANGED <<result, process, cancelEvent, termReq, verdict, killedBy>>
        /\ UNCHANGED threadVars
        /\ proc[r] = "alive" /\ proc'[r] \in {"ok", "failed"}
        /\ \A s \in Run : s # r => proc'[s] = proc[s]
    BY DEF AgyExits, runVars, ProcTypeOK
  <1>2. ProcessStarted' /\ ProcessSeen'
    BY <1>1 DEF KillOK, ProcessStarted, ProcessSeen, Started, Tending, Looping, InSetStatus,
      InTerminate, threadVars, ControlOK, Idle
  <1>3. KillAsked' /\ KillMarked'
    BY <1>1 DEF KillOK, KillAsked, KillMarked, InTerminate, threadVars, ControlOK, Idle
  <1>4. KillReported'
    BY <1>1 DEF KillOK, KillReported, Reported, Reporting, InSetStatus, threadVars,
      ControlOK, Idle
  <1> QED
    BY <1>2, <1>3, <1>4 DEF KillOK

LEMMA KillStep ==
  ASSUME TypeInv, OneMover, ProcessOK, KillOK, ~HubMayFail, [Next]_vars
  PROVE  KillOK'
  <1>1. ASSUME NEW t \in Thread, Shared(t) PROVE KillOK'
    BY <1>1, SharedKillQuiet, KillQuietStep, SignalKill, KillKill DEF Shared
  <1>2. ASSUME NEW c \in Caller, CallerCalls(c) \/ CallerGoesOn(c) \/ AwaitTimeout(c)
        PROVE KillOK'
    BY <1>1, <1>2, CallerKillQuiet, KillQuietStep, EnqueueKill, CancelFlagKill,
      ShutdownRunKill DEF CallerCalls, CallerGoesOn
  <1>3. ASSUME NEW w \in Worker, PollCancelled(w) \/ PollTimeout(w) PROVE KillOK'
    BY <1>3, PollStopKill DEF PollCancelled, PollTimeout
  <1>4. ASSUME NEW w \in Worker, WorkerStep(w) \/ PollTimeout(w) \/ Raise(w)
        PROVE KillOK'
    BY <1>1, <1>3, <1>4, WorkerKillQuiet, KillQuietStep, RunManagedKill, StartAgyKill,
      RegisterProcessKill, ClassifyKill, ReturnKill DEF WorkerStep
  <1>5. ASSUME UNCHANGED vars PROVE KillOK'
    <2>1. KillQuiet
      BY <1>5 DEF vars, runVars, procVars, threadVars, KillQuiet, Asking, Started, Reporting,
        Tending, Looping, InSetStatus, InTerminate
    <2> QED
      BY <2>1, KillQuietStep
  <1> QED
    BY <1>2, <1>4, <1>5, AgyExitsKill DEF Next

-----------------------------------------------------------------------------
(* The session of a run and its transcript.                                *)

(* What a step looks like that changes nothing a session or its run shows. *)
LogQuiet ==
  /\ UNCHANGED <<runs, done, result, status, logStatus, logResult>>
  /\ \A r \in Run : cancelEvent[r] => cancelEvent'[r]
  /\ CancelEndOnly'
  /\ \A c \in Caller :
       /\ pc[c] = "insert" => pc'[c] = "insert" /\ cur'[c] = cur[c]
       /\ (InSetStatus(c) /\ ret[c] = "cancelEnd")' =>
            InSetStatus(c) /\ ret[c] = "cancelEnd" /\ cur'[c] = cur[c] /\ want'[c] = want[c]
       /\ pc'[c] = "unmanaged" => pc[c] = "unmanaged" /\ cur'[c] = cur[c]
  /\ \A t \in Thread :
       /\ (InSetStatus(t) /\ ret[t] = "setDone")' =>
            InSetStatus(t) /\ ret[t] = "setDone" /\ cur'[t] = cur[t] /\ want'[t] = want[t]
       /\ pc'[t] = "logStatus" => pc[t] = "logStatus" /\ ret'[t] = ret[t] /\ cur'[t] = cur[t]
       /\ PastFinalLog(t)' => /\ PastFinalLog(t) /\ cur'[t] = cur[t] /\ want'[t] = want[t]
                              /\ pc'[t] = "return" <=> pc[t] = "return"
       /\ (t \in Worker \/ InSetStatus(t)) /\ cur[t] \in Run =>
            cur'[t] = cur[t] /\ (t \in Worker \/ InSetStatus(t)')

LEMMA LogQuietStep ==
  ASSUME TypeInv, LogOK, LogQuiet
  PROVE  LogOK'
  <1>1. SessionKnown' /\ OldIsOld'
    BY DEF LogOK, SessionKnown, OldIsOld, LogQuiet
  <1>2. CancelAsked'
    BY DEF LogOK, CancelAsked, LogQuiet, InSetStatus, ControlOK, Idle
  <1>3. SettlingLogs'
    <2>1. \A t \in Thread : PastFinalLog(t) \/ InSetStatus(t) => cur[t] \in Run
      BY DEF PastFinalLog, InSetStatus, ControlOK, Idle
    <2> QED
      BY <2>1 DEF LogOK, SettlingLogs, Final, Logged, LogQuiet, InSetStatus
  <1>4. ForgottenLogged'
    BY DEF LogOK, ForgottenLogged, Final, Logged, LogQuiet
  <1>5. UnloggedHeld'
    BY DEF LogOK, UnloggedHeld, LogQuiet
  <1> QED
    BY <1>1, <1>2, <1>3, <1>4, <1>5 DEF LogOK, LogQuiet

LEMMA NoneNoLabel == None # "cancelEnd"
  BY NoneIsNone DEF Label, CallerLabel

LEMMA SharedLogQuiet ==
  ASSUME TypeInv, CancelEndOnly, FreeHands, ~HubMayFail, NEW t \in Thread
  PROVE  /\ Signal(t) => LogQuiet
         /\ Kill(t) => LogQuiet
         /\ NotifyAll(t) => LogQuiet
  <1>1. Signal(t) => LogQuiet
    BY Sets, NoneNoLabel DEF LogQuiet, CancelEndOnly, FreeHands, PastFinalLog,
      ThreadTypeOK, ControlOK, InSetStatus, InTerminate, RunTypeOK, Idle,
      Signal, managerVars, runVars, sessionVars, keyVars
  <1>2. Kill(t) => LogQuiet
    BY Sets, NoneNoLabel DEF LogQuiet, CancelEndOnly, FreeHands, PastFinalLog,
      ThreadTypeOK, ControlOK, InSetStatus, InTerminate, RunTypeOK, Idle, Kill,
      managerVars, runVars, sessionVars, keyVars
  <1>3. NotifyAll(t) => LogQuiet
    BY Sets, NoneNoLabel DEF LogQuiet, CancelEndOnly, FreeHands, PastFinalLog,
      ThreadTypeOK, ControlOK, InSetStatus, InTerminate, RunTypeOK, Idle,
      NotifyAll, Woken, managerVars, runVars, sessionVars, procVars, keyVars
  <1> QED
    BY <1>1, <1>2, <1>3

LEMMA CallerLogQuiet ==
  ASSUME TypeInv, CancelEndOnly, FreeHands, ~HubMayFail, NEW c \in Caller
  PROVE  /\ StartLock(c) => LogQuiet
         /\ AcquireKey(c) => LogQuiet
         /\ FindInMemory(c) => LogQuiet
         /\ FindOnDisk(c) => LogQuiet
         /\ Accept(c) => LogQuiet
         /\ Release(c) => LogQuiet
         /\ CancelFlag(c) => LogQuiet
         /\ CancelCond(c) => LogQuiet
         /\ CancelEnd(c) => LogQuiet
         /\ Await(c) => LogQuiet
         /\ AwaitCheck(c) => LogQuiet
         /\ AwaitTimeout(c) => LogQuiet
         /\ Shutdown(c) => LogQuiet
         /\ ShutdownRun(c) => LogQuiet
         /\ Exit(c) => LogQuiet
  <1>1. StartLock(c) => LogQuiet
    BY Sets, NoneNoLabel DEF LogQuiet, CancelEndOnly, FreeHands, PastFinalLog,
      ThreadTypeOK, ControlOK, InSetStatus, InTerminate, RunTypeOK, Idle,
      StartLock, managerVars, runVars, sessionVars, procVars
  <1>2. AcquireKey(c) => LogQuiet
    BY Sets, NoneNoLabel DEF LogQuiet, CancelEndOnly, FreeHands, PastFinalLog,
      ThreadTypeOK, ControlOK, InSetStatus, InTerminate, RunTypeOK, Idle,
      AcquireKey, managerVars, runVars, sessionVars, procVars
  <1>3. FindInMemory(c) => LogQuiet
    BY Sets, NoneNoLabel DEF LogQuiet, CancelEndOnly, FreeHands, PastFinalLog,
      ThreadTypeOK, ControlOK, InSetStatus, InTerminate, RunTypeOK, Idle,
      FindInMemory, managerVars, runVars, sessionVars, procVars, keyVars
  <1>4. FindOnDisk(c) => LogQuiet
    BY Sets, NoneNoLabel DEF LogQuiet, CancelEndOnly, FreeHands, PastFinalLog,
      ThreadTypeOK, ControlOK, InSetStatus, InTerminate, RunTypeOK, Idle,
      FindOnDisk, AcceptedFor, runVars, sessionVars, procVars, keyVars
  <1>5. Accept(c) => LogQuiet
    BY Sets, NoneNoLabel DEF LogQuiet, CancelEndOnly, FreeHands, PastFinalLog,
      ThreadTypeOK, ControlOK, InSetStatus, InTerminate, RunTypeOK, Idle,
      Accept, managerVars, runVars, procVars, keyVars
  <1>6. Release(c) => LogQuiet
    BY Sets, NoneNoLabel DEF LogQuiet, CancelEndOnly, FreeHands, PastFinalLog,
      ThreadTypeOK, ControlOK, InSetStatus, InTerminate, RunTypeOK, Idle,
      Release, managerVars, runVars, sessionVars, procVars
  <1>7. CancelFlag(c) => LogQuiet
    BY Sets, NoneNoLabel DEF LogQuiet, CancelEndOnly, FreeHands, PastFinalLog,
      ThreadTypeOK, ControlOK, InSetStatus, InTerminate, RunTypeOK, Idle,
      CancelFlag, managerVars, sessionVars, procVars, keyVars
  <1>8. CancelCond(c) => LogQuiet
    BY Sets, NoneNoLabel DEF LogQuiet, CancelEndOnly, FreeHands, PastFinalLog,
      ThreadTypeOK, ControlOK, InSetStatus, InTerminate, RunTypeOK, Idle,
      CancelCond, managerVars, sessionVars, procVars, keyVars
  <1>9. CancelEnd(c) => LogQuiet
    BY Sets, NoneNoLabel DEF LogQuiet, CancelEndOnly, FreeHands, PastFinalLog,
      ThreadTypeOK, ControlOK, InSetStatus, InTerminate, RunTypeOK, Idle,
      CancelEnd, managerVars, sessionVars, procVars, keyVars
  <1>10. Await(c) => LogQuiet
    BY Sets, NoneNoLabel DEF LogQuiet, CancelEndOnly, FreeHands, PastFinalLog,
      ThreadTypeOK, ControlOK, InSetStatus, InTerminate, RunTypeOK, Idle,
      Await, managerVars, runVars, sessionVars, procVars, keyVars
  <1>11. AwaitCheck(c) => LogQuiet
    BY Sets, NoneNoLabel DEF LogQuiet, CancelEndOnly, FreeHands, PastFinalLog,
      ThreadTypeOK, ControlOK, InSetStatus, InTerminate, RunTypeOK, Idle,
      AwaitCheck, managerVars, runVars, sessionVars, procVars, keyVars
  <1>12. AwaitTimeout(c) => LogQuiet
    BY Sets, NoneNoLabel DEF LogQuiet, CancelEndOnly, FreeHands, PastFinalLog,
      ThreadTypeOK, ControlOK, InSetStatus, InTerminate, RunTypeOK, Idle,
      AwaitTimeout, managerVars, runVars, sessionVars, procVars, keyVars
  <1>13. Shutdown(c) => LogQuiet
    BY Sets, NoneNoLabel DEF LogQuiet, CancelEndOnly, FreeHands, PastFinalLog,
      ThreadTypeOK, ControlOK, InSetStatus, InTerminate, RunTypeOK, Idle,
      Shutdown, runVars, sessionVars, procVars, keyVars
  <1>14. ShutdownRun(c) => LogQuiet
    BY Sets, NoneNoLabel DEF LogQuiet, CancelEndOnly, FreeHands, PastFinalLog,
      ThreadTypeOK, ControlOK, InSetStatus, InTerminate, RunTypeOK, Idle,
      ShutdownRun, sessionVars, procVars, keyVars
  <1>15. Exit(c) => LogQuiet
    BY Sets, NoneNoLabel DEF LogQuiet, CancelEndOnly, FreeHands, PastFinalLog,
      ThreadTypeOK, ControlOK, InSetStatus, InTerminate, RunTypeOK, Idle, Exit,
      managerVars, runVars, sessionVars, procVars, keyVars
  <1> QED
    BY <1>1, <1>2, <1>3, <1>4, <1>5, <1>6, <1>7, <1>8, <1>9, <1>10, <1>11,
      <1>12, <1>13, <1>14, <1>15

LEMMA WorkerLogQuiet ==
  ASSUME TypeInv, CancelEndOnly, FreeHands, ~HubMayFail, NEW w \in Worker
  PROVE  /\ WorkerLoop(w) => LogQuiet
         /\ GetEmpty(w) => LogQuiet
         /\ GetRun(w) => LogQuiet
         /\ RunManaged(w) => LogQuiet
         /\ StartAgy(w) => LogQuiet
         /\ RegisterProcess(w) => LogQuiet
         /\ PollExited(w) => LogQuiet
         /\ PollCancelled(w) => LogQuiet
         /\ PollTimeout(w) => LogQuiet
         /\ Classify(w) => LogQuiet
         /\ Raise(w) => LogQuiet
  <1>1. WorkerLoop(w) => LogQuiet
    BY Sets, NoneNoLabel DEF LogQuiet, CancelEndOnly, FreeHands, PastFinalLog,
      ThreadTypeOK, ControlOK, InSetStatus, InTerminate, RunTypeOK, Idle,
      WorkerLoop, managerVars, runVars, sessionVars, procVars, keyVars
  <1>2. GetEmpty(w) => LogQuiet
    BY Sets, NoneNoLabel DEF LogQuiet, CancelEndOnly, FreeHands, PastFinalLog,
      ThreadTypeOK, ControlOK, InSetStatus, InTerminate, RunTypeOK, Idle,
      GetEmpty, managerVars, runVars, sessionVars, procVars, keyVars
  <1>3. GetRun(w) => LogQuiet
    BY Sets, NoneNoLabel DEF LogQuiet, CancelEndOnly, FreeHands, PastFinalLog,
      ThreadTypeOK, ControlOK, InSetStatus, InTerminate, RunTypeOK, Idle,
      GetRun, runVars, sessionVars, procVars, keyVars
  <1>4. RunManaged(w) => LogQuiet
    BY Sets, NoneNoLabel DEF LogQuiet, CancelEndOnly, FreeHands, PastFinalLog,
      ThreadTypeOK, ControlOK, InSetStatus, InTerminate, RunTypeOK, Idle,
      RunManaged, managerVars, runVars, sessionVars, procVars, keyVars
  <1>5. StartAgy(w) => LogQuiet
    BY Sets, NoneNoLabel DEF LogQuiet, CancelEndOnly, FreeHands, PastFinalLog,
      ThreadTypeOK, ControlOK, InSetStatus, InTerminate, RunTypeOK, Idle,
      StartAgy, managerVars, runVars, sessionVars, keyVars
  <1>6. RegisterProcess(w) => LogQuiet
    BY Sets, NoneNoLabel DEF LogQuiet, CancelEndOnly, FreeHands, PastFinalLog,
      ThreadTypeOK, ControlOK, InSetStatus, InTerminate, RunTypeOK, Idle,
      RegisterProcess, Woken, managerVars, sessionVars, procVars, keyVars
  <1>7. PollExited(w) => LogQuiet
    BY Sets, NoneNoLabel DEF LogQuiet, CancelEndOnly, FreeHands, PastFinalLog,
      ThreadTypeOK, ControlOK, InSetStatus, InTerminate, RunTypeOK, Idle,
      PollExited, managerVars, runVars, sessionVars, procVars, keyVars
  <1>8. PollCancelled(w) => LogQuiet
    BY Sets, NoneNoLabel DEF LogQuiet, CancelEndOnly, FreeHands, PastFinalLog,
      ThreadTypeOK, ControlOK, InSetStatus, InTerminate, RunTypeOK, Idle,
      PollCancelled, PollStop, managerVars, runVars, sessionVars, keyVars
  <1>9. PollTimeout(w) => LogQuiet
    BY Sets, NoneNoLabel DEF LogQuiet, CancelEndOnly, FreeHands, PastFinalLog,
      ThreadTypeOK, ControlOK, InSetStatus, InTerminate, RunTypeOK, Idle,
      PollTimeout, PollStop, managerVars, runVars, sessionVars, keyVars
  <1>10. Classify(w) => LogQuiet
    BY Sets, NoneNoLabel DEF LogQuiet, CancelEndOnly, FreeHands, PastFinalLog,
      ThreadTypeOK, ControlOK, InSetStatus, InTerminate, RunTypeOK, Idle,
      Classify, Outcomes, Verdict, managerVars, runVars, sessionVars, keyVars
  <1>11. Raise(w) => LogQuiet
    BY Sets, NoneNoLabel DEF LogQuiet, CancelEndOnly, FreeHands, PastFinalLog,
      ThreadTypeOK, ControlOK, InSetStatus, InTerminate, RunTypeOK, Idle,
      Raise, managerVars, sessionVars, procVars, keyVars
  <1> QED
    BY <1>1, <1>2, <1>3, <1>4, <1>5, <1>6, <1>7, <1>8, <1>9, <1>10, <1>11

(* Whoever writes the statuses of a run, or is past its final one, is its  *)
(* mover, or a caller that cancels it.                                     *)
LEMMA LogMover ==
  ASSUME TypeInv, OneMover, NEW t \in Thread,
         \/ PastFinalLog(t)
         \/ InSetStatus(t) /\ ret[t] # "cancelEnd"
         \/ pc[t] \in {"enqueue", "send"}
  PROVE  /\ Moves(t) /\ cur[t] \in runs /\ cur[t] \in Run /\ status[cur[t]] # "absent"
         /\ result[cur[t]] # None => Settling(t)
  <1>1. Moves(t) /\ pc[t] # "insert" /\ (Unsettled(t) \/ Settling(t))
    BY Sets DEF Moves, Settling, Unsettled, PastFinalLog, InSetStatus, ControlOK, CallerLabel,
      SharedLabel, WorkerLabel
  <1>2. cur[t] \in runs /\ cur[t] \in Run
    BY <1>1 DEF OneMover, MoverManages, ManagerTypeOK
  <1> QED
    BY <1>1, <1>2 DEF OneMover, AbsentFresh, ResultIsLast

LEMMA NoOtherMover ==
  ASSUME TypeInv, OneMover, NEW t \in Thread, Moves(t), NEW u \in Thread, u # t,
         PastFinalLog(u) \/ (InSetStatus(u) /\ ret[u] # "cancelEnd")
  PROVE  cur[u] # cur[t]
  BY LogMover DEF OneMover, MoverIsOne

(* A cancelling caller writes a final status and nothing else.             *)
LEMMA WritesFinal ==
  ASSUME TypeInv, LogOK, NEW t \in Thread, InSetStatus(t)
  PROVE  /\ cur[t] \in Run /\ want[t] # "absent"
         /\ ret[t] # "poll" => want[t] \in FinalStatus
         /\ ret[t] = "cancelEnd" =>
              /\ t \in Caller /\ want[t] = "cancelled" /\ status[cur[t]] # "absent"
              /\ cancelEvent[cur[t]] \/ cur[t] \in OldRun
  BY Sets DEF ControlOK, InSetStatus, Idle, FinalStatus, LogOK, CancelAsked

LEMMA SetStatusLog ==
  ASSUME TypeInv, OneMover, LogOK, NEW t \in Thread, SetStatus(t)
  PROVE  LogOK'
  <1> DEFINE r == cur[t]
  <1>1. /\ pc[t] = "setStatus" /\ pc'[t] = "logStatus" /\ r \in Run
        /\ UNCHANGED <<runs, done, result, logStatus, logResult, cancelEvent, cur, want, ret>>
        /\ \A u \in Thread : u # t => pc'[u] = pc[u]
        /\ \A s \in Run : s # r => status'[s] = status[s]
        /\ status'[r] = want[t] /\ want[t] # "absent" /\ InSetStatus(t)
    BY WritesFinal DEF SetStatus, managerVars, runVars, ThreadTypeOK, SessionTypeOK, InSetStatus
  <1>2. ASSUME NEW u \in Thread, PastFinalLog(u) \/ (InSetStatus(u) /\ ret[u] # "cancelEnd"),
               u # t, cur[u] = r
        PROVE  status'[r] \in FinalStatus
    <2>1. ~Moves(t)
      BY <1>2, NoOtherMover
    <2>2. ret[t] = "cancelEnd"
      BY <1>1, <2>1, LogMover
    <2> QED
      BY <1>1, <2>2, WritesFinal
  <1>3. ASSUME NEW u \in Thread, PastFinalLog(u)
        PROVE  cur[u] \in Run /\ u # t /\ (status[cur[u]] \in FinalStatus => status'[cur[u]] \in FinalStatus)
    BY <1>1, <1>2, <1>3, LogMover DEF PastFinalLog
  <1>4. SessionKnown'
    <2>1. \/ r \in runs \cup OldRun \/ done[r]
          \/ \E c \in Caller : pc[c] = "insert" /\ cur[c] = r
      <3>1. CASE ret[t] = "cancelEnd"
        BY <1>1, <3>1, WritesFinal DEF LogOK, SessionKnown
      <3>2. CASE ret[t] # "cancelEnd"
        BY <1>1, <3>2, LogMover
      <3> QED
        BY <3>1, <3>2
    <2> QED
      BY <1>1, <2>1 DEF LogOK, SessionKnown
  <1>5. OldIsOld' /\ CancelEndOnly'
    BY <1>1 DEF LogOK, OldIsOld, CancelEndOnly, InSetStatus
  <1>6. CancelAsked'
    BY <1>1 DEF LogOK, CancelAsked, InSetStatus, ControlOK, Idle
  <1>7. SettlingLogs'
    <2>1. ASSUME NEW u \in Thread
          PROVE  InSetStatus(u)' /\ ret'[u] = "setDone" => want'[u] = FinalOf(result[cur[u]])'
      BY <1>1 DEF LogOK, SettlingLogs, InSetStatus, FinalOf
    <2>2. ASSUME NEW u \in Thread, pc'[u] = "logStatus", ret'[u] \in {"return", "setDone"}
          PROVE  status'[cur'[u]] \in FinalStatus
      <3>1. CASE u = t
        BY <1>1, <2>2, <3>1, WritesFinal
      <3>2. CASE u # t
        <4>1. status[cur[u]] \in FinalStatus /\ cur[u] \in Run
          BY <1>1, <2>2, <3>2, WritesFinal DEF LogOK, SettlingLogs, InSetStatus
        <4> QED
          BY <1>1, <1>2, <2>2, <3>2, <4>1 DEF InSetStatus
      <3> QED
        BY <3>1, <3>2
    <2>3. ASSUME NEW u \in Thread, PastFinalLog(u)'
          PROVE  Final(cur[u], IF pc[u] = "return" THEN want[u] ELSE FinalOf(result[cur[u]]))'
      <3>1. PastFinalLog(u) /\ u # t
        BY <1>1, <2>3 DEF PastFinalLog
      <3> QED
        BY <1>1, <1>3, <3>1 DEF LogOK, SettlingLogs, Final, Logged, FinalOf
    <2> QED
      BY <2>1, <2>2, <2>3 DEF SettlingLogs
  <1>8. ForgottenLogged'
    <2>1. done[r] /\ r \notin runs => status'[r] \in FinalStatus
      <3>1. CASE ret[t] = "cancelEnd"
        BY <1>1, <3>1, WritesFinal
      <3>2. CASE ret[t] # "cancelEnd"
        BY <1>1, <3>2, LogMover
      <3> QED
        BY <3>1, <3>2
    <2> QED
      BY <1>1, <2>1 DEF LogOK, ForgottenLogged, Final, Logged, FinalOf
  <1>9. UnloggedHeld'
    BY <1>1 DEF LogOK, UnloggedHeld, InSetStatus
  <1> QED
    BY <1>4, <1>5, <1>6, <1>7, <1>8, <1>9 DEF LogOK

LEMMA LogStatusLog ==
  ASSUME TypeInv, OneMover, LogOK, NEW t \in Thread, LogStatus(t)
  PROVE  LogOK'
  <1> DEFINE r == cur[t]
  <1>1. /\ pc[t] = "logStatus" /\ pc'[t] = ret[t] /\ r \in Run /\ InSetStatus(t)
        /\ UNCHANGED <<runs, done, result, status, cancelEvent, cur, want, ret>>
        /\ \A u \in Thread : u # t => pc'[u] = pc[u]
        /\ \A s \in Run : s # r => logStatus'[s] = logStatus[s] /\ logResult'[s] = logResult[s]
        /\ logStatus'[r] = want[t]
        /\ logResult'[r] = IF want[t] \in FinalStatus THEN want[t] ELSE logResult[r]
        /\ ret[t] \in {"setDone", "cancelEnd", "poll", "return"}
    BY WritesFinal, Sets DEF LogStatus, managerVars, runVars, ThreadTypeOK, SessionTypeOK,
      InSetStatus, ControlOK
  <1>2. ASSUME NEW s \in Run, NEW o, Final(s, o), s = r => ret[t] = "cancelEnd", s \notin OldRun
        PROVE  Final(s, o)'
    <2>1. CASE s = r
      BY <1>1, <1>2, <2>1, WritesFinal DEF Final, Logged
    <2>2. CASE s # r
      BY <1>1, <1>2, <2>2 DEF Final, Logged
    <2> QED
      BY <2>1, <2>2
  <1>3. SessionKnown' /\ OldIsOld' /\ CancelEndOnly'
    BY <1>1 DEF LogOK, SessionKnown, OldIsOld, CancelEndOnly, InSetStatus
  <1>4. CancelAsked'
    BY <1>1 DEF LogOK, CancelAsked, InSetStatus
  <1>5. SettlingLogs'
    <2>1. ASSUME NEW u \in Thread
          PROVE  /\ InSetStatus(u)' /\ ret'[u] = "setDone" => want'[u] = FinalOf(result[cur[u]])'
                 /\ pc'[u] = "logStatus" /\ ret'[u] \in {"return", "setDone"}
                      => status'[cur'[u]] \in FinalStatus
      BY <1>1 DEF LogOK, SettlingLogs, InSetStatus, FinalOf
    <2>2. ASSUME NEW u \in Thread, PastFinalLog(u)'
          PROVE  Final(cur[u], IF pc[u] = "return" THEN want[u] ELSE FinalOf(result[cur[u]]))'
      <3>1. CASE u = t
        <4>1. pc'[t] = ret[t] /\ ret[t] \in {"return", "setDone"}
          BY <1>1, <2>2, <3>1 DEF PastFinalLog
        <4>2. status[r] \in FinalStatus
          BY <1>1, <4>1 DEF LogOK, SettlingLogs
        <4>3. want[t] \in FinalStatus
          BY <1>1, <4>1, WritesFinal
        <4>4. ret[t] = "setDone" => want[t] = FinalOf(result[r])
          BY <1>1 DEF LogOK, SettlingLogs
        <4> QED
          BY <1>1, <3>1, <4>1, <4>2, <4>3, <4>4 DEF Final, Logged, FinalOf
      <3>2. CASE u # t
        <4>1. PastFinalLog(u) /\ pc'[u] = pc[u]
          BY <1>1, <2>2, <3>2 DEF PastFinalLog
        <4>2. cur[u] = r => ret[t] = "cancelEnd"
          BY <1>1, <3>2, <4>1, LogMover, NoOtherMover
        <4>3. cur[u] \in runs /\ cur[u] \in Run
          BY <4>1, LogMover
        <4>4. cur[u] \notin OldRun
          BY <4>3 DEF LogOK, OldIsOld
        <4>5. Final(cur[u], IF pc[u] = "return" THEN want[u] ELSE FinalOf(result[cur[u]]))
          BY <4>1 DEF LogOK, SettlingLogs
        <4>6. Final(cur[u], IF pc[u] = "return" THEN want[u] ELSE FinalOf(result[cur[u]]))
              => Final(cur[u], IF pc[u] = "return" THEN want[u] ELSE FinalOf(result[cur[u]]))'
          BY <1>1, <1>2, <4>1, <4>2, <4>3, <4>4 DEF Final, Logged, FinalOf
        <4> QED
          BY <4>5, <4>6
      <3> QED
        BY <3>1, <3>2
    <2> QED
      BY <2>1, <2>2 DEF SettlingLogs
  <1>6. ForgottenLogged'
    <2>1. ASSUME NEW s \in Run, done[s], s \notin runs
          PROVE  Final(s, FinalOf(result[s]))'
      <3>1. s \notin OldRun
        BY <2>1 DEF LogOK, OldIsOld
      <3>2. s = r => ret[t] = "cancelEnd"
        BY <1>1, <2>1, LogMover
      <3>3. Final(s, FinalOf(result[s]))
        BY <2>1 DEF LogOK, ForgottenLogged
      <3> QED
        BY <1>1, <1>2, <3>1, <3>2, <3>3 DEF Final, Logged, FinalOf
    <2> QED
      BY <1>1, <2>1 DEF ForgottenLogged
  <1>7. UnloggedHeld'
    <2>1. ASSUME NEW s \in Run, status[s] \in FinalStatus, logStatus'[s] \notin FinalStatus
          PROVE  \E u \in Thread : cur[u] = s /\ (u \in Worker \/ InSetStatus(u)')
      <3>1. CASE s = r
        <4>1. ret[t] = "poll"
          BY <1>1, <2>1, <3>1, WritesFinal
        <4>2. t \in Worker
          BY <1>1, <4>1 DEF ControlOK
        <4> QED
          BY <3>1, <4>2
      <3>2. CASE s # r
        BY <1>1, <2>1, <3>2 DEF LogOK, UnloggedHeld, InSetStatus
      <3> QED
        BY <3>1, <3>2
    <2> QED
      BY <1>1, <2>1 DEF UnloggedHeld
  <1> QED
    BY <1>3, <1>4, <1>5, <1>6, <1>7 DEF LogOK

LEMMA SetDoneLog ==
  ASSUME TypeInv, OneMover, LogOK, NEW t \in Thread, SetDone(t)
  PROVE  LogOK'
  <1> DEFINE r == cur[t]
  <1>1. /\ pc[t] = "setDone" /\ pc'[t] = "notify" /\ r \in Run
        /\ UNCHANGED <<runs, result, status, logStatus, logResult, cancelEvent, cur, want, ret>>
        /\ \A u \in Thread : u # t => pc'[u] = pc[u]
        /\ \A s \in Run : done'[s] <=> s = r \/ done[s]
    BY DEF SetDone, managerVars, sessionVars, ThreadTypeOK, RunTypeOK, ControlOK, Idle
  <1>2. r \in runs /\ r \notin OldRun
    <2>1. r \in runs
      BY <1>1, LogMover DEF PastFinalLog
    <2> QED
      BY <2>1 DEF LogOK, OldIsOld
  <1>3. SessionKnown' /\ OldIsOld' /\ CancelEndOnly'
    <2>1. \A u \in Thread : pc[u] = "insert" => pc'[u] = "insert"
      BY <1>1
    <2>2. SessionKnown'
      BY <1>1, <2>1 DEF LogOK, SessionKnown
    <2>3. OldIsOld'
      BY <1>1, <1>2, Sets DEF LogOK, OldIsOld
    <2>4. CancelEndOnly'
      BY <1>1 DEF LogOK, CancelEndOnly, InSetStatus
    <2> QED
      BY <2>2, <2>3, <2>4
  <1>4. CancelAsked'
    BY <1>1 DEF LogOK, CancelAsked, InSetStatus, ControlOK, Idle
  <1>5. SettlingLogs'
    BY <1>1 DEF LogOK, SettlingLogs, PastFinalLog, InSetStatus, Final, Logged, FinalOf
  <1>6. ForgottenLogged'
    BY <1>1, <1>2 DEF LogOK, ForgottenLogged, Final, Logged, FinalOf
  <1>7. UnloggedHeld'
    BY <1>1 DEF LogOK, UnloggedHeld, InSetStatus
  <1> QED
    BY <1>3, <1>4, <1>5, <1>6, <1>7 DEF LogOK

LEMMA EvictLog ==
  ASSUME TypeInv, OneMover, LogOK, NEW t \in Thread, Evict(t)
  PROVE  LogOK'
  <1> DEFINE r == cur[t]
  <1>1. /\ pc[t] = "evict" /\ pc'[t] \in {"loop", "release"} /\ r \in Run
        /\ ret'[t] = None
        /\ UNCHANGED <<done, result, status, logStatus, logResult, cancelEvent>>
        /\ runs' = runs \ {r}
        /\ \A u \in Thread : u # t => /\ pc'[u] = pc[u] /\ cur'[u] = cur[u]
                                      /\ ret'[u] = ret[u] /\ want'[u] = want[u]
    BY DEF Evict, runVars, sessionVars, ThreadTypeOK, ControlOK, Idle
  <1>2. done[r] /\ Final(r, FinalOf(result[r]))
    BY <1>1 DEF OneMover, ResultIsLast, LogOK, SettlingLogs, PastFinalLog
  <1>3. SessionKnown' /\ OldIsOld'
    BY <1>1, <1>2 DEF LogOK, SessionKnown, OldIsOld
  <1>4. CancelEndOnly' /\ CancelAsked'
    BY <1>1, <1>2, NoneNoLabel DEF LogOK, CancelEndOnly, CancelAsked, InSetStatus
  <1>5. SettlingLogs'
    BY <1>1 DEF LogOK, SettlingLogs, PastFinalLog, InSetStatus, Final, Logged, FinalOf
  <1>6. ForgottenLogged'
    BY <1>1, <1>2 DEF LogOK, ForgottenLogged, Final, Logged, FinalOf
  <1>7. UnloggedHeld'
    BY <1>1, <1>2 DEF LogOK, UnloggedHeld, InSetStatus, Final
  <1> QED
    BY <1>3, <1>4, <1>5, <1>6, <1>7 DEF LogOK

LEMMA CreateSessionLog ==
  ASSUME TypeInv, OneMover, LogOK, NEW c \in Caller, CreateSession(c)
  PROVE  LogOK'
  <1>1. PICK r \in Run : /\ status[r] = "absent"
                         /\ cur' = [cur EXCEPT ![c] = r]
                         /\ status' = [status EXCEPT ![r] = "queued"]
                         /\ logStatus' = [logStatus EXCEPT ![r] = "queued"]
    BY DEF CreateSession
  <1>2. /\ pc[c] = "create" /\ pc'[c] = "insert" /\ cur'[c] = r
        /\ UNCHANGED <<runs, done, result, logResult, cancelEvent, want, ret>>
        /\ \A u \in Thread : u # c => pc'[u] = pc[u] /\ cur'[u] = cur[u]
        /\ \A s \in Run : s # r => status'[s] = status[s] /\ logStatus'[s] = logStatus[s]
        /\ status'[r] = "queued" /\ c \notin Worker
    BY <1>1, Sets DEF CreateSession, managerVars, runVars, ThreadTypeOK, SessionTypeOK
  <1>3. \A u \in Thread : PastFinalLog(u) \/ (InSetStatus(u) /\ ret[u] # "cancelEnd") =>
          cur[u] \in Run /\ cur[u] # r
    BY <1>1, LogMover
  <1>4. SessionKnown' /\ OldIsOld' /\ CancelEndOnly'
    BY <1>1, <1>2 DEF LogOK, SessionKnown, OldIsOld, CancelEndOnly, InSetStatus
  <1>5. CancelAsked'
    BY <1>1, <1>2 DEF LogOK, CancelAsked, InSetStatus, ControlOK, Idle
  <1>6. SettlingLogs'
    BY <1>2, <1>3 DEF LogOK, SettlingLogs, PastFinalLog, InSetStatus, Final, Logged, FinalOf
  <1>7. ForgottenLogged'
    BY <1>1, <1>2 DEF LogOK, ForgottenLogged, Final, Logged, FinalOf, OneMover, AbsentFresh
  <1>8. UnloggedHeld'
    BY <1>2 DEF LogOK, UnloggedHeld, InSetStatus, FinalStatus
  <1> QED
    BY <1>4, <1>5, <1>6, <1>7, <1>8 DEF LogOK

LEMMA InsertLog ==
  ASSUME TypeInv, OneMover, LogOK, NEW c \in Caller, Insert(c)
  PROVE  LogOK'
  <1> DEFINE r == cur[c]
  <1>1. /\ pc[c] = "insert" /\ pc'[c] = "enqueue" /\ r \in Run /\ runs' = runs \cup {r}
        /\ UNCHANGED <<done, result, status, logStatus, logResult, cancelEvent, cur, want, ret>>
        /\ \A u \in Thread : u # c => pc'[u] = pc[u]
    BY DEF Insert, sessionVars, ThreadTypeOK, ControlOK, Idle
  <1>2. r \notin OldRun /\ ~done[r]
    BY <1>1 DEF OneMover, MoverInserts
  <1>3. SessionKnown' /\ OldIsOld' /\ CancelEndOnly'
    BY <1>1, <1>2 DEF LogOK, SessionKnown, OldIsOld, CancelEndOnly, InSetStatus
  <1>4. CancelAsked'
    BY <1>1, <1>2 DEF LogOK, CancelAsked, InSetStatus
  <1>5. SettlingLogs'
    BY <1>1 DEF LogOK, SettlingLogs, PastFinalLog, InSetStatus, Final, Logged, FinalOf
  <1>6. ForgottenLogged'
    BY <1>1 DEF LogOK, ForgottenLogged, Final, Logged, FinalOf
  <1>7. UnloggedHeld'
    BY <1>1 DEF LogOK, UnloggedHeld, InSetStatus
  <1> QED
    BY <1>3, <1>4, <1>5, <1>6, <1>7 DEF LogOK

LEMMA EnqueueLog ==
  ASSUME TypeInv, OneMover, LogOK, NEW c \in Caller, Enqueue(c)
  PROVE  LogOK'
  <1> DEFINE r == cur[c]
  <1>1. /\ pc[c] = "enqueue" /\ r \in Run
        /\ UNCHANGED <<runs, done, status, logStatus, logResult, cancelEvent, cur>>
        /\ \A u \in Thread : u # c => pc'[u] = pc[u] /\ ret'[u] = ret[u] /\ want'[u] = want[u]
        /\ \/ pc'[c] = "accept" /\ UNCHANGED <<result, want, ret>>
           \/ /\ pc'[c] = "setStatus" /\ want'[c] = "error" /\ ret'[c] = "setDone"
              /\ result'[r] = "rejected"
        /\ \A s \in Run : s # r => result'[s] = result[s]
    BY DEF Enqueue, sessionVars, ThreadTypeOK, RunTypeOK, ControlOK, Idle
  <1>2. Moves(c) /\ r \in runs
    BY <1>1, LogMover
  <1>3. \A u \in Thread : u # c /\ (PastFinalLog(u) \/ (InSetStatus(u) /\ ret[u] # "cancelEnd"))
          => cur[u] # r /\ cur[u] \in Run
    BY <1>2, LogMover, NoOtherMover
  <1>4. SessionKnown' /\ OldIsOld' /\ CancelEndOnly'
    BY <1>1 DEF LogOK, SessionKnown, OldIsOld, CancelEndOnly, InSetStatus
  <1>5. CancelAsked'
    BY <1>1 DEF LogOK, CancelAsked, InSetStatus
  <1>6. SettlingLogs'
    <2>1. ASSUME NEW u \in Thread, u # c
          PROVE  /\ InSetStatus(u)' /\ ret'[u] = "setDone" => want'[u] = FinalOf(result[cur[u]])'
                 /\ pc'[u] = "logStatus" /\ ret'[u] \in {"return", "setDone"}
                      => status'[cur'[u]] \in FinalStatus
                 /\ PastFinalLog(u)' =>
                      Final(cur[u], IF pc[u] = "return" THEN want[u] ELSE FinalOf(result[cur[u]]))'
      BY <1>1, <1>3, <2>1 DEF LogOK, SettlingLogs, PastFinalLog, InSetStatus, Final, Logged,
        FinalOf
    <2>2. /\ InSetStatus(c)' => want'[c] = FinalOf(result[cur[c]])'
          /\ pc'[c] # "logStatus" /\ ~PastFinalLog(c)'
      BY <1>1 DEF PastFinalLog, InSetStatus, FinalOf
    <2> QED
      BY <2>1, <2>2 DEF SettlingLogs
  <1>7. ForgottenLogged'
    BY <1>1, <1>2 DEF LogOK, ForgottenLogged, Final, Logged, FinalOf
  <1>8. UnloggedHeld'
    BY <1>1 DEF LogOK, UnloggedHeld, InSetStatus
  <1> QED
    BY <1>4, <1>5, <1>6, <1>7, <1>8 DEF LogOK

(* The steps of a cancelling caller, who settles nothing.                  *)
CancelSteps(c) ==
  /\ UNCHANGED <<runs, done, result, status, logStatus, logResult, cancelEvent>>
  /\ \A u \in Thread : u # c => /\ pc'[u] = pc[u] /\ cur'[u] = cur[u]
                                /\ ret'[u] = ret[u] /\ want'[u] = want[u]
  /\ pc[c] # "insert" /\ ~InSetStatus(c)
  /\ pc'[c] # "logStatus" /\ ~PastFinalLog(c)'
  /\ pc'[c] = "setStatus" => ret'[c] # "setDone"

LEMMA CancelStepsLog ==
  ASSUME TypeInv, LogOK, NEW c \in Caller, CancelSteps(c),
         ret'[c] = "cancelEnd" => InSetStatus(c)' \/ pc'[c] = "cancelEnd",
         InSetStatus(c)' /\ ret'[c] = "cancelEnd" =>
           /\ want'[c] = "cancelled" /\ status[cur'[c]] # "absent"
           /\ cancelEvent[cur'[c]] \/ cur'[c] \in OldRun,
         pc'[c] = "unmanaged" =>
           cur'[c] \in OldRun \/ (done[cur'[c]] /\ cur'[c] \notin runs)
  PROVE  LogOK'
  <1>1. SessionKnown' /\ OldIsOld' /\ CancelEndOnly'
    BY DEF CancelSteps, LogOK, SessionKnown, OldIsOld, CancelEndOnly, InSetStatus
  <1>2. CancelAsked'
    BY DEF CancelSteps, LogOK, CancelAsked, InSetStatus
  <1>3. SettlingLogs'
    BY DEF CancelSteps, LogOK, SettlingLogs, PastFinalLog, InSetStatus, Final, Logged, FinalOf
  <1>4. ForgottenLogged'
    BY DEF CancelSteps, LogOK, ForgottenLogged, Final, Logged, FinalOf
  <1>5. UnloggedHeld'
    BY Sets DEF CancelSteps, LogOK, UnloggedHeld, InSetStatus
  <1> QED
    BY <1>1, <1>2, <1>3, <1>4, <1>5 DEF LogOK

(* A run that is not managed and whose id was replied is an old one, or    *)
(* was evicted.                                                            *)
LEMMA CancelLog ==
  ASSUME TypeInv, OneMover, LogOK, NEW c \in Caller, Cancel(c)
  PROVE  LogOK'
  <1>1. PICK r \in Run : /\ Replied(r)
                         /\ cur' = [cur EXCEPT ![c] = r]
                         /\ pc' = [pc EXCEPT ![c] = IF r \in runs THEN "cancelFlag"
                                                                  ELSE "unmanaged"]
    BY DEF Cancel
  <1>2. CancelSteps(c) /\ pc[c] = "idle" /\ cur'[c] = r /\ UNCHANGED ret
    BY <1>1, Sets DEF Cancel, CancelSteps, PastFinalLog, InSetStatus, managerVars, runVars,
      sessionVars, ThreadTypeOK
  <1>3. ASSUME r \notin runs PROVE r \in OldRun \/ done[r]
    <2>1. \A d \in Caller : cur[d] = r => pc[d] # "insert"
      BY <1>1 DEF Replied, LogOK, CancelEndOnly, InSetStatus
    <2> QED
      BY <1>1, <1>3, <2>1 DEF Replied, LogOK, SessionKnown
  <1>4. ret[c] # "cancelEnd"
    BY <1>2 DEF LogOK, CancelEndOnly, InSetStatus
  <1> QED
    BY <1>1, <1>2, <1>3, <1>4, CancelStepsLog DEF ThreadTypeOK

LEMMA CancelIfStillQueuedLog ==
  ASSUME TypeInv, KillAsked, LogOK, NEW c \in Caller, CancelIfStillQueued(c)
  PROVE  LogOK'
  <1>1. CancelSteps(c) /\ pc[c] = "cancelQueued" /\ UNCHANGED cur
    BY Sets DEF CancelIfStillQueued, CancelSteps, PastFinalLog, InSetStatus, managerVars,
      runVars, sessionVars, ThreadTypeOK
  <1>2. cancelEvent[cur[c]]
    BY <1>1 DEF KillAsked
  <1>3. \/ pc'[c] = "cancelEnd"
        \/ /\ pc'[c] = "setStatus" /\ want'[c] = "cancelled" /\ status[cur[c]] = "queued"
    BY DEF CancelIfStillQueued, ThreadTypeOK
  <1> QED
    BY <1>1, <1>2, <1>3, CancelStepsLog DEF InSetStatus

LEMMA CancelUnmanagedLog ==
  ASSUME TypeInv, OneMover, LogOK, NEW c \in Caller, CancelUnmanaged(c)
  PROVE  LogOK'
  <1>1. CancelSteps(c) /\ pc[c] = "unmanaged"
    BY NoneNoLabel, Sets DEF CancelUnmanaged, CancelSteps, PastFinalLog, InSetStatus,
      managerVars, runVars, sessionVars, ThreadTypeOK
  <1>2. \/ pc'[c] = "idle" /\ ret'[c] = None
        \/ /\ pc'[c] = "setStatus" /\ want'[c] = "cancelled" /\ UNCHANGED cur
           /\ status[cur[c]] \notin FinalStatus
    BY DEF CancelUnmanaged, ThreadTypeOK
  <1>3. status[cur[c]] \notin FinalStatus => cur[c] \in OldRun /\ cur[c] \in Run
    BY <1>1 DEF LogOK, CancelAsked, ForgottenLogged, Final, ControlOK, Idle
  <1>4. cur[c] \in OldRun /\ cur[c] \in Run => status[cur[c]] # "absent"
    BY DEF OneMover, AbsentFresh
  <1> QED
    BY <1>1, <1>2, <1>3, <1>4, NoneNoLabel, CancelStepsLog DEF InSetStatus

LEMMA PreparePromptLog ==
  ASSUME TypeInv, OneMover, LogOK, NEW w \in Worker, PreparePrompt(w)
  PROVE  LogOK'
  <1> DEFINE r == cur[w]
  <1>1. /\ pc[w] = "send" /\ pc'[w] = "spawn" /\ r \in Run
        /\ UNCHANGED <<runs, done, result, logStatus, logResult, cancelEvent, cur, want, ret>>
        /\ \A u \in Thread : u # w => pc'[u] = pc[u]
        /\ \A s \in Run : s # r => status'[s] = status[s]
        /\ status'[r] = "sending"
    BY DEF PreparePrompt, managerVars, runVars, ThreadTypeOK, SessionTypeOK, ControlOK, Idle
  <1>2. Moves(w) /\ r \in runs
    BY <1>1, LogMover
  <1>3. \A u \in Thread : PastFinalLog(u) \/ (InSetStatus(u) /\ ret[u] # "cancelEnd")
          => cur[u] # r /\ cur[u] \in Run
    BY <1>1, <1>2, LogMover, NoOtherMover DEF PastFinalLog, InSetStatus
  <1>4. SessionKnown' /\ OldIsOld' /\ CancelEndOnly'
    BY <1>1, <1>2 DEF LogOK, SessionKnown, OldIsOld, CancelEndOnly, InSetStatus
  <1>5. CancelAsked'
    BY <1>1 DEF LogOK, CancelAsked, InSetStatus, ControlOK, Idle
  <1>6. SettlingLogs'
    BY <1>1, <1>3 DEF LogOK, SettlingLogs, PastFinalLog, InSetStatus, Final, Logged, FinalOf
  <1>7. ForgottenLogged'
    BY <1>1, <1>2 DEF LogOK, ForgottenLogged, Final, Logged, FinalOf
  <1>8. UnloggedHeld'
    BY <1>1 DEF LogOK, UnloggedHeld, InSetStatus, FinalStatus
  <1> QED
    BY <1>4, <1>5, <1>6, <1>7, <1>8 DEF LogOK

LEMMA ReturnLog ==
  ASSUME TypeInv, OneMover, LogOK, NEW w \in Worker, Return(w)
  PROVE  LogOK'
  <1> DEFINE r == cur[w]
  <1>1. /\ pc[w] = "return" /\ pc'[w] = "setDone" /\ r \in Run /\ want[w] \in FinalStatus
        /\ UNCHANGED <<runs, done, status, logStatus, logResult, cancelEvent, cur, want, ret>>
        /\ \A u \in Thread : u # w => pc'[u] = pc[u]
        /\ \A s \in Run : s # r => result'[s] = result[s]
        /\ result'[r] = want[w]
    BY DEF Return, managerVars, sessionVars, ThreadTypeOK, RunTypeOK, ControlOK, Idle
  <1>2. Moves(w) /\ r \in runs
    BY <1>1, LogMover DEF PastFinalLog
  <1>3. \A u \in Thread : u # w /\ (PastFinalLog(u) \/ (InSetStatus(u) /\ ret[u] # "cancelEnd"))
          => cur[u] # r /\ cur[u] \in Run
    BY <1>2, LogMover, NoOtherMover
  <1>4. SessionKnown' /\ OldIsOld' /\ CancelEndOnly'
    BY <1>1 DEF LogOK, SessionKnown, OldIsOld, CancelEndOnly, InSetStatus
  <1>5. CancelAsked'
    BY <1>1 DEF LogOK, CancelAsked, InSetStatus
  <1>6. SettlingLogs'
    <2>1. ASSUME NEW u \in Thread, u # w
          PROVE  /\ InSetStatus(u)' /\ ret'[u] = "setDone" => want'[u] = FinalOf(result[cur[u]])'
                 /\ pc'[u] = "logStatus" /\ ret'[u] \in {"return", "setDone"}
                      => status'[cur'[u]] \in FinalStatus
                 /\ PastFinalLog(u)' =>
                      Final(cur[u], IF pc[u] = "return" THEN want[u] ELSE FinalOf(result[cur[u]]))'
      BY <1>1, <1>3, <2>1 DEF LogOK, SettlingLogs, PastFinalLog, InSetStatus, Final, Logged,
        FinalOf
    <2>2. Final(r, want[w])
      BY <1>1 DEF LogOK, SettlingLogs, PastFinalLog
    <2>3. FinalOf(want[w]) = want[w]
      BY <1>1 DEF FinalOf, FinalStatus
    <2>4. Final(cur[w], IF pc[w] = "return" THEN want[w] ELSE FinalOf(result[cur[w]]))'
      BY <1>1, <2>2, <2>3 DEF Final, Logged, FinalOf
    <2> QED
      BY <1>1, <2>1, <2>4 DEF SettlingLogs, InSetStatus
  <1>7. ForgottenLogged'
    BY <1>1, <1>2 DEF LogOK, ForgottenLogged, Final, Logged, FinalOf
  <1>8. UnloggedHeld'
    BY <1>1 DEF LogOK, UnloggedHeld, InSetStatus
  <1> QED
    BY <1>4, <1>5, <1>6, <1>7, <1>8 DEF LogOK

LEMMA LogStep ==
  ASSUME TypeInv, OneMover, KillAsked, FreeHands, LogOK, ~HubMayFail, [Next]_vars
  PROVE  LogOK'
  <1> USE DEF LogOK
  <1>1. ASSUME NEW t \in Thread, Shared(t) PROVE LogOK'
    BY <1>1, SharedLogQuiet, LogQuietStep, SetStatusLog, LogStatusLog, SetDoneLog, EvictLog
      DEF Shared
  <1>2. ASSUME NEW c \in Caller, CallerCalls(c) \/ CallerGoesOn(c) \/ AwaitTimeout(c)
        PROVE LogOK'
    BY <1>1, <1>2, CallerLogQuiet, LogQuietStep, CreateSessionLog, InsertLog, EnqueueLog,
      CancelLog, CancelIfStillQueuedLog, CancelUnmanagedLog DEF CallerCalls, CallerGoesOn
  <1>3. ASSUME NEW w \in Worker, WorkerStep(w) \/ PollTimeout(w) \/ Raise(w)
        PROVE LogOK'
    BY <1>1, <1>3, WorkerLogQuiet, LogQuietStep, PreparePromptLog, ReturnLog DEF WorkerStep
  <1>4. ASSUME \/ UNCHANGED vars
               \/ \E r \in Run : AgyExits(r)
        PROVE LogOK'
    <2>1. UNCHANGED <<managerVars, runVars, sessionVars, threadVars>>
      BY <1>4 DEF AgyExits, vars
    <2>2. LogQuiet
      BY <2>1 DEF managerVars, runVars, sessionVars, threadVars, LogQuiet, CancelEndOnly,
        PastFinalLog, InSetStatus
    <2> QED
      BY <2>2, LogQuietStep
  <1> QED
    BY <1>2, <1>3, <1>4 DEF Next

-----------------------------------------------------------------------------
(* The sweep of shutdown, where only one thread calls the manager.         *)

(* What a step looks like that neither manages a new run nor sweeps.       *)
SweepQuiet ==
  /\ runs' \subseteq runs
  /\ UNCHANGED sweep
  /\ \A r \in Run : cancelEvent[r] => cancelEvent'[r]
  /\ \A c \in Caller : /\ Sweeping(c)' => Sweeping(c)
                       /\ pc'[c] \in {"join", "exited"} => pc[c] \in {"join", "exited"}

LEMMA SweepQuietStep ==
  ASSUME TypeInv, SweepOK, SweepQuiet
  PROVE  SweepOK'
  BY DEF SweepQuiet, SweepOK, ManagerTypeOK

LEMMA SharedSweepQuiet ==
  ASSUME TypeInv, NEW t \in Thread
  PROVE  /\ SetStatus(t) => SweepQuiet
         /\ LogStatus(t) => SweepQuiet
         /\ Signal(t) => SweepQuiet
         /\ Kill(t) => SweepQuiet
         /\ SetDone(t) => SweepQuiet
         /\ NotifyAll(t) => SweepQuiet
         /\ Evict(t) => SweepQuiet
  <1>1. SetStatus(t) => SweepQuiet
    BY Sets DEF SweepQuiet, Sweeping, ThreadTypeOK, ControlOK, InTerminate,
      RunTypeOK, Idle, SetStatus, managerVars, runVars, procVars, keyVars
  <1>2. LogStatus(t) => SweepQuiet
    BY Sets DEF SweepQuiet, Sweeping, ThreadTypeOK, ControlOK, InTerminate, InSetStatus,
      RunTypeOK, Idle, LogStatus, managerVars, runVars, procVars, keyVars
  <1>3. Signal(t) => SweepQuiet
    BY Sets DEF SweepQuiet, Sweeping, ThreadTypeOK, ControlOK, InTerminate,
      RunTypeOK, Idle, Signal, managerVars, runVars, sessionVars, keyVars
  <1>4. Kill(t) => SweepQuiet
    BY Sets DEF SweepQuiet, Sweeping, ThreadTypeOK, ControlOK, InTerminate,
      RunTypeOK, Idle, Kill, managerVars, runVars, sessionVars, keyVars
  <1>5. SetDone(t) => SweepQuiet
    BY Sets DEF SweepQuiet, Sweeping, ThreadTypeOK, ControlOK, InTerminate,
      RunTypeOK, Idle, SetDone, managerVars, sessionVars, procVars, keyVars
  <1>6. NotifyAll(t) => SweepQuiet
    BY Sets DEF SweepQuiet, Sweeping, ThreadTypeOK, ControlOK, InTerminate,
      RunTypeOK, Idle, CallerLabel, NotifyAll, Woken, managerVars, runVars,
      sessionVars, procVars, keyVars
  <1>7. Evict(t) => SweepQuiet
    BY Sets DEF SweepQuiet, Sweeping, ThreadTypeOK, ControlOK, InTerminate,
      RunTypeOK, Idle, Evict, runVars, sessionVars, procVars, keyVars
  <1> QED
    BY <1>1, <1>2, <1>3, <1>4, <1>5, <1>6, <1>7

LEMMA CallerSweepQuiet ==
  ASSUME TypeInv, NEW c \in Caller
  PROVE  /\ StartLock(c) => SweepQuiet
         /\ AcquireKey(c) => SweepQuiet
         /\ FindInMemory(c) => SweepQuiet
         /\ FindOnDisk(c) => SweepQuiet
         /\ CreateSession(c) => SweepQuiet
         /\ Enqueue(c) => SweepQuiet
         /\ Accept(c) => SweepQuiet
         /\ Release(c) => SweepQuiet
         /\ Cancel(c) => SweepQuiet
         /\ CancelFlag(c) => SweepQuiet
         /\ CancelCond(c) => SweepQuiet
         /\ CancelIfStillQueued(c) => SweepQuiet
         /\ CancelEnd(c) => SweepQuiet
         /\ CancelUnmanaged(c) => SweepQuiet
         /\ Await(c) => SweepQuiet
         /\ AwaitCheck(c) => SweepQuiet
         /\ AwaitTimeout(c) => SweepQuiet
         /\ Exit(c) => SweepQuiet
  <1>1. StartLock(c) => SweepQuiet
    BY Sets DEF SweepQuiet, Sweeping, ThreadTypeOK, ControlOK, InTerminate,
      RunTypeOK, Idle, StartLock, managerVars, runVars, sessionVars, procVars
  <1>2. AcquireKey(c) => SweepQuiet
    BY Sets DEF SweepQuiet, Sweeping, ThreadTypeOK, ControlOK, InTerminate,
      RunTypeOK, Idle, AcquireKey, managerVars, runVars, sessionVars, procVars
  <1>3. FindInMemory(c) => SweepQuiet
    BY Sets DEF SweepQuiet, Sweeping, ThreadTypeOK, ControlOK, InTerminate,
      RunTypeOK, Idle, FindInMemory, managerVars, runVars, sessionVars,
      procVars, keyVars
  <1>4. FindOnDisk(c) => SweepQuiet
    BY Sets DEF SweepQuiet, Sweeping, ThreadTypeOK, ControlOK, InTerminate,
      RunTypeOK, Idle, FindOnDisk, AcceptedFor, runVars, sessionVars, procVars,
      keyVars
  <1>5. CreateSession(c) => SweepQuiet
    BY Sets DEF SweepQuiet, Sweeping, ThreadTypeOK, ControlOK, InTerminate,
      RunTypeOK, Idle, CreateSession, managerVars, runVars, procVars, keyVars
  <1>6. Enqueue(c) => SweepQuiet
    BY Sets DEF SweepQuiet, Sweeping, ThreadTypeOK, ControlOK, InTerminate,
      RunTypeOK, Idle, Enqueue, sessionVars, procVars, keyVars
  <1>7. Accept(c) => SweepQuiet
    BY Sets DEF SweepQuiet, Sweeping, ThreadTypeOK, ControlOK, InTerminate,
      RunTypeOK, Idle, Accept, managerVars, runVars, procVars, keyVars
  <1>8. Release(c) => SweepQuiet
    BY Sets DEF SweepQuiet, Sweeping, ThreadTypeOK, ControlOK, InTerminate,
      RunTypeOK, Idle, Release, managerVars, runVars, sessionVars, procVars
  <1>9. Cancel(c) => SweepQuiet
    BY Sets DEF SweepQuiet, Sweeping, ThreadTypeOK, ControlOK, InTerminate,
      RunTypeOK, Idle, Cancel, managerVars, runVars, sessionVars, procVars,
      keyVars
  <1>10. CancelFlag(c) => SweepQuiet
    BY Sets DEF SweepQuiet, Sweeping, ThreadTypeOK, ControlOK, InTerminate,
      RunTypeOK, Idle, CancelFlag, managerVars, sessionVars, procVars, keyVars
  <1>11. CancelCond(c) => SweepQuiet
    BY Sets DEF SweepQuiet, Sweeping, ThreadTypeOK, ControlOK, InTerminate,
      RunTypeOK, Idle, CancelCond, managerVars, sessionVars, procVars, keyVars
  <1>12. CancelIfStillQueued(c) => SweepQuiet
    BY Sets DEF SweepQuiet, Sweeping, ThreadTypeOK, ControlOK, InTerminate,
      RunTypeOK, Idle, CancelIfStillQueued, managerVars, runVars, sessionVars,
      procVars, keyVars
  <1>13. CancelEnd(c) => SweepQuiet
    BY Sets DEF SweepQuiet, Sweeping, ThreadTypeOK, ControlOK, InTerminate,
      RunTypeOK, Idle, CancelEnd, managerVars, sessionVars, procVars, keyVars
  <1>14. CancelUnmanaged(c) => SweepQuiet
    BY Sets DEF SweepQuiet, Sweeping, ThreadTypeOK, ControlOK, InTerminate,
      RunTypeOK, Idle, CancelUnmanaged, managerVars, runVars, sessionVars,
      procVars, keyVars
  <1>15. Await(c) => SweepQuiet
    BY Sets DEF SweepQuiet, Sweeping, ThreadTypeOK, ControlOK, InTerminate,
      RunTypeOK, Idle, Await, managerVars, runVars, sessionVars, procVars,
      keyVars
  <1>16. AwaitCheck(c) => SweepQuiet
    BY Sets DEF SweepQuiet, Sweeping, ThreadTypeOK, ControlOK, InTerminate,
      RunTypeOK, Idle, AwaitCheck, managerVars, runVars, sessionVars, procVars,
      keyVars
  <1>17. AwaitTimeout(c) => SweepQuiet
    BY Sets DEF SweepQuiet, Sweeping, ThreadTypeOK, ControlOK, InTerminate,
      RunTypeOK, Idle, AwaitTimeout, managerVars, runVars, sessionVars,
      procVars, keyVars
  <1>18. Exit(c) => SweepQuiet
    BY Sets DEF SweepQuiet, Sweeping, ThreadTypeOK, ControlOK, InTerminate,
      RunTypeOK, Idle, Exit, managerVars, runVars, sessionVars, procVars,
      keyVars
  <1> QED
    BY <1>1, <1>2, <1>3, <1>4, <1>5, <1>6, <1>7, <1>8, <1>9, <1>10, <1>11,
      <1>12, <1>13, <1>14, <1>15, <1>16, <1>17, <1>18

LEMMA WorkerSweepQuiet ==
  ASSUME TypeInv, NEW w \in Worker
  PROVE  /\ WorkerLoop(w) => SweepQuiet
         /\ GetEmpty(w) => SweepQuiet
         /\ GetRun(w) => SweepQuiet
         /\ RunManaged(w) => SweepQuiet
         /\ PreparePrompt(w) => SweepQuiet
         /\ StartAgy(w) => SweepQuiet
         /\ RegisterProcess(w) => SweepQuiet
         /\ PollExited(w) => SweepQuiet
         /\ PollCancelled(w) => SweepQuiet
         /\ PollTimeout(w) => SweepQuiet
         /\ Classify(w) => SweepQuiet
         /\ Return(w) => SweepQuiet
         /\ Raise(w) => SweepQuiet
  <1>1. WorkerLoop(w) => SweepQuiet
    BY Sets DEF SweepQuiet, Sweeping, ThreadTypeOK, ControlOK, InTerminate,
      RunTypeOK, Idle, WorkerLoop, managerVars, runVars, sessionVars, procVars,
      keyVars
  <1>2. GetEmpty(w) => SweepQuiet
    BY Sets DEF SweepQuiet, Sweeping, ThreadTypeOK, ControlOK, InTerminate,
      RunTypeOK, Idle, GetEmpty, managerVars, runVars, sessionVars, procVars,
      keyVars
  <1>3. GetRun(w) => SweepQuiet
    BY Sets DEF SweepQuiet, Sweeping, ThreadTypeOK, ControlOK, InTerminate,
      RunTypeOK, Idle, GetRun, runVars, sessionVars, procVars, keyVars
  <1>4. RunManaged(w) => SweepQuiet
    BY Sets DEF SweepQuiet, Sweeping, ThreadTypeOK, ControlOK, InTerminate,
      RunTypeOK, Idle, RunManaged, managerVars, runVars, sessionVars, procVars,
      keyVars
  <1>5. PreparePrompt(w) => SweepQuiet
    BY Sets DEF SweepQuiet, Sweeping, ThreadTypeOK, ControlOK, InTerminate,
      RunTypeOK, Idle, PreparePrompt, managerVars, runVars, procVars, keyVars
  <1>6. StartAgy(w) => SweepQuiet
    BY Sets DEF SweepQuiet, Sweeping, ThreadTypeOK, ControlOK, InTerminate,
      RunTypeOK, Idle, StartAgy, managerVars, runVars, sessionVars, keyVars
  <1>7. RegisterProcess(w) => SweepQuiet
    BY Sets DEF SweepQuiet, Sweeping, ThreadTypeOK, ControlOK, InTerminate,
      RunTypeOK, Idle, RegisterProcess, Woken, managerVars, sessionVars,
      procVars, keyVars
  <1>8. PollExited(w) => SweepQuiet
    BY Sets DEF SweepQuiet, Sweeping, ThreadTypeOK, ControlOK, InTerminate,
      RunTypeOK, Idle, PollExited, managerVars, runVars, sessionVars, procVars,
      keyVars
  <1>9. PollCancelled(w) => SweepQuiet
    BY Sets DEF SweepQuiet, Sweeping, ThreadTypeOK, ControlOK, InTerminate,
      RunTypeOK, Idle, PollCancelled, PollStop, managerVars, runVars,
      sessionVars, keyVars
  <1>10. PollTimeout(w) => SweepQuiet
    BY Sets DEF SweepQuiet, Sweeping, ThreadTypeOK, ControlOK, InTerminate,
      RunTypeOK, Idle, PollTimeout, PollStop, managerVars, runVars,
      sessionVars, keyVars
  <1>11. Classify(w) => SweepQuiet
    BY Sets DEF SweepQuiet, Sweeping, ThreadTypeOK, ControlOK, InTerminate,
      RunTypeOK, Idle, Classify, Outcomes, Verdict, managerVars, runVars,
      sessionVars, keyVars
  <1>12. Return(w) => SweepQuiet
    BY Sets DEF SweepQuiet, Sweeping, ThreadTypeOK, ControlOK, InTerminate,
      RunTypeOK, Idle, Return, managerVars, sessionVars, procVars, keyVars
  <1>13. Raise(w) => SweepQuiet
    BY Sets DEF SweepQuiet, Sweeping, ThreadTypeOK, ControlOK, InTerminate,
      RunTypeOK, Idle, Raise, managerVars, sessionVars, procVars, keyVars
  <1> QED
    BY <1>1, <1>2, <1>3, <1>4, <1>5, <1>6, <1>7, <1>8, <1>9, <1>10, <1>11,
      <1>12, <1>13

(* The only caller is not sweeping while it inserts a run.                 *)
LEMMA InsertSweep ==
  ASSUME TypeInv, SweepOK, \A c, d \in Caller : c = d, NEW c \in Caller, Insert(c)
  PROVE  SweepOK'
  <1>1. pc'[c] = "enqueue"
    BY DEF Insert, ThreadTypeOK
  <1> QED
    BY <1>1 DEF SweepOK, Sweeping, InTerminate

LEMMA ShutdownSweep ==
  ASSUME TypeInv, SweepOK, \A c, d \in Caller : c = d, NEW c \in Caller, Shutdown(c)
  PROVE  SweepOK'
  <1>1. pc'[c] = "sweep" /\ sweep' = runs /\ UNCHANGED runs
    BY DEF Shutdown, ThreadTypeOK
  <1> QED
    BY <1>1 DEF SweepOK, Sweeping, InTerminate

LEMMA ShutdownRunSweep ==
  ASSUME TypeInv, SweepOK, \A c, d \in Caller : c = d, NEW c \in Caller, ShutdownRun(c)
  PROVE  SweepOK'
  <1>1. pc[c] = "sweep" /\ UNCHANGED runs
    BY DEF ShutdownRun
  <1>2. \A r \in runs : cancelEvent[r] \/ r \in sweep
    BY <1>1 DEF SweepOK, Sweeping
  <1>3. CASE \E r \in sweep : /\ cancelEvent' = [cancelEvent EXCEPT ![r] = TRUE]
                              /\ sweep' = sweep \ {r}
                              /\ pc' = [pc EXCEPT ![c] = "signal"]
    BY <1>1, <1>2, <1>3 DEF SweepOK, Sweeping, InTerminate, ManagerTypeOK, RunTypeOK,
      ThreadTypeOK
  <1>4. CASE sweep = {} /\ pc' = [pc EXCEPT ![c] = "join"] /\ UNCHANGED <<cancelEvent, sweep>>
    BY <1>1, <1>2, <1>4 DEF SweepOK, Sweeping, InTerminate, ThreadTypeOK
  <1> QED
    BY <1>3, <1>4 DEF ShutdownRun

LEMMA SweepStep ==
  ASSUME TypeInv, SweepOK, \A c, d \in Caller : c = d, [Next]_vars
  PROVE  SweepOK'
  <1>1. ASSUME NEW t \in Thread, Shared(t) PROVE SweepOK'
    BY <1>1, SharedSweepQuiet, SweepQuietStep DEF Shared
  <1>2. ASSUME NEW c \in Caller, CallerCalls(c) \/ CallerGoesOn(c) \/ AwaitTimeout(c)
        PROVE SweepOK'
    BY <1>1, <1>2, CallerSweepQuiet, SweepQuietStep, InsertSweep, ShutdownSweep,
      ShutdownRunSweep DEF CallerCalls, CallerGoesOn
  <1>3. ASSUME NEW w \in Worker, WorkerStep(w) \/ PollTimeout(w) \/ Raise(w)
        PROVE SweepOK'
    BY <1>1, <1>3, WorkerSweepQuiet, SweepQuietStep DEF WorkerStep
  <1>4. ASSUME \/ UNCHANGED vars
               \/ \E r \in Run : AgyExits(r)
        PROVE SweepOK'
    <2>1. UNCHANGED <<managerVars, runVars, threadVars>>
      BY <1>4 DEF AgyExits, vars
    <2> QED
      BY <2>1 DEF managerVars, runVars, threadVars, SweepOK, Sweeping, InTerminate
  <1> QED
    BY <1>2, <1>3, <1>4 DEF Next

-----------------------------------------------------------------------------
(* The theorems about runs.                                                *)

LEMMA InitRuns == Init => RunsOK
  <1> SUFFICES ASSUME Init PROVE RunsOK
    OBVIOUS
  <1>1. /\ \A t \in Thread : pc[t] \in {"idle", "loop"} /\ ret[t] = None
        /\ \A r \in Run : /\ proc[r] = "none" /\ ~process[r] /\ result[r] = None
                          /\ ~done[r] /\ killedBy[r] = None
        /\ runs = {} /\ logStatus = status
    BY DEF Init
  <1>2. ProcessOK
    BY <1>1 DEF ProcessOK, AliveTended, Registered, Looping, InSetStatus
  <1>3. KillOK
    BY <1>1, NoneIsNone DEF KillOK, ProcessStarted, ProcessSeen, KillAsked, KillMarked,
      KillReported, Tending, Looping, Reporting, InSetStatus, InTerminate
  <1>4. LogOK
    <2>1. \A r \in Run : status[r] # "absent" => r \in OldRun
      BY DEF Init
    <2> QED
      BY <1>1, <2>1, NoneNoLabel, Sets DEF LogOK, SessionKnown, OldIsOld, CancelEndOnly,
        CancelAsked, SettlingLogs, ForgottenLogged, UnloggedHeld, PastFinalLog, InSetStatus
  <1> QED
    BY <1>2, <1>3, <1>4, InvInit, InitAccept DEF RunsOK

LEMMA RunsStep ==
  ASSUME RunsOK, ~HubMayFail, [Next]_vars
  PROVE  RunsOK'
  <1>1. FreeHands /\ KillAsked
    BY DEF RunsOK, AcceptOK, KillOK
  <1> QED
    BY <1>1, InvStep, AcceptStep, ProcessStep, KillStep, LogStep DEF RunsOK, Inv

LEMMA RunsFollow ==
  ASSUME RunsOK
  PROVE  ConcurrencyLimit /\ KillIsReported /\ ResultOutlivesEviction /\ RestartFindsItSettled
  <1>1. ConcurrencyLimit
    BY LimitFollows DEF RunsOK, Inv
  <1>2. KillIsReported
    BY Sets DEF RunsOK, KillOK, KillReported, Reported, KillIsReported, Outcome, FinalStatus
  <1>3. ResultOutlivesEviction
    BY DEF RunsOK, LogOK, ForgottenLogged, Final, Logged, FinalOf, ResultOutlivesEviction
  <1>4. RestartFindsItSettled
    BY Sets DEF RunsOK, LogOK, UnloggedHeld, InSetStatus, RestartFindsItSettled
  <1> QED
    BY <1>1, <1>2, <1>3, <1>4

(* As long as no write of a run callable to the transcript raises, the     *)
(* process, the kill, the flags, the session and the transcript of a run   *)
(* agree at every step of its worker and of those who cancel it.           *)
THEOREM RunsAgree == ~HubMayFail => (Spec => []RunsOK)
  <1> SUFFICES ASSUME ~HubMayFail PROVE Spec => []RunsOK
    OBVIOUS
  <1>1. RunsOK /\ [Next]_vars => RunsOK'
    BY RunsStep
  <1> QED
    BY <1>1, InitRuns, PTL DEF Spec

(* Then there are never more agy processes than workers, and a run with a  *)
(* result has no process.                                                  *)
THEOREM LimitKept == ~HubMayFail => (Spec => []ConcurrencyLimit)
  <1> SUFFICES ASSUME ~HubMayFail PROVE Spec => []ConcurrencyLimit
    OBVIOUS
  <1>1. Spec => []RunsOK
    BY RunsAgree
  <1> QED
    BY <1>1, RunsFollow, PTL

(* Then a run killed by cancel or by shutdown is reported as cancelled,    *)
(* and a completed run was never killed.                                   *)
THEOREM KillsAreReported == ~HubMayFail => (Spec => []KillIsReported)
  <1> SUFFICES ASSUME ~HubMayFail PROVE Spec => []KillIsReported
    OBVIOUS
  <1>1. Spec => []RunsOK
    BY RunsAgree
  <1> QED
    BY <1>1, RunsFollow, PTL

(* Then the session of an evicted run is terminal and the transcript has   *)
(* its result, or the cancellation that was asked for.                     *)
THEOREM ResultsOutlive == ~HubMayFail => (Spec => []ResultOutlivesEviction)
  <1> SUFFICES ASSUME ~HubMayFail PROVE Spec => []ResultOutlivesEviction
    OBVIOUS
  <1>1. Spec => []RunsOK
    BY RunsAgree
  <1> QED
    BY <1>1, RunsFollow, PTL

(* Then a session that ended in memory, and that no thread is about to     *)
(* write, ended in the transcript too.                                     *)
THEOREM RestartsFindItSettled == ~HubMayFail => (Spec => []RestartFindsItSettled)
  <1> SUFFICES ASSUME ~HubMayFail PROVE Spec => []RestartFindsItSettled
    OBVIOUS
  <1>1. Spec => []RunsOK
    BY RunsAgree
  <1> QED
    BY <1>1, RunsFollow, PTL

(* Where one thread makes the calls, as the stdio loop of the MCP server   *)
(* does, no run is in the table unasked when shutdown joins the workers.   *)
THEOREM ShutdownsReachEveryRun ==
  (\A c, d \in Caller : c = d) => (Spec => []ShutdownReachesEveryRun)
  <1> SUFFICES ASSUME \A c, d \in Caller : c = d PROVE Spec => []ShutdownReachesEveryRun
    OBVIOUS
  <1>1. Init => SweepOK
    BY DEF Init, SweepOK, Sweeping, InTerminate
  <1>2. TypeInv /\ SweepOK /\ [Next]_vars => SweepOK'
    BY SweepStep
  <1>3. SweepOK => ShutdownReachesEveryRun
    BY DEF SweepOK, ShutdownReachesEveryRun
  <1> QED
    BY <1>1, <1>2, <1>3, TypeInit, TypeStep, PTL DEF Spec
=============================================================================
