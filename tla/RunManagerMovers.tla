------------------------- MODULE RunManagerMovers -------------------------
(* The type part of the invariant of RunManager is inductive: TypeOK for   *)
(* the variables and ControlOK for where the threads are.  Every run has   *)
(* one mover at a time, whatever the other threads do; from this follows   *)
(* that its result is written once.                                        *)
EXTENDS RunManagerInv, TLAPS

(* Names for the pieces of an action or of the invariant, not facts.       *)
USE DEF Thread, Goto, Move, Leave, CallSetStatus, TypeInv, TypeOK

LEMMA TypeInit == Init => TypeInv
  <1> SUFFICES ASSUME Init PROVE TypeInv
    OBVIOUS
  <1>1. ManagerTypeOK
    <2>1. <<>> \in Seq(Run) /\ Len(<<>>) = 0
      OBVIOUS
    <2>2. idem \in [Key -> Run \cup {None}]
      BY DEF Init
    <2>3. runs = {} /\ sweep = {} /\ workQueue = <<>> /\ shutdown = FALSE
      BY DEF Init
    <2>4. 0 <= QueueLimit
      BY Limits
    <2> QED
      BY <2>1, <2>2, <2>3, <2>4 DEF ManagerTypeOK
  <1>2. RunTypeOK
    BY DEF Init, RunTypeOK
  <1>3. SessionTypeOK
    BY DEF Init, SessionTypeOK, OpenStatus, FinalStatus
  <1>4. ProcTypeOK
    BY DEF Init, ProcTypeOK
  <1>5. ThreadTypeOK
    BY DEF Init, ThreadTypeOK, Label, CallerLabel, WorkerLabel
  <1>6. ControlOK
    BY Sets DEF Init, ControlOK, Idle, InSetStatus, InTerminate, CallerLabel, WorkerLabel
  <1> QED
    BY <1>1, <1>2, <1>3, <1>4, <1>5, <1>6

(* A group of variables that a step leaves alone keeps its type.           *)
LEMMA TypeKept ==
  ASSUME TypeOK
  PROVE  /\ UNCHANGED managerVars => ManagerTypeOK'
         /\ UNCHANGED runVars => RunTypeOK'
         /\ UNCHANGED sessionVars => SessionTypeOK'
         /\ UNCHANGED procVars => ProcTypeOK'
         /\ UNCHANGED <<keyVars, threadVars>> => ThreadTypeOK'
  <1>1. UNCHANGED managerVars => ManagerTypeOK'
    BY DEF ManagerTypeOK, managerVars
  <1>2. UNCHANGED runVars => RunTypeOK'
    BY DEF RunTypeOK, runVars
  <1>3. UNCHANGED sessionVars => SessionTypeOK'
    BY DEF SessionTypeOK, sessionVars
  <1>4. UNCHANGED procVars => ProcTypeOK'
    BY DEF ProcTypeOK, procVars
  <1>5. UNCHANGED <<keyVars, threadVars>> => ThreadTypeOK'
    BY DEF ThreadTypeOK, keyVars, threadVars
  <1> QED
    BY <1>1, <1>2, <1>3, <1>4, <1>5

LEMMA SetStatusType ==
  ASSUME TypeInv, NEW t \in Thread, SetStatus(t)
  PROVE  TypeInv'
  <1>1. SessionTypeOK'
    BY Sets DEF SetStatus, SessionTypeOK, ThreadTypeOK, ControlOK, Idle,
      InSetStatus, OpenStatus, FinalStatus, keyVars, managerVars, procVars,
      runVars
  <1>2. ThreadTypeOK'
    BY Sets DEF SetStatus, ThreadTypeOK, ControlOK, InSetStatus, InTerminate,
      ManagerTypeOK, Label, CallerLabel, WorkerLabel, SharedLabel,
      FinalStatus, keyVars
  <1>3. ControlOK'
    BY Sets DEF SetStatus, ThreadTypeOK, ControlOK, Idle, InSetStatus,
      InTerminate, CallerLabel, WorkerLabel, SharedLabel, FinalStatus
  <1> QED
    BY <1>1, <1>2, <1>3, TypeKept DEF SetStatus

LEMMA LogStatusType ==
  ASSUME TypeInv, NEW t \in Thread, LogStatus(t)
  PROVE  TypeInv'
  <1>1. SessionTypeOK'
    BY Sets DEF LogStatus, SessionTypeOK, ThreadTypeOK, ControlOK, Idle,
      InSetStatus, OpenStatus, FinalStatus, keyVars, managerVars, procVars,
      runVars
  <1>2. ThreadTypeOK'
    BY Sets DEF LogStatus, FinalStatus, ThreadTypeOK, ControlOK, InSetStatus,
      InTerminate, ManagerTypeOK, Label, CallerLabel, WorkerLabel,
      SharedLabel, keyVars
  <1>3. ControlOK'
    BY Sets DEF LogStatus, FinalStatus, ThreadTypeOK, ControlOK, Idle,
      InSetStatus, InTerminate, CallerLabel, WorkerLabel, SharedLabel
  <1> QED
    BY <1>1, <1>2, <1>3, TypeKept DEF LogStatus

LEMMA SignalType ==
  ASSUME TypeInv, NEW t \in Thread, Signal(t)
  PROVE  TypeInv'
  <1>1. ProcTypeOK'
    <2>1. /\ UNCHANGED <<proc, verdict, killedBy>>
          /\ \/ UNCHANGED termReq
             \/ \E r : termReq' = [termReq EXCEPT ![r] = TRUE]
      BY DEF Signal
    <2> QED
      BY <2>1 DEF TypeInv, TypeOK, ProcTypeOK
  <1>2. ThreadTypeOK'
    BY Sets DEF Signal, ThreadTypeOK, ControlOK, InSetStatus, InTerminate,
      ManagerTypeOK, Label, CallerLabel, WorkerLabel, SharedLabel,
      FinalStatus, keyVars
  <1>3. ControlOK'
    BY Sets DEF Signal, ThreadTypeOK, ControlOK, Idle, InSetStatus,
      InTerminate, CallerLabel, WorkerLabel, SharedLabel, FinalStatus
  <1> QED
    BY <1>1, <1>2, <1>3, TypeKept DEF Signal

LEMMA KillType ==
  ASSUME TypeInv, NEW t \in Thread, Kill(t)
  PROVE  TypeInv'
  <1>1. ProcTypeOK'
    BY Sets DEF Kill, ProcTypeOK, ThreadTypeOK, ControlOK, Idle, InSetStatus,
      keyVars, managerVars, runVars, sessionVars
  <1>2. ThreadTypeOK'
    BY Sets DEF Kill, ThreadTypeOK, ControlOK, InSetStatus, InTerminate,
      ManagerTypeOK, Label, CallerLabel, WorkerLabel, SharedLabel,
      FinalStatus, keyVars
  <1>3. ControlOK'
    BY Sets DEF Kill, ThreadTypeOK, ControlOK, Idle, InSetStatus, InTerminate,
      CallerLabel, WorkerLabel, SharedLabel, FinalStatus
  <1> QED
    BY <1>1, <1>2, <1>3, TypeKept DEF Kill

LEMMA SetDoneType ==
  ASSUME TypeInv, NEW t \in Thread, SetDone(t)
  PROVE  TypeInv'
  <1>1. RunTypeOK'
    BY Sets DEF SetDone, RunTypeOK, ThreadTypeOK, ControlOK, Idle,
      InSetStatus, Outcome, FinalStatus, keyVars, managerVars, procVars,
      sessionVars
  <1>2. ThreadTypeOK'
    BY Sets DEF SetDone, ThreadTypeOK, ControlOK, InSetStatus, InTerminate,
      ManagerTypeOK, Label, CallerLabel, WorkerLabel, SharedLabel,
      FinalStatus, keyVars
  <1>3. ControlOK'
    BY Sets DEF SetDone, ThreadTypeOK, ControlOK, Idle, InSetStatus,
      InTerminate, CallerLabel, WorkerLabel, SharedLabel, FinalStatus
  <1> QED
    BY <1>1, <1>2, <1>3, TypeKept DEF SetDone

LEMMA NotifyAllType ==
  ASSUME TypeInv, NEW t \in Thread, NotifyAll(t)
  PROVE  TypeInv'
  <1>1. ThreadTypeOK'
    BY Sets DEF NotifyAll, Woken, ThreadTypeOK, ControlOK, InSetStatus,
      InTerminate, ManagerTypeOK, Label, CallerLabel, WorkerLabel,
      SharedLabel, FinalStatus, keyVars
  <1>2. ControlOK'
    BY Sets DEF NotifyAll, Woken, ThreadTypeOK, ControlOK, Idle, InSetStatus,
      InTerminate, CallerLabel, WorkerLabel, SharedLabel, FinalStatus
  <1> QED
    BY <1>1, <1>2, TypeKept DEF NotifyAll

LEMMA EvictType ==
  ASSUME TypeInv, NEW t \in Thread, Evict(t)
  PROVE  TypeInv'
  <1>1. ManagerTypeOK'
    BY Sets, Limits DEF Evict, ManagerTypeOK, ThreadTypeOK, ControlOK, Idle,
      InSetStatus, keyVars, procVars, runVars, sessionVars
  <1>2. ThreadTypeOK'
    BY Sets DEF Evict, ThreadTypeOK, ControlOK, InSetStatus, InTerminate,
      ManagerTypeOK, Label, CallerLabel, WorkerLabel, SharedLabel,
      FinalStatus, keyVars
  <1>3. ControlOK'
    BY Sets DEF Evict, ThreadTypeOK, ControlOK, Idle, InSetStatus,
      InTerminate, CallerLabel, WorkerLabel, SharedLabel, FinalStatus
  <1> QED
    BY <1>1, <1>2, <1>3, TypeKept DEF Evict

LEMMA StartLockType ==
  ASSUME TypeInv, NEW c \in Caller, StartLock(c)
  PROVE  TypeInv'
  <1>1. ThreadTypeOK'
    BY Sets DEF StartLock, ThreadTypeOK, ControlOK, InSetStatus, InTerminate,
      ManagerTypeOK, Label, CallerLabel, WorkerLabel, SharedLabel, FinalStatus
  <1>2. ControlOK'
    BY Sets DEF StartLock, ThreadTypeOK, ControlOK, Idle, InSetStatus,
      InTerminate, CallerLabel, WorkerLabel, SharedLabel, FinalStatus
  <1> QED
    BY <1>1, <1>2, TypeKept DEF StartLock

LEMMA AcquireKeyType ==
  ASSUME TypeInv, NEW c \in Caller, AcquireKey(c)
  PROVE  TypeInv'
  <1>1. ThreadTypeOK'
    BY Sets DEF AcquireKey, ThreadTypeOK, ControlOK, InSetStatus, InTerminate,
      ManagerTypeOK, Label, CallerLabel, WorkerLabel, SharedLabel, FinalStatus
  <1>2. ControlOK'
    BY Sets DEF AcquireKey, ThreadTypeOK, ControlOK, Idle, InSetStatus,
      InTerminate, CallerLabel, WorkerLabel, SharedLabel, FinalStatus
  <1> QED
    BY <1>1, <1>2, TypeKept DEF AcquireKey

LEMMA FindInMemoryType ==
  ASSUME TypeInv, NEW c \in Caller, FindInMemory(c)
  PROVE  TypeInv'
  <1>1. ThreadTypeOK'
    BY Sets DEF FindInMemory, ThreadTypeOK, ControlOK, InSetStatus,
      InTerminate, ManagerTypeOK, Label, CallerLabel, WorkerLabel,
      SharedLabel, FinalStatus, keyVars
  <1>2. ControlOK'
    BY Sets DEF FindInMemory, ThreadTypeOK, ControlOK, Idle, InSetStatus,
      InTerminate, CallerLabel, WorkerLabel, SharedLabel, FinalStatus
  <1> QED
    BY <1>1, <1>2, TypeKept DEF FindInMemory

LEMMA FindOnDiskType ==
  ASSUME TypeInv, NEW c \in Caller, FindOnDisk(c)
  PROVE  TypeInv'
  <1>1. ManagerTypeOK'
    BY Sets, Limits DEF FindOnDisk, AcceptedFor, ManagerTypeOK, ThreadTypeOK,
      ControlOK, Idle, InSetStatus, keyVars, procVars, runVars, sessionVars
  <1>2. ThreadTypeOK'
    <2>1. pc' \in [Thread -> Label]
      BY Sets DEF FindOnDisk, AcceptedFor, ThreadTypeOK, Label, CallerLabel,
        WorkerLabel, SharedLabel
    <2>2. cur' \in [Thread -> Run \cup {None}]
      BY Sets DEF FindOnDisk, AcceptedFor, ThreadTypeOK
    <2>3. want' \in [Thread -> FinalStatus \cup {"running", None}]
      BY Sets DEF FindOnDisk, AcceptedFor, ThreadTypeOK, FinalStatus
    <2>4. ret' \in [Thread -> Label \cup {None}]
      BY Sets DEF FindOnDisk, AcceptedFor, ThreadTypeOK, Label, CallerLabel,
        WorkerLabel, SharedLabel
    <2> QED
      BY <2>1, <2>2, <2>3, <2>4 DEF FindOnDisk, AcceptedFor, keyVars,
        ThreadTypeOK
  <1>3. ControlOK'
    BY Sets DEF FindOnDisk, AcceptedFor, ThreadTypeOK, ControlOK, Idle,
      InSetStatus, InTerminate, CallerLabel, WorkerLabel, SharedLabel,
      FinalStatus
  <1> QED
    BY <1>1, <1>2, <1>3, TypeKept DEF FindOnDisk

LEMMA CreateSessionType ==
  ASSUME TypeInv, NEW c \in Caller, CreateSession(c)
  PROVE  TypeInv'
  <1>1. SessionTypeOK'
    BY Sets DEF CreateSession, SessionTypeOK, ThreadTypeOK, ControlOK, Idle,
      InSetStatus, OpenStatus, FinalStatus, keyVars, managerVars, procVars,
      runVars
  <1>2. ThreadTypeOK'
    BY Sets DEF CreateSession, ThreadTypeOK, ControlOK, InSetStatus,
      InTerminate, ManagerTypeOK, Label, CallerLabel, WorkerLabel,
      SharedLabel, FinalStatus, keyVars
  <1>3. ControlOK'
    BY Sets DEF CreateSession, ThreadTypeOK, ControlOK, Idle, InSetStatus,
      InTerminate, CallerLabel, WorkerLabel, SharedLabel, FinalStatus
  <1> QED
    BY <1>1, <1>2, <1>3, TypeKept DEF CreateSession

LEMMA InsertType ==
  ASSUME TypeInv, NEW c \in Caller, Insert(c)
  PROVE  TypeInv'
  <1>1. ManagerTypeOK'
    BY Sets, Limits DEF Insert, ManagerTypeOK, ThreadTypeOK, ControlOK, Idle,
      InSetStatus, keyVars, procVars, sessionVars
  <1>2. RunTypeOK'
    BY Sets DEF Insert, RunTypeOK, ThreadTypeOK, ControlOK, Idle, InSetStatus,
      Outcome, FinalStatus, keyVars, procVars, sessionVars
  <1>3. ThreadTypeOK'
    BY Sets DEF Insert, ThreadTypeOK, ControlOK, InSetStatus, InTerminate,
      ManagerTypeOK, Label, CallerLabel, WorkerLabel, SharedLabel,
      FinalStatus, keyVars
  <1>4. ControlOK'
    BY Sets DEF Insert, ThreadTypeOK, ControlOK, Idle, InSetStatus,
      InTerminate, CallerLabel, WorkerLabel, SharedLabel, FinalStatus
  <1> QED
    BY <1>1, <1>2, <1>3, <1>4, TypeKept DEF Insert

LEMMA EnqueueType ==
  ASSUME TypeInv, NEW c \in Caller, Enqueue(c)
  PROVE  TypeInv'
  <1>1. ManagerTypeOK'
    <2>1. cur[c] \in Run
      BY DEF Enqueue, ControlOK, Idle
    <2>2. CASE Len(workQueue) < QueueLimit /\ workQueue' = Append(workQueue, cur[c])
      BY <2>1, <2>2, Limits DEF Enqueue, ManagerTypeOK
    <2>3. CASE UNCHANGED workQueue
      BY <2>3 DEF Enqueue, ManagerTypeOK
    <2> QED
      BY <2>2, <2>3 DEF Enqueue
  <1>2. RunTypeOK'
    BY Sets DEF Enqueue, RunTypeOK, ThreadTypeOK, ControlOK, Idle,
      InSetStatus, Outcome, FinalStatus, keyVars, procVars, sessionVars
  <1>3. ThreadTypeOK'
    <2>1. pc' \in [Thread -> Label]
      BY Sets DEF Enqueue, ThreadTypeOK, Label, CallerLabel, WorkerLabel,
        SharedLabel
    <2>2. cur' \in [Thread -> Run \cup {None}]
      BY Sets DEF Enqueue, ThreadTypeOK
    <2>3. want' \in [Thread -> FinalStatus \cup {"running", None}]
      BY Sets DEF Enqueue, ThreadTypeOK, FinalStatus
    <2>4. ret' \in [Thread -> Label \cup {None}]
      BY Sets DEF Enqueue, ThreadTypeOK, Label, CallerLabel, WorkerLabel,
        SharedLabel
    <2> QED
      BY <2>1, <2>2, <2>3, <2>4 DEF Enqueue, keyVars, ThreadTypeOK
  <1>4. ControlOK'
    BY Sets DEF Enqueue, ThreadTypeOK, ControlOK, Idle, InSetStatus,
      InTerminate, CallerLabel, WorkerLabel, SharedLabel, FinalStatus
  <1> QED
    BY <1>1, <1>2, <1>3, <1>4, TypeKept DEF Enqueue

LEMMA AcceptType ==
  ASSUME TypeInv, NEW c \in Caller, Accept(c)
  PROVE  TypeInv'
  <1>1. SessionTypeOK'
    BY Sets DEF Accept, SessionTypeOK, ThreadTypeOK, ControlOK, Idle,
      InSetStatus, OpenStatus, FinalStatus, keyVars, managerVars, procVars,
      runVars
  <1>2. ThreadTypeOK'
    BY Sets DEF Accept, ThreadTypeOK, ControlOK, InSetStatus, InTerminate,
      ManagerTypeOK, Label, CallerLabel, WorkerLabel, SharedLabel,
      FinalStatus, keyVars
  <1>3. ControlOK'
    BY Sets DEF Accept, ThreadTypeOK, ControlOK, Idle, InSetStatus,
      InTerminate, CallerLabel, WorkerLabel, SharedLabel, FinalStatus
  <1> QED
    BY <1>1, <1>2, <1>3, TypeKept DEF Accept

LEMMA ReleaseType ==
  ASSUME TypeInv, NEW c \in Caller, Release(c)
  PROVE  TypeInv'
  <1>1. ThreadTypeOK'
    BY Sets DEF Release, ThreadTypeOK, ControlOK, InSetStatus, InTerminate,
      ManagerTypeOK, Label, CallerLabel, WorkerLabel, SharedLabel, FinalStatus
  <1>2. ControlOK'
    BY Sets DEF Release, ThreadTypeOK, ControlOK, Idle, InSetStatus,
      InTerminate, CallerLabel, WorkerLabel, SharedLabel, FinalStatus
  <1> QED
    BY <1>1, <1>2, TypeKept DEF Release

LEMMA CancelType ==
  ASSUME TypeInv, NEW c \in Caller, Cancel(c)
  PROVE  TypeInv'
  <1>1. ThreadTypeOK'
    BY Sets DEF Cancel, ThreadTypeOK, ControlOK, InSetStatus, InTerminate,
      ManagerTypeOK, Label, CallerLabel, WorkerLabel, SharedLabel,
      FinalStatus, keyVars
  <1>2. ControlOK'
    BY Sets DEF Cancel, ThreadTypeOK, ControlOK, Idle, InSetStatus,
      InTerminate, CallerLabel, WorkerLabel, SharedLabel, FinalStatus
  <1> QED
    BY <1>1, <1>2, TypeKept DEF Cancel

LEMMA CancelFlagType ==
  ASSUME TypeInv, NEW c \in Caller, CancelFlag(c)
  PROVE  TypeInv'
  <1>1. RunTypeOK'
    <2>1. /\ UNCHANGED <<keyOf, done, result, process, condLock>>
          /\ \/ UNCHANGED cancelEvent
             \/ \E r : cancelEvent' = [cancelEvent EXCEPT ![r] = TRUE]
      BY DEF CancelFlag
    <2> QED
      BY <2>1 DEF TypeInv, TypeOK, RunTypeOK
  <1>2. ThreadTypeOK'
    <2>1. pc' \in [Thread -> Label]
      BY Sets DEF CancelFlag, ThreadTypeOK, Label, CallerLabel, WorkerLabel,
        SharedLabel
    <2>2. cur' \in [Thread -> Run \cup {None}]
      BY Sets DEF CancelFlag, ThreadTypeOK
    <2>3. want' \in [Thread -> FinalStatus \cup {"running", None}]
      BY Sets DEF CancelFlag, ThreadTypeOK, FinalStatus
    <2>4. ret' \in [Thread -> Label \cup {None}]
      BY Sets DEF CancelFlag, ThreadTypeOK, Label, CallerLabel, WorkerLabel,
        SharedLabel
    <2> QED
      BY <2>1, <2>2, <2>3, <2>4 DEF CancelFlag, keyVars, ThreadTypeOK
  <1>3. ControlOK'
    BY Sets DEF CancelFlag, ThreadTypeOK, ControlOK, Idle, InSetStatus,
      InTerminate, CallerLabel, WorkerLabel, SharedLabel, FinalStatus
  <1> QED
    BY <1>1, <1>2, <1>3, TypeKept DEF CancelFlag

LEMMA CancelCondType ==
  ASSUME TypeInv, NEW c \in Caller, CancelCond(c)
  PROVE  TypeInv'
  <1>1. RunTypeOK'
    BY Sets DEF CancelCond, RunTypeOK, ThreadTypeOK, ControlOK, Idle,
      InSetStatus, Outcome, FinalStatus, keyVars, managerVars, procVars,
      sessionVars
  <1>2. ThreadTypeOK'
    <2>1. pc' \in [Thread -> Label]
      BY Sets DEF CancelCond, ThreadTypeOK, Label, CallerLabel, WorkerLabel,
        SharedLabel
    <2>2. cur' \in [Thread -> Run \cup {None}]
      BY Sets DEF CancelCond, ThreadTypeOK
    <2>3. want' \in [Thread -> FinalStatus \cup {"running", None}]
      BY Sets DEF CancelCond, ThreadTypeOK, FinalStatus
    <2>4. ret' \in [Thread -> Label \cup {None}]
      BY Sets DEF CancelCond, ThreadTypeOK, Label, CallerLabel, WorkerLabel,
        SharedLabel
    <2> QED
      BY <2>1, <2>2, <2>3, <2>4 DEF CancelCond, keyVars, ThreadTypeOK
  <1>3. ControlOK'
    BY Sets DEF CancelCond, ThreadTypeOK, ControlOK, Idle, InSetStatus,
      InTerminate, CallerLabel, WorkerLabel, SharedLabel, FinalStatus
  <1> QED
    BY <1>1, <1>2, <1>3, TypeKept DEF CancelCond

LEMMA CancelIfStillQueuedType ==
  ASSUME TypeInv, NEW c \in Caller, CancelIfStillQueued(c)
  PROVE  TypeInv'
  <1>1. ThreadTypeOK'
    <2>1. pc' \in [Thread -> Label]
      BY Sets DEF CancelIfStillQueued, ThreadTypeOK, Label, CallerLabel,
        WorkerLabel, SharedLabel
    <2>2. cur' \in [Thread -> Run \cup {None}]
      BY Sets DEF CancelIfStillQueued, ThreadTypeOK
    <2>3. want' \in [Thread -> FinalStatus \cup {"running", None}]
      BY Sets DEF CancelIfStillQueued, ThreadTypeOK, FinalStatus
    <2>4. ret' \in [Thread -> Label \cup {None}]
      BY Sets DEF CancelIfStillQueued, ThreadTypeOK, Label, CallerLabel,
        WorkerLabel, SharedLabel
    <2> QED
      BY <2>1, <2>2, <2>3, <2>4 DEF CancelIfStillQueued, keyVars, ThreadTypeOK
  <1>2. ControlOK'
    BY Sets DEF CancelIfStillQueued, ThreadTypeOK, ControlOK, Idle,
      InSetStatus, InTerminate, CallerLabel, WorkerLabel, SharedLabel,
      FinalStatus
  <1> QED
    BY <1>1, <1>2, TypeKept DEF CancelIfStillQueued

LEMMA CancelEndType ==
  ASSUME TypeInv, NEW c \in Caller, CancelEnd(c)
  PROVE  TypeInv'
  <1>1. RunTypeOK'
    BY Sets DEF CancelEnd, RunTypeOK, ThreadTypeOK, ControlOK, Idle,
      InSetStatus, Outcome, FinalStatus, keyVars, managerVars, procVars,
      sessionVars
  <1>2. ThreadTypeOK'
    BY Sets DEF CancelEnd, ThreadTypeOK, ControlOK, InSetStatus, InTerminate,
      ManagerTypeOK, Label, CallerLabel, WorkerLabel, SharedLabel,
      FinalStatus, keyVars
  <1>3. ControlOK'
    BY Sets DEF CancelEnd, ThreadTypeOK, ControlOK, Idle, InSetStatus,
      InTerminate, CallerLabel, WorkerLabel, SharedLabel, FinalStatus
  <1> QED
    BY <1>1, <1>2, <1>3, TypeKept DEF CancelEnd

LEMMA CancelUnmanagedType ==
  ASSUME TypeInv, NEW c \in Caller, CancelUnmanaged(c)
  PROVE  TypeInv'
  <1>1. ThreadTypeOK'
    <2>1. pc' \in [Thread -> Label]
      BY Sets DEF CancelUnmanaged, FinalStatus, ThreadTypeOK, Label,
        CallerLabel, WorkerLabel, SharedLabel
    <2>2. cur' \in [Thread -> Run \cup {None}]
      BY Sets DEF CancelUnmanaged, FinalStatus, ThreadTypeOK
    <2>3. want' \in [Thread -> FinalStatus \cup {"running", None}]
      BY Sets DEF CancelUnmanaged, FinalStatus, ThreadTypeOK
    <2>4. ret' \in [Thread -> Label \cup {None}]
      BY Sets DEF CancelUnmanaged, FinalStatus, ThreadTypeOK, Label,
        CallerLabel, WorkerLabel, SharedLabel
    <2> QED
      BY <2>1, <2>2, <2>3, <2>4 DEF CancelUnmanaged, FinalStatus, keyVars,
        ThreadTypeOK
  <1>2. ControlOK'
    BY Sets DEF CancelUnmanaged, FinalStatus, ThreadTypeOK, ControlOK, Idle,
      InSetStatus, InTerminate, CallerLabel, WorkerLabel, SharedLabel
  <1> QED
    BY <1>1, <1>2, TypeKept DEF CancelUnmanaged

LEMMA AwaitType ==
  ASSUME TypeInv, NEW c \in Caller, Await(c)
  PROVE  TypeInv'
  <1>1. ThreadTypeOK'
    BY Sets DEF Await, ThreadTypeOK, ControlOK, InSetStatus, InTerminate,
      ManagerTypeOK, Label, CallerLabel, WorkerLabel, SharedLabel,
      FinalStatus, keyVars
  <1>2. ControlOK'
    BY Sets DEF Await, ThreadTypeOK, ManagerTypeOK, ControlOK, Idle,
      InSetStatus, InTerminate, CallerLabel, WorkerLabel, SharedLabel,
      FinalStatus
  <1> QED
    BY <1>1, <1>2, TypeKept DEF Await

LEMMA AwaitCheckType ==
  ASSUME TypeInv, NEW c \in Caller, AwaitCheck(c)
  PROVE  TypeInv'
  <1>1. ThreadTypeOK'
    <2>1. pc' \in [Thread -> Label]
      BY Sets DEF AwaitCheck, ThreadTypeOK, Label, CallerLabel, WorkerLabel,
        SharedLabel
    <2>2. cur' \in [Thread -> Run \cup {None}]
      BY Sets DEF AwaitCheck, ThreadTypeOK
    <2>3. want' \in [Thread -> FinalStatus \cup {"running", None}]
      BY Sets DEF AwaitCheck, ThreadTypeOK, FinalStatus
    <2>4. ret' \in [Thread -> Label \cup {None}]
      BY Sets DEF AwaitCheck, ThreadTypeOK, Label, CallerLabel, WorkerLabel,
        SharedLabel
    <2> QED
      BY <2>1, <2>2, <2>3, <2>4 DEF AwaitCheck, keyVars, ThreadTypeOK
  <1>2. ControlOK'
    BY Sets DEF AwaitCheck, ThreadTypeOK, ControlOK, Idle, InSetStatus,
      InTerminate, CallerLabel, WorkerLabel, SharedLabel, FinalStatus
  <1> QED
    BY <1>1, <1>2, TypeKept DEF AwaitCheck

LEMMA AwaitTimeoutType ==
  ASSUME TypeInv, NEW c \in Caller, AwaitTimeout(c)
  PROVE  TypeInv'
  <1>1. ThreadTypeOK'
    BY Sets DEF AwaitTimeout, ThreadTypeOK, ControlOK, InSetStatus,
      InTerminate, ManagerTypeOK, Label, CallerLabel, WorkerLabel,
      SharedLabel, FinalStatus, keyVars
  <1>2. ControlOK'
    BY Sets DEF AwaitTimeout, ThreadTypeOK, ControlOK, Idle, InSetStatus,
      InTerminate, CallerLabel, WorkerLabel, SharedLabel, FinalStatus
  <1> QED
    BY <1>1, <1>2, TypeKept DEF AwaitTimeout

LEMMA ShutdownType ==
  ASSUME TypeInv, NEW c \in Caller, Shutdown(c)
  PROVE  TypeInv'
  <1>1. ManagerTypeOK'
    BY Sets, Limits DEF Shutdown, ManagerTypeOK, ThreadTypeOK, ControlOK,
      Idle, InSetStatus, keyVars, procVars, runVars, sessionVars
  <1>2. ThreadTypeOK'
    BY Sets DEF Shutdown, ThreadTypeOK, ControlOK, InSetStatus, InTerminate,
      ManagerTypeOK, Label, CallerLabel, WorkerLabel, SharedLabel,
      FinalStatus, keyVars
  <1>3. ControlOK'
    BY Sets DEF Shutdown, ThreadTypeOK, ControlOK, Idle, InSetStatus,
      InTerminate, CallerLabel, WorkerLabel, SharedLabel, FinalStatus
  <1> QED
    BY <1>1, <1>2, <1>3, TypeKept DEF Shutdown

LEMMA ShutdownRunType ==
  ASSUME TypeInv, NEW c \in Caller, ShutdownRun(c)
  PROVE  TypeInv'
  <1>1. ManagerTypeOK'
    BY Sets, Limits DEF ShutdownRun, ManagerTypeOK, ThreadTypeOK, ControlOK,
      Idle, InSetStatus, keyVars, procVars, sessionVars
  <1>2. RunTypeOK'
    BY Sets DEF ShutdownRun, RunTypeOK, ThreadTypeOK, ControlOK, Idle,
      InSetStatus, Outcome, FinalStatus, keyVars, procVars, sessionVars
  <1>3. ThreadTypeOK'
    <2>1. pc' \in [Thread -> Label]
      BY Sets DEF ShutdownRun, ThreadTypeOK, Label, CallerLabel, WorkerLabel,
        SharedLabel
    <2>2. cur' \in [Thread -> Run \cup {None}]
      <3>1. UNCHANGED cur \/ \E r \in sweep : cur' = [cur EXCEPT ![c] = r]
        BY DEF ShutdownRun
      <3> QED
        BY <3>1 DEF TypeInv, TypeOK, ThreadTypeOK, ManagerTypeOK
    <2>3. want' \in [Thread -> FinalStatus \cup {"running", None}]
      BY Sets DEF ShutdownRun, ThreadTypeOK, FinalStatus
    <2>4. ret' \in [Thread -> Label \cup {None}]
      BY Sets DEF ShutdownRun, ThreadTypeOK, Label, CallerLabel, WorkerLabel,
        SharedLabel
    <2> QED
      BY <2>1, <2>2, <2>3, <2>4 DEF ShutdownRun, keyVars, ThreadTypeOK
  <1>4. ControlOK'
    BY Sets DEF ShutdownRun, ThreadTypeOK, ManagerTypeOK, ControlOK, Idle,
      InSetStatus, InTerminate, CallerLabel, WorkerLabel, SharedLabel,
      FinalStatus
  <1> QED
    BY <1>1, <1>2, <1>3, <1>4, TypeKept DEF ShutdownRun

LEMMA ExitType ==
  ASSUME TypeInv, NEW c \in Caller, Exit(c)
  PROVE  TypeInv'
  <1>1. ThreadTypeOK'
    BY Sets DEF Exit, ThreadTypeOK, ControlOK, InSetStatus, InTerminate,
      ManagerTypeOK, Label, CallerLabel, WorkerLabel, SharedLabel,
      FinalStatus, keyVars
  <1>2. ControlOK'
    BY Sets DEF Exit, ThreadTypeOK, ControlOK, Idle, InSetStatus, InTerminate,
      CallerLabel, WorkerLabel, SharedLabel, FinalStatus
  <1> QED
    BY <1>1, <1>2, TypeKept DEF Exit

LEMMA WorkerLoopType ==
  ASSUME TypeInv, NEW w \in Worker, WorkerLoop(w)
  PROVE  TypeInv'
  <1>1. ThreadTypeOK'
    BY Sets DEF WorkerLoop, ThreadTypeOK, ControlOK, InSetStatus, InTerminate,
      ManagerTypeOK, Label, CallerLabel, WorkerLabel, SharedLabel,
      FinalStatus, keyVars
  <1>2. ControlOK'
    BY Sets DEF WorkerLoop, ThreadTypeOK, ControlOK, Idle, InSetStatus,
      InTerminate, CallerLabel, WorkerLabel, SharedLabel, FinalStatus
  <1> QED
    BY <1>1, <1>2, TypeKept DEF WorkerLoop

LEMMA GetEmptyType ==
  ASSUME TypeInv, NEW w \in Worker, GetEmpty(w)
  PROVE  TypeInv'
  <1>1. ThreadTypeOK'
    BY Sets DEF GetEmpty, ThreadTypeOK, ControlOK, InSetStatus, InTerminate,
      ManagerTypeOK, Label, CallerLabel, WorkerLabel, SharedLabel,
      FinalStatus, keyVars
  <1>2. ControlOK'
    BY Sets DEF GetEmpty, ThreadTypeOK, ControlOK, Idle, InSetStatus,
      InTerminate, CallerLabel, WorkerLabel, SharedLabel, FinalStatus
  <1> QED
    BY <1>1, <1>2, TypeKept DEF GetEmpty

LEMMA GetRunType ==
  ASSUME TypeInv, NEW w \in Worker, GetRun(w)
  PROVE  TypeInv'
  <1>1. ManagerTypeOK'
    BY Sets, Limits DEF GetRun, ManagerTypeOK, ThreadTypeOK, ControlOK, Idle,
      InSetStatus, keyVars, procVars, runVars, sessionVars
  <1>2. ThreadTypeOK'
    BY Sets DEF GetRun, ThreadTypeOK, ControlOK, InSetStatus, InTerminate,
      ManagerTypeOK, Label, CallerLabel, WorkerLabel, SharedLabel,
      FinalStatus, keyVars
  <1>3. ControlOK'
    BY Sets DEF GetRun, ThreadTypeOK, ManagerTypeOK, ControlOK, Idle,
      InSetStatus, InTerminate, CallerLabel, WorkerLabel, SharedLabel,
      FinalStatus
  <1> QED
    BY <1>1, <1>2, <1>3, TypeKept DEF GetRun

LEMMA RunManagedType ==
  ASSUME TypeInv, NEW w \in Worker, RunManaged(w)
  PROVE  TypeInv'
  <1>1. ThreadTypeOK'
    <2>1. pc' \in [Thread -> Label]
      BY Sets DEF RunManaged, ThreadTypeOK, Label, CallerLabel, WorkerLabel,
        SharedLabel
    <2>2. cur' \in [Thread -> Run \cup {None}]
      BY Sets DEF RunManaged, ThreadTypeOK
    <2>3. want' \in [Thread -> FinalStatus \cup {"running", None}]
      BY Sets DEF RunManaged, ThreadTypeOK, FinalStatus
    <2>4. ret' \in [Thread -> Label \cup {None}]
      BY Sets DEF RunManaged, ThreadTypeOK, Label, CallerLabel, WorkerLabel,
        SharedLabel
    <2> QED
      BY <2>1, <2>2, <2>3, <2>4 DEF RunManaged, keyVars, ThreadTypeOK
  <1>2. ControlOK'
    BY Sets DEF RunManaged, ThreadTypeOK, ControlOK, Idle, InSetStatus,
      InTerminate, CallerLabel, WorkerLabel, SharedLabel, FinalStatus
  <1> QED
    BY <1>1, <1>2, TypeKept DEF RunManaged

LEMMA PreparePromptType ==
  ASSUME TypeInv, NEW w \in Worker, PreparePrompt(w)
  PROVE  TypeInv'
  <1>1. SessionTypeOK'
    BY Sets DEF PreparePrompt, SessionTypeOK, ThreadTypeOK, ControlOK, Idle,
      InSetStatus, OpenStatus, FinalStatus, keyVars, managerVars, procVars,
      runVars
  <1>2. ThreadTypeOK'
    BY Sets DEF PreparePrompt, ThreadTypeOK, ControlOK, InSetStatus,
      InTerminate, ManagerTypeOK, Label, CallerLabel, WorkerLabel,
      SharedLabel, FinalStatus, keyVars
  <1>3. ControlOK'
    BY Sets DEF PreparePrompt, ThreadTypeOK, ControlOK, Idle, InSetStatus,
      InTerminate, CallerLabel, WorkerLabel, SharedLabel, FinalStatus
  <1> QED
    BY <1>1, <1>2, <1>3, TypeKept DEF PreparePrompt

LEMMA StartAgyType ==
  ASSUME TypeInv, NEW w \in Worker, StartAgy(w)
  PROVE  TypeInv'
  <1>1. ProcTypeOK'
    <2>1. /\ UNCHANGED <<termReq, verdict, killedBy>>
          /\ \/ UNCHANGED proc
             \/ \E r : proc' = [proc EXCEPT ![r] = "alive"]
      BY DEF StartAgy
    <2> QED
      BY <2>1 DEF TypeInv, TypeOK, ProcTypeOK
  <1>2. ThreadTypeOK'
    <2>1. w \in Thread /\ UNCHANGED <<keyLock, key, cur>>
      BY DEF StartAgy, keyVars
    <2>2. \/ pc' = [pc EXCEPT ![w] = "register"] /\ UNCHANGED <<want, ret>>
          \/ /\ pc' = [pc EXCEPT ![w] = "setStatus"]
             /\ want' = [want EXCEPT ![w] = "error"]
             /\ ret' = [ret EXCEPT ![w] = "return"]
      BY DEF StartAgy
    <2>3. {"register", "setStatus", "return"} \subseteq Label
          /\ "error" \in FinalStatus
      BY DEF Label, SharedLabel, WorkerLabel, FinalStatus
    <2> QED
      BY <2>1, <2>2, <2>3 DEF ThreadTypeOK
  <1>3. ControlOK'
    BY Sets DEF StartAgy, ThreadTypeOK, ControlOK, Idle, InSetStatus,
      InTerminate, CallerLabel, WorkerLabel, SharedLabel, FinalStatus
  <1> QED
    BY <1>1, <1>2, <1>3, TypeKept DEF StartAgy

LEMMA RegisterProcessType ==
  ASSUME TypeInv, NEW w \in Worker, RegisterProcess(w)
  PROVE  TypeInv'
  <1>1. RunTypeOK'
    BY Sets DEF RegisterProcess, Woken, RunTypeOK, ThreadTypeOK, ControlOK,
      Idle, InSetStatus, Outcome, FinalStatus, keyVars, managerVars, procVars,
      sessionVars
  <1>2. ThreadTypeOK'
    BY Sets DEF RegisterProcess, Woken, ThreadTypeOK, ControlOK, InSetStatus,
      InTerminate, ManagerTypeOK, Label, CallerLabel, WorkerLabel,
      SharedLabel, FinalStatus, keyVars
  <1>3. ControlOK'
    BY Sets DEF RegisterProcess, Woken, ThreadTypeOK, ControlOK, Idle,
      InSetStatus, InTerminate, CallerLabel, WorkerLabel, SharedLabel,
      FinalStatus
  <1> QED
    BY <1>1, <1>2, <1>3, TypeKept DEF RegisterProcess

LEMMA PollExitedType ==
  ASSUME TypeInv, NEW w \in Worker, PollExited(w)
  PROVE  TypeInv'
  <1>1. ThreadTypeOK'
    BY Sets DEF PollExited, ThreadTypeOK, ControlOK, InSetStatus, InTerminate,
      ManagerTypeOK, Label, CallerLabel, WorkerLabel, SharedLabel,
      FinalStatus, keyVars
  <1>2. ControlOK'
    BY Sets DEF PollExited, ThreadTypeOK, ControlOK, Idle, InSetStatus,
      InTerminate, CallerLabel, WorkerLabel, SharedLabel, FinalStatus
  <1> QED
    BY <1>1, <1>2, TypeKept DEF PollExited

LEMMA PollCancelledType ==
  ASSUME TypeInv, NEW w \in Worker, PollCancelled(w)
  PROVE  TypeInv'
  <1>1. ProcTypeOK'
    BY Sets DEF PollCancelled, PollStop, ProcTypeOK, ThreadTypeOK, ControlOK,
      Idle, InSetStatus, keyVars, managerVars, runVars, sessionVars
  <1>2. ThreadTypeOK'
    BY Sets DEF PollCancelled, PollStop, ThreadTypeOK, ControlOK, InSetStatus,
      InTerminate, ManagerTypeOK, Label, CallerLabel, WorkerLabel,
      SharedLabel, FinalStatus, keyVars
  <1>3. ControlOK'
    BY Sets DEF PollCancelled, PollStop, ThreadTypeOK, ControlOK, Idle,
      InSetStatus, InTerminate, CallerLabel, WorkerLabel, SharedLabel,
      FinalStatus
  <1> QED
    BY <1>1, <1>2, <1>3, TypeKept DEF PollCancelled, PollStop

LEMMA PollTimeoutType ==
  ASSUME TypeInv, NEW w \in Worker, PollTimeout(w)
  PROVE  TypeInv'
  <1>1. ProcTypeOK'
    BY Sets DEF PollTimeout, PollStop, ProcTypeOK, ThreadTypeOK, ControlOK,
      Idle, InSetStatus, keyVars, managerVars, runVars, sessionVars
  <1>2. ThreadTypeOK'
    BY Sets DEF PollTimeout, PollStop, ThreadTypeOK, ControlOK, InSetStatus,
      InTerminate, ManagerTypeOK, Label, CallerLabel, WorkerLabel,
      SharedLabel, FinalStatus, keyVars
  <1>3. ControlOK'
    BY Sets DEF PollTimeout, PollStop, ThreadTypeOK, ControlOK, Idle,
      InSetStatus, InTerminate, CallerLabel, WorkerLabel, SharedLabel,
      FinalStatus
  <1> QED
    BY <1>1, <1>2, <1>3, TypeKept DEF PollTimeout, PollStop

LEMMA ClassifyType ==
  ASSUME TypeInv, NEW w \in Worker, Classify(w)
  PROVE  TypeInv'
  <1>1. ProcTypeOK'
    BY Sets DEF Classify, Outcomes, Verdict, ProcTypeOK, ThreadTypeOK,
      ControlOK, Idle, InSetStatus, keyVars, managerVars, runVars, sessionVars
  <1>2. ThreadTypeOK'
    BY Sets DEF Classify, Outcomes, Verdict, ThreadTypeOK, ControlOK,
      InSetStatus, InTerminate, ManagerTypeOK, Label, CallerLabel,
      WorkerLabel, SharedLabel, FinalStatus, keyVars
  <1>3. ControlOK'
    BY Sets DEF Classify, Outcomes, Verdict, ThreadTypeOK, ControlOK, Idle,
      InSetStatus, InTerminate, CallerLabel, WorkerLabel, SharedLabel,
      FinalStatus
  <1> QED
    BY <1>1, <1>2, <1>3, TypeKept DEF Classify

LEMMA ReturnType ==
  ASSUME TypeInv, NEW w \in Worker, Return(w)
  PROVE  TypeInv'
  <1>1. RunTypeOK'
    BY Sets DEF Return, RunTypeOK, ThreadTypeOK, ControlOK, Idle, InSetStatus,
      Outcome, FinalStatus, keyVars, managerVars, procVars, sessionVars
  <1>2. ThreadTypeOK'
    BY Sets DEF Return, ThreadTypeOK, ControlOK, InSetStatus, InTerminate,
      ManagerTypeOK, Label, CallerLabel, WorkerLabel, SharedLabel,
      FinalStatus, keyVars
  <1>3. ControlOK'
    BY Sets DEF Return, ThreadTypeOK, ControlOK, Idle, InSetStatus,
      InTerminate, CallerLabel, WorkerLabel, SharedLabel, FinalStatus
  <1> QED
    BY <1>1, <1>2, <1>3, TypeKept DEF Return

LEMMA RaiseType ==
  ASSUME TypeInv, NEW w \in Worker, Raise(w)
  PROVE  TypeInv'
  <1>1. RunTypeOK'
    BY Sets DEF Raise, RunTypeOK, ThreadTypeOK, ControlOK, Idle, InSetStatus,
      Outcome, FinalStatus, keyVars, managerVars, procVars, sessionVars
  <1>2. ThreadTypeOK'
    <2>1. w \in Thread /\ UNCHANGED <<keyLock, key, cur>>
      BY DEF Raise, Thread, keyVars
    <2>2. \/ pc' = [pc EXCEPT ![w] = "setDone"] /\ UNCHANGED <<want, ret>>
          \/ /\ pc' = [pc EXCEPT ![w] = "setStatus"]
             /\ want' = [want EXCEPT ![w] = "error"]
             /\ ret' = [ret EXCEPT ![w] = "setDone"]
      BY DEF Raise, CallSetStatus, Goto
    <2>3. {"setDone", "setStatus"} \subseteq Label /\ "error" \in FinalStatus
      BY DEF Label, SharedLabel, FinalStatus
    <2> QED
      BY <2>1, <2>2, <2>3 DEF ThreadTypeOK, TypeInv, TypeOK
  <1>3. ControlOK'
    BY Sets DEF Raise, ThreadTypeOK, ControlOK, Idle, InSetStatus,
      InTerminate, CallerLabel, WorkerLabel, SharedLabel, FinalStatus
  <1> QED
    BY <1>1, <1>2, <1>3, TypeKept DEF Raise

LEMMA AgyExitsType ==
  ASSUME TypeInv, NEW r \in Run, AgyExits(r)
  PROVE  TypeInv'
  <1>1. ProcTypeOK'
    BY DEF AgyExits, ProcTypeOK
  <1>2. ControlOK'
    BY DEF AgyExits, threadVars, ControlOK, InSetStatus, InTerminate
  <1> QED
    BY <1>1, <1>2, TypeKept DEF AgyExits

LEMMA TypeStutter ==
  ASSUME TypeInv, UNCHANGED vars
  PROVE  TypeInv'
  <1>1. ControlOK'
    BY DEF vars, threadVars, ControlOK, InSetStatus, InTerminate
  <1> QED
    BY <1>1, TypeKept DEF vars

LEMMA TypeStep ==
  ASSUME TypeInv, [Next]_vars
  PROVE  TypeInv'
  <1>1. ASSUME NEW t \in Thread, Shared(t) PROVE TypeInv'
    BY <1>1, SetStatusType, LogStatusType, SignalType, KillType, SetDoneType,
      NotifyAllType, EvictType DEF Shared
  <1>2. ASSUME NEW c \in Caller, CallerCalls(c) \/ CallerGoesOn(c) \/ AwaitTimeout(c)
        PROVE TypeInv'
    BY <1>1, <1>2, StartLockType, AcquireKeyType, FindInMemoryType,
      FindOnDiskType, CreateSessionType, InsertType, EnqueueType, AcceptType,
      ReleaseType, CancelType, CancelFlagType, CancelCondType,
      CancelIfStillQueuedType, CancelEndType, CancelUnmanagedType, AwaitType,
      AwaitCheckType, AwaitTimeoutType, ShutdownType, ShutdownRunType,
      ExitType DEF CallerCalls, CallerGoesOn
  <1>3. ASSUME NEW w \in Worker, WorkerStep(w) \/ PollTimeout(w) \/ Raise(w)
        PROVE TypeInv'
    BY <1>1, <1>3, WorkerLoopType, GetEmptyType, GetRunType, RunManagedType,
      PreparePromptType, StartAgyType, RegisterProcessType, PollExitedType,
      PollCancelledType, PollTimeoutType, ClassifyType, ReturnType, RaiseType
      DEF WorkerStep
  <1> QED
    BY <1>2, <1>3, AgyExitsType, TypeStutter DEF Next

(* Every variable keeps its type, in every state of the server.            *)
THEOREM TypeCorrect == Spec => []TypeOK
  <1>1. TypeInv => TypeOK
    OBVIOUS
  <1> QED
    BY <1>1, TypeInit, TypeStep, PTL DEF Spec

-----------------------------------------------------------------------------
(* One mover of every run.                                                *)

(* What a step that neither moves a run nor touches the queue looks like.  *)
Quiet == /\ UNCHANGED <<runs, workQueue, done, result>>
         /\ \A r \in Run : status[r] # "absent" => status'[r] # "absent"
         /\ \A t \in Thread :
              /\ Moves(t)' => Moves(t) /\ cur'[t] = cur[t]
              /\ Unsettled(t)' => Unsettled(t)
              /\ Settling(t)' => Settling(t)
              /\ pc'[t] = "insert" <=> pc[t] = "insert"
              /\ pc'[t] \in {"notify", "evict"} => pc[t] \in {"notify", "evict"}

LEMMA QuietMover ==
  ASSUME TypeInv, TypeInv', OneMover, Quiet
  PROVE  OneMover'

  <1>1. AbsentFresh'
    BY Sets DEF Quiet, OneMover, ThreadTypeOK, ManagerTypeOK, ControlOK, Idle,
      Moves, AbsentFresh
  <1>2. MoverIsOne'
    BY Sets DEF Quiet, OneMover, ThreadTypeOK, ManagerTypeOK, ControlOK, Idle,
      Moves, MoverIsOne
  <1>3. MoverOrQueue'
    BY Sets DEF Quiet, OneMover, ThreadTypeOK, ManagerTypeOK, ControlOK, Idle,
      Moves, MoverOrQueue, Queued
  <1>4. QueuedOnce'
    BY Sets DEF Quiet, OneMover, ThreadTypeOK, ManagerTypeOK, ControlOK, Idle,
      Moves, QueuedOnce, Queued
  <1>5. QueuedFresh'
    BY Sets DEF Quiet, OneMover, ThreadTypeOK, ManagerTypeOK, ControlOK, Idle,
      Moves, QueuedFresh, Queued
  <1>6. MoverInserts'
    BY Sets DEF Quiet, OneMover, ThreadTypeOK, ManagerTypeOK, ControlOK, Idle,
      Moves, MoverInserts, Unsettled
  <1>7. MoverManages'
    BY Sets DEF Quiet, OneMover, ThreadTypeOK, ManagerTypeOK, ControlOK, Idle,
      Moves, MoverManages
  <1>8. ResultIsLast'
    BY Sets DEF Quiet, OneMover, ThreadTypeOK, ManagerTypeOK, ControlOK, Idle,
      Moves, ResultIsLast, Settling
  <1> QED
    BY <1>1, <1>2, <1>3, <1>4, <1>5, <1>6, <1>7, <1>8 DEF OneMover

LEMMA InitMover == Init => OneMover
  <1> SUFFICES ASSUME Init PROVE OneMover
    OBVIOUS
  <1>1. AbsentFresh
    BY DEF Init, AbsentFresh, OldSession
  <1>2. Len(workQueue) = 0
    BY DEF Init
  <1>3. \A t \in Thread : pc[t] \in {"idle", "loop"}
    BY DEF Init
  <1>4. \A t \in Thread : ~Moves(t) /\ ~Settling(t) /\ ~Unsettled(t)
    BY <1>3 DEF Moves, Settling, Unsettled, InSetStatus
  <1>5. QueuedOnce /\ QueuedFresh
    BY <1>2 DEF QueuedOnce, QueuedFresh, Queued
  <1>6. MoverIsOne /\ MoverOrQueue /\ MoverInserts /\ MoverManages /\ ResultIsLast
    BY <1>3, <1>4 DEF MoverIsOne, MoverOrQueue, MoverInserts, MoverManages,
      ResultIsLast
  <1> QED
    BY <1>1, <1>5, <1>6 DEF OneMover

LEMMA SharedQuiet ==
  ASSUME TypeInv, NEW t \in Thread
  PROVE  /\ SetStatus(t) => Quiet
         /\ LogStatus(t) => Quiet
         /\ Signal(t) => Quiet
         /\ Kill(t) => Quiet
         /\ NotifyAll(t) => Quiet
  <1>1. SetStatus(t) => Quiet
    BY Sets DEF Quiet, ThreadTypeOK, SessionTypeOK, ControlOK, Idle, Moves,
      Settling, Unsettled, InSetStatus, InTerminate, FinalStatus, SetStatus,
      keyVars, managerVars, procVars, runVars
  <1>2. LogStatus(t) => Quiet
    BY Sets DEF Quiet, ThreadTypeOK, SessionTypeOK, ControlOK, Idle, Moves,
      Settling, Unsettled, InSetStatus, InTerminate, FinalStatus, LogStatus,
      keyVars, managerVars, procVars, runVars
  <1>3. Signal(t) => Quiet
    BY Sets DEF Quiet, ThreadTypeOK, SessionTypeOK, ControlOK, Idle, Moves,
      Settling, Unsettled, InSetStatus, InTerminate, FinalStatus, Signal,
      keyVars, managerVars, runVars, sessionVars
  <1>4. Kill(t) => Quiet
    BY Sets DEF Quiet, ThreadTypeOK, SessionTypeOK, ControlOK, Idle, Moves,
      Settling, Unsettled, InSetStatus, InTerminate, FinalStatus, Kill,
      keyVars, managerVars, runVars, sessionVars
  <1>5. NotifyAll(t) => Quiet
    BY Sets DEF Quiet, ThreadTypeOK, SessionTypeOK, ControlOK, Idle, Moves,
      Settling, Unsettled, InSetStatus, InTerminate, FinalStatus, NotifyAll,
      Woken, keyVars, managerVars, procVars, runVars, sessionVars
  <1> QED
    BY <1>1, <1>2, <1>3, <1>4, <1>5

LEMMA CallerQuiet ==
  ASSUME TypeInv, NEW c \in Caller
  PROVE  /\ StartLock(c) => Quiet
         /\ AcquireKey(c) => Quiet
         /\ FindInMemory(c) => Quiet
         /\ FindOnDisk(c) => Quiet
         /\ Accept(c) => Quiet
         /\ Release(c) => Quiet
         /\ Cancel(c) => Quiet
         /\ CancelFlag(c) => Quiet
         /\ CancelCond(c) => Quiet
         /\ CancelIfStillQueued(c) => Quiet
         /\ CancelEnd(c) => Quiet
         /\ CancelUnmanaged(c) => Quiet
         /\ Await(c) => Quiet
         /\ AwaitCheck(c) => Quiet
         /\ AwaitTimeout(c) => Quiet
         /\ Shutdown(c) => Quiet
         /\ ShutdownRun(c) => Quiet
         /\ Exit(c) => Quiet
  <1>1. StartLock(c) => Quiet
    BY Sets DEF Quiet, ThreadTypeOK, SessionTypeOK, ControlOK, Idle, Moves,
      Settling, Unsettled, InSetStatus, InTerminate, FinalStatus, StartLock,
      managerVars, procVars, runVars, sessionVars
  <1>2. AcquireKey(c) => Quiet
    BY Sets DEF Quiet, ThreadTypeOK, SessionTypeOK, ControlOK, Idle, Moves,
      Settling, Unsettled, InSetStatus, InTerminate, FinalStatus, AcquireKey,
      managerVars, procVars, runVars, sessionVars
  <1>3. FindInMemory(c) => Quiet
    BY Sets DEF Quiet, ThreadTypeOK, SessionTypeOK, ControlOK, Idle, Moves,
      Settling, Unsettled, InSetStatus, InTerminate, FinalStatus,
      FindInMemory, keyVars, managerVars, procVars, runVars, sessionVars
  <1>4. FindOnDisk(c) => Quiet
    BY Sets DEF Quiet, ThreadTypeOK, SessionTypeOK, ControlOK, Idle, Moves,
      Settling, Unsettled, InSetStatus, InTerminate, FinalStatus, FindOnDisk,
      AcceptedFor, keyVars, procVars, runVars, sessionVars
  <1>5. Accept(c) => Quiet
    BY Sets DEF Quiet, ThreadTypeOK, SessionTypeOK, ControlOK, Idle, Moves,
      Settling, Unsettled, InSetStatus, InTerminate, FinalStatus, Accept,
      keyVars, managerVars, procVars, runVars
  <1>6. Release(c) => Quiet
    BY Sets DEF Quiet, ThreadTypeOK, SessionTypeOK, ControlOK, Idle, Moves,
      Settling, Unsettled, InSetStatus, InTerminate, FinalStatus, Release,
      managerVars, procVars, runVars, sessionVars
  <1>7. Cancel(c) => Quiet
    BY Sets DEF Quiet, ThreadTypeOK, SessionTypeOK, ControlOK, Idle, Moves,
      Settling, Unsettled, InSetStatus, InTerminate, FinalStatus, Cancel,
      keyVars, managerVars, procVars, runVars, sessionVars
  <1>8. CancelFlag(c) => Quiet
    BY Sets DEF Quiet, ThreadTypeOK, SessionTypeOK, ControlOK, Idle, Moves,
      Settling, Unsettled, InSetStatus, InTerminate, FinalStatus, CancelFlag,
      keyVars, managerVars, procVars, sessionVars
  <1>9. CancelCond(c) => Quiet
    BY Sets DEF Quiet, ThreadTypeOK, SessionTypeOK, ControlOK, Idle, Moves,
      Settling, Unsettled, InSetStatus, InTerminate, FinalStatus, CancelCond,
      keyVars, managerVars, procVars, sessionVars
  <1>10. CancelIfStillQueued(c) => Quiet
    BY Sets DEF Quiet, ThreadTypeOK, SessionTypeOK, ControlOK, Idle, Moves,
      Settling, Unsettled, InSetStatus, InTerminate, FinalStatus,
      CancelIfStillQueued, keyVars, managerVars, procVars, runVars,
      sessionVars
  <1>11. CancelEnd(c) => Quiet
    BY Sets DEF Quiet, ThreadTypeOK, SessionTypeOK, ControlOK, Idle, Moves,
      Settling, Unsettled, InSetStatus, InTerminate, FinalStatus, CancelEnd,
      keyVars, managerVars, procVars, sessionVars
  <1>12. CancelUnmanaged(c) => Quiet
    BY Sets DEF Quiet, ThreadTypeOK, SessionTypeOK, ControlOK, Idle, Moves,
      Settling, Unsettled, InSetStatus, InTerminate, FinalStatus,
      CancelUnmanaged, keyVars, managerVars, procVars, runVars, sessionVars
  <1>13. Await(c) => Quiet
    BY Sets DEF Quiet, ThreadTypeOK, SessionTypeOK, ControlOK, Idle, Moves,
      Settling, Unsettled, InSetStatus, InTerminate, FinalStatus, Await,
      keyVars, managerVars, procVars, runVars, sessionVars
  <1>14. AwaitCheck(c) => Quiet
    BY Sets DEF Quiet, ThreadTypeOK, SessionTypeOK, ControlOK, Idle, Moves,
      Settling, Unsettled, InSetStatus, InTerminate, FinalStatus, AwaitCheck,
      keyVars, managerVars, procVars, runVars, sessionVars
  <1>15. AwaitTimeout(c) => Quiet
    BY Sets DEF Quiet, ThreadTypeOK, SessionTypeOK, ControlOK, Idle, Moves,
      Settling, Unsettled, InSetStatus, InTerminate, FinalStatus,
      AwaitTimeout, keyVars, managerVars, procVars, runVars, sessionVars
  <1>16. Shutdown(c) => Quiet
    BY Sets DEF Quiet, ThreadTypeOK, SessionTypeOK, ControlOK, Idle, Moves,
      Settling, Unsettled, InSetStatus, InTerminate, FinalStatus, Shutdown,
      keyVars, procVars, runVars, sessionVars
  <1>17. ShutdownRun(c) => Quiet
    BY Sets DEF Quiet, ThreadTypeOK, SessionTypeOK, ControlOK, Idle, Moves,
      Settling, Unsettled, InSetStatus, InTerminate, FinalStatus, ShutdownRun,
      keyVars, procVars, sessionVars
  <1>18. Exit(c) => Quiet
    BY Sets DEF Quiet, ThreadTypeOK, SessionTypeOK, ControlOK, Idle, Moves,
      Settling, Unsettled, InSetStatus, InTerminate, FinalStatus, Exit,
      keyVars, managerVars, procVars, runVars, sessionVars
  <1> QED
    BY <1>1, <1>2, <1>3, <1>4, <1>5, <1>6, <1>7, <1>8, <1>9, <1>10, <1>11,
      <1>12, <1>13, <1>14, <1>15, <1>16, <1>17, <1>18

LEMMA WorkerQuiet ==
  ASSUME TypeInv, NEW w \in Worker
  PROVE  /\ WorkerLoop(w) => Quiet
         /\ GetEmpty(w) => Quiet
         /\ RunManaged(w) => Quiet
         /\ PreparePrompt(w) => Quiet
         /\ StartAgy(w) => Quiet
         /\ RegisterProcess(w) => Quiet
         /\ PollExited(w) => Quiet
         /\ PollCancelled(w) => Quiet
         /\ PollTimeout(w) => Quiet
         /\ Classify(w) => Quiet
  <1>1. WorkerLoop(w) => Quiet
    BY Sets DEF Quiet, ThreadTypeOK, SessionTypeOK, ControlOK, Idle, Moves,
      Settling, Unsettled, InSetStatus, InTerminate, FinalStatus, WorkerLoop,
      keyVars, managerVars, procVars, runVars, sessionVars
  <1>2. GetEmpty(w) => Quiet
    BY Sets DEF Quiet, ThreadTypeOK, SessionTypeOK, ControlOK, Idle, Moves,
      Settling, Unsettled, InSetStatus, InTerminate, FinalStatus, GetEmpty,
      keyVars, managerVars, procVars, runVars, sessionVars
  <1>3. RunManaged(w) => Quiet
    BY Sets DEF Quiet, ThreadTypeOK, SessionTypeOK, ControlOK, Idle, Moves,
      Settling, Unsettled, InSetStatus, InTerminate, FinalStatus, RunManaged,
      keyVars, managerVars, procVars, runVars, sessionVars
  <1>4. PreparePrompt(w) => Quiet
    BY Sets DEF Quiet, ThreadTypeOK, SessionTypeOK, ControlOK, Idle, Moves,
      Settling, Unsettled, InSetStatus, InTerminate, FinalStatus,
      PreparePrompt, keyVars, managerVars, procVars, runVars
  <1>5. StartAgy(w) => Quiet
    BY Sets DEF Quiet, ThreadTypeOK, SessionTypeOK, ControlOK, Idle, Moves,
      Settling, Unsettled, InSetStatus, InTerminate, FinalStatus, StartAgy,
      keyVars, managerVars, runVars, sessionVars
  <1>6. RegisterProcess(w) => Quiet
    BY Sets DEF Quiet, ThreadTypeOK, SessionTypeOK, ControlOK, Idle, Moves,
      Settling, Unsettled, InSetStatus, InTerminate, FinalStatus,
      RegisterProcess, Woken, keyVars, managerVars, procVars, sessionVars
  <1>7. PollExited(w) => Quiet
    BY Sets DEF Quiet, ThreadTypeOK, SessionTypeOK, ControlOK, Idle, Moves,
      Settling, Unsettled, InSetStatus, InTerminate, FinalStatus, PollExited,
      keyVars, managerVars, procVars, runVars, sessionVars
  <1>8. PollCancelled(w) => Quiet
    BY Sets DEF Quiet, ThreadTypeOK, SessionTypeOK, ControlOK, Idle, Moves,
      Settling, Unsettled, InSetStatus, InTerminate, FinalStatus,
      PollCancelled, PollStop, keyVars, managerVars, runVars, sessionVars
  <1>9. PollTimeout(w) => Quiet
    BY Sets DEF Quiet, ThreadTypeOK, SessionTypeOK, ControlOK, Idle, Moves,
      Settling, Unsettled, InSetStatus, InTerminate, FinalStatus, PollTimeout,
      PollStop, keyVars, managerVars, runVars, sessionVars
  <1>10. Classify(w) => Quiet
    BY Sets DEF Quiet, ThreadTypeOK, SessionTypeOK, ControlOK, Idle, Moves,
      Settling, Unsettled, InSetStatus, InTerminate, FinalStatus, Classify,
      Outcomes, Verdict, keyVars, managerVars, runVars, sessionVars
  <1> QED
    BY <1>1, <1>2, <1>3, <1>4, <1>5, <1>6, <1>7, <1>8, <1>9, <1>10

LEMMA CreateSessionMover ==
  ASSUME TypeInv, TypeInv', OneMover, NEW c \in Caller, CreateSession(c)
  PROVE  OneMover'
  <1>1. AbsentFresh'
    BY Sets DEF ThreadTypeOK, ManagerTypeOK, SessionTypeOK, RunTypeOK,
      ControlOK, Idle, OneMover, Moves, Settling, Unsettled, InSetStatus,
      CreateSession, keyVars, managerVars, procVars, runVars, AbsentFresh,
      QueuedFresh, MoverInserts, ResultIsLast
  <1>2. MoverIsOne'
    BY Sets DEF ThreadTypeOK, ManagerTypeOK, SessionTypeOK, RunTypeOK,
      ControlOK, Idle, OneMover, Moves, Settling, Unsettled, InSetStatus,
      CreateSession, keyVars, managerVars, procVars, runVars, MoverIsOne,
      AbsentFresh, MoverInserts, MoverManages, MoverOrQueue, QueuedOnce,
      Queued
  <1>3. MoverOrQueue'
    BY Sets DEF ThreadTypeOK, ManagerTypeOK, SessionTypeOK, RunTypeOK,
      ControlOK, Idle, OneMover, Moves, Settling, Unsettled, InSetStatus,
      CreateSession, keyVars, managerVars, procVars, runVars, MoverOrQueue,
      Queued, QueuedFresh, AbsentFresh, QueuedOnce, MoverIsOne
  <1>4. QueuedOnce'
    BY Sets DEF ThreadTypeOK, ManagerTypeOK, SessionTypeOK, RunTypeOK,
      ControlOK, Idle, OneMover, Moves, Settling, Unsettled, InSetStatus,
      CreateSession, keyVars, managerVars, procVars, runVars, QueuedOnce,
      Queued
  <1>5. QueuedFresh'
    BY Sets DEF ThreadTypeOK, ManagerTypeOK, SessionTypeOK, RunTypeOK,
      ControlOK, Idle, OneMover, Moves, Settling, Unsettled, InSetStatus,
      CreateSession, keyVars, managerVars, procVars, runVars, QueuedFresh,
      Queued, AbsentFresh, MoverOrQueue, MoverManages
  <1>6. MoverInserts'
    BY Sets DEF ThreadTypeOK, ManagerTypeOK, SessionTypeOK, RunTypeOK,
      ControlOK, Idle, OneMover, Moves, Settling, Unsettled, InSetStatus,
      CreateSession, keyVars, managerVars, procVars, runVars, MoverInserts,
      AbsentFresh, MoverIsOne, MoverManages
  <1>7. MoverManages'
    BY Sets DEF ThreadTypeOK, ManagerTypeOK, SessionTypeOK, RunTypeOK,
      ControlOK, Idle, OneMover, Moves, Settling, Unsettled, InSetStatus,
      CreateSession, keyVars, managerVars, procVars, runVars, MoverManages,
      MoverIsOne, MoverInserts, MoverOrQueue, Queued, QueuedFresh, AbsentFresh
  <1>8. ResultIsLast'
    BY Sets DEF ThreadTypeOK, ManagerTypeOK, SessionTypeOK, RunTypeOK,
      ControlOK, Idle, OneMover, Moves, Settling, Unsettled, InSetStatus,
      CreateSession, keyVars, managerVars, procVars, runVars, ResultIsLast,
      AbsentFresh, MoverIsOne, QueuedFresh, Queued, MoverInserts, MoverManages
  <1> QED
    BY <1>1, <1>2, <1>3, <1>4, <1>5, <1>6, <1>7, <1>8 DEF OneMover

LEMMA InsertMover ==
  ASSUME TypeInv, TypeInv', OneMover, NEW c \in Caller, Insert(c)
  PROVE  OneMover'
  <1>1. AbsentFresh'
    BY Sets DEF ThreadTypeOK, ManagerTypeOK, SessionTypeOK, RunTypeOK,
      ControlOK, Idle, OneMover, Moves, Settling, Unsettled, InSetStatus,
      Insert, keyVars, procVars, sessionVars, AbsentFresh, QueuedFresh,
      MoverInserts, ResultIsLast
  <1>2. MoverIsOne'
    BY Sets DEF ThreadTypeOK, ManagerTypeOK, SessionTypeOK, RunTypeOK,
      ControlOK, Idle, OneMover, Moves, Settling, Unsettled, InSetStatus,
      Insert, keyVars, procVars, sessionVars, MoverIsOne, AbsentFresh,
      MoverInserts, MoverManages, MoverOrQueue, QueuedOnce, Queued
  <1>3. MoverOrQueue'
    BY Sets DEF ThreadTypeOK, ManagerTypeOK, SessionTypeOK, RunTypeOK,
      ControlOK, Idle, OneMover, Moves, Settling, Unsettled, InSetStatus,
      Insert, keyVars, procVars, sessionVars, MoverOrQueue, Queued,
      QueuedFresh, AbsentFresh, QueuedOnce, MoverIsOne
  <1>4. QueuedOnce'
    BY Sets DEF ThreadTypeOK, ManagerTypeOK, SessionTypeOK, RunTypeOK,
      ControlOK, Idle, OneMover, Moves, Settling, Unsettled, InSetStatus,
      Insert, keyVars, procVars, sessionVars, QueuedOnce, Queued
  <1>5. QueuedFresh'
    BY Sets DEF ThreadTypeOK, ManagerTypeOK, SessionTypeOK, RunTypeOK,
      ControlOK, Idle, OneMover, Moves, Settling, Unsettled, InSetStatus,
      Insert, keyVars, procVars, sessionVars, QueuedFresh, Queued,
      AbsentFresh, MoverOrQueue, MoverManages
  <1>6. MoverInserts'
    BY Sets DEF ThreadTypeOK, ManagerTypeOK, SessionTypeOK, RunTypeOK,
      ControlOK, Idle, OneMover, Moves, Settling, Unsettled, InSetStatus,
      Insert, keyVars, procVars, sessionVars, MoverInserts, AbsentFresh,
      MoverIsOne, MoverManages
  <1>7. MoverManages'
    BY Sets DEF ThreadTypeOK, ManagerTypeOK, SessionTypeOK, RunTypeOK,
      ControlOK, Idle, OneMover, Moves, Settling, Unsettled, InSetStatus,
      Insert, keyVars, procVars, sessionVars, MoverManages, MoverIsOne,
      MoverInserts, MoverOrQueue, Queued, QueuedFresh, AbsentFresh
  <1>8. ResultIsLast'
    BY Sets DEF ThreadTypeOK, ManagerTypeOK, SessionTypeOK, RunTypeOK,
      ControlOK, Idle, OneMover, Moves, Settling, Unsettled, InSetStatus,
      Insert, keyVars, procVars, sessionVars, ResultIsLast, AbsentFresh,
      MoverIsOne, QueuedFresh, Queued, MoverInserts, MoverManages
  <1> QED
    BY <1>1, <1>2, <1>3, <1>4, <1>5, <1>6, <1>7, <1>8 DEF OneMover

LEMMA GetRunMover ==
  ASSUME TypeInv, TypeInv', OneMover, NEW w \in Worker, GetRun(w)
  PROVE  OneMover'
  <1>1. AbsentFresh'
    BY Sets DEF ThreadTypeOK, ManagerTypeOK, SessionTypeOK, RunTypeOK,
      ControlOK, Idle, OneMover, Moves, Settling, Unsettled, InSetStatus,
      GetRun, keyVars, procVars, runVars, sessionVars, AbsentFresh,
      QueuedFresh, MoverInserts, ResultIsLast
  <1>2. MoverIsOne'
    BY Sets DEF ThreadTypeOK, ManagerTypeOK, SessionTypeOK, RunTypeOK,
      ControlOK, Idle, OneMover, Moves, Settling, Unsettled, InSetStatus,
      GetRun, keyVars, procVars, runVars, sessionVars, MoverIsOne,
      AbsentFresh, MoverInserts, MoverManages, MoverOrQueue, QueuedOnce,
      Queued
  <1>3. MoverOrQueue'
    BY Sets DEF ThreadTypeOK, ManagerTypeOK, SessionTypeOK, RunTypeOK,
      ControlOK, Idle, OneMover, Moves, Settling, Unsettled, InSetStatus,
      GetRun, keyVars, procVars, runVars, sessionVars, MoverOrQueue, Queued,
      QueuedFresh, AbsentFresh, QueuedOnce, MoverIsOne
  <1>4. QueuedOnce'
    BY Sets DEF ThreadTypeOK, ManagerTypeOK, SessionTypeOK, RunTypeOK,
      ControlOK, Idle, OneMover, Moves, Settling, Unsettled, InSetStatus,
      GetRun, keyVars, procVars, runVars, sessionVars, QueuedOnce, Queued
  <1>5. QueuedFresh'
    BY Sets DEF ThreadTypeOK, ManagerTypeOK, SessionTypeOK, RunTypeOK,
      ControlOK, Idle, OneMover, Moves, Settling, Unsettled, InSetStatus,
      GetRun, keyVars, procVars, runVars, sessionVars, QueuedFresh, Queued,
      AbsentFresh, MoverOrQueue, MoverManages
  <1>6. MoverInserts'
    BY Sets DEF ThreadTypeOK, ManagerTypeOK, SessionTypeOK, RunTypeOK,
      ControlOK, Idle, OneMover, Moves, Settling, Unsettled, InSetStatus,
      GetRun, keyVars, procVars, runVars, sessionVars, MoverInserts,
      AbsentFresh, MoverIsOne, MoverManages
  <1>7. MoverManages'
    BY Sets DEF ThreadTypeOK, ManagerTypeOK, SessionTypeOK, RunTypeOK,
      ControlOK, Idle, OneMover, Moves, Settling, Unsettled, InSetStatus,
      GetRun, keyVars, procVars, runVars, sessionVars, MoverManages,
      MoverIsOne, MoverInserts, MoverOrQueue, Queued, QueuedFresh, AbsentFresh
  <1>8. ResultIsLast'
    BY Sets DEF ThreadTypeOK, ManagerTypeOK, SessionTypeOK, RunTypeOK,
      ControlOK, Idle, OneMover, Moves, Settling, Unsettled, InSetStatus,
      GetRun, keyVars, procVars, runVars, sessionVars, ResultIsLast,
      AbsentFresh, MoverIsOne, QueuedFresh, Queued, MoverInserts, MoverManages
  <1> QED
    BY <1>1, <1>2, <1>3, <1>4, <1>5, <1>6, <1>7, <1>8 DEF OneMover

LEMMA SetDoneMover ==
  ASSUME TypeInv, TypeInv', OneMover, NEW t \in Thread, SetDone(t)
  PROVE  OneMover'
  <1>1. AbsentFresh'
    BY Sets DEF ThreadTypeOK, ManagerTypeOK, SessionTypeOK, RunTypeOK,
      ControlOK, Idle, OneMover, Moves, Settling, Unsettled, InSetStatus,
      SetDone, keyVars, managerVars, procVars, sessionVars, AbsentFresh,
      QueuedFresh, MoverInserts, ResultIsLast
  <1>2. MoverIsOne'
    BY Sets DEF ThreadTypeOK, ManagerTypeOK, SessionTypeOK, RunTypeOK,
      ControlOK, Idle, OneMover, Moves, Settling, Unsettled, InSetStatus,
      SetDone, keyVars, managerVars, procVars, sessionVars, MoverIsOne,
      AbsentFresh, MoverInserts, MoverManages, MoverOrQueue, QueuedOnce,
      Queued
  <1>3. MoverOrQueue'
    BY Sets DEF ThreadTypeOK, ManagerTypeOK, SessionTypeOK, RunTypeOK,
      ControlOK, Idle, OneMover, Moves, Settling, Unsettled, InSetStatus,
      SetDone, keyVars, managerVars, procVars, sessionVars, MoverOrQueue,
      Queued, QueuedFresh, AbsentFresh, QueuedOnce, MoverIsOne
  <1>4. QueuedOnce'
    BY Sets DEF ThreadTypeOK, ManagerTypeOK, SessionTypeOK, RunTypeOK,
      ControlOK, Idle, OneMover, Moves, Settling, Unsettled, InSetStatus,
      SetDone, keyVars, managerVars, procVars, sessionVars, QueuedOnce, Queued
  <1>5. QueuedFresh'
    BY Sets DEF ThreadTypeOK, ManagerTypeOK, SessionTypeOK, RunTypeOK,
      ControlOK, Idle, OneMover, Moves, Settling, Unsettled, InSetStatus,
      SetDone, keyVars, managerVars, procVars, sessionVars, QueuedFresh,
      Queued, AbsentFresh, MoverOrQueue, MoverManages
  <1>6. MoverInserts'
    BY Sets DEF ThreadTypeOK, ManagerTypeOK, SessionTypeOK, RunTypeOK,
      ControlOK, Idle, OneMover, Moves, Settling, Unsettled, InSetStatus,
      SetDone, keyVars, managerVars, procVars, sessionVars, MoverInserts,
      AbsentFresh, MoverIsOne, MoverManages
  <1>7. MoverManages'
    BY Sets DEF ThreadTypeOK, ManagerTypeOK, SessionTypeOK, RunTypeOK,
      ControlOK, Idle, OneMover, Moves, Settling, Unsettled, InSetStatus,
      SetDone, keyVars, managerVars, procVars, sessionVars, MoverManages,
      MoverIsOne, MoverInserts, MoverOrQueue, Queued, QueuedFresh, AbsentFresh
  <1>8. ResultIsLast'
    BY Sets DEF ThreadTypeOK, ManagerTypeOK, SessionTypeOK, RunTypeOK,
      ControlOK, Idle, OneMover, Moves, Settling, Unsettled, InSetStatus,
      SetDone, keyVars, managerVars, procVars, sessionVars, ResultIsLast,
      AbsentFresh, MoverIsOne, QueuedFresh, Queued, MoverInserts, MoverManages
  <1> QED
    BY <1>1, <1>2, <1>3, <1>4, <1>5, <1>6, <1>7, <1>8 DEF OneMover

LEMMA EvictMover ==
  ASSUME TypeInv, TypeInv', OneMover, NEW t \in Thread, Evict(t)
  PROVE  OneMover'
  <1>1. AbsentFresh'
    BY Sets DEF ThreadTypeOK, ManagerTypeOK, SessionTypeOK, RunTypeOK,
      ControlOK, Idle, OneMover, Moves, Settling, Unsettled, InSetStatus,
      Evict, keyVars, procVars, runVars, sessionVars, AbsentFresh,
      QueuedFresh, MoverInserts, ResultIsLast
  <1>2. MoverIsOne'
    BY Sets DEF ThreadTypeOK, ManagerTypeOK, SessionTypeOK, RunTypeOK,
      ControlOK, Idle, OneMover, Moves, Settling, Unsettled, InSetStatus,
      Evict, keyVars, procVars, runVars, sessionVars, MoverIsOne, AbsentFresh,
      MoverInserts, MoverManages, MoverOrQueue, QueuedOnce, Queued
  <1>3. MoverOrQueue'
    BY Sets DEF ThreadTypeOK, ManagerTypeOK, SessionTypeOK, RunTypeOK,
      ControlOK, Idle, OneMover, Moves, Settling, Unsettled, InSetStatus,
      Evict, keyVars, procVars, runVars, sessionVars, MoverOrQueue, Queued,
      QueuedFresh, AbsentFresh, QueuedOnce, MoverIsOne
  <1>4. QueuedOnce'
    BY Sets DEF ThreadTypeOK, ManagerTypeOK, SessionTypeOK, RunTypeOK,
      ControlOK, Idle, OneMover, Moves, Settling, Unsettled, InSetStatus,
      Evict, keyVars, procVars, runVars, sessionVars, QueuedOnce, Queued
  <1>5. QueuedFresh'
    BY Sets DEF ThreadTypeOK, ManagerTypeOK, SessionTypeOK, RunTypeOK,
      ControlOK, Idle, OneMover, Moves, Settling, Unsettled, InSetStatus,
      Evict, keyVars, procVars, runVars, sessionVars, QueuedFresh, Queued,
      AbsentFresh, MoverOrQueue, MoverManages
  <1>6. MoverInserts'
    BY Sets DEF ThreadTypeOK, ManagerTypeOK, SessionTypeOK, RunTypeOK,
      ControlOK, Idle, OneMover, Moves, Settling, Unsettled, InSetStatus,
      Evict, keyVars, procVars, runVars, sessionVars, MoverInserts,
      AbsentFresh, MoverIsOne, MoverManages
  <1>7. MoverManages'
    BY Sets DEF ThreadTypeOK, ManagerTypeOK, SessionTypeOK, RunTypeOK,
      ControlOK, Idle, OneMover, Moves, Settling, Unsettled, InSetStatus,
      Evict, keyVars, procVars, runVars, sessionVars, MoverManages,
      MoverIsOne, MoverInserts, MoverOrQueue, Queued, QueuedFresh, AbsentFresh
  <1>8. ResultIsLast'
    BY Sets DEF ThreadTypeOK, ManagerTypeOK, SessionTypeOK, RunTypeOK,
      ControlOK, Idle, OneMover, Moves, Settling, Unsettled, InSetStatus,
      Evict, keyVars, procVars, runVars, sessionVars, ResultIsLast,
      AbsentFresh, MoverIsOne, QueuedFresh, Queued, MoverInserts, MoverManages
  <1> QED
    BY <1>1, <1>2, <1>3, <1>4, <1>5, <1>6, <1>7, <1>8 DEF OneMover

(* The mover of a run gives it its result.                                 *)
Settles(t) ==
  /\ Unsettled(t) /\ pc[t] # "insert"
  /\ result'[cur[t]] # None
  /\ \A s \in Run \ {cur[t]} : result'[s] = result[s]
  /\ \A u \in Thread \ {t} : pc'[u] = pc[u] /\ ret'[u] = ret[u]
  /\ Settling(t)' /\ ~Unsettled(t)' /\ pc'[t] \notin {"insert", "notify", "evict"}
  /\ UNCHANGED <<cur, runs, workQueue, done, status>>

(* Threads whose control stays where it is move what they moved.           *)
LEMMA OthersStay ==
  ASSUME TypeInv, OneMover, NEW t \in Thread, Moves(t),
         \A u \in Thread \ {t} :
           pc'[u] = pc[u] /\ ret'[u] = ret[u] /\ cur'[u] = cur[u]
  PROVE  \A u \in Thread \ {t} :
           /\ Moves(u)' = Moves(u) /\ Unsettled(u)' = Unsettled(u)
           /\ Settling(u)' = Settling(u)
           /\ Unsettled(u) \/ Settling(u) \/ pc[u] \in {"notify", "evict"} => Moves(u)
           /\ Moves(u) => cur[u] \in Run \ {cur[t]}
  <1>1. \A u \in Thread : Moves(u) => cur[u] \in Run
    BY DEF ControlOK, Idle, Moves, Settling, Unsettled, InSetStatus
  <1>2. \A u \in Thread \ {t} : Moves(u) => cur[u] # cur[t]
    BY DEF OneMover, MoverIsOne
  <1> QED
    BY <1>1, <1>2 DEF Moves, Settling, Unsettled, InSetStatus

LEMMA SettleMover ==
  ASSUME TypeInv, OneMover, NEW t \in Thread, Settles(t)
  PROVE  OneMover'
  <1>1. Moves(t) /\ Moves(t)' /\ cur[t] \in Run /\ cur[t] \in runs
    BY DEF Settles, Moves, Unsettled, InSetStatus, ControlOK, Idle, OneMover,
      MoverManages
  <1>2. \A u \in Thread \ {t} :
          /\ Moves(u)' = Moves(u) /\ Unsettled(u)' = Unsettled(u)
          /\ Settling(u)' = Settling(u)
          /\ Unsettled(u) \/ Settling(u) \/ pc[u] \in {"notify", "evict"} => Moves(u)
          /\ Moves(u) => cur[u] \in Run \ {cur[t]}
    BY <1>1, OthersStay DEF Settles
  <1>3. MoverIsOne' /\ MoverOrQueue' /\ QueuedOnce'
    BY <1>1, <1>2 DEF Settles, OneMover, MoverIsOne, MoverOrQueue, QueuedOnce, Queued
  <1>4. AbsentFresh' /\ QueuedFresh'
    BY <1>1 DEF Settles, OneMover, AbsentFresh, QueuedFresh, MoverOrQueue, Queued
  <1>5. MoverInserts' /\ MoverManages'
    BY Sets, <1>1, <1>2 DEF Settles, OneMover, MoverInserts, MoverManages
  <1>6. ResultIsLast'
    BY <1>1, <1>2 DEF Settles, OneMover, ResultIsLast
  <1> QED
    BY <1>3, <1>4, <1>5, <1>6 DEF OneMover

LEMMA EnqueueMover ==
  ASSUME TypeInv, OneMover, NEW c \in Caller, Enqueue(c)
  PROVE  OneMover'
  <1> DEFINE r == cur[c]
  <1>1. /\ r \in Run /\ Unsettled(c) /\ Moves(c) /\ c \notin Worker /\ c \in Thread
        /\ status[r] # "absent" /\ r \in runs /\ result[r] = None /\ ~Queued(r)
    BY Sets DEF Enqueue, ControlOK, Idle, Unsettled, Moves, OneMover,
      MoverManages, AbsentFresh, MoverOrQueue, ResultIsLast
  <1>2. \A u \in Thread \ {c} :
          pc'[u] = pc[u] /\ ret'[u] = ret[u] /\ cur'[u] = cur[u]
    BY <1>1 DEF Enqueue, ThreadTypeOK
  <1>3. UNCHANGED <<runs, done, status, cur>>
    BY DEF Enqueue, sessionVars
  <1>4. CASE workQueue' = Append(workQueue, r) /\ pc'[c] = "accept" /\ UNCHANGED result
    <2>1. ~Moves(c)' /\ ~Unsettled(c)' /\ ~Settling(c)'
      BY <1>4, <1>1 DEF Moves, Settling, Unsettled, InSetStatus
    <2>2. \A u \in Thread \ {c} :
            /\ Moves(u)' = Moves(u) /\ Unsettled(u)' = Unsettled(u)
            /\ Settling(u)' = Settling(u)
            /\ Unsettled(u) \/ Settling(u) \/ pc[u] \in {"notify", "evict"} => Moves(u)
            /\ Moves(u) => cur[u] \in Run \ {r}
      BY <1>1, <1>2, OthersStay
    <2>3. /\ Len(workQueue) \in Nat /\ Len(workQueue') = Len(workQueue) + 1
          /\ \A i \in 1..Len(workQueue) : workQueue'[i] = workQueue[i]
          /\ workQueue'[Len(workQueue) + 1] = r
      BY <1>4, <1>1 DEF ManagerTypeOK
    <2>4. \A s \in Run : Queued(s)' <=> Queued(s) \/ s = r
      BY <2>3 DEF Queued
    <2>5. QueuedOnce'
      BY <1>1, <2>3 DEF OneMover, QueuedOnce, Queued
    <2>6. MoverOrQueue'
      BY <1>3, <2>1, <2>2, <2>4 DEF OneMover, MoverOrQueue, Queued
    <2>7. QueuedFresh'
      BY <1>1, <1>3, <1>4, <2>4 DEF OneMover, QueuedFresh
    <2>8. AbsentFresh' /\ MoverIsOne'
      BY <1>3, <1>4, <2>1, <2>2 DEF OneMover, AbsentFresh, MoverIsOne
    <2>9. MoverInserts' /\ MoverManages' /\ ResultIsLast'
      BY <1>2, <1>3, <1>4, <2>1, <2>2 DEF OneMover, MoverInserts, MoverManages,
        ResultIsLast
    <2> QED
      BY <2>5, <2>6, <2>7, <2>8, <2>9 DEF OneMover
  <1>5. CASE /\ UNCHANGED workQueue /\ result' = [result EXCEPT ![r] = "rejected"]
             /\ pc'[c] = "setStatus" /\ ret'[c] = "setDone"
    <2>1. Settling(c)' /\ ~Unsettled(c)'
      BY <1>5, <1>1 DEF Settling, Unsettled, InSetStatus
    <2>2. result'[r] # None /\ \A s \in Run \ {r} : result'[s] = result[s]
      BY <1>5, <1>1, Sets DEF RunTypeOK, Outcome
    <2>3. Settles(c)
      BY <1>1, <1>2, <1>3, <1>5, <2>1, <2>2 DEF Enqueue, Settles
    <2> QED
      BY <1>1, <2>3, SettleMover
  <1> QED
    BY <1>4, <1>5 DEF Enqueue, ThreadTypeOK

LEMMA ReturnMover ==
  ASSUME TypeInv, OneMover, NEW w \in Worker, Return(w)
  PROVE  OneMover'
  <1>1. cur[w] \in Run /\ Unsettled(w) /\ want[w] \in FinalStatus
    BY DEF Return, ControlOK, Idle, Unsettled
  <1>2. result'[cur[w]] # None /\ \A s \in Run \ {cur[w]} : result'[s] = result[s]
    BY <1>1, Sets DEF Return, RunTypeOK, Outcome
  <1>3. Settling(w)' /\ ~Unsettled(w)' /\ pc'[w] = "setDone"
    BY DEF Return, ThreadTypeOK, Settling, Unsettled, InSetStatus
  <1>4. Settles(w)
    BY <1>1, <1>2, <1>3 DEF Return, Settles, ThreadTypeOK, managerVars, sessionVars
  <1> QED
    BY <1>4, SettleMover

LEMMA RaiseMover ==
  ASSUME TypeInv, TypeInv', OneMover, NEW w \in Worker, Raise(w)
  PROVE  OneMover'
  <1>1. CASE result' = [result EXCEPT ![cur[w]] = "error"] /\ pc'[w] = "setStatus"
    <2>1. CASE Unsettled(w)
      <3>1. cur[w] \in Run /\ pc[w] # "insert"
        BY <2>1, Sets DEF Raise, ControlOK, Idle, Unsettled, InSetStatus
      <3>2. result'[cur[w]] # None /\ \A s \in Run \ {cur[w]} : result'[s] = result[s]
        BY <1>1, <3>1, Sets DEF RunTypeOK, Outcome, FinalStatus
      <3>3. Settling(w)' /\ ~Unsettled(w)' /\ ret'[w] = "setDone"
        BY <1>1, <2>1 DEF Raise, ThreadTypeOK, Settling, Unsettled, InSetStatus
      <3>4. Settles(w)
        BY <1>1, <2>1, <3>1, <3>2, <3>3 DEF Raise, Settles, ThreadTypeOK, managerVars,
          sessionVars
      <3> QED
        BY <3>4, SettleMover
    <2> QED
      BY <1>1, <2>1 DEF Raise, Unsettled, InSetStatus, ThreadTypeOK
  <1>2. CASE UNCHANGED result /\ pc'[w] = "setDone"
    <2>1. Quiet
      BY <1>2, Sets DEF Raise, Quiet, ThreadTypeOK, ControlOK, Idle, Moves,
        Settling, Unsettled, InSetStatus, managerVars, sessionVars
    <2> QED
      BY <2>1, QuietMover
  <1> QED
    BY <1>1, <1>2 DEF Raise, ThreadTypeOK

LEMMA MoverStep ==
  ASSUME TypeInv, TypeInv', OneMover, [Next]_vars
  PROVE  OneMover'
  <1>1. ASSUME NEW t \in Thread, Shared(t) PROVE OneMover'
    BY <1>1, SharedQuiet, QuietMover, SetDoneMover, EvictMover DEF Shared
  <1>2. ASSUME NEW c \in Caller, CallerCalls(c) \/ CallerGoesOn(c) \/ AwaitTimeout(c)
        PROVE OneMover'
    BY <1>1, <1>2, CallerQuiet, QuietMover, CreateSessionMover, InsertMover,
      EnqueueMover DEF CallerCalls, CallerGoesOn
  <1>3. ASSUME NEW w \in Worker, WorkerStep(w) \/ PollTimeout(w) \/ Raise(w)
        PROVE OneMover'
    BY <1>1, <1>3, WorkerQuiet, QuietMover, GetRunMover, ReturnMover,
      RaiseMover DEF WorkerStep
  <1>4. ASSUME NEW r \in Run, AgyExits(r) PROVE OneMover'
    <2>1. Quiet
      BY <1>4 DEF AgyExits, Quiet, managerVars, runVars, sessionVars, threadVars,
        Moves, Settling, Unsettled, InSetStatus
    <2> QED
      BY <2>1, QuietMover
  <1>5. ASSUME UNCHANGED vars PROVE OneMover'
    <2>1. Quiet
      BY <1>5 DEF vars, Quiet, managerVars, runVars, sessionVars, threadVars,
        Moves, Settling, Unsettled, InSetStatus
    <2> QED
      BY <2>1, QuietMover
  <1> QED
    BY <1>2, <1>3, <1>4, <1>5 DEF Next

LEMMA ResultKept ==
  ASSUME TypeInv, OneMover, [Next]_vars
  PROVE  \A r \in Run : result[r] # None => result'[r] = result[r]
  <1> DEFINE Stays == \A r \in Run : result[r] # None => result'[r] = result[r]
  <1>1. ASSUME NEW t \in Thread, Shared(t) PROVE Stays
    BY <1>1, SharedQuiet DEF Quiet, Shared, SetDone, Evict, runVars
  <1>2. ASSUME NEW c \in Caller, Enqueue(c) PROVE Stays
    <2>1. cur[c] \in Run /\ result[cur[c]] = None
      BY <1>2, Sets DEF Enqueue, ControlOK, Idle, Unsettled, OneMover, ResultIsLast
    <2> QED
      BY <1>2, <2>1 DEF Enqueue, RunTypeOK
  <1>3. ASSUME NEW c \in Caller, CallerCalls(c) \/ CallerGoesOn(c) \/ AwaitTimeout(c)
        PROVE Stays
    BY <1>1, <1>2, <1>3, CallerQuiet DEF Quiet, CallerCalls, CallerGoesOn,
      CreateSession, Insert, runVars
  <1>4. ASSUME NEW w \in Worker, Return(w) \/ Raise(w) PROVE Stays
    <2>1. cur[w] \in Run
      BY <1>4 DEF Return, Raise, ControlOK, Idle
    <2>2. Unsettled(w) => result[cur[w]] = None
      BY DEF OneMover, ResultIsLast
    <2> QED
      BY <1>4, <2>1, <2>2 DEF Return, Raise, Unsettled, InSetStatus, RunTypeOK
  <1>5. ASSUME NEW w \in Worker, WorkerStep(w) \/ PollTimeout(w) \/ Raise(w)
        PROVE Stays
    BY <1>1, <1>4, <1>5, WorkerQuiet DEF Quiet, WorkerStep, GetRun, runVars
  <1> QED
    BY <1>3, <1>5 DEF Next, AgyExits, vars, runVars

(* A result is written once: whatever the other threads do, the result     *)
(* that an await may have returned stays the result of the run.            *)
THEOREM ResultIsFinal == Spec => SettledOnce
  <1>1. Init => TypeInv /\ OneMover
    BY TypeInit, InitMover
  <1>2. TypeInv /\ OneMover /\ [Next]_vars => (TypeInv /\ OneMover)'
    BY TypeStep, MoverStep
  <1>3. TypeInv /\ OneMover /\ [Next]_vars
          => [\A r \in Run : result[r] # None => result'[r] = result[r]]_vars
    BY ResultKept
  <1> QED
    BY <1>1, <1>2, <1>3, PTL DEF Spec, SettledOnce
=============================================================================
