------------------------- MODULE RunManagerLedger -------------------------
(* The key of a managed run leads to it, and RunManager implements         *)
(* RunLedger: every step of a thread is a step of the ledger, or none.     *)
EXTENDS RunManagerMovers

USE DEF Thread, Goto, Move, Leave, CallSetStatus, TypeInv, TypeOK

(* What a step looks like that concerns no key.                            *)
KeyQuiet ==
  /\ UNCHANGED <<runs, idem, keyOf, accepted, keyVars>>
  /\ \A r \in Run : done[r] => done'[r]
  /\ \A c \in Caller :
       /\ pc'[c] \in {"lock", "find", "scan"} => pc[c] \in {"lock", "find", "scan"}
       /\ pc'[c] \in {"scan", "create", "insert"} => pc[c] \in {"scan", "create", "insert"}
       /\ pc'[c] = "accept" => pc[c] = "accept" /\ cur'[c] = cur[c]
       /\ HoldsKey(c)' => HoldsKey(c)

LEMMA KeyQuietStep ==
  ASSUME TypeInv, KeyOK, KeyQuiet
  PROVE  KeyOK'
  <1>1. KeyGiven' /\ KeyLocked' /\ KeyUnbound' /\ KeyLeadsToManagedRun'
    BY DEF KeyQuiet, KeyOK, KeyGiven, KeyLocked, KeyUnbound, KeyLeadsToManagedRun,
      keyVars, HoldsKey, Settling, InSetStatus
  <1>2. AcceptedKnown'
    BY DEF KeyQuiet, KeyOK, AcceptedKnown, ThreadTypeOK, ControlOK, Idle
  <1> QED
    BY <1>1, <1>2 DEF KeyOK

LEMMA InitKey == Init => KeyOK
  <1> SUFFICES ASSUME Init PROVE KeyOK
    OBVIOUS
  <1>1. \A c \in Caller : pc[c] = "idle"
    BY DEF Init
  <1>2. runs = {} /\ \A r \in Run : accepted[r] => r \in OldRun
    BY DEF Init
  <1> QED
    BY <1>1, <1>2 DEF KeyOK, KeyGiven, KeyLocked, KeyUnbound, AcceptedKnown,
      KeyLeadsToManagedRun, HoldsKey, Settling, InSetStatus

LEMMA SharedKeyQuiet ==
  ASSUME TypeInv, NEW t \in Thread
  PROVE  /\ SetStatus(t) => KeyQuiet
         /\ LogStatus(t) => KeyQuiet
         /\ Signal(t) => KeyQuiet
         /\ Kill(t) => KeyQuiet
         /\ SetDone(t) => KeyQuiet
         /\ NotifyAll(t) => KeyQuiet
  <1>1. SetStatus(t) => KeyQuiet
    BY Sets DEF KeyQuiet, HoldsKey, RunTypeOK, ThreadTypeOK, ControlOK, Idle,
      Settling, InSetStatus, InTerminate, WorkerLabel, SharedLabel, SetStatus,
      keyVars, managerVars, procVars, runVars
  <1>2. LogStatus(t) => KeyQuiet
    BY Sets DEF KeyQuiet, HoldsKey, RunTypeOK, ThreadTypeOK, ControlOK, Idle,
      Settling, InSetStatus, InTerminate, WorkerLabel, SharedLabel, LogStatus,
      FinalStatus, keyVars, managerVars, procVars, runVars
  <1>3. Signal(t) => KeyQuiet
    BY Sets DEF KeyQuiet, HoldsKey, RunTypeOK, ThreadTypeOK, ControlOK, Idle,
      Settling, InSetStatus, InTerminate, WorkerLabel, SharedLabel, Signal,
      keyVars, managerVars, runVars, sessionVars
  <1>4. Kill(t) => KeyQuiet
    BY Sets DEF KeyQuiet, HoldsKey, RunTypeOK, ThreadTypeOK, ControlOK, Idle,
      Settling, InSetStatus, InTerminate, WorkerLabel, SharedLabel, Kill,
      keyVars, managerVars, runVars, sessionVars
  <1>5. SetDone(t) => KeyQuiet
    BY Sets DEF KeyQuiet, HoldsKey, RunTypeOK, ThreadTypeOK, ControlOK, Idle,
      Settling, InSetStatus, InTerminate, WorkerLabel, SharedLabel, SetDone,
      keyVars, managerVars, procVars, sessionVars
  <1>6. NotifyAll(t) => KeyQuiet
    BY Sets DEF KeyQuiet, HoldsKey, RunTypeOK, ThreadTypeOK, ControlOK, Idle,
      Settling, InSetStatus, InTerminate, WorkerLabel, SharedLabel, NotifyAll,
      Woken, keyVars, managerVars, procVars, runVars, sessionVars
  <1> QED
    BY <1>1, <1>2, <1>3, <1>4, <1>5, <1>6

LEMMA CallerKeyQuiet ==
  ASSUME TypeInv, NEW c \in Caller
  PROVE  /\ Cancel(c) => KeyQuiet
         /\ CancelFlag(c) => KeyQuiet
         /\ CancelCond(c) => KeyQuiet
         /\ CancelIfStillQueued(c) => KeyQuiet
         /\ CancelEnd(c) => KeyQuiet
         /\ CancelUnmanaged(c) => KeyQuiet
         /\ Await(c) => KeyQuiet
         /\ AwaitCheck(c) => KeyQuiet
         /\ AwaitTimeout(c) => KeyQuiet
         /\ Shutdown(c) => KeyQuiet
         /\ ShutdownRun(c) => KeyQuiet
         /\ Exit(c) => KeyQuiet
  <1>1. Cancel(c) => KeyQuiet
    BY Sets DEF KeyQuiet, HoldsKey, RunTypeOK, ThreadTypeOK, ControlOK, Idle,
      Settling, InSetStatus, InTerminate, Cancel, keyVars, managerVars,
      procVars, runVars, sessionVars
  <1>2. CancelFlag(c) => KeyQuiet
    BY Sets DEF KeyQuiet, HoldsKey, RunTypeOK, ThreadTypeOK, ControlOK, Idle,
      Settling, InSetStatus, InTerminate, CancelFlag, keyVars, managerVars,
      procVars, sessionVars
  <1>3. CancelCond(c) => KeyQuiet
    BY Sets DEF KeyQuiet, HoldsKey, RunTypeOK, ThreadTypeOK, ControlOK, Idle,
      Settling, InSetStatus, InTerminate, CancelCond, keyVars, managerVars,
      procVars, sessionVars
  <1>4. CancelIfStillQueued(c) => KeyQuiet
    BY Sets DEF KeyQuiet, HoldsKey, RunTypeOK, ThreadTypeOK, ControlOK, Idle,
      Settling, InSetStatus, InTerminate, CancelIfStillQueued, keyVars,
      managerVars, procVars, runVars, sessionVars
  <1>5. CancelEnd(c) => KeyQuiet
    BY Sets DEF KeyQuiet, HoldsKey, RunTypeOK, ThreadTypeOK, ControlOK, Idle,
      Settling, InSetStatus, InTerminate, CancelEnd, keyVars, managerVars,
      procVars, sessionVars
  <1>6. CancelUnmanaged(c) => KeyQuiet
    BY Sets DEF KeyQuiet, HoldsKey, RunTypeOK, ThreadTypeOK, ControlOK, Idle,
      Settling, InSetStatus, InTerminate, CancelUnmanaged, FinalStatus,
      keyVars, managerVars, procVars, runVars, sessionVars
  <1>7. Await(c) => KeyQuiet
    BY Sets DEF KeyQuiet, HoldsKey, RunTypeOK, ThreadTypeOK, ControlOK, Idle,
      Settling, InSetStatus, InTerminate, Await, keyVars, managerVars,
      procVars, runVars, sessionVars
  <1>8. AwaitCheck(c) => KeyQuiet
    BY Sets DEF KeyQuiet, HoldsKey, RunTypeOK, ThreadTypeOK, ControlOK, Idle,
      Settling, InSetStatus, InTerminate, AwaitCheck, keyVars, managerVars,
      procVars, runVars, sessionVars
  <1>9. AwaitTimeout(c) => KeyQuiet
    BY Sets DEF KeyQuiet, HoldsKey, RunTypeOK, ThreadTypeOK, ControlOK, Idle,
      Settling, InSetStatus, InTerminate, AwaitTimeout, keyVars, managerVars,
      procVars, runVars, sessionVars
  <1>10. Shutdown(c) => KeyQuiet
    BY Sets DEF KeyQuiet, HoldsKey, RunTypeOK, ThreadTypeOK, ControlOK, Idle,
      Settling, InSetStatus, InTerminate, Shutdown, keyVars, procVars,
      runVars, sessionVars
  <1>11. ShutdownRun(c) => KeyQuiet
    BY Sets DEF KeyQuiet, HoldsKey, RunTypeOK, ThreadTypeOK, ControlOK, Idle,
      Settling, InSetStatus, InTerminate, ShutdownRun, keyVars, procVars,
      sessionVars
  <1>12. Exit(c) => KeyQuiet
    BY Sets DEF KeyQuiet, HoldsKey, RunTypeOK, ThreadTypeOK, ControlOK, Idle,
      Settling, InSetStatus, InTerminate, Exit, keyVars, managerVars,
      procVars, runVars, sessionVars
  <1> QED
    BY <1>1, <1>2, <1>3, <1>4, <1>5, <1>6, <1>7, <1>8, <1>9, <1>10, <1>11,
      <1>12

LEMMA WorkerKeyQuiet ==
  ASSUME TypeInv, NEW w \in Worker
  PROVE  /\ WorkerLoop(w) => KeyQuiet
         /\ GetEmpty(w) => KeyQuiet
         /\ GetRun(w) => KeyQuiet
         /\ RunManaged(w) => KeyQuiet
         /\ PreparePrompt(w) => KeyQuiet
         /\ StartAgy(w) => KeyQuiet
         /\ RegisterProcess(w) => KeyQuiet
         /\ PollExited(w) => KeyQuiet
         /\ PollCancelled(w) => KeyQuiet
         /\ PollTimeout(w) => KeyQuiet
         /\ Classify(w) => KeyQuiet
         /\ Return(w) => KeyQuiet
         /\ Raise(w) => KeyQuiet
  <1>1. WorkerLoop(w) => KeyQuiet
    BY Sets DEF KeyQuiet, HoldsKey, RunTypeOK, ThreadTypeOK, ControlOK, Idle,
      Settling, InSetStatus, InTerminate, WorkerLabel, SharedLabel,
      WorkerLoop, keyVars, managerVars, procVars, runVars, sessionVars
  <1>2. GetEmpty(w) => KeyQuiet
    BY Sets DEF KeyQuiet, HoldsKey, RunTypeOK, ThreadTypeOK, ControlOK, Idle,
      Settling, InSetStatus, InTerminate, WorkerLabel, SharedLabel, GetEmpty,
      keyVars, managerVars, procVars, runVars, sessionVars
  <1>3. GetRun(w) => KeyQuiet
    BY Sets DEF KeyQuiet, HoldsKey, RunTypeOK, ThreadTypeOK, ControlOK, Idle,
      Settling, InSetStatus, InTerminate, WorkerLabel, SharedLabel, GetRun,
      keyVars, procVars, runVars, sessionVars
  <1>4. RunManaged(w) => KeyQuiet
    BY Sets DEF KeyQuiet, HoldsKey, RunTypeOK, ThreadTypeOK, ControlOK, Idle,
      Settling, InSetStatus, InTerminate, WorkerLabel, SharedLabel,
      RunManaged, keyVars, managerVars, procVars, runVars, sessionVars
  <1>5. PreparePrompt(w) => KeyQuiet
    BY Sets DEF KeyQuiet, HoldsKey, RunTypeOK, ThreadTypeOK, ControlOK, Idle,
      Settling, InSetStatus, InTerminate, WorkerLabel, SharedLabel,
      PreparePrompt, keyVars, managerVars, procVars, runVars
  <1>6. StartAgy(w) => KeyQuiet
    BY Sets DEF KeyQuiet, HoldsKey, RunTypeOK, ThreadTypeOK, ControlOK, Idle,
      Settling, InSetStatus, InTerminate, WorkerLabel, SharedLabel, StartAgy,
      keyVars, managerVars, runVars, sessionVars
  <1>7. RegisterProcess(w) => KeyQuiet
    BY Sets DEF KeyQuiet, HoldsKey, RunTypeOK, ThreadTypeOK, ControlOK, Idle,
      Settling, InSetStatus, InTerminate, WorkerLabel, SharedLabel,
      RegisterProcess, Woken, keyVars, managerVars, procVars, sessionVars
  <1>8. PollExited(w) => KeyQuiet
    BY Sets DEF KeyQuiet, HoldsKey, RunTypeOK, ThreadTypeOK, ControlOK, Idle,
      Settling, InSetStatus, InTerminate, WorkerLabel, SharedLabel,
      PollExited, keyVars, managerVars, procVars, runVars, sessionVars
  <1>9. PollCancelled(w) => KeyQuiet
    BY Sets DEF KeyQuiet, HoldsKey, RunTypeOK, ThreadTypeOK, ControlOK, Idle,
      Settling, InSetStatus, InTerminate, WorkerLabel, SharedLabel,
      PollCancelled, PollStop, keyVars, managerVars, runVars, sessionVars
  <1>10. PollTimeout(w) => KeyQuiet
    BY Sets DEF KeyQuiet, HoldsKey, RunTypeOK, ThreadTypeOK, ControlOK, Idle,
      Settling, InSetStatus, InTerminate, WorkerLabel, SharedLabel,
      PollTimeout, PollStop, keyVars, managerVars, runVars, sessionVars
  <1>11. Classify(w) => KeyQuiet
    BY Sets DEF KeyQuiet, HoldsKey, RunTypeOK, ThreadTypeOK, ControlOK, Idle,
      Settling, InSetStatus, InTerminate, WorkerLabel, SharedLabel, Classify,
      Outcomes, Verdict, keyVars, managerVars, runVars, sessionVars
  <1>12. Return(w) => KeyQuiet
    BY Sets DEF KeyQuiet, HoldsKey, RunTypeOK, ThreadTypeOK, ControlOK, Idle,
      Settling, InSetStatus, InTerminate, WorkerLabel, SharedLabel, Return,
      keyVars, managerVars, procVars, sessionVars
  <1>13. Raise(w) => KeyQuiet
    BY Sets DEF KeyQuiet, HoldsKey, RunTypeOK, ThreadTypeOK, ControlOK, Idle,
      Settling, InSetStatus, InTerminate, WorkerLabel, SharedLabel, Raise,
      keyVars, managerVars, procVars, sessionVars
  <1> QED
    BY <1>1, <1>2, <1>3, <1>4, <1>5, <1>6, <1>7, <1>8, <1>9, <1>10, <1>11,
      <1>12, <1>13

LEMMA StartLockKey ==
  ASSUME TypeInv, OneMover, KeyOK, NEW c \in Caller, StartLock(c)
  PROVE  KeyOK'
  <1>1. KeyGiven'
    BY Sets DEF KeyOK, KeyGiven, ThreadTypeOK, ManagerTypeOK, RunTypeOK,
      ControlOK, StartLock, managerVars, procVars, runVars, sessionVars
  <1>2. KeyLocked'
    BY Sets DEF KeyOK, KeyLocked, ThreadTypeOK, ManagerTypeOK, RunTypeOK,
      HoldsKey, Settling, InSetStatus, ControlOK, KeyGiven, StartLock,
      managerVars, procVars, runVars, sessionVars
  <1>3. KeyUnbound'
    BY Sets DEF KeyOK, KeyUnbound, ThreadTypeOK, ManagerTypeOK, RunTypeOK,
      KeyLocked, HoldsKey, KeyGiven, StartLock, managerVars, procVars,
      runVars, sessionVars
  <1>4. AcceptedKnown'
    BY Sets DEF KeyOK, AcceptedKnown, ThreadTypeOK, ManagerTypeOK, RunTypeOK,
      ControlOK, Idle, OneMover, MoverManages, Moves, Unsettled, ResultIsLast,
      SessionTypeOK, InSetStatus, StartLock, managerVars, procVars, runVars,
      sessionVars
  <1>5. KeyLeadsToManagedRun'
    BY Sets DEF KeyOK, KeyLeadsToManagedRun, ThreadTypeOK, ManagerTypeOK,
      RunTypeOK, ControlOK, Idle, KeyUnbound, OneMover, MoverInserts,
      StartLock, managerVars, procVars, runVars, sessionVars
  <1> QED
    BY <1>1, <1>2, <1>3, <1>4, <1>5 DEF KeyOK

LEMMA AcquireKeyKey ==
  ASSUME TypeInv, OneMover, KeyOK, NEW c \in Caller, AcquireKey(c)
  PROVE  KeyOK'
  <1>1. KeyGiven'
    BY Sets DEF KeyOK, KeyGiven, ThreadTypeOK, ManagerTypeOK, RunTypeOK,
      ControlOK, AcquireKey, managerVars, procVars, runVars, sessionVars
  <1>2. KeyLocked'
    BY Sets DEF KeyOK, KeyLocked, ThreadTypeOK, ManagerTypeOK, RunTypeOK,
      HoldsKey, Settling, InSetStatus, ControlOK, KeyGiven, AcquireKey,
      managerVars, procVars, runVars, sessionVars
  <1>3. KeyUnbound'
    BY Sets DEF KeyOK, KeyUnbound, ThreadTypeOK, ManagerTypeOK, RunTypeOK,
      KeyLocked, HoldsKey, KeyGiven, AcquireKey, managerVars, procVars,
      runVars, sessionVars
  <1>4. AcceptedKnown'
    BY Sets DEF KeyOK, AcceptedKnown, ThreadTypeOK, ManagerTypeOK, RunTypeOK,
      ControlOK, Idle, OneMover, MoverManages, Moves, Unsettled, ResultIsLast,
      SessionTypeOK, InSetStatus, AcquireKey, managerVars, procVars, runVars,
      sessionVars
  <1>5. KeyLeadsToManagedRun'
    BY Sets DEF KeyOK, KeyLeadsToManagedRun, ThreadTypeOK, ManagerTypeOK,
      RunTypeOK, ControlOK, Idle, KeyUnbound, OneMover, MoverInserts,
      AcquireKey, managerVars, procVars, runVars, sessionVars
  <1> QED
    BY <1>1, <1>2, <1>3, <1>4, <1>5 DEF KeyOK

LEMMA FindInMemoryKey ==
  ASSUME TypeInv, OneMover, KeyOK, NEW c \in Caller, FindInMemory(c)
  PROVE  KeyOK'
  <1>1. KeyGiven'
    BY Sets DEF KeyOK, KeyGiven, ThreadTypeOK, ManagerTypeOK, RunTypeOK,
      ControlOK, FindInMemory, keyVars, managerVars, procVars, runVars,
      sessionVars
  <1>2. KeyLocked'
    BY Sets DEF KeyOK, KeyLocked, ThreadTypeOK, ManagerTypeOK, RunTypeOK,
      HoldsKey, Settling, InSetStatus, ControlOK, KeyGiven, FindInMemory,
      keyVars, managerVars, procVars, runVars, sessionVars
  <1>3. KeyUnbound'
    BY Sets DEF KeyOK, KeyUnbound, ThreadTypeOK, ManagerTypeOK, RunTypeOK,
      KeyLocked, HoldsKey, KeyGiven, FindInMemory, keyVars, managerVars,
      procVars, runVars, sessionVars
  <1>4. AcceptedKnown'
    BY Sets DEF KeyOK, AcceptedKnown, ThreadTypeOK, ManagerTypeOK, RunTypeOK,
      ControlOK, Idle, OneMover, MoverManages, Moves, Unsettled, ResultIsLast,
      SessionTypeOK, InSetStatus, FindInMemory, keyVars, managerVars,
      procVars, runVars, sessionVars
  <1>5. KeyLeadsToManagedRun'
    BY Sets DEF KeyOK, KeyLeadsToManagedRun, ThreadTypeOK, ManagerTypeOK,
      RunTypeOK, ControlOK, Idle, KeyUnbound, OneMover, MoverInserts,
      FindInMemory, keyVars, managerVars, procVars, runVars, sessionVars
  <1> QED
    BY <1>1, <1>2, <1>3, <1>4, <1>5 DEF KeyOK

LEMMA FindOnDiskKey ==
  ASSUME TypeInv, OneMover, KeyOK, NEW c \in Caller, FindOnDisk(c)
  PROVE  KeyOK'
  <1>1. KeyGiven'
    BY Sets DEF KeyOK, KeyGiven, ThreadTypeOK, ManagerTypeOK, RunTypeOK,
      ControlOK, FindOnDisk, AcceptedFor, keyVars, procVars, runVars,
      sessionVars
  <1>2. KeyLocked'
    BY Sets DEF KeyOK, KeyLocked, ThreadTypeOK, ManagerTypeOK, RunTypeOK,
      HoldsKey, Settling, InSetStatus, ControlOK, KeyGiven, FindOnDisk,
      AcceptedFor, keyVars, procVars, runVars, sessionVars
  <1>3. KeyUnbound'
    BY Sets DEF KeyOK, KeyUnbound, ThreadTypeOK, ManagerTypeOK, RunTypeOK,
      KeyLocked, HoldsKey, KeyGiven, FindOnDisk, AcceptedFor, keyVars,
      procVars, runVars, sessionVars
  <1>4. AcceptedKnown'
    BY Sets DEF KeyOK, AcceptedKnown, ThreadTypeOK, ManagerTypeOK, RunTypeOK,
      ControlOK, Idle, OneMover, MoverManages, Moves, Unsettled, ResultIsLast,
      SessionTypeOK, InSetStatus, FindOnDisk, AcceptedFor, keyVars, procVars,
      runVars, sessionVars
  <1>5. KeyLeadsToManagedRun'
    BY Sets DEF KeyOK, KeyLeadsToManagedRun, ThreadTypeOK, ManagerTypeOK,
      RunTypeOK, ControlOK, Idle, KeyUnbound, OneMover, MoverInserts,
      FindOnDisk, AcceptedFor, keyVars, procVars, runVars, sessionVars
  <1> QED
    BY <1>1, <1>2, <1>3, <1>4, <1>5 DEF KeyOK

LEMMA CreateSessionKey ==
  ASSUME TypeInv, OneMover, KeyOK, NEW c \in Caller, CreateSession(c)
  PROVE  KeyOK'
  <1>1. KeyGiven'
    BY Sets DEF KeyOK, KeyGiven, ThreadTypeOK, ManagerTypeOK, RunTypeOK,
      ControlOK, CreateSession, keyVars, managerVars, procVars, runVars
  <1>2. KeyLocked'
    BY Sets DEF KeyOK, KeyLocked, ThreadTypeOK, ManagerTypeOK, RunTypeOK,
      HoldsKey, Settling, InSetStatus, ControlOK, KeyGiven, CreateSession,
      keyVars, managerVars, procVars, runVars
  <1>3. KeyUnbound'
    BY Sets DEF KeyOK, KeyUnbound, ThreadTypeOK, ManagerTypeOK, RunTypeOK,
      KeyLocked, HoldsKey, KeyGiven, CreateSession, keyVars, managerVars,
      procVars, runVars
  <1>4. AcceptedKnown'
    BY Sets DEF KeyOK, AcceptedKnown, ThreadTypeOK, ManagerTypeOK, RunTypeOK,
      ControlOK, Idle, OneMover, MoverManages, Moves, Unsettled, ResultIsLast,
      SessionTypeOK, InSetStatus, CreateSession, keyVars, managerVars,
      procVars, runVars
  <1>5. KeyLeadsToManagedRun'
    BY Sets DEF KeyOK, KeyLeadsToManagedRun, ThreadTypeOK, ManagerTypeOK,
      RunTypeOK, ControlOK, Idle, KeyUnbound, OneMover, MoverInserts,
      CreateSession, keyVars, managerVars, procVars, runVars
  <1> QED
    BY <1>1, <1>2, <1>3, <1>4, <1>5 DEF KeyOK

LEMMA InsertKey ==
  ASSUME TypeInv, OneMover, KeyOK, NEW c \in Caller, Insert(c)
  PROVE  KeyOK'
  <1>1. KeyGiven'
    BY Sets DEF KeyOK, KeyGiven, ThreadTypeOK, ManagerTypeOK, RunTypeOK,
      ControlOK, Insert, keyVars, procVars, sessionVars
  <1>2. KeyLocked'
    BY Sets DEF KeyOK, KeyLocked, ThreadTypeOK, ManagerTypeOK, RunTypeOK,
      HoldsKey, Settling, InSetStatus, ControlOK, KeyGiven, Insert, keyVars,
      procVars, sessionVars
  <1>3. KeyUnbound'
    BY Sets DEF KeyOK, KeyUnbound, ThreadTypeOK, ManagerTypeOK, RunTypeOK,
      KeyLocked, HoldsKey, KeyGiven, Insert, keyVars, procVars, sessionVars
  <1>4. AcceptedKnown'
    BY Sets DEF KeyOK, AcceptedKnown, ThreadTypeOK, ManagerTypeOK, RunTypeOK,
      ControlOK, Idle, OneMover, MoverManages, Moves, Unsettled, ResultIsLast,
      SessionTypeOK, InSetStatus, Insert, keyVars, procVars, sessionVars
  <1>5. KeyLeadsToManagedRun'
    <2>1. /\ cur[c] \in Run /\ cur[c] \notin runs /\ cur[c] # None
          /\ key[c] \in Key \cup {None}
      BY Sets DEF Insert, ControlOK, Idle, ThreadTypeOK, OneMover, MoverInserts
    <2>2. key[c] # None => idem[key[c]] = None
      BY DEF Insert, KeyOK, KeyUnbound
    <2>3. runs' = runs \cup {cur[c]} /\ keyOf' = [keyOf EXCEPT ![cur[c]] = key[c]]
      BY DEF Insert
    <2>4. key[c] # None => idem' = [idem EXCEPT ![key[c]] = cur[c]]
      BY <2>2 DEF Insert
    <2>5. key[c] = None => idem' = idem
      BY DEF Insert
    <2>6. ASSUME NEW s \in runs, keyOf[s] # None
          PROVE  s # cur[c] /\ keyOf[s] \in Key /\ idem[keyOf[s]] = s /\ s # None
      BY <2>1, <2>6, Sets DEF KeyOK, KeyLeadsToManagedRun, ManagerTypeOK, RunTypeOK
    <2> QED
      BY <2>1, <2>2, <2>3, <2>4, <2>5, <2>6
        DEF KeyLeadsToManagedRun, ManagerTypeOK, RunTypeOK
  <1> QED
    BY <1>1, <1>2, <1>3, <1>4, <1>5 DEF KeyOK

LEMMA EnqueueKey ==
  ASSUME TypeInv, OneMover, KeyOK, NEW c \in Caller, Enqueue(c)
  PROVE  KeyOK'
  <1>1. KeyGiven'
    BY Sets DEF KeyOK, KeyGiven, ThreadTypeOK, ManagerTypeOK, RunTypeOK,
      ControlOK, Enqueue, keyVars, procVars, sessionVars
  <1>2. KeyLocked'
    BY Sets DEF KeyOK, KeyLocked, ThreadTypeOK, ManagerTypeOK, RunTypeOK,
      HoldsKey, Settling, InSetStatus, ControlOK, KeyGiven, Enqueue, keyVars,
      procVars, sessionVars
  <1>3. KeyUnbound'
    BY Sets DEF KeyOK, KeyUnbound, ThreadTypeOK, ManagerTypeOK, RunTypeOK,
      KeyLocked, HoldsKey, KeyGiven, Enqueue, keyVars, procVars, sessionVars
  <1>4. AcceptedKnown'
    BY Sets DEF KeyOK, AcceptedKnown, ThreadTypeOK, ManagerTypeOK, RunTypeOK,
      ControlOK, Idle, OneMover, MoverManages, Moves, Unsettled, ResultIsLast,
      SessionTypeOK, InSetStatus, Enqueue, keyVars, procVars, sessionVars
  <1>5. KeyLeadsToManagedRun'
    BY Sets DEF KeyOK, KeyLeadsToManagedRun, ThreadTypeOK, ManagerTypeOK,
      RunTypeOK, ControlOK, Idle, KeyUnbound, OneMover, MoverInserts, Enqueue,
      keyVars, procVars, sessionVars
  <1> QED
    BY <1>1, <1>2, <1>3, <1>4, <1>5 DEF KeyOK

LEMMA AcceptKey ==
  ASSUME TypeInv, OneMover, KeyOK, NEW c \in Caller, Accept(c)
  PROVE  KeyOK'
  <1>1. KeyGiven'
    BY Sets DEF KeyOK, KeyGiven, ThreadTypeOK, ManagerTypeOK, RunTypeOK,
      ControlOK, Accept, keyVars, managerVars, procVars, runVars
  <1>2. KeyLocked'
    BY Sets DEF KeyOK, KeyLocked, ThreadTypeOK, ManagerTypeOK, RunTypeOK,
      HoldsKey, Settling, InSetStatus, ControlOK, KeyGiven, Accept, keyVars,
      managerVars, procVars, runVars
  <1>3. KeyUnbound'
    BY Sets DEF KeyOK, KeyUnbound, ThreadTypeOK, ManagerTypeOK, RunTypeOK,
      KeyLocked, HoldsKey, KeyGiven, Accept, keyVars, managerVars, procVars,
      runVars
  <1>4. AcceptedKnown'
    BY Sets DEF KeyOK, AcceptedKnown, ThreadTypeOK, ManagerTypeOK, RunTypeOK,
      ControlOK, Idle, OneMover, MoverManages, Moves, Unsettled, ResultIsLast,
      SessionTypeOK, InSetStatus, Accept, keyVars, managerVars, procVars,
      runVars
  <1>5. KeyLeadsToManagedRun'
    BY Sets DEF KeyOK, KeyLeadsToManagedRun, ThreadTypeOK, ManagerTypeOK,
      RunTypeOK, ControlOK, Idle, KeyUnbound, OneMover, MoverInserts, Accept,
      keyVars, managerVars, procVars, runVars
  <1> QED
    BY <1>1, <1>2, <1>3, <1>4, <1>5 DEF KeyOK

LEMMA ReleaseKey ==
  ASSUME TypeInv, OneMover, KeyOK, NEW c \in Caller, Release(c)
  PROVE  KeyOK'
  <1>1. KeyGiven'
    BY Sets DEF KeyOK, KeyGiven, ThreadTypeOK, ManagerTypeOK, RunTypeOK,
      ControlOK, Release, managerVars, procVars, runVars, sessionVars
  <1>2. KeyLocked'
    BY Sets DEF KeyOK, KeyLocked, ThreadTypeOK, ManagerTypeOK, RunTypeOK,
      HoldsKey, Settling, InSetStatus, ControlOK, KeyGiven, Release,
      managerVars, procVars, runVars, sessionVars
  <1>3. KeyUnbound'
    BY Sets DEF KeyOK, KeyUnbound, ThreadTypeOK, ManagerTypeOK, RunTypeOK,
      KeyLocked, HoldsKey, KeyGiven, Release, managerVars, procVars, runVars,
      sessionVars
  <1>4. AcceptedKnown'
    BY Sets DEF KeyOK, AcceptedKnown, ThreadTypeOK, ManagerTypeOK, RunTypeOK,
      ControlOK, Idle, OneMover, MoverManages, Moves, Unsettled, ResultIsLast,
      SessionTypeOK, InSetStatus, Release, managerVars, procVars, runVars,
      sessionVars
  <1>5. KeyLeadsToManagedRun'
    BY Sets DEF KeyOK, KeyLeadsToManagedRun, ThreadTypeOK, ManagerTypeOK,
      RunTypeOK, ControlOK, Idle, KeyUnbound, OneMover, MoverInserts, Release,
      managerVars, procVars, runVars, sessionVars
  <1> QED
    BY <1>1, <1>2, <1>3, <1>4, <1>5 DEF KeyOK

LEMMA EvictKey ==
  ASSUME TypeInv, OneMover, KeyOK, NEW t \in Thread, Evict(t)
  PROVE  KeyOK'
  <1>1. KeyGiven'
    BY Sets DEF KeyOK, KeyGiven, ThreadTypeOK, ManagerTypeOK, RunTypeOK,
      ControlOK, Evict, keyVars, procVars, runVars, sessionVars
  <1>2. KeyLocked'
    BY Sets DEF KeyOK, KeyLocked, ThreadTypeOK, ManagerTypeOK, RunTypeOK,
      HoldsKey, Settling, InSetStatus, ControlOK, KeyGiven, Evict, keyVars,
      procVars, runVars, sessionVars
  <1>3. KeyUnbound'
    BY Sets DEF KeyOK, KeyUnbound, ThreadTypeOK, ManagerTypeOK, RunTypeOK,
      KeyLocked, HoldsKey, KeyGiven, Evict, keyVars, procVars, runVars,
      sessionVars
  <1>4. AcceptedKnown'
    BY Sets DEF KeyOK, AcceptedKnown, ThreadTypeOK, ManagerTypeOK, RunTypeOK,
      ControlOK, Idle, OneMover, MoverManages, Moves, Unsettled, ResultIsLast,
      SessionTypeOK, InSetStatus, Evict, keyVars, procVars, runVars,
      sessionVars
  <1>5. KeyLeadsToManagedRun'
    BY Sets DEF KeyOK, KeyLeadsToManagedRun, ThreadTypeOK, ManagerTypeOK,
      RunTypeOK, ControlOK, Idle, KeyUnbound, OneMover, MoverInserts, Evict,
      keyVars, procVars, runVars, sessionVars
  <1> QED
    BY <1>1, <1>2, <1>3, <1>4, <1>5 DEF KeyOK

LEMMA KeyStep ==
  ASSUME TypeInv, OneMover, KeyOK, [Next]_vars
  PROVE  KeyOK'
  <1>1. ASSUME NEW t \in Thread, Shared(t) PROVE KeyOK'
    BY <1>1, SharedKeyQuiet, KeyQuietStep, EvictKey DEF Shared
  <1>2. ASSUME NEW c \in Caller, CallerCalls(c) \/ CallerGoesOn(c) \/ AwaitTimeout(c)
        PROVE KeyOK'
    BY <1>1, <1>2, CallerKeyQuiet, KeyQuietStep, StartLockKey, AcquireKeyKey,
      FindInMemoryKey, FindOnDiskKey, CreateSessionKey, InsertKey, EnqueueKey,
      AcceptKey, ReleaseKey DEF CallerCalls, CallerGoesOn
  <1>3. ASSUME NEW w \in Worker, WorkerStep(w) \/ PollTimeout(w) \/ Raise(w)
        PROVE KeyOK'
    BY <1>1, <1>3, WorkerKeyQuiet, KeyQuietStep DEF WorkerStep
  <1>4. ASSUME (\E r \in Run : AgyExits(r)) \/ UNCHANGED vars PROVE KeyOK'
    <2>1. KeyQuiet
      BY <1>4 DEF AgyExits, vars, KeyQuiet, managerVars, runVars, sessionVars,
        threadVars, HoldsKey, Settling, InSetStatus, keyVars
    <2> QED
      BY <2>1, KeyQuietStep
  <1> QED
    BY <1>2, <1>3, <1>4 DEF Next

LEMMA InvInit == Init => Inv
  BY TypeInit, InitMover, InitKey DEF Inv

LEMMA InvStep == Inv /\ [Next]_vars => Inv'
  BY TypeStep, MoverStep, KeyStep DEF Inv

(* Every run has one mover and every key in use one holder of its lock,    *)
(* also while writes to the transcript raise.                              *)
THEOREM OneMoverOneHolder == Spec => []Inv
  BY InvInit, InvStep, PTL DEF Spec

(* A start with the key of a run in progress finds that run, for every set *)
(* of callers, workers, runs and keys, degraded keys and rejections.       *)
THEOREM KeysLead == Spec => []KeyLeadsToManagedRun
  <1>1. Inv => KeyLeadsToManagedRun
    BY DEF Inv, KeyOK
  <1> QED
    BY <1>1, OneMoverOneHolder, PTL

-----------------------------------------------------------------------------
(* What a step looks like that neither binds, accepts nor starts a run.    *)
AcceptQuiet ==
  /\ UNCHANGED <<keyOf, accepted>>
  /\ \A r \in Run : Executes(r)' => Executes(r)
  /\ FreeHands'
  /\ \A c \in Caller :
       /\ /\ pc'[c] \in {"create", "insert", "enqueue", "accept"}
          /\ key'[c] \in Key \ Degraded
          => /\ pc[c] \in {"create", "insert", "enqueue", "accept"}
             /\ key'[c] = key[c]
       /\ pc'[c] \in {"enqueue", "accept"} =>
            /\ pc[c] \in {"enqueue", "accept"}
            /\ cur'[c] = cur[c] /\ key'[c] = key[c]
       /\ pc[c] = "accept" => pc'[c] = "accept" /\ cur'[c] = cur[c]

LEMMA AcceptQuietStep ==
  ASSUME TypeInv, AcceptOK, AcceptQuiet
  PROVE  AcceptOK'
  <1>1. KeyBound'
    BY DEF AcceptQuiet, AcceptOK, KeyBound
  <1>2. ExecutedIsAccepted'
    BY DEF AcceptQuiet, AcceptOK, ExecutedIsAccepted, Accepting
  <1>3. SearchStands'
    BY DEF AcceptQuiet, AcceptOK, SearchStands, AcceptedFor
  <1>4. AcceptedOnce'
    BY DEF AcceptQuiet, AcceptOK, AcceptedOnce
  <1> QED
    BY <1>1, <1>2, <1>3, <1>4 DEF AcceptQuiet, AcceptOK

LEMMA SharedAcceptQuiet ==
  ASSUME TypeInv, FreeHands, NEW t \in Thread
  PROVE  /\ SetStatus(t) => AcceptQuiet
         /\ LogStatus(t) => AcceptQuiet
         /\ Signal(t) => AcceptQuiet
         /\ Kill(t) => AcceptQuiet
         /\ SetDone(t) => AcceptQuiet
         /\ NotifyAll(t) => AcceptQuiet
         /\ Evict(t) => AcceptQuiet
  <1>1. SetStatus(t) => AcceptQuiet
    BY Sets DEF AcceptQuiet, FreeHands, Executes, ThreadTypeOK, RunTypeOK,
      ControlOK, InSetStatus, InTerminate, Idle, FinalStatus, SetStatus,
      managerVars, runVars, procVars, keyVars
  <1>2. LogStatus(t) => AcceptQuiet
    BY Sets DEF AcceptQuiet, FreeHands, Executes, ThreadTypeOK, RunTypeOK,
      ControlOK, InSetStatus, InTerminate, Idle, FinalStatus, LogStatus,
      managerVars, runVars, procVars, keyVars
  <1>3. Signal(t) => AcceptQuiet
    BY Sets DEF AcceptQuiet, FreeHands, Executes, ThreadTypeOK, RunTypeOK,
      ControlOK, InSetStatus, InTerminate, Idle, FinalStatus, Signal,
      managerVars, runVars, sessionVars, keyVars
  <1>4. Kill(t) => AcceptQuiet
    BY Sets DEF AcceptQuiet, FreeHands, Executes, ThreadTypeOK, RunTypeOK,
      ControlOK, InSetStatus, InTerminate, Idle, FinalStatus, Kill,
      managerVars, runVars, sessionVars, keyVars
  <1>5. SetDone(t) => AcceptQuiet
    BY Sets DEF AcceptQuiet, FreeHands, Executes, ThreadTypeOK, RunTypeOK,
      ControlOK, InSetStatus, InTerminate, Idle, FinalStatus, SetDone,
      managerVars, sessionVars, procVars, keyVars
  <1>6. NotifyAll(t) => AcceptQuiet
    BY Sets DEF AcceptQuiet, FreeHands, Executes, ThreadTypeOK, RunTypeOK,
      ControlOK, InSetStatus, InTerminate, Idle, FinalStatus, NotifyAll, Woken,
      managerVars, runVars, sessionVars, procVars, keyVars
  <1>7. Evict(t) => AcceptQuiet
    BY Sets DEF AcceptQuiet, FreeHands, Executes, ThreadTypeOK, RunTypeOK,
      ControlOK, InSetStatus, InTerminate, Idle, FinalStatus, Evict, runVars,
      sessionVars, procVars, keyVars
  <1> QED
    BY <1>1, <1>2, <1>3, <1>4, <1>5, <1>6, <1>7

LEMMA CallerAcceptQuiet ==
  ASSUME TypeInv, FreeHands, NEW c \in Caller
  PROVE  /\ StartLock(c) => AcceptQuiet
         /\ AcquireKey(c) => AcceptQuiet
         /\ FindInMemory(c) => AcceptQuiet
         /\ CreateSession(c) => AcceptQuiet
         /\ Release(c) => AcceptQuiet
         /\ Cancel(c) => AcceptQuiet
         /\ CancelFlag(c) => AcceptQuiet
         /\ CancelCond(c) => AcceptQuiet
         /\ CancelIfStillQueued(c) => AcceptQuiet
         /\ CancelEnd(c) => AcceptQuiet
         /\ CancelUnmanaged(c) => AcceptQuiet
         /\ Await(c) => AcceptQuiet
         /\ AwaitCheck(c) => AcceptQuiet
         /\ AwaitTimeout(c) => AcceptQuiet
         /\ Shutdown(c) => AcceptQuiet
         /\ ShutdownRun(c) => AcceptQuiet
         /\ Exit(c) => AcceptQuiet
  <1>1. StartLock(c) => AcceptQuiet
    BY Sets DEF AcceptQuiet, FreeHands, Executes, ThreadTypeOK, RunTypeOK,
      ControlOK, InSetStatus, InTerminate, Idle, FinalStatus, StartLock,
      managerVars, runVars, sessionVars, procVars
  <1>2. AcquireKey(c) => AcceptQuiet
    BY Sets DEF AcceptQuiet, FreeHands, Executes, ThreadTypeOK, RunTypeOK,
      ControlOK, InSetStatus, InTerminate, Idle, FinalStatus, AcquireKey,
      managerVars, runVars, sessionVars, procVars
  <1>3. FindInMemory(c) => AcceptQuiet
    BY Sets DEF AcceptQuiet, FreeHands, Executes, ThreadTypeOK, RunTypeOK,
      ControlOK, InSetStatus, InTerminate, Idle, FinalStatus, FindInMemory,
      managerVars, runVars, sessionVars, procVars, keyVars
  <1>4. CreateSession(c) => AcceptQuiet
    BY Sets DEF AcceptQuiet, FreeHands, Executes, ThreadTypeOK, RunTypeOK,
      ControlOK, InSetStatus, InTerminate, Idle, FinalStatus, CreateSession,
      managerVars, runVars, procVars, keyVars
  <1>5. Release(c) => AcceptQuiet
    BY Sets DEF AcceptQuiet, FreeHands, Executes, ThreadTypeOK, RunTypeOK,
      ControlOK, InSetStatus, InTerminate, Idle, FinalStatus, Release,
      managerVars, runVars, sessionVars, procVars
  <1>6. Cancel(c) => AcceptQuiet
    BY Sets DEF AcceptQuiet, FreeHands, Executes, ThreadTypeOK, RunTypeOK,
      ControlOK, InSetStatus, InTerminate, Idle, FinalStatus, Cancel,
      managerVars, runVars, sessionVars, procVars, keyVars
  <1>7. CancelFlag(c) => AcceptQuiet
    BY Sets DEF AcceptQuiet, FreeHands, Executes, ThreadTypeOK, RunTypeOK,
      ControlOK, InSetStatus, InTerminate, Idle, FinalStatus, CancelFlag,
      managerVars, sessionVars, procVars, keyVars
  <1>8. CancelCond(c) => AcceptQuiet
    BY Sets DEF AcceptQuiet, FreeHands, Executes, ThreadTypeOK, RunTypeOK,
      ControlOK, InSetStatus, InTerminate, Idle, FinalStatus, CancelCond,
      managerVars, sessionVars, procVars, keyVars
  <1>9. CancelIfStillQueued(c) => AcceptQuiet
    BY Sets DEF AcceptQuiet, FreeHands, Executes, ThreadTypeOK, RunTypeOK,
      ControlOK, InSetStatus, InTerminate, Idle, FinalStatus,
      CancelIfStillQueued, managerVars, runVars, sessionVars, procVars, keyVars
  <1>10. CancelEnd(c) => AcceptQuiet
    BY Sets DEF AcceptQuiet, FreeHands, Executes, ThreadTypeOK, RunTypeOK,
      ControlOK, InSetStatus, InTerminate, Idle, FinalStatus, CancelEnd,
      managerVars, sessionVars, procVars, keyVars
  <1>11. CancelUnmanaged(c) => AcceptQuiet
    BY Sets DEF AcceptQuiet, FreeHands, Executes, ThreadTypeOK, RunTypeOK,
      ControlOK, InSetStatus, InTerminate, Idle, FinalStatus, CancelUnmanaged,
      managerVars, runVars, sessionVars, procVars, keyVars
  <1>12. Await(c) => AcceptQuiet
    BY Sets DEF AcceptQuiet, FreeHands, Executes, ThreadTypeOK, RunTypeOK,
      ControlOK, InSetStatus, InTerminate, Idle, FinalStatus, Await,
      managerVars, runVars, sessionVars, procVars, keyVars
  <1>13. AwaitCheck(c) => AcceptQuiet
    BY Sets DEF AcceptQuiet, FreeHands, Executes, ThreadTypeOK, RunTypeOK,
      ControlOK, InSetStatus, InTerminate, Idle, FinalStatus, AwaitCheck,
      managerVars, runVars, sessionVars, procVars, keyVars
  <1>14. AwaitTimeout(c) => AcceptQuiet
    BY Sets DEF AcceptQuiet, FreeHands, Executes, ThreadTypeOK, RunTypeOK,
      ControlOK, InSetStatus, InTerminate, Idle, FinalStatus, AwaitTimeout,
      managerVars, runVars, sessionVars, procVars, keyVars
  <1>15. Shutdown(c) => AcceptQuiet
    BY Sets DEF AcceptQuiet, FreeHands, Executes, ThreadTypeOK, RunTypeOK,
      ControlOK, InSetStatus, InTerminate, Idle, FinalStatus, Shutdown,
      runVars, sessionVars, procVars, keyVars
  <1>16. ShutdownRun(c) => AcceptQuiet
    BY Sets DEF AcceptQuiet, FreeHands, Executes, ThreadTypeOK, RunTypeOK,
      ControlOK, InSetStatus, InTerminate, Idle, FinalStatus, ShutdownRun,
      sessionVars, procVars, keyVars
  <1>17. Exit(c) => AcceptQuiet
    BY Sets DEF AcceptQuiet, FreeHands, Executes, ThreadTypeOK, RunTypeOK,
      ControlOK, InSetStatus, InTerminate, Idle, FinalStatus, Exit,
      managerVars, runVars, sessionVars, procVars, keyVars
  <1> QED
    BY <1>1, <1>2, <1>3, <1>4, <1>5, <1>6, <1>7, <1>8, <1>9, <1>10, <1>11,
      <1>12, <1>13, <1>14, <1>15, <1>16, <1>17

LEMMA WorkerAcceptQuiet ==
  ASSUME TypeInv, FreeHands, NEW w \in Worker
  PROVE  /\ WorkerLoop(w) => AcceptQuiet
         /\ GetEmpty(w) => AcceptQuiet
         /\ RunManaged(w) => AcceptQuiet
         /\ PreparePrompt(w) => AcceptQuiet
         /\ StartAgy(w) => AcceptQuiet
         /\ RegisterProcess(w) => AcceptQuiet
         /\ PollExited(w) => AcceptQuiet
         /\ PollCancelled(w) => AcceptQuiet
         /\ PollTimeout(w) => AcceptQuiet
         /\ Classify(w) => AcceptQuiet
         /\ Return(w) => AcceptQuiet
         /\ Raise(w) => AcceptQuiet
  <1>1. WorkerLoop(w) => AcceptQuiet
    BY Sets DEF AcceptQuiet, FreeHands, Executes, ThreadTypeOK, RunTypeOK,
      ControlOK, InSetStatus, InTerminate, Idle, FinalStatus, WorkerLoop,
      managerVars, runVars, sessionVars, procVars, keyVars
  <1>2. GetEmpty(w) => AcceptQuiet
    BY Sets DEF AcceptQuiet, FreeHands, Executes, ThreadTypeOK, RunTypeOK,
      ControlOK, InSetStatus, InTerminate, Idle, FinalStatus, GetEmpty,
      managerVars, runVars, sessionVars, procVars, keyVars
  <1>3. RunManaged(w) => AcceptQuiet
    BY Sets DEF AcceptQuiet, FreeHands, Executes, ThreadTypeOK, RunTypeOK,
      ControlOK, InSetStatus, InTerminate, Idle, FinalStatus, RunManaged,
      managerVars, runVars, sessionVars, procVars, keyVars
  <1>4. PreparePrompt(w) => AcceptQuiet
    BY Sets DEF AcceptQuiet, FreeHands, Executes, ThreadTypeOK, RunTypeOK,
      ControlOK, InSetStatus, InTerminate, Idle, FinalStatus, PreparePrompt,
      managerVars, runVars, procVars, keyVars
  <1>5. StartAgy(w) => AcceptQuiet
    BY Sets DEF AcceptQuiet, FreeHands, Executes, ThreadTypeOK, RunTypeOK,
      ControlOK, InSetStatus, InTerminate, Idle, FinalStatus, StartAgy,
      managerVars, runVars, sessionVars, keyVars
  <1>6. RegisterProcess(w) => AcceptQuiet
    BY Sets DEF AcceptQuiet, FreeHands, Executes, ThreadTypeOK, RunTypeOK,
      ControlOK, InSetStatus, InTerminate, Idle, FinalStatus, RegisterProcess,
      Woken, managerVars, sessionVars, procVars, keyVars
  <1>7. PollExited(w) => AcceptQuiet
    BY Sets DEF AcceptQuiet, FreeHands, Executes, ThreadTypeOK, RunTypeOK,
      ControlOK, InSetStatus, InTerminate, Idle, FinalStatus, PollExited,
      managerVars, runVars, sessionVars, procVars, keyVars
  <1>8. PollCancelled(w) => AcceptQuiet
    BY Sets DEF AcceptQuiet, FreeHands, Executes, ThreadTypeOK, RunTypeOK,
      ControlOK, InSetStatus, InTerminate, Idle, FinalStatus, PollCancelled,
      PollStop, managerVars, runVars, sessionVars, keyVars
  <1>9. PollTimeout(w) => AcceptQuiet
    BY Sets DEF AcceptQuiet, FreeHands, Executes, ThreadTypeOK, RunTypeOK,
      ControlOK, InSetStatus, InTerminate, Idle, FinalStatus, PollTimeout,
      PollStop, managerVars, runVars, sessionVars, keyVars
  <1>10. Classify(w) => AcceptQuiet
    BY Sets DEF AcceptQuiet, FreeHands, Executes, ThreadTypeOK, RunTypeOK,
      ControlOK, InSetStatus, InTerminate, Idle, FinalStatus, Classify,
      Outcomes, Verdict, managerVars, runVars, sessionVars, keyVars
  <1>11. Return(w) => AcceptQuiet
    BY Sets DEF AcceptQuiet, FreeHands, Executes, ThreadTypeOK, RunTypeOK,
      ControlOK, InSetStatus, InTerminate, Idle, FinalStatus, Return,
      managerVars, sessionVars, procVars, keyVars
  <1>12. Raise(w) => AcceptQuiet
    BY Sets DEF AcceptQuiet, FreeHands, Executes, ThreadTypeOK, RunTypeOK,
      ControlOK, InSetStatus, InTerminate, Idle, FinalStatus, Raise,
      managerVars, sessionVars, procVars, keyVars
  <1> QED
    BY <1>1, <1>2, <1>3, <1>4, <1>5, <1>6, <1>7, <1>8, <1>9, <1>10, <1>11,
      <1>12

LEMMA GetRunAccept ==
  ASSUME Inv, AcceptOK, NEW w \in Worker, GetRun(w)
  PROVE  AcceptOK'
  <1>1. workQueue \in Seq(Run) /\ workQueue # <<>>
    BY DEF GetRun, Inv, ManagerTypeOK
  <1>2. /\ Head(workQueue) = workQueue[1] /\ 1 \in DOMAIN workQueue
        /\ \A i \in DOMAIN Tail(workQueue) :
             i + 1 \in DOMAIN workQueue /\ Tail(workQueue)[i] = workQueue[i + 1]
    BY <1>1
  <1>3. ASSUME NEW r \in Run, Executes(r)' PROVE Executes(r)
    BY <1>2, <1>3, Sets DEF GetRun, Executes, Inv, ThreadTypeOK, runVars
  <1>4. AcceptQuiet
    BY <1>3, Sets DEF GetRun, AcceptQuiet, AcceptOK, FreeHands, Inv, ThreadTypeOK,
      runVars, sessionVars, keyVars
  <1> QED
    BY <1>4, AcceptQuietStep DEF Inv

(* The search on disk found nothing: no run of the key is accepted.        *)
LEMMA FindOnDiskAccept ==
  ASSUME Inv, AcceptOK, NEW c \in Caller, FindOnDisk(c)
  PROVE  AcceptOK'
  <1>1. /\ UNCHANGED <<keyOf, accepted, result, workQueue, key, cur>>
        /\ \A w \in Worker : pc'[w] = pc[w]
        /\ \A d \in Caller : d # c => pc'[d] = pc[d]
        /\ pc'[c] \in {"create", "release"} /\ pc[c] = "scan"
        /\ pc'[c] = "create" => AcceptedFor(key[c]) = {}
    BY Sets DEF FindOnDisk, Inv, ThreadTypeOK, runVars, sessionVars, keyVars
  <1>2. FreeHands' /\ KeyBound'
    BY <1>1 DEF AcceptOK, FreeHands, KeyBound
  <1>3. ExecutedIsAccepted'
    BY <1>1 DEF AcceptOK, ExecutedIsAccepted, Executes, Accepting
  <1>4. SearchStands'
    BY <1>1 DEF AcceptOK, SearchStands, AcceptedFor
  <1>5. AcceptedOnce'
    BY <1>1 DEF AcceptOK, AcceptedOnce
  <1> QED
    BY <1>2, <1>3, <1>4, <1>5 DEF AcceptOK

(* A run that is being inserted neither executes nor is accepted.          *)
LEMMA InsertAccept ==
  ASSUME Inv, AcceptOK, NEW c \in Caller, Insert(c)
  PROVE  AcceptOK'
  <1> DEFINE r == cur[c]
  <1>1. /\ r \in Run /\ pc[c] = "insert" /\ c \in Thread /\ c \notin Worker
        /\ keyOf' = [keyOf EXCEPT ![r] = key[c]]
        /\ pc' = [pc EXCEPT ![c] = "enqueue"]
        /\ UNCHANGED <<accepted, result, workQueue, key, cur>>
    BY Sets DEF Insert, Inv, ThreadTypeOK, ControlOK, Idle, sessionVars, keyVars
  <1>2. Moves(c) /\ result[r] = None /\ ~Queued(r) /\ r \notin OldRun /\ ~accepted[r]
    BY <1>1 DEF Inv, OneMover, KeyOK, Moves, Unsettled, ResultIsLast, MoverOrQueue,
      MoverInserts, AcceptedKnown
  <1>3. \A w \in Worker : cur[w] # r
    <2>1. SUFFICES ASSUME NEW w \in Worker, cur[w] = r PROVE FALSE
      OBVIOUS
    <2>2. pc[w] \notin {"loop", "get", "stopped"}
      BY <1>1, <2>1, Sets DEF AcceptOK, FreeHands
    <2>3. Moves(w)
      BY <2>2 DEF Inv, ControlOK, WorkerLabel, SharedLabel, Moves, Settling, Unsettled,
        InSetStatus
    <2> QED
      BY <1>1, <1>2, <2>1, <2>3 DEF Inv, OneMover, MoverIsOne
  <1>4. ~Executes(r)
    <2>1. \A i \in DOMAIN workQueue : workQueue[i] # r
      BY <1>2 DEF Queued, Inv, ManagerTypeOK
    <2> QED
      BY <1>2, <1>3, <2>1, Sets DEF Executes, Outcome
  <1>5. \A s \in Run : Executes(s)' <=> Executes(s)
    BY <1>1 DEF Executes
  <1>6. \A s \in Run : s # r => keyOf'[s] = keyOf[s]
    BY <1>1 DEF Inv, RunTypeOK
  <1>7. FreeHands'
    BY <1>1, Sets DEF AcceptOK, FreeHands, Inv, ThreadTypeOK
  <1>8. KeyBound'
    <2>1. SUFFICES ASSUME NEW d \in Caller, pc'[d] \in {"enqueue", "accept"}
                   PROVE  keyOf'[cur[d]] = key[d]
      BY <1>1 DEF KeyBound
    <2>2. CASE d = c
      BY <1>1, <2>2 DEF Inv, RunTypeOK
    <2>3. CASE d # c
      <3>1. pc[d] \in {"enqueue", "accept"} /\ cur[d] \in Run
        BY <1>1, <2>1, <2>3 DEF Inv, ThreadTypeOK, ControlOK, Idle
      <3>2. cur[d] # r
        <4>1. pc[d] = "enqueue" => cur[d] # r
          BY <1>1, <1>2, <2>3, Sets DEF Inv, OneMover, MoverIsOne, Moves, Unsettled
        <4>2. pc[d] = "accept" => cur[d] # r
          BY <1>1, <3>1 DEF Inv, KeyOK, AcceptedKnown, OneMover, MoverInserts
        <4> QED
          BY <3>1, <4>1, <4>2
      <3> QED
        BY <1>6, <3>1, <3>2 DEF AcceptOK, KeyBound
    <2> QED
      BY <2>2, <2>3
  <1>9. ExecutedIsAccepted'
    <2>1. SUFFICES ASSUME NEW s \in Run, Executes(s), keyOf'[s] \in Key
                   PROVE  accepted[s] \/ Accepting(s)'
      BY <1>1, <1>5 DEF ExecutedIsAccepted
    <2>2. s # r /\ (accepted[s] \/ Accepting(s))
      BY <1>4, <1>6, <2>1 DEF AcceptOK, ExecutedIsAccepted
    <2> QED
      BY <1>1, <2>2 DEF Accepting, Inv, ThreadTypeOK
  <1>10. SearchStands'
    <2>1. SUFFICES ASSUME NEW d \in Caller, key[d] \in Key \ Degraded,
                          pc'[d] \in {"create", "insert", "enqueue", "accept"},
                          NEW s \in Run, accepted[s], keyOf'[s] = key[d]
                   PROVE  FALSE
      BY <1>1 DEF SearchStands, AcceptedFor
    <2>2. s # r /\ keyOf[s] = key[d]
      BY <1>2, <1>6, <2>1
    <2>3. pc[d] \in {"create", "insert", "enqueue", "accept"}
      BY <1>1, <2>1 DEF Inv, ThreadTypeOK
    <2> QED
      BY <2>1, <2>2, <2>3 DEF AcceptOK, SearchStands, AcceptedFor
  <1>11. AcceptedOnce'
    BY <1>1, <1>2, <1>6 DEF AcceptOK, AcceptedOnce
  <1> QED
    BY <1>7, <1>8, <1>9, <1>10, <1>11 DEF AcceptOK

(* A run the queue takes executes from now on, and its caller accepts it;  *)
(* a rejected run never executes.                                          *)
LEMMA EnqueueAccept ==
  ASSUME Inv, AcceptOK, NEW c \in Caller, Enqueue(c)
  PROVE  AcceptOK'
  <1> DEFINE r == cur[c]
  <1>1. /\ r \in Run /\ pc[c] = "enqueue" /\ c \in Thread /\ c \notin Worker
        /\ UNCHANGED <<keyOf, accepted, key, cur>>
        /\ \A t \in Thread : t # c => pc'[t] = pc[t]
        /\ workQueue \in Seq(Run)
    BY Sets DEF Enqueue, Inv, ThreadTypeOK, ManagerTypeOK, ControlOK, Idle, sessionVars, keyVars
  <1>2. \/ /\ pc'[c] = "accept" /\ UNCHANGED result
           /\ workQueue' = Append(workQueue, r)
        \/ /\ pc'[c] = "setStatus" /\ UNCHANGED workQueue
           /\ result' = [result EXCEPT ![r] = "rejected"]
    BY <1>1 DEF Enqueue, Inv, ThreadTypeOK
  <1>3. FreeHands'
    BY <1>1 DEF AcceptOK, FreeHands
  <1>4. KeyBound' /\ SearchStands'
    BY <1>1, <1>2 DEF AcceptOK, KeyBound, SearchStands, AcceptedFor
  <1>5. AcceptedOnce'
    BY <1>1 DEF AcceptOK, AcceptedOnce
  <1>6. ASSUME NEW s \in Run, Executes(s)'
        PROVE  Executes(s) \/ (s = r /\ pc'[c] = "accept")
    <2>1. CASE workQueue' = Append(workQueue, r) /\ UNCHANGED result /\ pc'[c] = "accept"
      <3>1. \A i \in DOMAIN workQueue' :
              workQueue'[i] = r \/ (i \in DOMAIN workQueue /\ workQueue'[i] = workQueue[i])
        BY <1>1, <2>1
      <3> QED
        BY <1>1, <1>6, <2>1, <3>1 DEF Executes
    <2>2. CASE UNCHANGED workQueue /\ result' = [result EXCEPT ![r] = "rejected"]
      <3>1. result'[s] \in FinalStatus => result[s] \in FinalStatus
        BY <2>2 DEF Inv, RunTypeOK, FinalStatus
      <3> QED
        BY <1>1, <1>6, <2>2, <3>1 DEF Executes
    <2> QED
      BY <1>2, <2>1, <2>2
  <1>7. ExecutedIsAccepted'
    <2>1. \A s \in Run : Accepting(s) => Accepting(s)'
      BY <1>1 DEF Accepting
    <2>2. pc'[c] = "accept" => Accepting(r)'
      BY <1>1 DEF Accepting
    <2> QED
      BY <1>1, <1>6, <2>1, <2>2 DEF AcceptOK, ExecutedIsAccepted
  <1> QED
    BY <1>3, <1>4, <1>5, <1>7 DEF AcceptOK

(* The acceptance is the first for its key, because the lock of the key    *)
(* was held since the search that found none.                              *)
LEMMA AcceptAccept ==
  ASSUME Inv, AcceptOK, NEW c \in Caller, Accept(c)
  PROVE  AcceptOK'
  <1> DEFINE r == cur[c]
  <1>1. /\ r \in Run /\ pc[c] = "accept" /\ c \in Thread /\ c \notin Worker
        /\ UNCHANGED <<keyOf, result, workQueue, key, cur>>
        /\ accepted' = [accepted EXCEPT ![r] = TRUE]
        /\ \A t \in Thread : t # c => pc'[t] = pc[t]
        /\ pc'[c] = "release"
    BY Sets DEF Accept, Inv, ThreadTypeOK, ControlOK, Idle, managerVars, runVars, keyVars
  <1>2. \A s \in Run : accepted'[s] = (s = r \/ accepted[s])
    BY <1>1 DEF Inv, SessionTypeOK
  <1>3. keyOf[r] = key[c]
    BY <1>1 DEF AcceptOK, KeyBound
  <1>4. FreeHands' /\ KeyBound'
    BY <1>1 DEF AcceptOK, FreeHands, KeyBound
  <1>5. ExecutedIsAccepted'
    <2>1. \A s \in Run : Executes(s)' <=> Executes(s)
      BY <1>1 DEF Executes
    <2>2. \A s \in Run : Accepting(s) => s = r \/ Accepting(s)'
      BY <1>1 DEF Accepting
    <2> QED
      BY <1>1, <1>2, <2>1, <2>2 DEF AcceptOK, ExecutedIsAccepted
  <1>6. SearchStands'
    <2>1. SUFFICES ASSUME NEW d \in Caller, key[d] \in Key \ Degraded,
                          pc'[d] \in {"create", "insert", "enqueue", "accept"}
                   PROVE  keyOf[r] # key[d] /\ AcceptedFor(key[d]) = {}
      BY <1>1, <1>2 DEF SearchStands, AcceptedFor
    <2>2. d # c /\ pc[d] \in {"create", "insert", "enqueue", "accept"}
      BY <1>1, <2>1
    <2>3. key[c] # key[d]
      BY <1>1, <2>1, <2>2, Sets DEF Inv, KeyOK, KeyLocked, HoldsKey
    <2> QED
      BY <1>3, <2>1, <2>2, <2>3 DEF AcceptOK, SearchStands
  <1>7. AcceptedOnce'
    <2>1. key[c] \in Key \ Degraded => AcceptedFor(key[c]) = {}
      BY <1>1 DEF AcceptOK, SearchStands
    <2> QED
      BY <1>1, <1>2, <1>3, <2>1 DEF AcceptOK, AcceptedOnce, AcceptedFor
  <1> QED
    BY <1>4, <1>5, <1>6, <1>7 DEF AcceptOK

LEMMA InitAccept == Init => AcceptOK
  <1> SUFFICES ASSUME Init PROVE AcceptOK
    OBVIOUS
  <1>1. /\ \A c \in Caller : pc[c] = "idle"
        /\ \A w \in Worker : cur[w] = None
        /\ \A r \in Run : accepted[r] <=> r \in OldRun
        /\ \A r \in Run : result[r] = None
        /\ DOMAIN workQueue = {}
    <2>1. pc = [t \in Thread |-> IF t \in Caller THEN "idle" ELSE "loop"]
          /\ cur = [t \in Thread |-> None]
      BY DEF Init
    <2>2. accepted = [r \in Run |-> r \in OldRun] /\ result = [r \in Run |-> None]
      BY DEF Init
    <2>3. workQueue = <<>>
      BY DEF Init
    <2> QED
      <3>1. \A c \in Caller : pc[c] = "idle"
        BY <2>1
      <3>2. \A w \in Worker : cur[w] = None
        BY <2>1
      <3>3. DOMAIN workQueue = {}
        BY <2>3
      <3> QED
        BY <2>2, <3>1, <3>2, <3>3
  <1>2. \A r \in Run : Executes(r) => r \in OldRun
    BY <1>1, Sets DEF Executes, Outcome
  <1>3. \A r, s \in OldRun : keyOf[r] = keyOf[s] /\ keyOf[r] # None => r = s
    BY DEF Init
  <1>4. FreeHands /\ KeyBound /\ SearchStands /\ ExecutedIsAccepted
    BY <1>1, <1>2 DEF FreeHands, KeyBound, SearchStands, ExecutedIsAccepted
  <1>5. AcceptedOnce
    BY <1>1, <1>3, Sets DEF AcceptedOnce
  <1> QED
    BY <1>4, <1>5 DEF AcceptOK

LEMMA AcceptStep ==
  ASSUME Inv, AcceptOK, [Next]_vars
  PROVE  AcceptOK'
  <1> USE DEF Inv
  <1>1. FreeHands
    BY DEF AcceptOK
  <1>2. ASSUME NEW t \in Thread, Shared(t) PROVE AcceptOK'
    BY <1>1, <1>2, SharedAcceptQuiet, AcceptQuietStep DEF Shared
  <1>3. ASSUME NEW c \in Caller, CallerCalls(c) \/ CallerGoesOn(c) \/ AwaitTimeout(c)
        PROVE AcceptOK'
    BY <1>1, <1>2, <1>3, CallerAcceptQuiet, AcceptQuietStep, FindOnDiskAccept,
      InsertAccept, EnqueueAccept, AcceptAccept DEF CallerCalls, CallerGoesOn
  <1>4. ASSUME NEW w \in Worker, WorkerStep(w) \/ PollTimeout(w) \/ Raise(w)
        PROVE AcceptOK'
    BY <1>1, <1>2, <1>4, WorkerAcceptQuiet, AcceptQuietStep, GetRunAccept
      DEF WorkerStep
  <1>5. ASSUME \/ UNCHANGED vars
               \/ \E r \in Run : AgyExits(r)
        PROVE AcceptOK'
    <2>1. UNCHANGED <<managerVars, runVars, accepted, keyVars, threadVars>>
      BY <1>5 DEF AgyExits, vars, sessionVars
    <2>2. AcceptQuiet
      BY <1>1, <2>1 DEF AcceptQuiet, Executes, FreeHands, managerVars, runVars, keyVars, threadVars
    <2> QED
      BY <2>2, AcceptQuietStep
  <1> QED
    BY <1>3, <1>4, <1>5 DEF Next

LEMMA OneRunFollows == Inv /\ AcceptOK => OneRunPerKey
  <1> SUFFICES ASSUME Inv, AcceptOK, NEW r \in Run, NEW s \in Run,
                      Executes(r), Executes(s),
                      keyOf[r] = keyOf[s], keyOf[r] \in Key \ Degraded
               PROVE  r = s
    BY DEF OneRunPerKey
  <1>1. /\ accepted[r] \/ Accepting(r)
        /\ accepted[s] \/ Accepting(s)
    BY DEF AcceptOK, ExecutedIsAccepted
  <1>2. ASSUME NEW x \in Run, NEW y \in Run, keyOf[x] = keyOf[y], keyOf[x] \in Key \ Degraded,
               Accepting(x)
        PROVE  ~accepted[y] /\ (Accepting(y) => x = y)
    <2>1. PICK c \in Caller : pc[c] = "accept" /\ cur[c] = x
      BY <1>2 DEF Accepting
    <2>2. key[c] = keyOf[x]
      BY <2>1 DEF AcceptOK, KeyBound
    <2>3. ~accepted[y]
      BY <1>2, <2>1, <2>2 DEF AcceptOK, SearchStands, AcceptedFor
    <2>4. ASSUME Accepting(y) PROVE x = y
      <3>1. PICK d \in Caller : pc[d] = "accept" /\ cur[d] = y
        BY <2>4 DEF Accepting
      <3>2. key[d] = keyOf[y]
        BY <3>1 DEF AcceptOK, KeyBound
      <3>3. c = d
        BY <1>2, <2>1, <2>2, <3>1, <3>2, Sets DEF Inv, KeyOK, KeyLocked, HoldsKey
      <3> QED
        BY <2>1, <3>1, <3>3
    <2> QED
      BY <2>3, <2>4
  <1>3. CASE accepted[r] /\ accepted[s]
    BY <1>3 DEF AcceptOK, AcceptedOnce
  <1> QED
    BY <1>1, <1>2, <1>3

(* What executes under a key is accepted on disk, or its caller holds the  *)
(* lock of the key and is about to write so.                               *)
THEOREM ExecutedAreAccepted == Spec => []AcceptOK
  BY InvInit, InvStep, InitAccept, AcceptStep, PTL DEF Spec

(* A key with a healthy fingerprint is executed by one run, for any number *)
(* of callers, workers, keys and runs of an earlier server.                *)
THEOREM KeyExecutesOnce == Spec => []OneRunPerKey
  BY OneMoverOneHolder, ExecutedAreAccepted, OneRunFollows, PTL

-----------------------------------------------------------------------------
(* The steps of RunManager that the ledger sees.                           *)
LEMMA LedgerInit == Init => Ledger!Init
  BY Sets DEF Init, Ledger!Init, Phase

LEMMA LedgerQuiet ==
  ASSUME UNCHANGED <<runs, result, done, keyOf, idem>>
  PROVE  UNCHANGED Ledger!vars
  BY DEF Ledger!vars, Phase

LEMMA InsertOpens ==
  ASSUME Inv, NEW c \in Caller, Insert(c)
  PROVE  Ledger!Open(cur[c], key[c])
  <1>1. /\ cur[c] \in Run /\ cur[c] \notin runs /\ cur[c] \notin OldRun
        /\ ~done[cur[c]] /\ result[cur[c]] = None
    BY Sets DEF Insert, Inv, ControlOK, Idle, OneMover, MoverInserts, ResultIsLast,
      Unsettled
  <1>2. key[c] # None => idem[key[c]] = None
    BY DEF Insert, Inv, KeyOK, KeyUnbound
  <1>3. runs' = runs \cup {cur[c]} /\ UNCHANGED <<result, done>>
    BY DEF Insert
  <1>4. [r \in Run |-> Phase(r)]' = [[r \in Run |-> Phase(r)] EXCEPT ![cur[c]] = "open"]
    BY <1>1, <1>3 DEF Phase
  <1>5. idem' = [l \in Key |-> IF l = key[c] THEN cur[c] ELSE idem[l]]
    <2>1. idem \in [Key -> Run \cup {None}] /\ key[c] \in Key \cup {None}
      BY DEF Inv, ManagerTypeOK, ThreadTypeOK
    <2>2. CASE key[c] = None
      BY <2>1, <2>2, Sets DEF Insert
    <2>3. CASE key[c] # None
      BY <1>2, <2>1, <2>3 DEF Insert
    <2> QED
      BY <2>2, <2>3
  <1>6. [r \in Run |-> Phase(r)][cur[c]] = "new"
    BY <1>1 DEF Phase
  <1>7. keyOf' = [keyOf EXCEPT ![cur[c]] = key[c]]
    BY DEF Insert
  <1> QED
    BY <1>2, <1>3, <1>4, <1>5, <1>6, <1>7 DEF Ledger!Open

LEMMA EvictForgets ==
  ASSUME Inv, NEW t \in Thread, Evict(t)
  PROVE  Ledger!Forget(cur[t])
  <1>1. /\ cur[t] \in Run /\ cur[t] \in runs /\ done[cur[t]] /\ result[cur[t]] # None
    BY DEF Evict, Inv, ControlOK, Idle, OneMover, MoverManages, ResultIsLast, Moves,
      Settling
  <1>2. \A k \in Key : keyOf[cur[t]] = k => idem[k] = cur[t]
    BY <1>1, Sets DEF Inv, KeyOK, KeyLeadsToManagedRun
  <1>3. runs' = runs \ {cur[t]} /\ UNCHANGED <<result, done, keyOf>>
    BY DEF Evict, runVars
  <1>4. [r \in Run |-> Phase(r)]' = [[r \in Run |-> Phase(r)] EXCEPT ![cur[t]] = "gone"]
    BY <1>1, <1>3 DEF Phase
  <1>5. idem' = [k \in Key |-> IF k = keyOf[cur[t]] THEN None ELSE idem[k]]
    BY <1>2 DEF Evict
  <1>6. [r \in Run |-> Phase(r)][cur[t]] = "settled"
    BY <1>1 DEF Phase
  <1> QED
    BY <1>3, <1>4, <1>5, <1>6 DEF Ledger!Forget

LEMMA FindRecalls ==
  ASSUME Inv, NEW c \in Caller, FindOnDisk(c)
  PROVE  (\E r \in Run : Ledger!Recall(r, key[c])) \/ UNCHANGED Ledger!vars
  <1>1. CASE AcceptedFor(key[c]) = {}
    BY <1>1, LedgerQuiet DEF FindOnDisk, runVars
  <1>2. ASSUME NEW r \in AcceptedFor(key[c]), idem' = [idem EXCEPT ![key[c]] = r]
        PROVE  Ledger!Recall(r, key[c])
    <2>1. r \in Run /\ accepted[r] /\ keyOf[r] = key[c]
      BY <1>2 DEF AcceptedFor
    <2>2. key[c] \in Key /\ idem[key[c]] = None
      BY DEF FindOnDisk, Inv, KeyOK, KeyGiven, KeyUnbound, ThreadTypeOK
    <2>3. r \notin runs
      BY <2>1, <2>2, Sets DEF Inv, KeyOK, KeyLeadsToManagedRun
    <2>4. done[r] \/ r \in OldRun
      BY <2>1, <2>3 DEF Inv, KeyOK, AcceptedKnown
    <2> QED
      BY <1>2, <2>1, <2>2, <2>3, <2>4 DEF FindOnDisk, Phase, Ledger!Recall, runVars
  <1> QED
    BY <1>1, <1>2 DEF FindOnDisk, AcceptedFor

(* A thread that gives its run the result settles it in the ledger.        *)
LEMMA ResultSettles ==
  ASSUME Inv, NEW t \in Thread, Unsettled(t), pc[t] # "insert",
         NEW o \in Outcome, result' = [result EXCEPT ![cur[t]] = o],
         UNCHANGED <<runs, done, keyOf, idem>>
  PROVE  Ledger!Settle(cur[t], o)
  <1>1. cur[t] \in Run /\ cur[t] \in runs /\ result[cur[t]] = None
    BY DEF Inv, ControlOK, Idle, Unsettled, InSetStatus, OneMover, MoverManages,
      Moves, ResultIsLast
  <1> QED
    BY <1>1, Sets DEF Inv, RunTypeOK, Phase, Ledger!Settle

LEMMA EnqueueSettles ==
  ASSUME Inv, NEW c \in Caller, Enqueue(c)
  PROVE  Ledger!Next \/ UNCHANGED Ledger!vars
  <1>1. cur[c] \in Run /\ Unsettled(c) /\ pc[c] # "insert"
    BY Sets DEF Enqueue, Inv, ControlOK, Idle, Unsettled
  <1>2. CASE UNCHANGED result
    BY <1>2, LedgerQuiet DEF Enqueue
  <1>3. CASE result' = [result EXCEPT ![cur[c]] = "rejected"]
    BY <1>1, <1>3, ResultSettles DEF Enqueue, Outcome, Ledger!Next
  <1> QED
    BY <1>2, <1>3 DEF Enqueue

LEMMA WorkerSettles ==
  ASSUME Inv, NEW w \in Worker, Return(w) \/ Raise(w)
  PROVE  Ledger!Next \/ UNCHANGED Ledger!vars
  <1>1. cur[w] \in Run
    BY DEF Return, Raise, Inv, ControlOK, Idle
  <1>2. CASE Return(w)
    <2>1. Unsettled(w) /\ want[w] \in Outcome
      BY <1>2 DEF Return, Inv, ControlOK, Unsettled, Outcome
    <2> QED
      BY <1>1, <1>2, <2>1, ResultSettles DEF Return, managerVars, Ledger!Next
  <1>3. CASE Raise(w) /\ result' = [result EXCEPT ![cur[w]] = "error"] /\ Unsettled(w)
    <2>1. "error" \in Outcome /\ pc[w] # "insert"
      BY <1>3 DEF Raise, Outcome, FinalStatus
    <2> QED
      BY <1>1, <1>3, <2>1, ResultSettles DEF Raise, managerVars, Ledger!Next
  <1>4. CASE Raise(w) /\ UNCHANGED result
    BY <1>4, LedgerQuiet DEF Raise, managerVars
  <1> QED
    BY <1>2, <1>3, <1>4 DEF Raise, Unsettled, InSetStatus

LEMMA SetDoneUnseen ==
  ASSUME Inv, NEW t \in Thread, SetDone(t)
  PROVE  UNCHANGED Ledger!vars
  BY DEF SetDone, Inv, ControlOK, Idle, OneMover, MoverManages, Moves, Settling, Phase,
    Ledger!vars, managerVars, RunTypeOK

LEMMA SharedUnseen ==
  ASSUME NEW t \in Thread
  PROVE  \/ SetStatus(t)
         \/ LogStatus(t)
         \/ Signal(t)
         \/ Kill(t)
         \/ NotifyAll(t)
         => UNCHANGED <<runs, result, done, keyOf, idem>>
  BY DEF SetStatus, LogStatus, Signal, Kill, NotifyAll, managerVars, runVars

LEMMA CallerUnseen ==
  ASSUME NEW c \in Caller
  PROVE  \/ StartLock(c)
         \/ AcquireKey(c)
         \/ FindInMemory(c)
         \/ CreateSession(c)
         \/ Accept(c)
         \/ Release(c)
         \/ Cancel(c)
         \/ CancelFlag(c)
         \/ CancelCond(c)
         \/ CancelIfStillQueued(c)
         \/ CancelEnd(c)
         \/ CancelUnmanaged(c)
         \/ Await(c)
         \/ AwaitCheck(c)
         \/ AwaitTimeout(c)
         \/ Shutdown(c)
         \/ ShutdownRun(c)
         \/ Exit(c)
         => UNCHANGED <<runs, result, done, keyOf, idem>>
  BY DEF StartLock, AcquireKey, FindInMemory, CreateSession, Accept, Release,
    Cancel, CancelFlag, CancelCond, CancelIfStillQueued, CancelEnd,
    CancelUnmanaged, Await, AwaitCheck, AwaitTimeout, Shutdown, ShutdownRun,
    Exit, managerVars, runVars

LEMMA WorkerUnseen ==
  ASSUME NEW w \in Worker
  PROVE  \/ WorkerLoop(w)
         \/ GetEmpty(w)
         \/ GetRun(w)
         \/ RunManaged(w)
         \/ PreparePrompt(w)
         \/ StartAgy(w)
         \/ RegisterProcess(w)
         \/ PollExited(w)
         \/ PollCancelled(w)
         \/ PollTimeout(w)
         \/ Classify(w)
         => UNCHANGED <<runs, result, done, keyOf, idem>>
  BY DEF WorkerLoop, GetEmpty, GetRun, RunManaged, PreparePrompt, StartAgy,
    RegisterProcess, PollExited, PollCancelled, PollTimeout, Classify,
    PollStop, managerVars, runVars

LEMMA LedgerStep ==
  ASSUME Inv, [Next]_vars
  PROVE  [Ledger!Next]_(Ledger!vars)
  <1>1. ASSUME NEW t \in Thread, Shared(t)
        PROVE  Ledger!Next \/ UNCHANGED Ledger!vars
    <2>1. cur[t] \in Run \/ ~Evict(t)
      BY DEF Evict, Inv, ControlOK, Idle
    <2> QED
      BY <1>1, <2>1, EvictForgets, SetDoneUnseen, SharedUnseen, LedgerQuiet
        DEF Shared, Ledger!Next
  <1>2. ASSUME NEW c \in Caller, CallerCalls(c) \/ CallerGoesOn(c) \/ AwaitTimeout(c)
        PROVE  Ledger!Next \/ UNCHANGED Ledger!vars
    <2>1. CASE Insert(c)
      <3>1. cur[c] \in Run /\ key[c] \in Key \cup {None}
        BY <2>1 DEF Insert, Inv, ControlOK, Idle, ThreadTypeOK
      <3> QED
        BY <2>1, <3>1, InsertOpens DEF Ledger!Next
    <2>2. CASE FindOnDisk(c)
      <3>1. key[c] \in Key
        BY <2>2 DEF FindOnDisk, Inv, KeyOK, KeyGiven, ThreadTypeOK
      <3> QED
        BY <2>2, <3>1, FindRecalls DEF Ledger!Next
    <2> QED
      BY <1>1, <1>2, <2>1, <2>2, EnqueueSettles, CallerUnseen, LedgerQuiet
        DEF CallerCalls, CallerGoesOn
  <1>3. ASSUME NEW w \in Worker, WorkerStep(w) \/ PollTimeout(w) \/ Raise(w)
        PROVE  Ledger!Next \/ UNCHANGED Ledger!vars
    BY <1>1, <1>3, WorkerSettles, WorkerUnseen, LedgerQuiet DEF WorkerStep
  <1>4. ASSUME (\E r \in Run : AgyExits(r)) \/ UNCHANGED vars
        PROVE  UNCHANGED Ledger!vars
    BY <1>4, LedgerQuiet DEF AgyExits, vars, managerVars, runVars
  <1> QED
    BY <1>2, <1>3, <1>4 DEF Next

(* RunManager keeps the promises of the ledger: a run leaves the table only *)
(* with its one result, and no second run is opened under a key in use.    *)
THEOREM LedgerImplemented == Spec => ImplementsLedger
  <1>1. Inv /\ [Next]_vars => [Ledger!Next]_(Ledger!vars)
    BY LedgerStep
  <1> QED
    BY <1>1, LedgerInit, InvInit, InvStep, PTL DEF Spec, ImplementsLedger, Ledger!Spec
=============================================================================
