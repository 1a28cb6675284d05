----------------------------- MODULE RunManager -----------------------------
(***************************************************************************)
(* The detached-run core of Gemness: RunManager (run_manager.py), the      *)
(* caller side of GemnessService.start_antigravity (tools.py), the session *)
(* status kept by ObserverHub (observer.py) and the run loop of            *)
(* AgyCliRunner (runner.py), at the granularity of the steps between which *)
(* another thread can run.                                                 *)
(*                                                                         *)
(* Threads are callers (threads inside a tool call) and workers (the pool  *)
(* of RunManager).  A call is a path of program-counter labels; the code   *)
(* that callers and workers share (set_status, terminate, the settling of  *)
(* a run) is one action with the continuation of the thread in ret[t].     *)
(***************************************************************************)
EXTENDS Integers, Sequences, FiniteSets

CONSTANTS
  Caller,       \* threads that call the tools
  Worker,       \* the pool: concurrency_limit threads
  Run,          \* session ids, the id of a run
  Key,          \* idempotency lookup keys (key and scope together)
  Degraded,     \* the keys whose scope says workspace_fingerprint_degraded
  OldRun,       \* runs of an earlier server process, known from transcripts
  QueueLimit,   \* capacity of the work queue
  HubMayFail,   \* whether a transcript write of a run callable may raise
  Calls,        \* what callers do: "start", "cancel", "await", "shutdown"
  None          \* "no run", "no key", "nobody"

FinalStatus == {"completed", "error", "cancelled"}
OpenStatus  == {"queued", "sending", "running"}
Outcome     == FinalStatus \cup {"rejected"}

ASSUME Sets ==
  /\ Caller \cap Worker = {} /\ IsFiniteSet(Worker)
  /\ OldRun \subseteq Run /\ Degraded \subseteq Key
  /\ None \notin Run \cup Key \cup Caller \cup Worker \cup Outcome
ASSUME Limits == QueueLimit \in Nat \ {0}
ASSUME Switches == HubMayFail \in BOOLEAN

Thread == Caller \cup Worker

VARIABLES
  \* RunManager
  runs,         \* keys of _runs: the managed runs
  idem,         \* _idempotency
  workQueue,    \* _work_queue
  shutdown,     \* _shutdown
  sweep,        \* runs shutdown() has still to visit
  \* ManagedRun, one per run
  keyOf,        \* idempotency_lookup_key
  cancelEvent, done, result,
  process,      \* whether managed.process is registered
  condLock,     \* owner of the lock of managed.condition
  \* the session of the run in ObserverHub
  status,       \* status in memory
  logStatus,    \* last status written to the transcript
  logResult,    \* last terminal event of the transcript, with its result
  accepted,     \* whether run.accepted is in the transcript
  \* the agy process of the run
  proc, termReq, verdict,
  killedBy,     \* history: whose terminate() ended the process
  \* threads
  keyLock,      \* owner of the lock of _idempotency_scope
  key,          \* idempotency key of the start in progress
  pc, cur, want, ret

managerVars == <<runs, idem, workQueue, shutdown, sweep>>
runVars     == <<keyOf, cancelEvent, done, result, process, condLock>>
sessionVars == <<status, logStatus, logResult, accepted>>
procVars    == <<proc, termReq, verdict, killedBy>>
keyVars     == <<keyLock, key>>
threadVars  == <<pc, cur, want, ret>>
vars == <<managerVars, runVars, sessionVars, procVars, keyVars, threadVars>>

CallerLabel == {"idle", "lock", "find", "scan", "create", "insert", "enqueue",
                "accept", "release", "cancelFlag", "cancelCond", "cancelQueued",
                "cancelEnd", "unmanaged", "await", "waiting",
                "sweep", "join", "exited"}
WorkerLabel == {"loop", "get", "check", "send", "spawn", "register", "poll",
                "classify", "return", "stopped"}
SharedLabel == {"setStatus", "logStatus", "signal", "kill",
                "setDone", "notify", "evict"}
Label == CallerLabel \cup WorkerLabel \cup SharedLabel

ASSUME NoneIsNone == None \notin Label \cup {"running", "caller", "worker"}

-----------------------------------------------------------------------------
(* A transcript found at start-up shows an old run in any status; nobody   *)
(* manages it, and it answers for its key through its run.accepted event.  *)
OldSession(r) ==
  /\ status[r] \in {"queued", "running", "completed"}
  /\ logResult[r] = IF status[r] = "completed" THEN "completed" ELSE None

Init ==
  /\ runs = {} /\ workQueue = <<>> /\ shutdown = FALSE /\ sweep = {}
  /\ idem = [k \in Key |-> None]
  /\ keyOf \in [Run -> Key \cup {None}]
  /\ \A r, s \in Run : r \notin OldRun => keyOf[r] = None
  /\ \A r, s \in OldRun : keyOf[r] = keyOf[s] /\ keyOf[r] # None => r = s
  /\ cancelEvent = [r \in Run |-> FALSE]
  /\ done = [r \in Run |-> FALSE]
  /\ result = [r \in Run |-> None]
  /\ process = [r \in Run |-> FALSE]
  /\ condLock = [r \in Run |-> None]
  /\ status \in [Run -> {"absent", "queued", "running", "completed"}]
  /\ logStatus = status
  /\ logResult \in [Run -> {None, "completed"}]
  /\ \A r \in Run : IF r \in OldRun THEN OldSession(r)
                    ELSE status[r] = "absent" /\ logResult[r] = None
  /\ accepted = [r \in Run |-> r \in OldRun]
  /\ proc = [r \in Run |-> "none"]
  /\ termReq = [r \in Run |-> FALSE]
  /\ verdict = [r \in Run |-> "none"]
  /\ killedBy = [r \in Run |-> None]
  /\ keyLock = [k \in Key |-> None]
  /\ key = [c \in Caller |-> None]
  /\ pc = [t \in Thread |-> IF t \in Caller THEN "idle" ELSE "loop"]
  /\ cur = [t \in Thread |-> None]
  /\ want = [t \in Thread |-> None]
  /\ ret = [t \in Thread |-> None]

Goto(t, l) == pc' = [pc EXCEPT ![t] = l]
Move(t, from, to) == pc[t] = from /\ Goto(t, to)

(* The thread leaves the call, or the run, it was busy with.               *)
Leave(t, l) ==
  /\ Goto(t, l)
  /\ cur' = [cur EXCEPT ![t] = None]
  /\ want' = [want EXCEPT ![t] = None]
  /\ ret' = [ret EXCEPT ![t] = None]

(* The interpreter is gone: worker threads are daemons and stop with it.   *)
Exited == \E c \in Caller : pc[c] = "exited"

-----------------------------------------------------------------------------
(* Steps of code that several operations share.                            *)

(* hub.set_status(cur, w, event) called by t, which goes on at l.          *)
CallSetStatus(t, w, l) ==
  /\ want' = [want EXCEPT ![t] = w]
  /\ ret' = [ret EXCEPT ![t] = l]
  /\ Goto(t, "setStatus")

(* First half of set_status: the record in memory, under the hub's lock.   *)
SetStatus(t) ==
  /\ Move(t, "setStatus", "logStatus")
  /\ status' = [status EXCEPT ![cur[t]] = want[t]]
  /\ UNCHANGED <<managerVars, runVars, logStatus, logResult, accepted,
                 procVars, keyVars, cur, want, ret>>

(* Mutant: the cancellation of a run is not logged.                        *)
LogUncancelled(t) ==
  /\ Move(t, "logStatus", ret[t])
  /\ IF want[t] = "cancelled" THEN UNCHANGED <<logStatus, logResult>>
     ELSE /\ logStatus' = [logStatus EXCEPT ![cur[t]] = want[t]]
          /\ logResult' = IF want[t] \in FinalStatus
                          THEN [logResult EXCEPT ![cur[t]] = want[t]] ELSE logResult
  /\ UNCHANGED <<managerVars, runVars, status, accepted, procVars, keyVars,
                 cur, want, ret>>

(* Second half: append_event, after the lock was released.                 *)
LogStatus(t) ==
  /\ Move(t, "logStatus", ret[t])
  /\ logStatus' = [logStatus EXCEPT ![cur[t]] = want[t]]
  /\ logResult' = IF want[t] \in FinalStatus
                  THEN [logResult EXCEPT ![cur[t]] = want[t]] ELSE logResult
  /\ UNCHANGED <<managerVars, runVars, status, accepted, procVars, keyVars,
                 cur, want, ret>>

(* Mutant: the request to terminate is not remembered.                     *)
SignalUnmarked(t) ==
  /\ Move(t, "signal", IF process[cur[t]] THEN "kill" ELSE ret[t])
  /\ UNCHANGED <<managerVars, runVars, sessionVars, procVars, keyVars,
                 cur, want, ret>>

(* _RunningAgyCommand.terminate: mark the request while the process lives, *)
(* then signal it and wait for its end.  A process that ends by itself     *)
(* between the two steps is not killed.  SIGTERM may still let it exit 0.  *)
Signal(t) ==
  LET r == cur[t] IN
  /\ pc[t] = "signal"
  /\ IF process[r]
     THEN /\ termReq' = IF proc[r] = "alive" THEN [termReq EXCEPT ![r] = TRUE]
                                             ELSE termReq
          /\ Goto(t, "kill")
     ELSE UNCHANGED termReq /\ Goto(t, ret[t])
  /\ UNCHANGED <<managerVars, runVars, sessionVars, proc, verdict, killedBy,
                 keyVars, cur, want, ret>>

(* Mutant: terminate does not wait for the end of the process.             *)
KillNoWait(t) ==
  /\ Move(t, "kill", ret[t])
  /\ UNCHANGED <<managerVars, runVars, sessionVars, procVars, keyVars,
                 cur, want, ret>>

Kill(t) ==
  LET r == cur[t] IN
  /\ Move(t, "kill", ret[t])
  /\ IF proc[r] = "alive"
     THEN /\ \E exit \in {"ok", "failed"} : proc' = [proc EXCEPT ![r] = exit]
          /\ killedBy' = [killedBy EXCEPT ![r] =
                            IF t \in Worker THEN "worker" ELSE "caller"]
     ELSE UNCHANGED <<proc, killedBy>>
  /\ UNCHANGED <<managerVars, runVars, sessionVars, termReq, verdict, keyVars,
                 cur, want, ret>>

(* Mutant: notify instead of notify_all.                                   *)
WokenOne(r) ==
  LET waiters == {t \in Thread : pc[t] = "waiting" /\ cur[t] = r} IN
  [t \in Thread |-> IF waiters # {} /\ t = CHOOSE u \in waiters : TRUE
                    THEN "await" ELSE pc[t]]

(* condition.notify_all: every waiter of r re-checks its predicate.        *)
Woken(r) == [t \in Thread |-> IF pc[t] = "waiting" /\ cur[t] = r
                              THEN "await" ELSE pc[t]]

(* Mutant: a run is settled without notifying its waiters.                 *)
SetDoneSilently(t) ==
  /\ Move(t, "setDone", "evict")
  /\ done' = [done EXCEPT ![cur[t]] = TRUE]
  /\ UNCHANGED <<managerVars, keyOf, cancelEvent, result, process, condLock,
                 sessionVars, procVars, keyVars, cur, want, ret>>

(* _settle_managed, in its order: done, notify_all, evict.                 *)
SetDone(t) ==
  /\ Move(t, "setDone", "notify")
  /\ done' = [done EXCEPT ![cur[t]] = TRUE]
  /\ UNCHANGED <<managerVars, keyOf, cancelEvent, result, process, condLock,
                 sessionVars, procVars, keyVars, cur, want, ret>>

NotifyAll(t) ==
  /\ pc[t] = "notify"
  /\ condLock[cur[t]] = None
  /\ pc' = [Woken(cur[t]) EXCEPT ![t] = "evict"]
  /\ UNCHANGED <<managerVars, runVars, sessionVars, procVars, keyVars,
                 cur, want, ret>>

Evict(t) ==
  LET r == cur[t] IN
  /\ pc[t] = "evict"
  /\ Leave(t, IF t \in Worker THEN "loop" ELSE "release")
  /\ runs' = runs \ {r}
  /\ idem' = [k \in Key |-> IF k = keyOf[r] /\ idem[k] = r THEN None ELSE idem[k]]
  /\ UNCHANGED <<workQueue, shutdown, sweep, runVars, sessionVars, procVars,
                 keyVars>>

-----------------------------------------------------------------------------
(* start_antigravity with or without an idempotency key.                   *)

(* Bound of the model: a start is made while there is a session id for it. *)
SessionsLeft ==
  Cardinality({c \in Caller : pc[c] \in {"lock", "find", "scan", "create"}})
    < Cardinality({r \in Run : status[r] = "absent"})

StartLock(c) ==
  /\ pc[c] = "idle" /\ SessionsLeft
  /\ \E k \in Key \cup {None} :
       /\ key' = [key EXCEPT ![c] = k]
       /\ Goto(c, IF k = None THEN "create" ELSE "lock")
  /\ UNCHANGED <<managerVars, runVars, sessionVars, procVars, keyLock,
                 cur, want, ret>>

(* Mutant: starts with one key are not serialized.                         *)
AcquireKeyUnlocked(c) ==
  /\ Move(c, "lock", "find")
  /\ keyLock' = [keyLock EXCEPT ![key[c]] = c]
  /\ UNCHANGED <<managerVars, runVars, sessionVars, procVars, key,
                 cur, want, ret>>

AcquireKey(c) ==
  /\ Move(c, "lock", "find")
  /\ keyLock[key[c]] = None
  /\ keyLock' = [keyLock EXCEPT ![key[c]] = c]
  /\ UNCHANGED <<managerVars, runVars, sessionVars, procVars, key,
                 cur, want, ret>>

(* find_by_idempotency_key: the memory map, then, unless the fingerprint   *)
(* is degraded, the run.accepted events of every transcript.               *)
FindInMemory(c) ==
  /\ pc[c] = "find"
  /\ Goto(c, IF idem[key[c]] # None THEN "release"
             ELSE IF key[c] \in Degraded THEN "create" ELSE "scan")
  /\ UNCHANGED <<managerVars, runVars, sessionVars, procVars, keyVars,
                 cur, want, ret>>

AcceptedFor(k) == {r \in Run : accepted[r] /\ keyOf[r] = k}

FindOnDisk(c) ==
  /\ pc[c] = "scan"
  /\ IF AcceptedFor(key[c]) = {}
     THEN UNCHANGED idem /\ Goto(c, "create")
     ELSE /\ \E r \in AcceptedFor(key[c]) : idem' = [idem EXCEPT ![key[c]] = r]
          /\ Goto(c, "release")
  /\ UNCHANGED <<runs, workQueue, shutdown, sweep, runVars, sessionVars,
                 procVars, keyVars, cur, want, ret>>

(* create_session: the record and its session.created event.               *)
CreateSession(c) ==
  /\ Move(c, "create", "insert")
  /\ \E r \in Run :
       /\ status[r] = "absent"
       /\ cur' = [cur EXCEPT ![c] = r]
       /\ status' = [status EXCEPT ![r] = "queued"]
       /\ logStatus' = [logStatus EXCEPT ![r] = "queued"]
  /\ UNCHANGED <<managerVars, runVars, logResult, accepted, procVars, keyVars,
                 want, ret>>

(* Mutant: the key is not bound to the run. *)
InsertUnbound(c) ==
  LET r == cur[c] k == key[c] IN
  /\ Move(c, "insert", "enqueue")
  /\ runs' = runs \cup {r}
  /\ keyOf' = [keyOf EXCEPT ![r] = k]
  /\ UNCHANGED <<idem, workQueue, shutdown, sweep, cancelEvent, done, result,
                 process, condLock, sessionVars, procVars, keyVars, cur, want,
                 ret>>

(* RunManager.start under its lock: the run, and its key if it is unbound. *)
Insert(c) ==
  LET r == cur[c] k == key[c] IN
  /\ Move(c, "insert", "enqueue")
  /\ runs' = runs \cup {r}
  /\ keyOf' = [keyOf EXCEPT ![r] = k]
  /\ idem' = IF k # None /\ idem[k] = None THEN [idem EXCEPT ![k] = r] ELSE idem
  /\ UNCHANGED <<workQueue, shutdown, sweep, cancelEvent, done, result, process,
                 condLock, sessionVars, procVars, keyVars, cur, want, ret>>

(* Mutants: the queue takes any number of runs; a rejected run keeps the   *)
(* status "queued".                                                        *)
EnqueueUnbounded(c) ==
  /\ Move(c, "enqueue", "accept")
  /\ workQueue' = Append(workQueue, cur[c])
  /\ UNCHANGED <<runs, idem, shutdown, sweep, runVars, sessionVars, procVars,
                 keyVars, cur, want, ret>>

EnqueueRejectQuietly(c) ==
  LET full == Len(workQueue) >= QueueLimit IN
  /\ pc[c] = "enqueue"
  /\ Goto(c, IF full THEN "setDone" ELSE "accept")
  /\ workQueue' = IF full THEN workQueue ELSE Append(workQueue, cur[c])
  /\ result' = IF full THEN [result EXCEPT ![cur[c]] = "rejected"] ELSE result
  /\ UNCHANGED <<runs, idem, shutdown, sweep, keyOf, cancelEvent, done, process,
                 condLock, sessionVars, procVars, keyVars, cur, want, ret>>

(* put_nowait; when the queue is full, _reject_queue_full stores the error *)
(* result, marks the session and settles the run in the calling thread.    *)
Enqueue(c) ==
  LET r == cur[c] IN
  /\ pc[c] = "enqueue"
  /\ \/ /\ Len(workQueue) < QueueLimit
        /\ workQueue' = Append(workQueue, r)
        /\ Goto(c, "accept")
        /\ UNCHANGED <<result, want, ret>>
     \/ /\ Len(workQueue) >= QueueLimit
        /\ result' = [result EXCEPT ![r] = "rejected"]
        /\ CallSetStatus(c, "error", "setDone")
        /\ UNCHANGED workQueue
  /\ UNCHANGED <<runs, idem, shutdown, sweep, keyOf, cancelEvent, done, process,
                 condLock, sessionVars, procVars, keyVars, cur>>

(* Mutant: the acceptance is not written.                                  *)
AcceptUnlogged(c) ==
  /\ Move(c, "accept", "release")
  /\ UNCHANGED <<managerVars, runVars, sessionVars, procVars, keyVars,
                 cur, want, ret>>

(* The run.accepted event is appended after the run became visible to the  *)
(* workers: a quick worker may already have settled it.                    *)
Accept(c) ==
  /\ Move(c, "accept", "release")
  /\ accepted' = [accepted EXCEPT ![cur[c]] = TRUE]
  /\ UNCHANGED <<managerVars, runVars, status, logStatus, logResult, procVars,
                 keyVars, cur, want, ret>>

(* The reply is built and the idempotency lock, if any, is released.       *)
Release(c) ==
  /\ pc[c] = "release"
  /\ Leave(c, "idle")
  /\ keyLock' = [k \in Key |-> IF k = key[c] THEN None ELSE keyLock[k]]
  /\ key' = [key EXCEPT ![c] = None]
  /\ UNCHANGED <<managerVars, runVars, sessionVars, procVars>>

-----------------------------------------------------------------------------
(* cancel_antigravity_run.                                                 *)

(* Callers learn the id of a run from the reply to its start.              *)
Replied(r) ==
  /\ status[r] # "absent"
  /\ \A c \in Caller : cur[c] = r =>
       pc[c] \in {"idle", "await", "waiting", "cancelFlag", "cancelCond",
                 "cancelQueued", "cancelEnd", "unmanaged", "signal", "kill"}
         \/ ret[c] = "cancelEnd"

Cancel(c) ==
  /\ pc[c] = "idle"
  /\ \E r \in Run :
       /\ Replied(r)
       /\ cur' = [cur EXCEPT ![c] = r]
       /\ Goto(c, IF r \in runs THEN "cancelFlag" ELSE "unmanaged")
  /\ UNCHANGED <<managerVars, runVars, sessionVars, procVars, keyVars, want, ret>>

(* Already terminal, or set the event, append run.cancel_requested and     *)
(* terminate the process if one is registered.                             *)
CancelFlag(c) ==
  LET r == cur[c] IN
  /\ pc[c] = "cancelFlag"
  /\ IF result[r] # None
     THEN Leave(c, "idle") /\ UNCHANGED cancelEvent
     ELSE /\ cancelEvent' = [cancelEvent EXCEPT ![r] = TRUE]
          /\ ret' = [ret EXCEPT ![c] = "cancelCond"]
          /\ Goto(c, "signal")
          /\ UNCHANGED <<cur, want>>
  /\ UNCHANGED <<managerVars, keyOf, done, result, process, condLock,
                 sessionVars, procVars, keyVars>>

CancelCond(c) ==
  LET r == cur[c] IN
  /\ pc[c] = "cancelCond"
  /\ condLock[r] = None
  /\ IF result[r] # None
     THEN Leave(c, "idle") /\ UNCHANGED condLock
     ELSE /\ condLock' = [condLock EXCEPT ![r] = c]
          /\ Goto(c, "cancelQueued")
          /\ UNCHANGED <<cur, want, ret>>
  /\ UNCHANGED <<managerVars, keyOf, cancelEvent, done, result, process,
                 sessionVars, procVars, keyVars>>

(* Mutant: the cancel of a queued run stores its result as well.           *)
CancelSettlesQueued(c) ==
  /\ pc[c] = "cancelQueued"
  /\ IF status[cur[c]] = "queued"
     THEN /\ CallSetStatus(c, "cancelled", "cancelEnd")
          /\ result' = [result EXCEPT ![cur[c]] = "cancelled"]
     ELSE Goto(c, "cancelEnd") /\ UNCHANGED <<result, want, ret>>
  /\ UNCHANGED <<managerVars, keyOf, cancelEvent, done, process, condLock,
                 sessionVars, procVars, keyVars, cur>>

(* _cancel_if_still_queued: reads the status, then marks the session in a  *)
(* later step, still holding the condition of the run.                     *)
CancelIfStillQueued(c) ==
  /\ pc[c] = "cancelQueued"
  /\ IF status[cur[c]] = "queued"
     THEN CallSetStatus(c, "cancelled", "cancelEnd")
     ELSE Goto(c, "cancelEnd") /\ UNCHANGED <<want, ret>>
  /\ UNCHANGED <<managerVars, runVars, sessionVars, procVars, keyVars, cur>>

(* The end of a cancel: the condition is released if it is held.           *)
CancelEnd(c) ==
  /\ pc[c] = "cancelEnd"
  /\ Leave(c, "idle")
  /\ condLock' = [condLock EXCEPT ![cur[c]] = IF @ = c THEN None ELSE @]
  /\ UNCHANGED <<managerVars, keyOf, cancelEvent, done, result, process,
                 sessionVars, procVars, keyVars>>

(* A run of an earlier process, or one evicted since.                      *)
CancelUnmanaged(c) ==
  /\ pc[c] = "unmanaged"
  /\ IF status[cur[c]] \in FinalStatus
     THEN Leave(c, "idle")
     ELSE CallSetStatus(c, "cancelled", "cancelEnd") /\ UNCHANGED cur
  /\ UNCHANGED <<managerVars, runVars, sessionVars, procVars, keyVars>>

-----------------------------------------------------------------------------
(* await_antigravity_run: waits on the condition while the run has no      *)
(* result and is not done, for a bounded time.                             *)

Await(c) ==
  /\ Move(c, "idle", "await")
  /\ \E r \in runs : Replied(r) /\ cur' = [cur EXCEPT ![c] = r]
  /\ UNCHANGED <<managerVars, runVars, sessionVars, procVars, keyVars, want, ret>>

AwaitCheck(c) ==
  LET r == cur[c] IN
  /\ pc[c] = "await"
  /\ condLock[r] = None
  /\ IF result[r] = None /\ ~done[r]
     THEN Goto(c, "waiting") /\ UNCHANGED <<cur, want, ret>>
     ELSE Leave(c, "idle")
  /\ UNCHANGED <<managerVars, runVars, sessionVars, procVars, keyVars>>

AwaitTimeout(c) ==
  /\ pc[c] = "waiting"
  /\ condLock[cur[c]] = None
  /\ Leave(c, "idle")
  /\ UNCHANGED <<managerVars, runVars, sessionVars, procVars, keyVars>>

-----------------------------------------------------------------------------
(* shutdown: flag, snapshot, cancel and terminate each run, join (1 s).    *)

(* Mutant: shutdown visits only the runs that have a process.              *)
ShutdownRegistered(c) ==
  /\ Move(c, "idle", "sweep")
  /\ ~shutdown
  /\ shutdown' = TRUE
  /\ sweep' = {r \in runs : process[r]}
  /\ UNCHANGED <<runs, idem, workQueue, runVars, sessionVars, procVars, keyVars,
                 cur, want, ret>>

Shutdown(c) ==
  /\ Move(c, "idle", "sweep")
  /\ ~shutdown
  /\ shutdown' = TRUE
  /\ sweep' = runs
  /\ UNCHANGED <<runs, idem, workQueue, runVars, sessionVars, procVars, keyVars,
                 cur, want, ret>>

ShutdownRun(c) ==
  /\ pc[c] = "sweep"
  /\ \/ \E r \in sweep :
          /\ cancelEvent' = [cancelEvent EXCEPT ![r] = TRUE]
          /\ sweep' = sweep \ {r}
          /\ cur' = [cur EXCEPT ![c] = r]
          /\ ret' = [ret EXCEPT ![c] = "sweep"]
          /\ Goto(c, "signal")
     \/ /\ sweep = {}
        /\ Goto(c, "join")
        /\ UNCHANGED <<cancelEvent, sweep, cur, ret>>
  /\ UNCHANGED <<runs, idem, workQueue, shutdown, keyOf, done, result, process,
                 condLock, sessionVars, procVars, keyVars, want>>

(* Every join returned, by the end of the worker or by its time limit.     *)
Exit(c) ==
  /\ Move(c, "join", "exited")
  /\ UNCHANGED <<managerVars, runVars, sessionVars, procVars, keyVars,
                 cur, want, ret>>

-----------------------------------------------------------------------------
(* The worker loop: the shutdown flag is read before the blocking get.     *)

WorkerLoop(w) ==
  /\ pc[w] = "loop"
  /\ Goto(w, IF shutdown THEN "stopped" ELSE "get")
  /\ UNCHANGED <<managerVars, runVars, sessionVars, procVars, keyVars,
                 cur, want, ret>>

GetEmpty(w) ==
  /\ Move(w, "get", "loop")
  /\ workQueue = <<>>
  /\ UNCHANGED <<managerVars, runVars, sessionVars, procVars, keyVars,
                 cur, want, ret>>

(* Mutant: the run stays in the queue.                                     *)
GetRunPeek(w) ==
  /\ Move(w, "get", "check")
  /\ workQueue # <<>>
  /\ cur' = [cur EXCEPT ![w] = Head(workQueue)]
  /\ UNCHANGED <<managerVars, runVars, sessionVars, procVars, keyVars, want, ret>>

GetRun(w) ==
  /\ Move(w, "get", "check")
  /\ workQueue # <<>>
  /\ cur' = [cur EXCEPT ![w] = Head(workQueue)]
  /\ workQueue' = Tail(workQueue)
  /\ UNCHANGED <<runs, idem, shutdown, sweep, runVars, sessionVars, procVars,
                 keyVars, want, ret>>

(* _run_managed: cancelled before start, or the run callable.              *)
RunManaged(w) ==
  /\ pc[w] = "check"
  /\ IF cancelEvent[cur[w]]
     THEN CallSetStatus(w, "cancelled", "return")
     ELSE Goto(w, "send") /\ UNCHANGED <<want, ret>>
  /\ UNCHANGED <<managerVars, runVars, sessionVars, procVars, keyVars, cur>>

(* prepare_prompt: set_status("sending") has no event of its own.          *)
PreparePrompt(w) ==
  /\ Move(w, "send", "spawn")
  /\ status' = [status EXCEPT ![cur[w]] = "sending"]
  /\ UNCHANGED <<managerVars, runVars, logStatus, logResult, accepted, procVars,
                 keyVars, cur, want, ret>>

(* The probe or the start of agy fails, or the process is alive.           *)
StartAgy(w) ==
  /\ pc[w] = "spawn"
  /\ \/ CallSetStatus(w, "error", "return") /\ UNCHANGED proc
     \/ /\ proc' = [proc EXCEPT ![cur[w]] = "alive"]
        /\ Goto(w, "register")
        /\ UNCHANGED <<want, ret>>
  /\ UNCHANGED <<managerVars, runVars, sessionVars, termReq, verdict, killedBy,
                 keyVars, cur>>

(* register_process notifies too; then status running, antigravity.started.*)
RegisterProcess(w) ==
  LET r == cur[w] IN
  /\ pc[w] = "register"
  /\ condLock[r] = None
  /\ process' = IF r \in runs THEN [process EXCEPT ![r] = TRUE] ELSE process
  /\ pc' = [Woken(r) EXCEPT ![w] = "setStatus"]
  /\ want' = [want EXCEPT ![w] = "running"]
  /\ ret' = [ret EXCEPT ![w] = "poll"]
  /\ UNCHANGED <<managerVars, keyOf, cancelEvent, done, result, condLock,
                 sessionVars, procVars, keyVars, cur>>

(* One look of the run loop at the process: cancellation is tested before  *)
(* the time limit, and both only while the process lives.                  *)
PollExited(w) ==
  /\ Move(w, "poll", "classify")
  /\ proc[cur[w]] # "alive"
  /\ UNCHANGED <<managerVars, runVars, sessionVars, procVars, keyVars,
                 cur, want, ret>>

PollStop(w, v) ==
  /\ Move(w, "poll", "signal")
  /\ proc[cur[w]] = "alive"
  /\ verdict' = [verdict EXCEPT ![cur[w]] = v]
  /\ ret' = [ret EXCEPT ![w] = "classify"]
  /\ UNCHANGED <<managerVars, runVars, sessionVars, proc, termReq, killedBy,
                 keyVars, cur, want>>

(* Mutant: only the shutdown is noticed by the run loop.                   *)
PollShutdown(w) ==
  pc[w] = "poll" /\ shutdown /\ cancelEvent[cur[w]] /\ PollStop(w, "cancelled")

PollCancelled(w) == pc[w] = "poll" /\ cancelEvent[cur[w]] /\ PollStop(w, "cancelled")
PollTimeout(w) == pc[w] = "poll" /\ ~cancelEvent[cur[w]] /\ PollStop(w, "timed_out")

(* The flags and the exit code decide the result of the runner, and        *)
(* _run_text_session the status: even exit code 0 is an error when the     *)
(* output is empty, asks for a login or is not the response envelope.      *)
Verdict(r) ==
  IF verdict[r] = "none" /\ cancelEvent[r] /\ termReq[r] THEN "cancelled"
                                                         ELSE verdict[r]
Outcomes(r) ==
  CASE Verdict(r) = "cancelled" -> {"cancelled"}
    [] Verdict(r) = "timed_out" -> {"error"}
    [] OTHER -> IF proc[r] = "ok" THEN {"completed", "error"} ELSE {"error"}

Classify(w) ==
  LET r == cur[w] IN
  /\ pc[w] = "classify"
  /\ verdict' = [verdict EXCEPT ![r] = Verdict(r)]
  /\ \E o \in Outcomes(r) : CallSetStatus(w, o, "return")
  /\ UNCHANGED <<managerVars, runVars, sessionVars, proc, termReq, killedBy,
                 keyVars, cur>>

(* managed.result = the payload returned by the callable.                  *)
Return(w) ==
  /\ Move(w, "return", "setDone")
  /\ result' = [result EXCEPT ![cur[w]] = want[w]]
  /\ UNCHANGED <<managerVars, keyOf, cancelEvent, done, process, condLock,
                 sessionVars, procVars, keyVars, cur, want, ret>>

(* Mutant: an exception ends the worker thread.                            *)
RaiseUncaught(w) ==
  /\ HubMayFail
  /\ Move(w, "send", "stopped")
  /\ UNCHANGED <<managerVars, runVars, sessionVars, procVars, keyVars,
                 cur, want, ret>>

(* A write to the transcript directory raises while the callable runs: the *)
(* result is an error before the session status is, and a failure of that  *)
(* second write is swallowed.                                              *)
Raise(w) ==
  LET writing == \/ pc[w] \in {"send", "spawn", "poll", "classify"}
                 \/ pc[w] \in {"setStatus", "logStatus"} /\ ret[w] \in {"poll", "return"}
      marking == pc[w] \in {"setStatus", "logStatus"} /\ ret[w] = "setDone"
  IN
  /\ HubMayFail
  /\ \/ /\ writing
        /\ result' = [result EXCEPT ![cur[w]] = "error"]
        /\ CallSetStatus(w, "error", "setDone")
     \/ /\ marking
        /\ Goto(w, "setDone")
        /\ UNCHANGED <<result, want, ret>>
  /\ UNCHANGED <<managerVars, keyOf, cancelEvent, done, process, condLock,
                 sessionVars, procVars, keyVars, cur>>

-----------------------------------------------------------------------------
(* agy ends by itself, successfully or not.                                *)
AgyExits(r) ==
  /\ proc[r] = "alive"
  /\ \E exit \in {"ok", "failed"} : proc' = [proc EXCEPT ![r] = exit]
  /\ UNCHANGED <<managerVars, runVars, sessionVars, termReq, verdict, killedBy,
                 keyVars, threadVars>>

Shared(t) ==
  \/ SetStatus(t) \/ LogStatus(t) \/ Signal(t) \/ Kill(t)
  \/ SetDone(t) \/ NotifyAll(t) \/ Evict(t)

CallerCalls(c) ==
  \/ "start" \in Calls /\ StartLock(c)
  \/ "cancel" \in Calls /\ Cancel(c)
  \/ "await" \in Calls /\ Await(c)
  \/ "shutdown" \in Calls /\ Shutdown(c)

CallerGoesOn(c) ==
  \/ AcquireKey(c) \/ FindInMemory(c) \/ FindOnDisk(c) \/ CreateSession(c)
  \/ Insert(c) \/ Enqueue(c) \/ Accept(c) \/ Release(c)
  \/ CancelFlag(c) \/ CancelCond(c) \/ CancelIfStillQueued(c) \/ CancelEnd(c)
  \/ CancelUnmanaged(c) \/ AwaitCheck(c) \/ ShutdownRun(c) \/ Exit(c)
  \/ Shared(c)

WorkerStep(w) ==
  /\ ~Exited
  /\ \/ WorkerLoop(w) \/ GetEmpty(w) \/ GetRun(w) \/ RunManaged(w)
     \/ PreparePrompt(w) \/ StartAgy(w) \/ RegisterProcess(w)
     \/ PollExited(w) \/ PollCancelled(w) \/ Classify(w) \/ Return(w)
     \/ Shared(w)

Next ==
  \/ \E c \in Caller : CallerCalls(c) \/ CallerGoesOn(c) \/ AwaitTimeout(c)
  \/ \E w \in Worker : WorkerStep(w) \/ (~Exited /\ (PollTimeout(w) \/ Raise(w)))
  \/ \E r \in Run : AgyExits(r)

Spec == Init /\ [][Next]_vars

(* Threads are scheduled, and locks that are free again and again are      *)
(* obtained.  No fairness is assumed of agy, of callers making calls, of   *)
(* await timeouts or of failures.                                          *)
Scheduling == /\ \A c \in Caller : SF_vars(CallerGoesOn(c))
              /\ \A w \in Worker : SF_vars(WorkerStep(w))

(* The clock runs: a worker at its poll sees the time limit pass.          *)
TimeLimit == \A w \in Worker : WF_vars(~Exited /\ PollTimeout(w))

FairSpec == Spec /\ Scheduling

-----------------------------------------------------------------------------
(* Types of the variables.                                                 *)
ManagerTypeOK ==
  /\ runs \subseteq Run /\ sweep \subseteq Run
  /\ idem \in [Key -> Run \cup {None}]
  /\ workQueue \in Seq(Run) /\ Len(workQueue) <= QueueLimit
  /\ shutdown \in BOOLEAN

RunTypeOK ==
  /\ keyOf \in [Run -> Key \cup {None}]
  /\ cancelEvent \in [Run -> BOOLEAN] /\ done \in [Run -> BOOLEAN]
  /\ result \in [Run -> Outcome \cup {None}]
  /\ process \in [Run -> BOOLEAN]
  /\ condLock \in [Run -> Caller \cup {None}]

SessionTypeOK ==
  /\ status \in [Run -> OpenStatus \cup FinalStatus \cup {"absent"}]
  /\ logStatus \in [Run -> OpenStatus \cup FinalStatus \cup {"absent"}]
  /\ logResult \in [Run -> FinalStatus \cup {None}]
  /\ accepted \in [Run -> BOOLEAN]

ProcTypeOK ==
  /\ proc \in [Run -> {"none", "alive", "ok", "failed"}]
  /\ termReq \in [Run -> BOOLEAN]
  /\ verdict \in [Run -> {"none", "cancelled", "timed_out"}]
  /\ killedBy \in [Run -> {"worker", "caller", None}]

ThreadTypeOK ==
  /\ keyLock \in [Key -> Caller \cup {None}]
  /\ key \in [Caller -> Key \cup {None}]
  /\ pc \in [Thread -> Label]
  /\ cur \in [Thread -> Run \cup {None}]
  /\ want \in [Thread -> FinalStatus \cup {"running", None}]
  /\ ret \in [Thread -> Label \cup {None}]

TypeOK == ManagerTypeOK /\ RunTypeOK /\ SessionTypeOK /\ ProcTypeOK /\ ThreadTypeOK

(* A result is published once: whatever cancel, a full queue, an exception *)
(* or shutdown do around a run, nobody replaces the result that an await   *)
(* may already have returned (managed.result has four writers).            *)
SettledOnce == [][\A r \in Run : result[r] # None => result'[r] = result[r]]_vars

(* result and done are written without the condition's lock, yet a thread  *)
(* in await_run that sleeps on a finished run has its notify_all to come.  *)
NoLostWakeup ==
  \A c \in Caller :
    LET r == cur[c] IN
    pc[c] = "waiting" /\ (result[r] # None \/ done[r]) =>
      \E t \in Thread :
        /\ cur[t] = r
        /\ \/ pc[t] \in {"setDone", "notify"}
           \/ pc[t] \in {"setStatus", "logStatus"} /\ ret[t] = "setDone"

(* A managed run is the run its key leads to, so a start with the key of a *)
(* run in progress finds that run: also when the fingerprint is degraded,  *)
(* when the key was last used by an evicted run, or after a rejection.     *)
KeyLeadsToManagedRun ==
  \A r \in runs : keyOf[r] # None => idem[keyOf[r]] = r

(* A key with a healthy fingerprint is executed by one run only, counting  *)
(* the runs of an earlier server: between the memory map, eviction and the *)
(* late run.accepted event there is no moment at which a start misses it.  *)
Executes(r) ==
  \/ r \in OldRun \/ result[r] \in FinalStatus
  \/ \E i \in DOMAIN workQueue : workQueue[i] = r
  \/ \E w \in Worker : cur[w] = r

OneRunPerKey ==
  \A r, s \in Run :
    /\ Executes(r) /\ Executes(s)
    /\ keyOf[r] = keyOf[s] /\ keyOf[r] \in Key \ Degraded
    => r = s

(* Never more agy processes than workers, and a run with a result has left *)
(* no process behind: every way out of the run loop ends agy first.        *)
ConcurrencyLimit ==
  /\ Cardinality({r \in Run : proc[r] = "alive"}) <= Cardinality(Worker)
  /\ \A r \in Run : result[r] # None => proc[r] # "alive"

(* A process ended by cancel or by shutdown is reported as cancelled and   *)
(* not as a failure of agy (unless the time limit struck as well), and a   *)
(* run reported completed was never killed.                                *)
KillIsReported ==
  \A r \in Run :
    /\ killedBy[r] = "caller" /\ result[r] # None =>
         result[r] = IF verdict[r] = "timed_out" THEN "error" ELSE "cancelled"
    /\ result[r] = "completed" => killedBy[r] = None

(* When the run manager has forgotten a run, its session is terminal and   *)
(* the transcript answers for it with the result of the run, or with the   *)
(* cancellation that was requested meanwhile.                              *)
ResultOutlivesEviction ==
  \A r \in Run :
    done[r] /\ r \notin runs =>
      /\ status[r] \in FinalStatus
      /\ \/ logResult[r] = IF result[r] = "rejected" THEN "error" ELSE result[r]
         \/ logResult[r] = "cancelled" /\ cancelEvent[r]

(* A run that nobody is about to settle and that memory shows as ended is  *)
(* ended in the transcript too, so the next server does not find it open:  *)
(* although memory and transcript are written apart and a cancel may race  *)
(* the worker, whose statuses then overwrite each other in either order.   *)
RestartFindsItSettled ==
  \A r \in Run :
    /\ status[r] \in FinalStatus
    /\ \A t \in Thread : cur[t] = r =>
         t \in Caller /\ pc[t] \notin {"setStatus", "logStatus"}
    => logStatus[r] \in FinalStatus

(* Once shutdown joins its workers, every run it still manages has been    *)
(* told to stop, also one that was dequeued or ended during the sweep.  It *)
(* is the last call of the thread that starts runs (server.py:234).        *)
ShutdownReachesEveryRun ==
  \A c \in Caller : pc[c] \in {"join", "exited"} =>
    \A r \in runs : cancelEvent[r]

(* Every managed run gets a result once its time limit has passed, whatever *)
(* agy and the transcript do, unless the server stops first.               *)
RunSettles ==
  TimeLimit => \A r \in Run : r \in runs ~> (done[r] \/ shutdown)

(* A cancelled run does not keep its process, wherever the cancellation    *)
(* met it: before the spawn, between spawn and registration, or later; and *)
(* without the help of the time limit.  Excepted are the runs that a failed *)
(* write ended: an exception out of the run loop leaves agy (runner.py:337). *)
CancelStopsAgy ==
  \A r \in Run :
    cancelEvent[r] ~> (proc[r] # "alive" \/ result[r] = "error" \/ Exited)

(* An await is not left asleep: even if its time limit never struck, the   *)
(* end of the run would return it.                                         *)
WaiterReturns ==
  TimeLimit =>
    \A c \in Caller : pc[c] = "waiting" ~> (pc[c] = "idle" \/ shutdown)

-----------------------------------------------------------------------------
(* What the run manager promises, in RunLedger: a run leaves the table only *)
(* with its one result, and a key in use is handed to nobody else.  The    *)
(* steps of the threads are steps of the ledger or invisible to it.        *)
Phase(r) == IF r \in runs THEN IF result[r] = None THEN "open" ELSE "settled"
            ELSE IF done[r] \/ r \in OldRun THEN "gone" ELSE "new"

Ledger == INSTANCE RunLedger WITH
            phase <- [r \in Run |-> Phase(r)],
            outcome <- result,
            boundTo <- keyOf,
            holder <- idem

ImplementsLedger == Ledger!Spec

-----------------------------------------------------------------------------
(* What the documentation says of terminal states, and the code does not   *)
(* guarantee.                                                              *)

(* README: await until a terminal status is seen.  A terminal status is    *)
(* never left.                                                             *)
TerminalIsStable ==
  [][\A r \in Run : status[r] \in FinalStatus => status'[r] = status[r]]_vars
=============================================================================
