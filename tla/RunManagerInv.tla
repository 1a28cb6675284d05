---------------------------- MODULE RunManagerInv ----------------------------
(***************************************************************************)
(* The inductive invariant behind the theorems about RunManager: where     *)
(* control can be, which thread is responsible for which run, and what the *)
(* lock of an idempotency key protects.                                    *)
(***************************************************************************)
EXTENDS RunManager

(* Where a thread may be, and what it carries there: outside of the labels *)
(* in Idle it is busy with a run.                                          *)
Idle == {"idle", "lock", "find", "scan", "create", "release", "loop", "get",
         "stopped", "sweep", "join", "exited"}
InSetStatus(t) == pc[t] \in {"setStatus", "logStatus"}
InTerminate(t) == pc[t] \in {"signal", "kill"}

ControlOK ==
  /\ \A c \in Caller :
       /\ pc[c] \in CallerLabel \cup SharedLabel
       /\ InSetStatus(c) => ret[c] \in {"setDone", "cancelEnd"}
       /\ InTerminate(c) => ret[c] \in {"cancelCond", "sweep"}
  /\ \A w \in Worker :
       /\ pc[w] \in WorkerLabel \cup SharedLabel
       /\ InSetStatus(w) => ret[w] \in {"poll", "return", "setDone"}
       /\ InTerminate(w) => ret[w] = "classify"
  /\ \A t \in Thread :
       /\ InSetStatus(t) =>
            want[t] \in IF ret[t] = "poll" THEN {"running"} ELSE FinalStatus
       /\ pc[t] = "return" => want[t] \in FinalStatus
       /\ pc[t] \notin Idle => cur[t] \in Run

TypeInv == TypeOK /\ ControlOK

(* A thread is busy with a run it alone moves forward: a worker from get   *)
(* to evict, a caller from create_session until the queue took the run or  *)
(* the rejected run was evicted.                                           *)
Settling(t) == \/ pc[t] \in {"setDone", "notify", "evict"}
               \/ InSetStatus(t) /\ ret[t] = "setDone"

Unsettled(t) ==
  IF t \in Worker
  THEN \/ pc[t] \in {"check", "send", "spawn", "register", "poll", "classify",
                     "return", "signal", "kill"}
       \/ InSetStatus(t) /\ ret[t] # "setDone"
  ELSE pc[t] \in {"insert", "enqueue"}

Moves(t) == Settling(t) \/ Unsettled(t)

Queued(r) == \E i \in 1..Len(workQueue) : workQueue[i] = r

(* A run has one mover at a time, and the queue is one; the queue holds no *)
(* run twice; there is no result before the mover settles the run and the  *)
(* run is in the table from its insertion until its mover evicts it.       *)
AbsentFresh == \A r \in Run : status[r] = "absent" =>
                 r \notin runs \cup OldRun /\ result[r] = None /\ ~done[r]
MoverIsOne  == \A t, u \in Thread :
                 Moves(t) /\ Moves(u) /\ cur[t] = cur[u] => t = u
MoverOrQueue == \A t \in Thread : Moves(t) => ~Queued(cur[t])
QueuedOnce  == \A i, j \in 1..Len(workQueue) :
                 workQueue[i] = workQueue[j] => i = j
QueuedFresh == \A r \in Run : Queued(r) => r \in runs /\ result[r] = None
MoverInserts == \A c \in Caller : pc[c] = "insert" =>
                  /\ status[cur[c]] # "absent"
                  /\ cur[c] \notin runs \cup OldRun /\ ~done[cur[c]]
MoverManages == \A t \in Thread :
                  Moves(t) /\ pc[t] # "insert" => cur[t] \in runs
ResultIsLast == \A t \in Thread :
                  /\ Unsettled(t) => result[cur[t]] = None
                  /\ Settling(t) => result[cur[t]] # None
                  /\ pc[t] \in {"notify", "evict"} => done[cur[t]]

OneMover == /\ AbsentFresh /\ MoverIsOne /\ MoverOrQueue
            /\ QueuedOnce /\ QueuedFresh
            /\ MoverInserts /\ MoverManages /\ ResultIsLast

(* The lock of a key is held from find to release, the key is unbound from *)
(* an unsuccessful find until the run is inserted, a run whose acceptance  *)
(* is on disk was managed once, and a managed run is what its key leads to. *)
HoldsKey(c) ==
  /\ key[c] # None
  /\ \/ pc[c] \in {"find", "scan", "create", "insert", "enqueue", "accept", "release"}
     \/ Settling(c)

KeyGiven   == \A c \in Caller : pc[c] \in {"lock", "find", "scan"} => key[c] # None
KeyLocked  == \A c \in Caller : HoldsKey(c) => keyLock[key[c]] = c
KeyUnbound == \A c \in Caller :
                pc[c] \in {"scan", "create", "insert"} /\ key[c] # None
                  => idem[key[c]] = None
AcceptedKnown ==
  /\ \A r \in Run : accepted[r] => r \in runs \cup OldRun \/ done[r]
  /\ \A c \in Caller : pc[c] = "accept" => cur[c] \in runs \/ done[cur[c]]

KeyOK == /\ KeyGiven /\ KeyLocked /\ KeyUnbound /\ AcceptedKnown
         /\ KeyLeadsToManagedRun

(* A worker is busy with no run outside of its run.  A run that executes   *)
(* under a key is accepted on disk, or the caller that enqueued it is just *)
(* about to write so and holds the lock of the key; and while it holds the *)
(* lock after an unsuccessful search, no other acceptance appears for the  *)
(* key, so the accepted runs of a healthy key are one.                     *)
FreeHands == \A w \in Worker : pc[w] \in {"loop", "get", "stopped"} => cur[w] = None
KeyBound  == \A c \in Caller : pc[c] \in {"enqueue", "accept"} => keyOf[cur[c]] = key[c]
Accepting(r) == \E c \in Caller : pc[c] = "accept" /\ cur[c] = r
ExecutedIsAccepted == \A r \in Run :
                        Executes(r) /\ keyOf[r] \in Key => accepted[r] \/ Accepting(r)
SearchStands == \A c \in Caller :
                  /\ pc[c] \in {"create", "insert", "enqueue", "accept"}
                  /\ key[c] \in Key \ Degraded
                  => AcceptedFor(key[c]) = {}
AcceptedOnce == \A r, s \in Run :
                  /\ accepted[r] /\ accepted[s]
                  /\ keyOf[r] = keyOf[s] /\ keyOf[r] \in Key \ Degraded
                  => r = s

AcceptOK == /\ FreeHands /\ KeyBound
            /\ ExecutedIsAccepted /\ SearchStands /\ AcceptedOnce

-----------------------------------------------------------------------------
(* Where no transcript write of a run callable raises (~HubMayFail), the   *)
(* agy process of a run lives only while a worker tends to it, and a       *)
(* worker in the run loop has the process registered.                      *)
Looping(w) == \/ pc[w] \in {"poll", "signal", "kill"}
              \/ InSetStatus(w) /\ ret[w] = "poll"
Tending(w) == pc[w] = "register" \/ Looping(w)

AliveTended == \A r \in Run : proc[r] = "alive" =>
                 \E w \in Worker : cur[w] = r /\ Tending(w)
Registered  == \A w \in Worker : Looping(w) => process[cur[w]]

ProcessOK == AliveTended /\ Registered

(* A run without a result that had a process has a worker beyond the start *)
(* of agy; who kills a process has said so before, in the flags by which   *)
(* classify decides; and what classify decided agrees with the kill.       *)
Started(w) == \/ Tending(w) \/ pc[w] \in {"classify", "return"}
              \/ InSetStatus(w) /\ ret[w] = "return"
Reporting(w) == pc[w] = "return" \/ (InSetStatus(w) /\ ret[w] = "return")
Reported(r, o) ==
  /\ proc[r] # "alive"
  /\ killedBy[r] = "caller" => o = IF verdict[r] = "timed_out" THEN "error" ELSE "cancelled"
  /\ o = "completed" => killedBy[r] = None

ProcessStarted == \A r \in Run :
  /\ proc[r] # "none" /\ result[r] = None => \E w \in Worker : cur[w] = r /\ Started(w)
  /\ process[r] => proc[r] # "none"
ProcessSeen == \A w \in Worker : Tending(w) \/ pc[w] = "classify" => proc[cur[w]] # "none"
KillAsked == \A t \in Thread :
  /\ pc[t] = "kill" => process[cur[t]] /\ (proc[cur[t]] = "alive" => termReq[cur[t]])
  /\ t \in Caller /\ (InTerminate(t) \/ pc[t] \in {"cancelCond", "cancelQueued"})
       => cancelEvent[cur[t]]
  /\ t \in Worker /\ InTerminate(t) => verdict[cur[t]] # "none"
KillMarked == \A r \in Run :
  /\ killedBy[r] # None => proc[r] \in {"ok", "failed"}
  /\ killedBy[r] = "caller" => cancelEvent[r] /\ termReq[r]
  /\ killedBy[r] = "worker" => verdict[r] # "none"
KillReported ==
  /\ \A w \in Worker : Reporting(w) => Reported(cur[w], want[w])
  /\ \A r \in Run : result[r] # None => Reported(r, result[r])

KillOK == ProcessStarted /\ ProcessSeen /\ KillAsked /\ KillMarked /\ KillReported

-----------------------------------------------------------------------------
(* The session of a run in memory and in the transcript: from the final    *)
(* log of its mover on, the transcript has the result, or a cancellation   *)
(* that was asked for; a run of an earlier server has no mover.            *)
PastFinalLog(t) == pc[t] \in {"return", "setDone", "notify", "evict"}
FinalOf(o) == IF o = "rejected" THEN "error" ELSE o
Logged(r, o) == \/ logResult[r] = o
                \/ logResult[r] = "cancelled" /\ cancelEvent[r]
Final(r, o) == status[r] \in FinalStatus /\ logStatus[r] \in FinalStatus /\ Logged(r, o)
SessionKnown == \A r \in Run : status[r] # "absent" =>
                  \/ r \in runs \cup OldRun \/ done[r]
                  \/ \E c \in Caller : pc[c] = "insert" /\ cur[c] = r
OldIsOld == \A r \in OldRun : r \notin runs /\ ~done[r]
CancelEndOnly == \A c \in Caller :
                   ret[c] = "cancelEnd" => InSetStatus(c) \/ pc[c] = "cancelEnd"
CancelAsked == \A c \in Caller :
  /\ InSetStatus(c) /\ ret[c] = "cancelEnd" =>
       /\ want[c] = "cancelled" /\ status[cur[c]] # "absent"
       /\ cancelEvent[cur[c]] \/ cur[c] \in OldRun
  /\ pc[c] = "unmanaged" => cur[c] \in OldRun \/ (done[cur[c]] /\ cur[c] \notin runs)
SettlingLogs == \A t \in Thread :
  /\ InSetStatus(t) /\ ret[t] = "setDone" => want[t] = FinalOf(result[cur[t]])
  /\ pc[t] = "logStatus" /\ ret[t] \in {"return", "setDone"} => status[cur[t]] \in FinalStatus
  /\ PastFinalLog(t) =>
       Final(cur[t], IF pc[t] = "return" THEN want[t] ELSE FinalOf(result[cur[t]]))
ForgottenLogged == \A r \in Run : done[r] /\ r \notin runs => Final(r, FinalOf(result[r]))
UnloggedHeld == \A r \in Run :
  status[r] \in FinalStatus /\ logStatus[r] \notin FinalStatus =>
    \E t \in Thread : cur[t] = r /\ (t \in Worker \/ InSetStatus(t))

LogOK == /\ SessionKnown /\ OldIsOld /\ CancelEndOnly /\ CancelAsked
         /\ SettlingLogs /\ ForgottenLogged /\ UnloggedHeld

(* During the sweep of the only caller, every run in the table is still to *)
(* be visited or was told to stop.                                         *)
Sweeping(c) == pc[c] = "sweep" \/ (InTerminate(c) /\ ret[c] = "sweep")
SweepOK ==
  \A c \in Caller :
    /\ Sweeping(c) => \A r \in runs : cancelEvent[r] \/ r \in sweep
    /\ pc[c] \in {"join", "exited"} => \A r \in runs : cancelEvent[r]

(* One mover, one holder of a key, and their consequences: checked, and    *)
(* proved, as invariants; RunsOK where no transcript write raises.         *)
Inv == TypeInv /\ OneMover /\ KeyOK
RunsOK == Inv /\ AcceptOK /\ ProcessOK /\ KillOK /\ LogOK
=============================================================================
