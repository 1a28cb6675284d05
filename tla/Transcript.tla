----------------------------- MODULE Transcript -----------------------------
(***************************************************************************)
(* The transcript directory and the ObserverHubs that share it             *)
(* (observer.py).  Every Gemness server process has one hub; all of them   *)
(* use the same directory, one JSON-lines file per session.  A hub writes  *)
(* the events of the runs its own server executes, loads the events of the *)
(* others whenever a request refreshes, settles sessions that look stale,  *)
(* deletes finished ones and, when another server owns the dashboard,      *)
(* posts each of its events to that server as well.                        *)
(*                                                                         *)
(* One executor per session stands for the worker thread that runs it, a   *)
(* reader for a request thread (web handler or tool call) of a hub.  The   *)
(* steps are those between which the hub's lock is not held.               *)
(***************************************************************************)
EXTENDS Integers, Sequences, FiniteSets

CONSTANTS
  Hub,        \* server processes sharing one transcript directory
  Session,    \* runs; a conversation here is a single run
  Reader,     \* request threads
  HubOf,      \* the hub a reader belongs to
  OwnerOf,    \* the hub whose server executes a session
  Dash,       \* the hub that owns the dashboard and is posted to, or None
  Ticks,      \* whether more than STALE_PROCESS_GRACE_SEC may pass unheard
  Removers,   \* the threads whose requests delete conversations
  Mortal,     \* the hubs whose server may crash
  MaxFaults,  \* bound on the number of crashes and of posts that time out
  MaxEvents,  \* bound on heartbeats: none once a session has that many events
  None

Final  == {"completed", "error"}
Open   == {"queued", "sending", "running"}
Status == Final \cup Open

(* An event either sets the status it names or ("note": prompt, heartbeat) *)
(* none.  The event_id is the session with the number of the event.        *)
Kind  == (Status \ {"sending"}) \cup {"note"}
Event == [s : Session, n : Nat \ {0}, kind : Kind]

(* Ages of a timestamp: below the grace of 15 s, above it, and above       *)
(* agy_timeout_sec plus the grace.                                         *)
Expired == 2
Age == 0 .. Expired

ASSUME Placement == HubOf \in [Reader -> Hub] /\ OwnerOf \in [Session -> Hub]
ASSUME Distinct ==
  /\ Dash \in Hub \cup {None} /\ None \notin Hub \cup Session \cup Status
  /\ None \notin Event /\ Session \cap Reader = {}
ASSUME Options ==
  /\ Ticks \in BOOLEAN /\ Removers \subseteq Reader
  /\ Mortal \subseteq Hub /\ MaxFaults \in Nat /\ MaxEvents \in Nat

VARIABLES
  log,      \* log[s]: the lines of <s>.jsonl up to a torn one, if any
  torn,     \* sessions with a line that a crash cut off
  age,      \* age[s][n]: how long ago event n of s was created
  up,       \* up[h]: "up", "boot" (inside __init__) or "down"
  status,   \* status[h][s]: hub.sessions[s].status, None when not there
  seen,     \* seen[h][s]: hub.events[s]
  quiet,    \* quiet[h][s]: age of hub.sessions[s].updated_at
  ex,       \* ex[s]: where the worker executing s is
  alive,    \* alive[s]: whether the agy process of s is running
  view,     \* view[t]: where request thread t is
  post,     \* post[x]: the event thread x is posting to Dash, or None
  late,     \* posts whose sender no longer waits
  faults,   \* number of crashes and of posts that timed out so far
  gone      \* history: sessions whose file a delete has removed

memory == <<status, seen, quiet>>
disk   == <<log, torn, age>>
net    == <<post, late>>
world  == <<up, faults, gone>>
vars   == <<disk, memory, ex, alive, view, net, world>>

IdleView == [at |-> "idle", files |-> {}, todo |-> <<>>, stale |-> {},
             cur |-> None, want |-> None]

Init ==
  /\ log = [s \in Session |-> <<>>] /\ torn = {} /\ age = [s \in Session |-> <<>>]
  /\ up = [h \in Hub |-> "up"]
  /\ status = [h \in Hub |-> [s \in Session |-> None]]
  /\ seen = [h \in Hub |-> [s \in Session |-> <<>>]]
  /\ quiet = [h \in Hub |-> [s \in Session |-> 0]]
  /\ ex = [s \in Session |-> "new"] /\ alive = [s \in Session |-> FALSE]
  /\ view = [t \in Reader |-> IdleView]
  /\ post = [x \in Session \cup Reader |-> None] /\ late = {}
  /\ faults = 0 /\ gone = {}

-----------------------------------------------------------------------------
(* Memory and files of a hub.  Everything here happens under hub._lock.    *)

Elements(q) == {q[i] : i \in DOMAIN q}

(* _write_event: one line at the end of the file.  A reader gives a file   *)
(* up at the first line it cannot parse, so what follows a torn line, which *)
(* the next event is appended to, is never read.                           *)
WriteEvent(e) ==
  log' = IF e.s \in torn THEN log ELSE [log EXCEPT ![e.s] = Append(@, e)]

(* _loaded_event_ids: it changes wherever hub.events does, by the same ids *)
Loaded(h) == UNION {Elements(seen[h][s]) : s \in Session}

(* _rebuild_session_from_event: only session.created makes a session; an   *)
(* event of a session that is not there is kept but changes nothing.       *)
Rebuild(h, e) ==
  LET known == e.kind = "queued" \/ status[h][e.s] # None
      old   == age[e.s][e.n]
  IN /\ seen' = [seen EXCEPT ![h][e.s] = Append(@, e)]
     /\ status' = IF known /\ e.kind # "note"
                  THEN [status EXCEPT ![h][e.s] = e.kind] ELSE status
     /\ quiet' = IF ~known THEN quiet
                 ELSE [quiet EXCEPT ![h][e.s] =
                         IF e.kind = "note" /\ @ < old THEN @ ELSE old]

Attached(h) == Dash # None /\ h # Dash

(* Mutants: the ids of a hub's own events are not remembered; an attached   *)
(* hub leaves the writing to the owner of the dashboard.                   *)
AppendUnrecorded(x, h, s, kind) ==
  LET e == [s |-> s, n |-> Len(age[s]) + 1, kind |-> kind]
  IN /\ age' = [age EXCEPT ![s] = Append(@, 0)]
     /\ WriteEvent(e)
     /\ quiet' = [quiet EXCEPT ![h][s] = 0]
     /\ UNCHANGED <<torn, seen, post, status, late>>
AppendForwarded(x, h, s, kind) ==
  LET e == [s |-> s, n |-> Len(age[s]) + 1, kind |-> kind]
  IN /\ age' = [age EXCEPT ![s] = Append(@, 0)]
     /\ seen' = [seen EXCEPT ![h][s] = Append(@, e)]
     /\ IF Attached(h) THEN log' = log ELSE WriteEvent(e)
     /\ quiet' = [quiet EXCEPT ![h][s] = 0]
     /\ post' = IF Attached(h) THEN [post EXCEPT ![x] = e] ELSE post
     /\ UNCHANGED <<torn, status, late>>

(* append_event by thread x of hub h: memory and file in one critical      *)
(* section, the post to the owner of the dashboard after it.               *)
AppendEvent(x, h, s, kind) ==
  LET e == [s |-> s, n |-> Len(age[s]) + 1, kind |-> kind]
  IN /\ age' = [age EXCEPT ![s] = Append(@, 0)]
     /\ seen' = [seen EXCEPT ![h][s] = Append(@, e)]
     /\ WriteEvent(e)
     /\ quiet' = IF status[h][s] = None THEN quiet
                 ELSE [quiet EXCEPT ![h][s] = 0]
     /\ post' = IF Attached(h) THEN [post EXCEPT ![x] = e] ELSE post
     /\ UNCHANGED <<torn, status, late>>

(* The first half of set_status: sessions[s].status and updated_at.  The   *)
(* event follows in a critical section of its own.                         *)
SetStatus(h, s, new) ==
  /\ status' = [status EXCEPT ![h][s] = new]
  /\ quiet' = [quiet EXCEPT ![h][s] = 0]
  /\ UNCHANGED seen

-----------------------------------------------------------------------------
(* The executor of a session, in the server that owns it.                  *)

Place == {"new", "create", "wait", "prompted", "sending", "spawned", "started",
          "run", "finish", "done", "failed", "dead"}
Executing(s) == ex[s] \notin {"new", "done", "failed", "dead"}

(* Thread of session s at label at, not waiting for the answer to a post.  *)
Exec(s, at) ==
  /\ ex[s] = at /\ up[OwnerOf[s]] = "up" /\ post[s] = None
  /\ UNCHANGED <<view, world>>

Goto(s, to) == ex' = [ex EXCEPT ![s] = to]

(* create_session: the record first, session.created after the lock *)
CreateSession(s) ==
  /\ Exec(s, "new") /\ Goto(s, "create")
  /\ SetStatus(OwnerOf[s], s, "queued")
  /\ UNCHANGED <<disk, alive, net>>

(* An append_event of the executor, which then goes on at label to. *)
ExecAppend(s, at, kind, to) ==
  /\ Exec(s, at) /\ Goto(s, to)
  /\ AppendEvent(s, OwnerOf[s], s, kind)
  /\ UNCHANGED alive

LogCreated(s) == ExecAppend(s, "create", "queued", "wait")

(* A worker takes the run: prepare_prompt logs prompt.rendered and sets    *)
(* "sending", a status no event carries.                                   *)
LogPrompt(s) == ExecAppend(s, "wait", "note", "prompted")

(* A set_status of the executor; sessions[s] raises KeyError when another  *)
(* thread has deleted the session, which ends the run.                     *)
ExecSet(s, at, new, to) ==
  /\ Exec(s, at)
  /\ \/ /\ status[OwnerOf[s]][s] # None
        /\ SetStatus(OwnerOf[s], s, new) /\ Goto(s, to)
     \/ /\ status[OwnerOf[s]][s] = None
        /\ Goto(s, "failed") /\ UNCHANGED memory
  /\ UNCHANGED <<disk, alive, net>>

SetSending(s) == ExecSet(s, "prompted", "sending", "sending")

(* AgyCliRunner.run: the process exists before its start is recorded. *)
Spawn(s) ==
  /\ Exec(s, "sending") /\ Goto(s, "spawned")
  /\ alive' = [alive EXCEPT ![s] = TRUE]
  /\ UNCHANGED <<disk, memory, net>>

SetRunning(s) == ExecSet(s, "spawned", "running", "started")
LogStarted(s) == ExecAppend(s, "started", "running", "run")

(* One antigravity.heartbeat per grace period stands for the several.      *)
Heartbeat(s) ==
  /\ alive[s] /\ quiet[OwnerOf[s]][s] > 0 /\ Len(age[s]) < MaxEvents
  /\ ExecAppend(s, "run", "note", "run")

(* The process ends, by itself or by terminate; also one nobody waits for. *)
Exit(s) ==
  /\ alive[s] /\ ex[s] \notin {"spawned", "started"}
  /\ alive' = [alive EXCEPT ![s] = FALSE]
  /\ UNCHANGED <<disk, memory, ex, view, net, world>>

SetCompleted(s) == ~alive[s] /\ ExecSet(s, "run", "completed", "finish")
LogCompleted(s) == ExecAppend(s, "finish", "completed", "done")

Execute(s) ==
  \/ CreateSession(s) \/ LogCreated(s) \/ LogPrompt(s) \/ SetSending(s)
  \/ Spawn(s) \/ SetRunning(s) \/ LogStarted(s) \/ Heartbeat(s)
  \/ SetCompleted(s) \/ LogCompleted(s)

-----------------------------------------------------------------------------
(* Requests.  Every query begins with refresh_from_disk: load all files,   *)
(* then settle what looks stale; a delete goes on from there.              *)

Home(t) == HubOf[t]

(* Reader t at label at, not waiting for the answer to a post. *)
View(t, at) ==
  /\ view[t].at = at /\ up[Home(t)] \in {"up", "boot"} /\ post[t] = None
  /\ UNCHANGED <<ex, alive, up, faults>>

Files == {s \in Session : log[s] # <<>>} \cup torn

(* The bound on deletes: none of a session that has been deleted before. *)
Request(t) ==
  /\ View(t, "idle") /\ up[Home(t)] = "up"
  /\ \E target \in IF t \in Removers THEN Session \ gone ELSE {None} :
       view' = [view EXCEPT ![t] = [@ EXCEPT !.at = "load", !.files = Files,
                                             !.want = target]]
  /\ UNCHANGED <<disk, memory, net, gone>>

(* path.read_text: the whole file at once; one that is gone reads as empty *)
ReadFile(t) ==
  /\ View(t, "load") /\ view[t].todo = <<>>
  /\ \E s \in view[t].files :
       view' = [view EXCEPT ![t] = [@ EXCEPT !.files = view[t].files \ {s},
                                             !.todo = log[s]]]
  /\ UNCHANGED <<disk, memory, net, gone>>

(* Mutant: the line is applied without a look at the loaded ids. *)
LoadLineUnchecked(t) ==
  /\ View(t, "load") /\ view[t].todo # <<>>
  /\ Rebuild(Home(t), Head(view[t].todo))
  /\ view' = [view EXCEPT ![t].todo = Tail(@)]
  /\ UNCHANGED <<disk, net, gone>>

(* One line of the text read: skipped when its id is loaded, by this hub   *)
(* or by any of its threads since; the lock is held for this line only.    *)
LoadLine(t) ==
  /\ View(t, "load") /\ view[t].todo # <<>>
  /\ LET e == Head(view[t].todo)
     IN IF e \in Loaded(Home(t)) THEN UNCHANGED memory ELSE Rebuild(Home(t), e)
  /\ view' = [view EXCEPT ![t].todo = Tail(@)]
  /\ UNCHANGED <<disk, net, gone>>

LoadDone(t) == view[t].files = {} /\ view[t].todo = <<>>

(* is_managed: known to the RunManager of this server, which a run is from *)
(* its acceptance on.                                                      *)
Managed(h, s) ==
  OwnerOf[s] = h /\ ex[s] \notin {"new", "create", "dead"}

Started(h, s) == \E e \in Elements(seen[h][s]) : e.kind = "running"

(* Mutants: queued runs are not passed over; no limit without a process.   *)
StaleQueued(h, s) ==
  /\ status[h][s] \in Open
  /\ \/ Started(h, s) /\ quiet[h][s] > 0 /\ ~alive[s]
     \/ quiet[h][s] = Expired
StaleStarted(h, s) ==
  /\ status[h][s] \in Open
  /\ Started(h, s) /\ quiet[h][s] > 0 /\ ~alive[s]

Stale(h, s) ==
  /\ status[h][s] \in Open
  /\ ~(status[h][s] = "queued" /\ Managed(h, s))
  /\ \/ Started(h, s) /\ quiet[h][s] > 0 /\ ~alive[s]
     \/ quiet[h][s] = Expired

(* _settle_stale_sessions, first part: the candidates, under the lock. *)
Collect(t) ==
  /\ View(t, "load") /\ LoadDone(t) /\ up[Home(t)] = "up"
  /\ view' = [view EXCEPT ![t] =
                [@ EXCEPT !.at = "settle",
                          !.stale = {s \in Session : Stale(Home(t), s)}]]
  /\ UNCHANGED <<disk, memory, net, gone>>

(* Mutant: the session to settle is taken off the list when it is begun. *)
RecheckTaken(t) ==
  /\ View(t, "settle")
  /\ \E s \in view[t].stale :
       view' = [view EXCEPT ![t] =
                  IF status[Home(t)][s] \in Open
                  THEN [@ EXCEPT !.at = "mark", !.cur = s,
                                  !.stale = view[t].stale \ {s}]
                  ELSE [@ EXCEPT !.stale = view[t].stale \ {s}]]
  /\ UNCHANGED <<disk, memory, net, gone>>

(* Second part, for each: still open under the lock, set_status after it.  *)
Recheck(t) ==
  /\ View(t, "settle")
  /\ \E s \in view[t].stale :
       view' = [view EXCEPT ![t] =
                  IF status[Home(t)][s] \in Open
                  THEN [@ EXCEPT !.at = "mark", !.cur = s]
                  ELSE [@ EXCEPT !.stale = view[t].stale \ {s}]]
  /\ UNCHANGED <<disk, memory, net, gone>>

SettleMark(t) ==
  /\ View(t, "mark")
  /\ \/ /\ status[Home(t)][view[t].cur] # None
        /\ SetStatus(Home(t), view[t].cur, "error")
        /\ view' = [view EXCEPT ![t].at = "log"]
     \/ /\ status[Home(t)][view[t].cur] = None
        /\ view' = [view EXCEPT ![t] = IdleView] /\ UNCHANGED memory
  /\ UNCHANGED <<disk, net, gone>>

SettleLog(t) ==
  /\ View(t, "log")
  /\ AppendEvent(t, Home(t), view[t].cur, "error")
  /\ view' = [view EXCEPT ![t] = [@ EXCEPT !.at = "settle", !.cur = None,
                                           !.stale = view[t].stale \ {view[t].cur}]]
  /\ UNCHANGED gone

Refreshed(t) ==
  /\ View(t, "settle") /\ view[t].stale = {}
  /\ view' = [view EXCEPT ![t] =
                IF view[t].want = None THEN IdleView
                ELSE [@ EXCEPT !.at = "remove"]]
  /\ UNCHANGED <<disk, memory, net, gone>>

(* Mutant: a conversation is deleted whatever its runs are doing. *)
RemoveAny(t) ==
  LET h == Home(t)
      s == view[t].want
  IN /\ View(t, "remove")
     /\ status' = [status EXCEPT ![h][s] = None]
     /\ seen' = [seen EXCEPT ![h][s] = <<>>]
     /\ quiet' = [quiet EXCEPT ![h][s] = 0]
     /\ view' = [view EXCEPT ![t].at = "unlink"]
     /\ UNCHANGED <<disk, net, gone>>

(* delete_conversation: refused unless every run is final, else the        *)
(* sessions, events and loaded ids are dropped under the lock ...          *)
Remove(t) ==
  LET h == Home(t)
      s == view[t].want
  IN /\ View(t, "remove")
     /\ \/ /\ status[h][s] \in Final
           /\ status' = [status EXCEPT ![h][s] = None]
           /\ seen' = [seen EXCEPT ![h][s] = <<>>]
           /\ quiet' = [quiet EXCEPT ![h][s] = 0]
           /\ view' = [view EXCEPT ![t].at = "unlink"]
        \/ /\ status[h][s] \notin Final
           /\ view' = [view EXCEPT ![t] = IdleView] /\ UNCHANGED memory
     /\ UNCHANGED <<disk, net, gone>>

(* ... and the files are unlinked without it. *)
Unlink(t) ==
  /\ View(t, "unlink")
  /\ log' = [log EXCEPT ![view[t].want] = <<>>]
  /\ torn' = torn \ {view[t].want}
  /\ gone' = gone \cup {view[t].want}
  /\ view' = [view EXCEPT ![t] = IdleView]
  /\ UNCHANGED <<age, memory, net>>

Serve(t) ==
  \/ ReadFile(t) \/ LoadLine(t) \/ Collect(t) \/ Recheck(t) \/ SettleMark(t)
  \/ SettleLog(t) \/ Refreshed(t) \/ Remove(t) \/ Unlink(t)

-----------------------------------------------------------------------------
(* Posts to the owner of the dashboard.                                    *)

(* Mutant: posted events are taken as new. *)
IngestAgain(e) == Rebuild(Dash, e) /\ WriteEvent(e)

(* ingest_event: an event not loaded yet is loaded and written once more.  *)
IngestEvent(e) ==
  IF e \in Loaded(Dash) THEN UNCHANGED <<log, memory>>
  ELSE Rebuild(Dash, e) /\ WriteEvent(e)

Ingest(x) ==
  /\ post[x] # None /\ up[Dash] = "up"
  /\ IngestEvent(post[x])
  /\ post' = [post EXCEPT ![x] = None]
  /\ UNCHANGED <<torn, age, ex, alive, view, late, world>>

(* The sender stops waiting: refused by a server that is down, or timed    *)
(* out (1 s) at one that is slow and will still handle the request.        *)
GiveUp(x) ==
  /\ post[x] # None
  /\ \/ /\ up[Dash] # "up"
        /\ UNCHANGED <<late, faults>>
     \/ /\ up[Dash] = "up" /\ faults < MaxFaults
        /\ late' = late \cup {post[x]} /\ faults' = faults + 1
  /\ post' = [post EXCEPT ![x] = None]
  /\ UNCHANGED <<disk, memory, ex, alive, view, up, gone>>

IngestLate ==
  /\ late # {} /\ up[Dash] = "up"
  /\ \E e \in late : IngestEvent(e) /\ late' = late \ {e}
  /\ UNCHANGED <<torn, age, ex, alive, view, post, world>>

-----------------------------------------------------------------------------
(* Crashes, restarts and time.                                             *)

(* The sessions a thread of h may be writing a line of. *)
Writing(h) ==
  {s \in Session : OwnerOf[s] = h /\ ex[s] \in {"create", "wait", "started",
                                               "run", "finish"}}
    \cup {view[t].cur : t \in {r \in Reader : Home(r) = h /\ view[r].at = "log"}}

(* A crash may cut off one line. *)
Crash(h) ==
  /\ h \in Mortal /\ faults < MaxFaults /\ up[h] = "up"
  /\ up' = [up EXCEPT ![h] = "down"] /\ faults' = faults + 1
  /\ status' = [status EXCEPT ![h] = [s \in Session |-> None]]
  /\ seen' = [seen EXCEPT ![h] = [s \in Session |-> <<>>]]
  /\ quiet' = [quiet EXCEPT ![h] = [s \in Session |-> 0]]
  /\ ex' = [s \in Session |->
              IF OwnerOf[s] = h /\ Executing(s) THEN "dead" ELSE ex[s]]
  /\ view' = [t \in Reader |-> IF Home(t) = h THEN IdleView ELSE view[t]]
  /\ LET mine == {s \in Session : OwnerOf[s] = h}
                   \cup {t \in Reader : Home(t) = h}
     IN /\ late' = IF h = Dash THEN {}
                   ELSE late \cup ({post[x] : x \in mine} \ {None})
        /\ post' = [x \in DOMAIN post |-> IF x \in mine THEN None ELSE post[x]]
  /\ torn' = torn \/ \E s \in Writing(h) : torn' = torn \cup {s}
  /\ UNCHANGED <<log, age, alive, gone>>

(* ObserverHub.__init__ loads every file before the server answers; one    *)
(* of its readers stands for the thread that does.                         *)
Restart(h) ==
  /\ up[h] = "down" /\ up' = [up EXCEPT ![h] = "boot"]
  /\ \E t \in Reader :
       /\ Home(t) = h
       /\ view' = [view EXCEPT ![t] = [IdleView EXCEPT !.at = "load",
                                                       !.files = Files]]
  /\ UNCHANGED <<disk, memory, ex, alive, net, faults, gone>>

Booted(h) ==
  /\ up[h] = "boot"
  /\ \E t \in Reader :
       /\ Home(t) = h /\ view[t].at = "load" /\ LoadDone(t)
       /\ view' = [view EXCEPT ![t] = IdleView]
  /\ up' = [up EXCEPT ![h] = "up"]
  /\ UNCHANGED <<disk, memory, ex, alive, net, faults, gone>>

(* A grace period passes.  It is long beside what a worker does between    *)
(* two statements, so none is under way, and every running process has     *)
(* had a heartbeat since the last one.  A request may be that slow.        *)
Older(a) == IF a = Expired THEN Expired ELSE a + 1

Tick ==
  /\ Ticks
  /\ \A x \in DOMAIN post : post[x] = None
  /\ \A h \in Hub : up[h] # "boot"
  /\ \A s \in Session :
       /\ ex[s] \in {"new", "wait", "run", "done", "failed", "dead"}
       /\ ex[s] = "run" /\ alive[s] => quiet[OwnerOf[s]][s] = 0
  /\ age' = [s \in Session |-> [n \in DOMAIN age[s] |-> Older(age[s][n])]]
  /\ quiet' = [h \in Hub |-> [s \in Session |->
                 IF status[h][s] = None THEN 0 ELSE Older(quiet[h][s])]]
  /\ UNCHANGED <<log, torn, status, seen, ex, alive, view, net, world>>

-----------------------------------------------------------------------------
Next ==
  \/ \E s \in Session : Execute(s) \/ Exit(s)
  \/ \E t \in Reader : Request(t) \/ Serve(t)
  \/ \E x \in Session \cup Reader : Ingest(x) \/ GiveUp(x)
  \/ IngestLate \/ Tick
  \/ \E h \in Hub : Crash(h) \/ Restart(h) \/ Booted(h)

(* Threads run; posts are answered or time out; a dashboard page polls its *)
(* server; a server that died is started again and time goes on.           *)
Fairness ==
  /\ \A s \in Session : WF_vars(Execute(s)) /\ WF_vars(Exit(s))
  /\ \A t \in Reader : WF_vars(Serve(t)) /\ WF_vars(Request(t))
  /\ \A x \in Session \cup Reader : WF_vars(Ingest(x) \/ GiveUp(x))
  /\ \A h \in Hub : WF_vars(Restart(h)) /\ WF_vars(Booted(h))
  /\ WF_vars(Tick)

Spec == Init /\ [][Next]_vars /\ Fairness

-----------------------------------------------------------------------------
(* Properties.                                                             *)

(* Every variable keeps the shape the code gives it, and a thread in the   *)
(* middle of set_status or of a delete knows which session it is about.    *)
DiskOK ==
  /\ log \in [Session -> Seq(Event)] /\ torn \subseteq Session
  /\ age \in [Session -> Seq(Age)] /\ gone \subseteq Session
MemoryOK ==
  /\ status \in [Hub -> [Session -> Status \cup {None}]]
  /\ seen \in [Hub -> [Session -> Seq(Event)]]
  /\ quiet \in [Hub -> [Session -> Age]]
NetOK ==
  /\ post \in [Session \cup Reader -> Event \cup {None}]
  /\ late \subseteq Event
  /\ up \in [Hub -> {"up", "boot", "down"}] /\ faults \in 0 .. MaxFaults
ExecOK == ex \in [Session -> Place] /\ alive \in [Session -> BOOLEAN]
ViewOK ==
  /\ view \in [Reader ->
       [at : {"idle", "load", "settle", "mark", "log", "remove", "unlink"},
        files : SUBSET Session, todo : Seq(Event), stale : SUBSET Session,
        cur : Session \cup {None}, want : Session \cup {None}]]
  /\ \A t \in Reader :
       /\ view[t].at \in {"mark", "log"} => view[t].cur \in view[t].stale
       /\ view[t].at \in {"remove", "unlink"} => view[t].want \in Session

TypeOK == DiskOK /\ MemoryOK /\ NetOK /\ ExecOK /\ ViewOK

Distinctly(q) == \A i, j \in DOMAIN q : q[i] = q[j] => i = j
Prefix(p, q) == Len(p) <= Len(q) /\ \A i \in DOMAIN p : p[i] = q[i]

(* However refreshes of several threads, posts and late posts of the same  *)
(* event race, a hub takes an event up at most once, and in the list of    *)
(* the session it belongs to (_loaded_event_ids is tested under the lock). *)
TakenOnce ==
  \A h \in Hub, s \in Session :
    /\ Distinctly(seen[h][s])
    /\ \A e \in Elements(seen[h][s]) : e.s = s

(* Whatever a hub has taken up, its own events, loaded or posted ones, is  *)
(* in the file, so a restart loses nothing a dashboard has shown; the      *)
(* exceptions are a session whose file a delete has removed and one with a *)
(* torn line.                                                              *)
Durable ==
  \A h \in Hub, s \in Session \ (gone \cup torn) :
    Elements(seen[h][s]) \subseteq Elements(log[s])

(* While no grace period passes and nothing is posted, the executor is the *)
(* only writer of its session, and every hub has a prefix of the file: a   *)
(* refresh takes over the events in their order, and with none missing,    *)
(* however the two threads of a hub and the writer interleave.             *)
FollowsLog ==
  \A h \in Hub, s \in Session :
    /\ Prefix(seen[h][s], log[s])
    /\ OwnerOf[s] = h /\ up[h] = "up" => seen[h][s] = log[s]

(* ... so what a server shows of a run never goes back: from queued to     *)
(* running to its final status, also in the executing server itself, which *)
(* reads its own events back from the file at each refresh.                *)
Rank(st) == CASE st = None -> 0 [] st = "queued" -> 1 [] st = "sending" -> 2
              [] st = "running" -> 3 [] OTHER -> 4

NeverBack ==
  [][\A h \in Hub, s \in Session :
       up[h] = "up" /\ up'[h] = "up"
         => Rank(status[h][s]) <= Rank(status'[h][s])]_vars

(* A server never gives up one of its own runs that waits for a worker or  *)
(* that an agy process serves: the queued runs it manages are passed over, *)
(* heartbeats keep the others fresh, and nothing decided from an earlier   *)
(* look at the session turns it to error later.                            *)
SettlesOnlyTheDead ==
  [][\A h \in Hub, s \in Session :
       status[h][s] # "error" /\ status'[h][s] = "error"
         => ~alive[s] /\ ex[s] # "wait"]_vars

(* A run whose server has died is settled by every server that is asked    *)
(* about it, the restarted one too, from the events and the age of the     *)
(* last: no dashboard shows it running forever.                            *)
OrphansSettle ==
  \A s \in Session, t \in Reader :
    ex[s] = "dead" /\ log[s] # <<>> ~> status[HubOf[t]][s] \in Final

(* tests/test_observer.py:157: a dashboard refresh keeps the session of a  *)
(* run that waits for capacity queued.                                     *)
QueuedKept ==
  [][\A h \in Hub, s \in Session :
       ex[s] = "wait" /\ ex'[s] = "wait" /\ status[h][s] = "queued"
         => status'[h][s] \in {"queued", None}]_vars

(* observer.py:1050: a running conversation cannot be removed; one that    *)
(* waits for a worker or has a process still is one.                       *)
RunningKept == \A s \in gone : ~alive[s] /\ ex[s] # "wait"

=============================================================================
