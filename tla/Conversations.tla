--------------------------- MODULE Conversations ---------------------------
(***************************************************************************)
(* Conversations and follow-ups (tools.py start_follow_up_antigravity,     *)
(* observer.py create_session): how runs are put into conversations, in    *)
(* which order follow-ups run, and what several servers sharing one        *)
(* transcript directory make of each other's conversations.                *)
(*                                                                         *)
(* A server answers one MCP call after another (server.py), so it has one  *)
(* caller; its workers run the queued runs.  A follow-up of a              *)
(* conversation's latest run continues it, under the conversation's lock,  *)
(* any other one branches off a conversation of its own.  Runs are         *)
(* numbered as they are created; a conversation is known by the number of  *)
(* the run it was created for.                                             *)
(***************************************************************************)
EXTENDS Integers, Sequences, FiniteSets

CONSTANTS
  Server,
  Worker,
  Home,      \* the server a worker belongs to
  Remover,   \* servers whose dashboard is used to delete conversations
  MaxRuns,   \* bound on the number of runs
  MaxFaults  \* bound on crashes, failed writes of the index and deletions

ASSUME Homes == /\ IsFiniteSet(Server)
                /\ Home \in [Worker -> Server] /\ Remover \subseteq Server
ASSUME Bounds == MaxRuns \in Nat \ {0} /\ MaxFaults \in Nat

Run  == 1 .. MaxRuns
None == 0
Unknown == MaxRuns + 1
Root == Run \cup {None, Unknown}   \* Unknown: no such conversation

VARIABLES
  run,      \* the runs, oldest first: the fields of session.created
  state,    \* their status, "void" for one whose creation failed half way
  files,    \* runs with a <run>.jsonl in the transcript directory
  index,    \* conversation-index.json: the root_run_id of each conversation
  up,       \* servers that are running
  known,    \* known[s]: hub.sessions
  root,     \* root[s][c]: hub.conversations[c].root_run_id
  locked,   \* the conversation locks that are held: <<server, conversation>>
  caller,   \* the start call a server is answering
  queue,    \* queue[s]: runs handed to the run manager
  work,     \* what each worker does
  removal,  \* the delete request a server is answering
  raced,    \* (history) conversations deleted during a start call for them
  faults    \* (bound) faults so far

memory == <<known, root>>
disk == <<files, index>>
vars == <<run, state, files, index, up, known, root, locked, caller, queue,
          work, removal, raced, faults>>

Created == 1 .. Len(run)
Conv(r) == run[r].conv
FollowUp(r) == run[r].parent # None
Open == {r \in Created : state[r] \in {"queued", "running"}}

NoCall    == [pc |-> "idle", parent |-> None, conv |-> None, lock |-> None]
NoWork    == [pc |-> "idle", r |-> None]
NoRemoval == [pc |-> "idle", conv |-> None, open |-> {}, paths |-> {}]
NoConversations == [c \in Run |-> Unknown]

Init ==
  /\ run = <<>> /\ state = <<>>
  /\ files = {} /\ index = NoConversations
  /\ up = Server
  /\ known = [s \in Server |-> {}]
  /\ root = [s \in Server |-> NoConversations]
  /\ locked = {}
  /\ caller = [s \in Server |-> NoCall]
  /\ queue = [s \in Server |-> <<>>]
  /\ work = [w \in Worker |-> NoWork]
  /\ removal = [s \in Server |-> NoRemoval]
  /\ raced = {} /\ faults = 0

Fault == faults < MaxFaults /\ faults' = faults + 1

(***************************************************************************)
(* What a hub knows.                                                       *)
(***************************************************************************)
(* Mutant: the first run that is read becomes the root. *)
RebuiltFirst(s, r) ==
  IF root[s][Conv(r)] \in {None, Unknown} THEN r ELSE root[s][Conv(r)]

(* _rebuild_session_from_event, session.created: also brings back the      *)
(* conversation and, whatever the order of the files, its root.            *)
Rebuilt(s, r) ==
  LET c == Conv(r) IN
  IF root[s][c] \in {None, Unknown} \/ run[r].turn = 1 THEN r ELSE root[s][c]

Load(s, r) ==
  /\ s \in up /\ r \in files \ known[s]
  /\ known' = [known EXCEPT ![s] = @ \cup {r}]
  /\ root' = [root EXCEPT ![s][Conv(r)] = Rebuilt(s, r)]
  /\ UNCHANGED <<run, state, disk, up, locked, caller, queue, work, removal,
                 raced, faults>>

(* refresh_from_disk has been through every file. *)
Refreshed(s) == files \subseteq known[s]

Runs(s, c) == {r \in known[s] : Conv(r) = c}

(* Mutant: a follow-up continues its parent's conversation in any case. *)
MayBeLatestAny(s, r) == r \in known[s]

(* is_latest_run.  Of several runs with the same turn the one that started *)
(* last is taken, which the servers date differently: it may be either.    *)
MayBeLatest(s, r) ==
  \A q \in Runs(s, Conv(r)) : run[q].turn <= run[r].turn
MayBeOlder(s, r) ==
  \E q \in Runs(s, Conv(r)) \ {r} : run[q].turn >= run[r].turn

(* _next_turn_index *)
NextTurn(s, c) ==
  1 + CHOOSE n \in {0} \cup {run[r].turn : r \in Runs(s, c)} :
        \A r \in Runs(s, c) : run[r].turn <= n

(***************************************************************************)
(* start_antigravity and its follow_up mode.                               *)
(***************************************************************************)
Calling(s, pc) == s \in up /\ caller[s].pc = pc
GoOn(s, pc) == caller' = [caller EXCEPT ![s].pc = pc]
Release(s) == locked' = locked \ {<<s, caller[s].lock>>}

(* The bound MaxRuns, less the runs of the calls under way *)
RunsLeft ==
  Len(run) + Cardinality({s \in Server :
    caller[s].pc \in {"wait", "check", "create"}}) < MaxRuns

(* _follow_up_plan, before any lock is taken *)
PlanFollowUp(s, p) ==
  /\ Calling(s, "idle") /\ Refreshed(s) /\ p \in known[s] /\ RunsLeft
  /\ \/ /\ MayBeLatest(s, p)
        /\ caller' = [caller EXCEPT ![s] =
             [NoCall EXCEPT !.pc = "wait", !.parent = p, !.conv = Conv(p)]]
     \/ /\ MayBeOlder(s, p)
        /\ caller' = [caller EXCEPT ![s] =
             [NoCall EXCEPT !.pc = "check", !.parent = p]]
  /\ UNCHANGED <<run, state, disk, up, memory, locked, queue, work, removal,
                 raced, faults>>

(* create_lock: held by a worker for as long as a follow-up runs *)
LockConversation(s) ==
  /\ Calling(s, "wait") /\ <<s, caller[s].conv>> \notin locked
  /\ locked' = locked \cup {<<s, caller[s].conv>>}
  /\ caller' = [caller EXCEPT ![s].pc = "check", ![s].lock = caller[s].conv]
  /\ UNCHANGED <<run, state, disk, up, memory, queue, work, removal, raced,
                 faults>>

(* Still the latest run?  If so the plan is made anew, if not the old one  *)
(* is kept; a parent that was deleted meanwhile ends the call.             *)
CheckPlan(s) ==
  LET p == caller[s].parent IN
  /\ Calling(s, "check") /\ Refreshed(s)
  /\ IF p \notin known[s]
       THEN Release(s) /\ caller' = [caller EXCEPT ![s] = NoCall]
       ELSE /\ \/ MayBeLatest(s, p) /\ caller' = [caller EXCEPT
                    ![s].pc = "create", ![s].conv = Conv(p)]
               \/ MayBeOlder(s, p) /\ GoOn(s, "create")
            /\ UNCHANGED locked
  /\ UNCHANGED <<run, state, disk, up, memory, queue, work, removal, raced,
                 faults>>

(* create_session up to the index: the run is put into its conversation,   *)
(* which is created when there is none (any more).                         *)
NewRun(s) ==
  LET n == Len(run) + 1
      c == IF caller[s].conv = None THEN n ELSE caller[s].conv IN
  [home |-> s, conv |-> c, turn |-> NextTurn(s, c), parent |-> caller[s].parent]

AddRun(s) ==
  LET n == Len(run) + 1
      c == NewRun(s).conv IN
  /\ run' = Append(run, NewRun(s))
  /\ known' = [known EXCEPT ![s] = @ \cup {n}]
  /\ root' = [root EXCEPT ![s][c] = IF @ \in {None, Unknown} THEN n ELSE @]

(* The whole index is written from this server's memory. *)
Create(s) ==
  /\ AddRun(s)
  /\ state' = Append(state, "queued")
  /\ index' = root'[s]
  /\ GoOn(s, "log")
  /\ UNCHANGED <<files, up, locked, queue, work, removal, raced, faults>>

StartRun(s)  == Calling(s, "idle") /\ RunsLeft /\ Create(s)
CreateRun(s) == Calling(s, "create") /\ Create(s)

(* All servers write the index through one temporary file: when another    *)
(* one has just renamed it, the call fails with the run created in memory. *)
CreateFails(s) ==
  /\ Calling(s, "create") /\ Fault
  /\ \E t \in up : t # s
  /\ AddRun(s)
  /\ state' = Append(state, "void")
  /\ Release(s) /\ caller' = [caller EXCEPT ![s] = NoCall]
  /\ UNCHANGED <<disk, up, queue, work, removal, raced>>

(* The session.created event; the lock is released after it and the run    *)
(* handed to the run manager (RunManager has the details).                 *)
Newest(s) == CHOOSE r \in Created :
  run[r].home = s /\ \A q \in Created : run[q].home = s => q <= r

LogRun(s) ==
  /\ Calling(s, "log")
  /\ files' = files \cup {Newest(s)}
  /\ queue' = [queue EXCEPT ![s] = Append(@, Newest(s))]
  /\ Release(s) /\ caller' = [caller EXCEPT ![s] = NoCall]
  /\ UNCHANGED <<run, state, index, up, memory, work, removal, raced, faults>>

(***************************************************************************)
(* The workers: a follow-up holds its conversation's lock while agy runs,  *)
(* the run that opened the conversation does not take it.                  *)
(***************************************************************************)
Working(w, pc) == Home[w] \in up /\ work[w].pc = pc

Begin(w, r) ==
  /\ work' = [work EXCEPT ![w] = [pc |-> "run", r |-> r]]
  /\ state' = [state EXCEPT ![r] = "running"]

Take(w) ==
  LET s == Home[w]
      r == Head(queue[s]) IN
  /\ Working(w, "idle") /\ queue[s] # <<>>
  /\ queue' = [queue EXCEPT ![s] = Tail(@)]
  /\ IF FollowUp(r)
       THEN /\ work' = [work EXCEPT ![w] = [pc |-> "wait", r |-> r]]
            /\ UNCHANGED state
       ELSE Begin(w, r)
  /\ UNCHANGED <<run, disk, up, memory, locked, caller, removal, raced,
                 faults>>

(* Mutant: a worker does not take the conversation's lock. *)
EnterUnlocked(w) ==
  LET lock == <<Home[w], Conv(work[w].r)>> IN
  /\ Working(w, "wait")
  /\ locked' = locked \cup {lock}
  /\ Begin(w, work[w].r)
  /\ UNCHANGED <<run, disk, up, memory, caller, queue, removal, raced,
                 faults>>

Enter(w) ==
  LET lock == <<Home[w], Conv(work[w].r)>> IN
  /\ Working(w, "wait") /\ lock \notin locked
  /\ locked' = locked \cup {lock}
  /\ Begin(w, work[w].r)
  /\ UNCHANGED <<run, disk, up, memory, caller, queue, removal, raced,
                 faults>>

(* Mutant: the lock is kept when the run has failed. *)
FinishHolding(w) ==
  LET r == work[w].r IN
  /\ Working(w, "run")
  /\ state' = [state EXCEPT ![r] = "final"]
  /\ work' = [work EXCEPT ![w] = NoWork]
  /\ locked' \in {locked, locked \ {<<Home[w], Conv(r)>>}}
  /\ UNCHANGED <<run, disk, up, memory, caller, queue, removal, raced,
                 faults>>

Finish(w) ==
  LET r == work[w].r IN
  /\ Working(w, "run")
  /\ state' = [state EXCEPT ![r] = "final"]
  /\ work' = [work EXCEPT ![w] = NoWork]
  /\ locked' = IF FollowUp(r) THEN locked \ {<<Home[w], Conv(r)>>} ELSE locked
  /\ UNCHANGED <<run, disk, up, memory, caller, queue, removal, raced,
                 faults>>

(***************************************************************************)
(* delete_conversation: refresh, then check and forget under the hub's     *)
(* lock, then remove the files.  Of the runs of other servers it knows     *)
(* what it has read.                                                       *)
(***************************************************************************)
Removing(s, pc) == s \in up /\ removal[s].pc = pc

AskRemoval(s, c) ==
  /\ Removing(s, "idle") /\ Refreshed(s) /\ Fault
  /\ root[s][c] # Unknown
  /\ removal' = [removal EXCEPT ![s] =
       [NoRemoval EXCEPT !.pc = "check", !.conv = c,
                         !.open = {r \in Open : run[r].home # s}]]
  /\ UNCHANGED <<run, state, disk, up, memory, locked, caller, queue, work,
                 raced>>

Forget(s) ==
  LET c == removal[s].conv
      open == removal[s].open \cup {r \in Open : run[r].home = s} IN
  /\ Removing(s, "check")
  /\ IF root[s][c] = Unknown \/ Runs(s, c) \cap open # {}
       THEN /\ removal' = [removal EXCEPT ![s] = NoRemoval]
            /\ UNCHANGED <<memory, index, raced>>
       ELSE /\ removal' = [removal EXCEPT ![s] =
                 [NoRemoval EXCEPT !.pc = "unlink", !.paths = Runs(s, c)]]
            /\ known' = [known EXCEPT ![s] = @ \ Runs(s, c)]
            /\ root' = [root EXCEPT ![s][c] = Unknown]
            /\ index' = root'[s]
            /\ raced' = IF caller[s].conv = c THEN raced \cup {c} ELSE raced
  /\ UNCHANGED <<run, state, files, up, locked, caller, queue, work, faults>>

Unlink(s) ==
  /\ Removing(s, "unlink")
  /\ files' = files \ removal[s].paths
  /\ removal' = [removal EXCEPT ![s] = NoRemoval]
  /\ UNCHANGED <<run, state, index, up, memory, locked, caller, queue, work,
                 raced, faults>>

(***************************************************************************)
(* Crash and restart.  The runs of a crashed server are settled by the     *)
(* next refresh of another (Transcript has the details).                   *)
(***************************************************************************)
Crash(s) ==
  /\ s \in up /\ Fault
  /\ up' = up \ {s}
  /\ state' = [r \in Created |->
       IF run[r].home # s \/ r \notin Open THEN state[r]
       ELSE IF r \in files THEN "final" ELSE "void"]
  /\ known' = [known EXCEPT ![s] = {}]
  /\ root' = [root EXCEPT ![s] = NoConversations]
  /\ locked' = {l \in locked : l[1] # s}
  /\ caller' = [caller EXCEPT ![s] = NoCall]
  /\ queue' = [queue EXCEPT ![s] = <<>>]
  /\ work' = [w \in Worker |-> IF Home[w] = s THEN NoWork ELSE work[w]]
  /\ removal' = [removal EXCEPT ![s] = NoRemoval]
  /\ UNCHANGED <<run, disk, raced>>

(* The index may be torn, or gone with the temporary file: then the        *)
(* conversations come from the runs' files alone.                          *)
Boot(s) ==
  /\ s \in Server \ up
  /\ up' = up \cup {s}
  /\ \/ root' = [root EXCEPT ![s] = index]
     \/ UNCHANGED root
  /\ UNCHANGED <<run, state, disk, known, locked, caller, queue, work, removal,
                 raced, faults>>

Call(s) == \/ LockConversation(s) \/ CheckPlan(s) \/ CreateRun(s)
           \/ CreateFails(s) \/ LogRun(s)
Work(w) == Take(w) \/ Enter(w) \/ Finish(w)
Refresh(s) == \E r \in Run : Load(s, r)

Next ==
  \/ \E s \in Server :
       \/ StartRun(s) \/ (\E p \in Created : PlanFollowUp(s, p)) \/ Call(s)
       \/ Refresh(s) \/ Forget(s) \/ Unlink(s) \/ Crash(s) \/ Boot(s)
  \/ \E s \in Remover, c \in Run : AskRemoval(s, c)
  \/ \E w \in Worker : Work(w)

Spec == Init /\ [][Next]_vars

(* A server goes on with whatever it can: a call, a worker (every run ends *)
(* within agy_timeout_sec) or reading the transcript directory.  The locks *)
(* are handed on in any order: as the caller is the only one to make       *)
(* follow-ups, none is waited for for ever.                                *)
Progress(s) ==
  Call(s) \/ Refresh(s) \/ \E w \in Worker : Home[w] = s /\ Work(w)
Fairness == \A s \in Server : WF_vars(Progress(s))

FairSpec == Spec /\ Fairness

-----------------------------------------------------------------------------
(* The variables have the types of the fields they stand for. *)
RunRecord == [home : Server, conv : Run, turn : Nat \ {0}, parent : Run \cup {None}]
CallRecord == [pc : {"idle", "wait", "check", "create", "log"},
               parent : Run \cup {None}, conv : Run \cup {None},
               lock : Run \cup {None}]
WorkRecord == [pc : {"idle", "wait", "run"}, r : Run \cup {None}]
RemovalRecord == [pc : {"idle", "check", "unlink"}, conv : Run \cup {None},
                  open : SUBSET Created, paths : SUBSET Created]
TypeOK ==
  /\ run \in Seq(RunRecord) /\ Len(run) <= MaxRuns
  /\ state \in Seq({"queued", "running", "final", "void"}) /\ Len(state) = Len(run)
  /\ files \subseteq Created
  /\ index \in [Run -> Root]
  /\ up \subseteq Server
  /\ known \in [Server -> SUBSET Created]
  /\ root \in [Server -> [Run -> Root]]
  /\ locked \subseteq Server \X Run
  /\ caller \in [Server -> CallRecord]
  /\ queue \in [Server -> Seq(Created)]
  /\ work \in [Worker -> WorkRecord]
  /\ removal \in [Server -> RemovalRecord]
  /\ raced \subseteq Run /\ faults \in 0 .. MaxFaults

(* A server never has two agy processes continue one conversation at once, *)
(* nor adds a turn to one while it is being continued.                     *)
Continues(s, c) ==
  {w \in Worker : Home[w] = s /\ work[w].pc = "run" /\ FollowUp(work[w].r)
                  /\ Conv(work[w].r) = c}
OneAtATime ==
  \A s \in Server, c \in Run :
    Cardinality(Continues(s, c)) + (IF caller[s].lock = c THEN 1 ELSE 0) <= 1

(* The conversations of the runs a server knows are known to it, with the  *)
(* run that opened them as their root, although the index is whatever the  *)
(* last server wrote and the files are read in any order.                  *)
RootIsFirst ==
  \A s \in up : \A r \in known[s] :
    Conv(r) \notin raced =>
      /\ root[s][Conv(r)] # Unknown
      /\ run[r].turn = 1 => root[s][Conv(r)] = r

(* Turns count up along a conversation: of two runs of one server the      *)
(* later has the higher turn and, where no other server takes part, each   *)
(* continues the one before it.                                            *)
InOneConversation(q, r) == Conv(q) = Conv(r) /\ Conv(r) \notin raced
TurnsCountUp ==
  \A q, r \in files : q < r /\ InOneConversation(q, r) =>
    /\ run[q].home = run[r].home => run[q].turn < run[r].turn
    /\ (\A p \in Created : Conv(p) = Conv(r) => run[p].home = run[r].home)
         => run[r].parent >= q

(* No start call waits for ever for a conversation, and every follow-up    *)
(* gets its turn though each holds a worker while it waits: once no more   *)
(* calls come (their number is bounded), all have returned and all is run. *)
FollowUpsEnd ==
  <>[](Open = {} /\ \A s \in Server : caller[s].pc = "idle")
=============================================================================
