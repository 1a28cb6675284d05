-------------------------- MODULE ConversationsInv --------------------------
(***************************************************************************)
(* The inductive invariant behind the theorems about Conversations: who    *)
(* holds the lock of a conversation, what a server knows of a conversation *)
(* that it is about to continue, and how turns and roots follow from it.   *)
(***************************************************************************)
EXTENDS Conversations

(* A call between its plan and create_session.                             *)
Planned(s) == caller[s].pc \in {"wait", "check", "create"}
CallOK == \A s \in Server :
  /\ caller[s].pc = "idle" => caller[s] = NoCall
  /\ Planned(s) => caller[s].parent \in Created
  /\ caller[s].pc = "wait" => caller[s].conv # None
  /\ removal[s].pc = "check" => removal[s].conv \in Run
WorkOK == \A w \in Worker : work[w].pc # "idle" => work[w].r \in Created
SlotsOK == Len(run) + Cardinality({s \in Server : Planned(s)}) <= MaxRuns

TypeInv == TypeOK /\ CallOK /\ WorkOK /\ SlotsOK

(* Who continues a conversation holds its lock, and nobody else does.      *)
LockOK ==
  /\ \A s \in Server : caller[s].lock # None => <<s, caller[s].lock>> \in locked
  /\ \A s \in Server, c \in Run : \A w \in Continues(s, c) :
       /\ <<s, c>> \in locked
       /\ caller[s].lock # c
       /\ \A v \in Continues(s, c) : v = w

(* A conversation has the number of its first run, the one with turn 1.    *)
FirstOK ==
  /\ \A r \in Created :
       /\ Conv(r) <= r /\ run[r].turn <= r
       /\ run[r].turn = 1 /\ Conv(r) \notin raced => Conv(r) = r
  /\ \A s \in Server :
       Planned(s) /\ caller[s].conv # None => caller[s].conv \in Created

(* No hub knows a conversation before it exists; a dead one knows nothing. *)
HubOK == \A s \in Server :
  /\ s \notin up => known[s] = {}
  /\ \A c \in Run \ Created : root[s][c] = Unknown /\ index[c] = Unknown
  /\ \A r \in known[s] :
       Conv(r) \notin raced =>
         /\ root[s][Conv(r)] # Unknown
         /\ run[r].turn = 1 => root[s][Conv(r)] = r

(* The runs of server s in a conversation that it may know of              *)
Own(s, c) == {q \in known[s] \cup files : run[q].home = s /\ Conv(q) = c}

(* From its plan on, a call that continues a conversation knows its parent *)
(* and all of the server's own runs in it, none of which is newer.         *)
PlanOK == \A s \in Server :
  LET c == caller[s].conv
      p == caller[s].parent IN
  Planned(s) /\ c # None /\ c \notin raced =>
    /\ p \in known[s] /\ Conv(p) = c
    /\ Own(s, c) \subseteq known[s]
    /\ run[p].home = s => \A q \in Own(s, c) : q <= p

(* The run a call is about to log is the newest of its server.             *)
NewestOK == \A s \in Server : caller[s].pc = "log" =>
  \E r \in Created : /\ run[r].home = s
                     /\ \A q \in Created : run[q].home = s => q <= r

(* Turns rise over what a server may know of, and a later run of a         *)
(* conversation continues none older than a run that is on disk.           *)
TurnsOK == \A r \in Created : Conv(r) \notin raced =>
  /\ \A q \in Own(run[r].home, Conv(r)) : q < r => run[q].turn < run[r].turn
  /\ (\A p \in Created : Conv(p) = Conv(r) => run[p].home = run[r].home)
       => \A q \in files : q < r /\ Conv(q) = Conv(r) => run[r].parent >= q

Inv == /\ TypeInv /\ LockOK /\ FirstOK /\ HubOK
       /\ PlanOK /\ NewestOK /\ TurnsOK
=============================================================================
