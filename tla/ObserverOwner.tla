--------------------------- MODULE ObserverOwner ---------------------------
(***************************************************************************)
(* Which of several Gemness servers owns the Observer port (observer.py,   *)
(* process_registry.py).  Every server has one hub.  A hub binds the port  *)
(* or, when it is taken, asks who answers there: it attaches to a healthy  *)
(* owner and otherwise takes the port over, by a request or, when nobody   *)
(* answers, by terminating the process.  Health is judged from the files   *)
(* of the registry directory, one per server, which a heartbeat rewrites.  *)
(*                                                                         *)
(* A thread stands for a worker or request thread of a hub: each event it  *)
(* writes asks for the observer URL and, when attached, posts the event to *)
(* the owner.  Probing, asking, killing and binding are separate steps.    *)
(***************************************************************************)
EXTENDS Integers, FiniteSets

CONSTANTS
  Hub,        \* Gemness server processes
  Foreign,    \* processes of other programs
  Thread,     \* threads of the hubs that write events
  Host,       \* the hub a thread belongs to
  Pid,        \* the pid of a process; a dead one's may be given out again
  MaxFaults,  \* bound on crashes, hangs, orphanings, lost replies, lost writes
  Nobody

Process == Hub \cup Foreign
Record  == [owns : BOOLEAN, stale : BOOLEAN]

ASSUME Hosts == Host \in [Thread -> Hub]
ASSUME Kinds ==
  /\ Foreign \cap Hub = {}
  /\ Nobody \notin Process \cup Thread \cup Record
ASSUME Bound == MaxFaults \in Nat

VARIABLES
  life,     \* "new", "up", "stopping" (stuck in hub.shutdown), "stopped"
            \* (hub shut down, process about to exit) or "gone"
  hung,     \* hubs whose process does not run for a while
  orphans,  \* hubs whose parent process has exited
  record,   \* the hub's file in the registry directory, Nobody when none
  beat,     \* the heartbeat: "wait", "owner" or "other" (what it is about
            \* to write), "off"
  web,      \* hubs whose _web_server is set
  mode,     \* _observer_mode; "seeking" stands for stopped, starting,
            \* blocked and takeover_pending, which all start again when asked
  seat,     \* the hub described by _attached_owner_status
  port,     \* the thread whose ObserverWebServer has bound the port
  served,   \* its serve_forever runs
  leaving,  \* takeover threads started by accepted requests
  job,      \* what each thread is doing
  lapsed,   \* (history) hubs whose record has ever been older than 30 s
  faults    \* (bound) faults so far

proc == <<life, hung, orphans>>
sock == <<port, served>>
vars == <<life, hung, orphans, record, beat, web, mode, seat, port, served,
          leaving, job, lapsed, faults>>

Idle == [pc |-> "idle", for |-> "", of |-> Nobody, stale |-> FALSE, todo |-> {}]
Up     == {p \in Process : life[p] \in {"up", "stopping", "stopped"}}
Active == (Up \cap Hub) \ hung

Init ==
  /\ life = [p \in Process |-> "new"]
  /\ hung = {} /\ orphans = {}
  /\ record = [h \in Hub |-> Nobody]
  /\ beat = [h \in Hub |-> "off"]
  /\ web = {}
  /\ mode = [h \in Hub |-> "seeking"]
  /\ seat = [h \in Hub |-> Nobody]
  /\ port = Nobody /\ served = FALSE
  /\ leaving = [h \in Hub |-> 0]
  /\ job = [t \in Thread |-> Idle]
  /\ lapsed = {}
  /\ faults = 0

(***************************************************************************)
(* The registry.                                                           *)
(***************************************************************************)
Running(pid) == \E p \in Up : Pid[p] = pid

(* process_identity: the start marker tells a process from a later one     *)
(* with the same pid                                                       *)
ProcessIdentity(pid) == {p \in Up : Pid[p] = pid}

(* Mutant: a hung server is not replaced. *)
UnwellOrphaned(h, stale) == h \in orphans

(* takeover_eligibility, of a record with this age *)
Unwell(h, stale) == h \in orphans \/ stale

(* Mutant: an owner that does not answer is taken over at once. *)
EligibleAtOnce(h, stale) == TRUE

(* record_is_takeover_eligible *)
Eligible(h, stale) == ~Running(Pid[h]) \/ Unwell(h, stale)

(* Mutant: only the pid is compared. *)
IdentityMatchesPid(h) == Running(Pid[h])

(* record_identity_matches *)
IdentityMatches(h) == h \in ProcessIdentity(Pid[h])

Write(h, owns) ==
  record' = [record EXCEPT ![h] = [owns |-> owns, stale |-> FALSE]]

Holder == IF port = Nobody THEN Nobody ELSE Host[port]
Answering == Holder \in Active /\ served
Fault == faults < MaxFaults /\ faults' = faults + 1

(* A server bound by a thread that then failed to start it. *)
NeverStarted == port # Nobody /\ ~served /\ job[port].pc # "serve"

(* What is left of the processes of S once they have ended. *)
Die(S) ==
  /\ life' = [p \in Process |-> IF p \in S THEN "gone" ELSE life[p]]
  /\ hung' = hung \ S
  /\ beat' = [h \in Hub |-> IF h \in S THEN "off" ELSE beat[h]]
  /\ web' = web \ S
  /\ leaving' = [h \in Hub |-> IF h \in S THEN 0 ELSE leaving[h]]
  /\ mode' = [h \in Hub |-> IF h \in S THEN "seeking" ELSE mode[h]]
  /\ seat' = [h \in Hub |-> IF h \in S THEN Nobody ELSE seat[h]]
  /\ port' = IF Holder \in S THEN Nobody ELSE port
  /\ served' = (served /\ Holder \notin S)
JobsAfter(S) == [t \in Thread |-> IF Host[t] \in S THEN Idle ELSE job[t]]

Victims(h) == ProcessIdentity(Pid[h])

(***************************************************************************)
(* Processes start, and may be hung, orphaned or killed at any moment.     *)
(***************************************************************************)
Start(p) ==
  /\ life[p] = "new" /\ ~Running(Pid[p])
  /\ p \in Foreign => \E h \in Hub : Pid[h] = Pid[p] /\ life[h] = "gone"
  /\ life' = [life EXCEPT ![p] = "up"]
  /\ IF p \in Hub
       THEN Write(p, FALSE) /\ beat' = [beat EXCEPT ![p] = "wait"]
       ELSE UNCHANGED <<record, beat>>
  /\ UNCHANGED <<hung, orphans, web, mode, seat, sock, leaving, job, lapsed,
                 faults>>

Crash(h) ==
  /\ h \in Up /\ Fault
  /\ Die({h}) /\ job' = JobsAfter({h})
  /\ UNCHANGED <<orphans, record, lapsed>>

Hang(h) ==
  /\ h \in Active /\ Fault
  /\ hung' = hung \cup {h}
  /\ UNCHANGED <<life, orphans, record, beat, web, mode, seat, sock, leaving,
                 job, lapsed>>

Resume(h) ==
  /\ h \in hung
  /\ hung' = hung \ {h}
  /\ UNCHANGED <<life, orphans, record, beat, web, mode, seat, sock, leaving,
                 job, lapsed, faults>>

ParentExit(h) ==
  /\ h \in Up \ orphans /\ Fault
  /\ orphans' = orphans \cup {h}
  /\ UNCHANGED <<life, hung, record, beat, web, mode, seat, sock, leaving,
                 job, lapsed>>

(* More than REGISTRY_STALE_SEC pass without a write: only where the       *)
(* heartbeat, one write every 5 s, cannot go on.                           *)
Age(h) ==
  /\ record[h] # Nobody /\ ~record[h].stale
  /\ h \notin Active \/ beat[h] = "off"
  /\ record' = [record EXCEPT ![h].stale = TRUE]
  /\ lapsed' = lapsed \cup {h}
  /\ UNCHANGED <<proc, beat, web, mode, seat, sock, leaving, job, faults>>

(* The heartbeat reads the hub's state under its lock and writes the file  *)
(* after it has let go of it.                                              *)
Sample(h) ==
  /\ h \in Active /\ beat[h] = "wait"
  /\ beat' = [beat EXCEPT ![h] = IF h \in web THEN "owner" ELSE "other"]
  /\ UNCHANGED <<proc, record, web, mode, seat, sock, leaving, job, lapsed,
                 faults>>

Beat(h) ==
  /\ h \in Active /\ beat[h] \in {"owner", "other"}
  /\ Write(h, beat[h] = "owner")
  /\ beat' = [beat EXCEPT ![h] = "wait"]
  /\ UNCHANGED <<proc, web, mode, seat, sock, leaving, job, lapsed, faults>>

(* All writers of a hub share one temporary file: the second of two that   *)
(* overlap has nothing left to rename, and the exception ends its thread.  *)
BeatFails(h) ==
  /\ h \in Active /\ beat[h] \in {"owner", "other"} /\ Fault
  /\ beat' = [beat EXCEPT ![h] = "off"]
  /\ UNCHANGED <<proc, record, web, mode, seat, sock, leaving, job, lapsed>>

(* hub.shutdown: stopping a server that was never started waits for ever.  *)
Shutdown(h) ==
  /\ h \in Active /\ life[h] = "up"
  /\ beat' = [beat EXCEPT ![h] = "off"]
  /\ web' = web \ {h}
  /\ mode' = [mode EXCEPT ![h] = "seeking"]
  /\ IF h \in web /\ Holder = h /\ NeverStarted
       THEN /\ life' = [life EXCEPT ![h] = "stopping"]
            /\ UNCHANGED <<record, sock>>
       ELSE /\ life' = [life EXCEPT ![h] = "stopped"]
            /\ record' = [record EXCEPT ![h] = Nobody]
            /\ port' = IF h \in web /\ Holder = h THEN Nobody ELSE port
            /\ served' = (served /\ port' # Nobody)
  /\ UNCHANGED <<hung, orphans, seat, leaving, job, lapsed, faults>>

(* The process exits; until then its threads go on, and may have bound the *)
(* port and written the record anew.                                       *)
Exit(h) ==
  /\ h \in Active /\ life[h] = "stopped"
  /\ Die({h}) /\ job' = JobsAfter({h})
  /\ UNCHANGED <<orphans, record, lapsed, faults>>

(***************************************************************************)
(* gemness cleanup [--terminate-orphans], one record.                      *)
(***************************************************************************)
Remove(h) == record' = [record EXCEPT ![h] = Nobody]

(* Mutant: a record that is old is taken for one of a dead process. *)
CleanDeadOld(h) ==
  /\ record[h] # Nobody /\ (~Running(Pid[h]) \/ record[h].stale)
  /\ Remove(h)
  /\ UNCHANGED <<proc, beat, web, mode, seat, sock, leaving, job, lapsed,
                 faults>>

CleanDead(h) ==
  /\ record[h] # Nobody /\ ~Running(Pid[h])
  /\ Remove(h)
  /\ UNCHANGED <<proc, beat, web, mode, seat, sock, leaving, job, lapsed,
                 faults>>

CleanOrphan(h) ==
  /\ record[h] # Nobody /\ Running(Pid[h]) /\ h \in orphans
  /\ IdentityMatches(h)
  /\ Die(Victims(h)) /\ job' = JobsAfter(Victims(h))
  /\ Remove(h)
  /\ UNCHANGED <<orphans, lapsed, faults>>

Cleanup(h) == CleanDead(h) \/ CleanOrphan(h)

(***************************************************************************)
(* start_web_server and _handle_bind_failure.                              *)
(***************************************************************************)
At(t, pc) == Host[t] \in Active /\ job[t].pc = pc
Go(t, pc) == job' = [job EXCEPT ![t].pc = pc]
Rest(t) == job' = [job EXCEPT ![t] = Idle]
SetMode(h, m) ==   \* _set_observer_mode
  mode' = [mode EXCEPT ![h] = m] /\ Write(h, h \in web)

(* base_url: the port is asked for again unless held or attached to. *)
Ask(t) ==
  LET h == Host[t] IN
  /\ At(t, "idle") /\ h \notin web /\ mode[h] = "seeking"
  /\ Write(h, FALSE)
  /\ job' = [job EXCEPT ![t] = [Idle EXCEPT !.pc = "bind"]]
  /\ UNCHANGED <<proc, beat, web, mode, seat, sock, leaving, lapsed, faults>>

(* _try_start_owner up to the registry write: the constructor binds and    *)
(* listens.                                                                *)
Bind(t) ==
  /\ \E pc \in {"bind", "asked", "killed", "last"} : At(t, pc)
  /\ port = Nobody
  /\ port' = t /\ served' = FALSE
  /\ web' = web \cup {Host[t]}
  /\ mode' = [mode EXCEPT ![Host[t]] = "owner"]
  /\ seat' = [seat EXCEPT ![Host[t]] = Nobody]
  /\ job' = [job EXCEPT ![t] = [Idle EXCEPT !.pc = "serve"]]
  /\ UNCHANGED <<proc, record, beat, leaving, lapsed, faults>>

(* ... and from it on: web_server.start comes after the write, *)
Serve(t) ==
  /\ At(t, "serve")
  /\ Write(Host[t], Host[t] \in web)
  /\ served' = (served \/ port = t)
  /\ Rest(t)
  /\ UNCHANGED <<proc, beat, web, mode, seat, port, leaving, lapsed, faults>>

(* ... and does not come at all when the write raises. *)
ServeFails(t) ==
  /\ At(t, "serve") /\ Fault
  /\ Rest(t)
  /\ UNCHANGED <<proc, record, beat, web, mode, seat, sock, leaving, lapsed>>

(* GET /api/status is answered, by the hub q. *)
ProbeAnswered(t) ==
  LET h == Host[t]
      q == Holder IN
  /\ At(t, "bind") /\ port # Nobody /\ Answering
  /\ \/ /\ record[q] # Nobody
        /\ IF Eligible(q, record[q].stale)
             THEN /\ SetMode(h, "seeking")
                  /\ seat' = [seat EXCEPT ![h] = Nobody]
                  /\ job' = [job EXCEPT ![t] =
                       [Idle EXCEPT !.pc = "request", !.for = "status", !.of = q]]
             ELSE /\ SetMode(h, "attached")
                  /\ seat' = [seat EXCEPT ![h] = q]
                  /\ Rest(t)
        /\ UNCHANGED faults
     \/ /\ (record[q] = Nobody /\ UNCHANGED faults) \/ Fault  \* unreadable
        /\ SetMode(h, "seeking")
        /\ seat' = [seat EXCEPT ![h] = q]
        /\ Rest(t)
  /\ UNCHANGED <<proc, beat, web, sock, leaving, lapsed>>

(* It is not: the owners the registry knows of are tried in turn. *)
ProbeSilent(t) ==
  /\ At(t, "bind") /\ port # Nobody /\ ~Answering
  /\ LET owners == {h \in Hub : record[h] # Nobody /\ record[h].owns} IN
     job' = [job EXCEPT ![t] =
       [Idle EXCEPT !.pc = "scan", !.for = "scan",
                    !.todo = {<<h, record[h].stale>> : h \in owners}]]
  /\ UNCHANGED <<proc, record, beat, web, mode, seat, sock, leaving, lapsed,
                 faults>>

ScanNext(t) ==
  LET h == Host[t] IN
  /\ At(t, "scan")
  /\ \E e \in job[t].todo :
       LET rest == job[t].todo \ {e} IN
       IF Eligible(e[1], e[2])
         THEN /\ SetMode(h, "seeking")
              /\ seat' = [seat EXCEPT ![h] = Nobody]
              /\ job' = [job EXCEPT ![t] = [@ EXCEPT !.pc = "request",
                                              !.of = e[1], !.todo = rest]]
         ELSE /\ job' = [job EXCEPT ![t].todo = rest]
              /\ UNCHANGED <<mode, seat, record>>
  /\ UNCHANGED <<proc, beat, web, sock, leaving, lapsed, faults>>

(* Nothing has helped: "blocked", until the URL is asked for again. *)
GiveUp(t) ==
  LET h == Host[t] IN
  /\ \/ At(t, "scan") /\ job[t].todo = {}
     \/ At(t, "last") /\ port # Nobody
  /\ SetMode(h, "seeking")
  /\ seat' = [seat EXCEPT ![h] = Nobody]
  /\ Rest(t)
  /\ UNCHANGED <<proc, beat, web, sock, leaving, lapsed, faults>>

(***************************************************************************)
(* Taking the port over from the hub job[t].of.                            *)
(***************************************************************************)
(* Where a thread goes on that has asked in vain.  It does not terminate   *)
(* its own pid.                                                            *)
AskedInVain(t) ==
  LET h == Host[t]
      own == job[t].of # Nobody /\ Pid[job[t].of] = Pid[h] IN
  IF job[t].for = "status"
    THEN /\ SetMode(h, "attached")
         /\ seat' = [seat EXCEPT ![h] = job[t].of]
         /\ Rest(t)
    ELSE /\ Go(t, IF ~own THEN "kill"
                  ELSE IF job[t].for = "scan" THEN "scan" ELSE "last")
         /\ UNCHANGED <<mode, seat, record>>

(* POST /api/takeover: the token is the one of job[t].of, and the owner    *)
(* judges itself by its own record once more.                              *)
Accepts(h) ==
  /\ Answering /\ Holder = h
  /\ record[h] # Nobody /\ Unwell(h, record[h].stale)

Accept(h) == leaving' = [leaving EXCEPT ![h] = @ + 1]

RequestAccepted(t) ==
  /\ At(t, "request") /\ Accepts(job[t].of)
  /\ Accept(job[t].of)
  /\ Go(t, "asked")
  /\ UNCHANGED <<proc, record, beat, web, mode, seat, sock, lapsed, faults>>

RequestRejected(t) ==
  /\ At(t, "request") /\ ~Accepts(job[t].of)
  /\ AskedInVain(t)
  /\ UNCHANGED <<proc, beat, web, sock, leaving, lapsed, faults>>

(* Accepted, but the answer takes longer than the requester waits. *)
ReplyLost(t) ==
  /\ At(t, "request") /\ Accepts(job[t].of) /\ Fault
  /\ Accept(job[t].of)
  /\ AskedInVain(t)
  /\ UNCHANGED <<proc, beat, web, sock, lapsed>>

(* _shutdown_for_takeover *)
Leave(h) ==
  /\ h \in Active /\ leaving[h] > 0
  /\ leaving' = [leaving EXCEPT ![h] = @ - 1]
  /\ web' = web \ {h}
  /\ mode' = [mode EXCEPT ![h] = "seeking"]
  /\ \/ /\ Write(h, FALSE)
        /\ port' = IF h \in web /\ Holder = h THEN Nobody ELSE port
        /\ served' = (served /\ port' # Nobody)
        /\ UNCHANGED faults
     \/ Fault /\ UNCHANGED <<record, sock>>   \* the write raises
  /\ UNCHANGED <<proc, beat, seat, job, lapsed>>

(* _retry_start_owner has found the port taken twenty times. *)
RetryFails(t) ==
  /\ port # Nobody
  /\ \/ At(t, "asked") /\ AskedInVain(t)
     \/ /\ At(t, "killed")
        /\ Go(t, IF job[t].for = "scan" THEN "scan" ELSE "last")
        /\ UNCHANGED <<mode, seat, record>>
  /\ UNCHANGED <<proc, beat, web, sock, leaving, lapsed, faults>>

(* terminate_record_process *)
Kill(t) ==
  LET S == Victims(job[t].of) IN
  /\ At(t, "kill") /\ IdentityMatches(job[t].of)
  /\ Die(S)
  /\ job' = [JobsAfter(S) EXCEPT ![t].pc = "killed"]
  /\ UNCHANGED <<orphans, record, lapsed, faults>>

KillRefused(t) ==
  /\ At(t, "kill") /\ ~IdentityMatches(job[t].of)
  /\ Go(t, IF job[t].for = "scan" THEN "scan" ELSE "last")
  /\ UNCHANGED <<proc, record, beat, web, mode, seat, sock, leaving, lapsed,
                 faults>>

(***************************************************************************)
(* An attached hub posts its events to the owner and, when that fails,     *)
(* looks for it again.                                                     *)
(***************************************************************************)
(* _publish_attached_event, failing: no record means no token, and a token *)
(* of another server than the one that answers is rejected.                *)
PublishFails(t) ==
  LET h == Host[t]
      q == seat[h] IN
  /\ At(t, "idle") /\ mode[h] = "attached"
  /\ IF q # Nobody /\ record[q] # Nobody
       THEN /\ \/ ~(Answering /\ Holder = q) /\ UNCHANGED faults
               \/ Fault                        \* the answer is lost
            /\ job' = [job EXCEPT ![t] = [Idle EXCEPT !.pc = "recover",
                 !.for = "recover", !.of = q, !.stale = record[q].stale]]
       ELSE /\ job' = [job EXCEPT ![t] = [Idle EXCEPT !.pc = "recover",
                 !.for = "recover"]]
            /\ UNCHANGED faults
  /\ UNCHANGED <<proc, record, beat, web, mode, seat, sock, leaving, lapsed>>

(* _recover_attached_owner, answered: attached to whoever answers *)
RecoverAnswered(t) ==
  LET h == Host[t] IN
  /\ At(t, "recover") /\ Answering
  /\ seat' = [seat EXCEPT ![h] = Holder]
  /\ Rest(t)
  /\ \/ /\ record[Holder] # Nobody
        /\ UNCHANGED <<mode, record, faults>>
     \/ /\ (record[Holder] = Nobody /\ UNCHANGED faults) \/ Fault  \* unreadable
        /\ SetMode(h, "seeking")
  /\ UNCHANGED <<proc, beat, web, sock, leaving, lapsed>>

(* ... unanswered: nothing is done to an owner that looks well. *)
RecoverSilent(t) ==
  LET h == Host[t]
      q == job[t].of IN
  /\ At(t, "recover") /\ ~Answering
  /\ IF q # Nobody /\ ~Eligible(q, job[t].stale)
       THEN Rest(t) /\ UNCHANGED <<mode, seat, record>>
       ELSE /\ SetMode(h, "seeking")
            /\ seat' = [seat EXCEPT ![h] = Nobody]
            /\ Go(t, IF q = Nobody THEN "last" ELSE "request")
  /\ UNCHANGED <<proc, beat, web, sock, leaving, lapsed, faults>>

Step(t) ==
  \/ Ask(t) \/ Bind(t) \/ Serve(t) \/ ServeFails(t)
  \/ ProbeAnswered(t) \/ ProbeSilent(t) \/ ScanNext(t) \/ GiveUp(t)
  \/ RequestAccepted(t) \/ RequestRejected(t) \/ ReplyLost(t) \/ RetryFails(t)
  \/ Kill(t) \/ KillRefused(t)
  \/ PublishFails(t) \/ RecoverAnswered(t) \/ RecoverSilent(t)

Next ==
  \/ \E p \in Process : Start(p)
  \/ \E h \in Hub :
       \/ Crash(h) \/ Hang(h) \/ Resume(h) \/ ParentExit(h)
       \/ Age(h) \/ Sample(h) \/ Beat(h) \/ BeatFails(h)
       \/ Shutdown(h) \/ Exit(h) \/ Leave(h)
       \/ Cleanup(h)
  \/ \E t \in Thread : Step(t)

Spec == Init /\ [][Next]_vars

(* Threads and heartbeats get processor time, time passes, a process that  *)
(* has shut down exits, and a hub is asked for its URL and has events to   *)
(* post again and again.  Nothing else need ever happen.                   *)
Fairness ==
  /\ \A t \in Thread : WF_vars(Step(t))
  /\ \A h \in Hub : /\ WF_vars(Sample(h) \/ Beat(h)) /\ WF_vars(Age(h))
                    /\ WF_vars(Leave(h)) /\ WF_vars(Exit(h))

FairSpec == Spec /\ Fairness

-----------------------------------------------------------------------------
Modes == {"seeking", "owner", "attached"}
Job == [pc : {"idle", "bind", "serve", "scan", "request", "asked", "kill",
              "killed", "last", "recover"},
        for : {"", "status", "scan", "recover"},
        of : Hub \cup {Nobody}, stale : BOOLEAN,
        todo : SUBSET (Hub \X BOOLEAN)]

ProcOK ==
  /\ life \in [Process -> {"new", "up", "stopping", "stopped", "gone"}]
  /\ hung \subseteq Hub /\ orphans \subseteq Hub /\ lapsed \subseteq Hub
  /\ faults \in 0 .. MaxFaults
RecordOK ==
  /\ record \in [Hub -> Record \cup {Nobody}]
  /\ beat \in [Hub -> {"wait", "owner", "other", "off"}]
ServerOK ==
  /\ web \subseteq Hub
  /\ mode \in [Hub -> Modes]
  /\ seat \in [Hub -> Hub \cup {Nobody}]
  /\ port \in Thread \cup {Nobody} /\ served \in BOOLEAN
  /\ leaving \in [Hub -> Nat]
JobOK == job \in [Thread -> Job]

(* The variables have the types of the fields they stand for. *)
TypeOK == ProcOK /\ RecordOK /\ ServerOK /\ JobOK

(* No step of Gemness ends a process that is not a Gemness server, though  *)
(* it may run under the pid a record names.                                *)
ForeignSpared ==
  [][\A p \in Foreign : life[p] = "up" => life'[p] = "up"]_vars

(* A server loses its port, its place as owner or its life to another one  *)
(* only if its parent has exited or its heartbeat has lapsed before,       *)
(* whatever happens between the look at its record and the deed.           *)
WellUndisturbed ==
  [][\A h \in (Up \ Up') \cup (web \ web') :
       \/ faults' # faults                  \* a crash
       \/ life[h] = "stopped"               \* its own exit
       \/ life'[h] \in {"stopping", "stopped"}
       \/ h \in lapsed \cup orphans]_vars

(* Cleaning up never takes the file of a server that is at work, without   *)
(* which the others find no token to post to it with.                      *)
LiveRecordKept ==
  [][\A h \in Hub :
       record[h] # Nobody /\ record'[h] = Nobody =>
         life'[h] \in {"stopped", "gone"}]_vars

(* The port is bound for good by a process that will not answer: a thread  *)
(* of a server at work failed between binding and serving, or the owner    *)
(* hangs without its record saying that it owns the port.                  *)
Lost ==
  /\ port # Nobody
  /\ \/ NeverStarted
     \/ Holder \in hung /\ (record[Holder] # Nobody => ~record[Holder].owns)

(* As long as some server runs, the dashboard comes back after every crash,*)
(* hang, exit and takeover of its owner, unless the port is lost.          *)
PortServedAgain ==
  <>[](\E h \in Hub : h \in Active /\ life[h] = "up") => []<>(Answering \/ Lost)
=============================================================================
