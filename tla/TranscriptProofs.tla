-------------------------- MODULE TranscriptProofs --------------------------
(* What is proved of Transcript: what a hub takes up is taken up once and  *)
(* is in the file; a lone server settles and deletes only what is over;    *)
(* and while nothing is delayed, posted or deleted every hub follows the   *)
(* files and shows a run only moving on.  Each part begins with the        *)
(* inductive invariant it rests on.                                        *)
EXTENDS Transcript, TLAPS

(* The number of an event is below the next one its session will get. *)
Dated(e) == e.n \in DOMAIN age[e.s]

(* What a reader holds, or a hub has taken up, can be found in the file. *)
Filed(e) == e.s \notin gone \cup torn => e \in Elements(log[e.s])

LogOK == \A s \in Session : \A e \in Elements(log[s]) : e.s = s /\ Dated(e)

SeenOK ==
  \A h \in Hub, s \in Session :
    /\ Distinctly(seen[h][s])
    /\ \A e \in Elements(seen[h][s]) : e.s = s /\ Dated(e) /\ Filed(e)

TodoOK == \A t \in Reader : \A e \in Elements(view[t].todo) : Dated(e) /\ Filed(e)

(* A post has a receiver, and carries an event with a number.              *)
NetDated ==
  /\ \A x \in Session \cup Reader : post[x] # None => Dash \in Hub /\ Dated(post[x])
  /\ \A e \in late : Dash \in Hub /\ Dated(e)

TakeInv == TypeOK /\ LogOK /\ SeenOK /\ TodoOK /\ NetDated

-----------------------------------------------------------------------------
(* Sequences.                                                              *)

LEMMA AppendElements ==
  ASSUME NEW S, NEW q \in Seq(S), NEW x \in S
  PROVE  /\ Append(q, x) \in Seq(S)
         /\ Elements(Append(q, x)) = Elements(q) \cup {x}
  <1>1. /\ Append(q, x) \in Seq(S) /\ Len(Append(q, x)) = Len(q) + 1
        /\ Append(q, x)[Len(q) + 1] = x
        /\ \A i \in 1 .. Len(q) : Append(q, x)[i] = q[i]
    OBVIOUS
  <1>2. DOMAIN Append(q, x) = 1 .. Len(q) + 1 /\ DOMAIN q = 1 .. Len(q) /\ Len(q) \in Nat
    BY <1>1
  <1>3. ASSUME NEW y \in Elements(q) PROVE y \in Elements(Append(q, x))
    BY <1>1, <1>2 DEF Elements
  <1>4. x \in Elements(Append(q, x))
    BY <1>1, <1>2 DEF Elements
  <1>5. ASSUME NEW y \in Elements(Append(q, x)) PROVE y \in Elements(q) \cup {x}
    <2>1. PICK i \in 1 .. Len(q) + 1 : y = Append(q, x)[i]
      BY <1>2 DEF Elements
    <2>2. CASE i = Len(q) + 1
      BY <1>1, <2>1, <2>2
    <2>3. CASE i \in 1 .. Len(q)
      BY <1>1, <1>2, <2>1, <2>3 DEF Elements
    <2> QED
      BY <1>2, <2>2, <2>3
  <1> QED
    BY <1>1, <1>3, <1>4, <1>5

LEMMA AppendDistinct ==
  ASSUME NEW S, NEW q \in Seq(S), NEW x \in S, Distinctly(q), x \notin Elements(q)
  PROVE  Distinctly(Append(q, x))
  <1>1. /\ Append(q, x)[Len(q) + 1] = x /\ Len(q) \in Nat
        /\ \A i \in 1 .. Len(q) : Append(q, x)[i] = q[i]
        /\ DOMAIN Append(q, x) = 1 .. Len(q) + 1 /\ DOMAIN q = 1 .. Len(q)
    OBVIOUS
  <1>2. \A i \in 1 .. Len(q) : q[i] # x
    BY <1>1 DEF Elements
  <1> QED
    BY <1>1, <1>2 DEF Distinctly

LEMMA TailElements ==
  ASSUME NEW S, NEW q \in Seq(S), q # <<>>
  PROVE  /\ Head(q) \in S /\ Head(q) \in Elements(q)
         /\ Tail(q) \in Seq(S) /\ Elements(Tail(q)) \subseteq Elements(q)
  <1>1. /\ Tail(q) \in Seq(S) /\ Len(Tail(q)) = Len(q) - 1 /\ Len(q) \in Nat \ {0}
        /\ \A i \in 1 .. Len(Tail(q)) : Tail(q)[i] = q[i + 1]
        /\ Head(q) = q[1]
    OBVIOUS
  <1>2. DOMAIN q = 1 .. Len(q) /\ DOMAIN Tail(q) = 1 .. Len(q) - 1
    BY <1>1
  <1>3. ASSUME NEW y \in Elements(Tail(q)) PROVE y \in Elements(q)
    <2>1. PICK i \in 1 .. Len(q) - 1 : y = Tail(q)[i]
      BY <1>2 DEF Elements
    <2>2. i + 1 \in DOMAIN q /\ y = q[i + 1]
      BY <1>1, <1>2, <2>1
    <2> QED
      BY <2>2 DEF Elements
  <1>4. 1 \in DOMAIN q
    BY <1>1, <1>2
  <1> QED
    BY <1>1, <1>3, <1>4 DEF Elements

LEMMA EmptyElements == Elements(<<>>) = {} /\ Distinctly(<<>>)
  BY DEF Elements, Distinctly

-----------------------------------------------------------------------------
(* Groups of variables that a step leaves alone.                           *)

LEMMA TypeKept ==
  ASSUME TypeOK
  PROVE  /\ UNCHANGED <<log, torn, age, gone>> => DiskOK'
         /\ UNCHANGED memory => MemoryOK'
         /\ UNCHANGED <<post, late, up, faults>> => NetOK'
         /\ UNCHANGED <<ex, alive>> => ExecOK'
         /\ UNCHANGED view => ViewOK'
  BY DEF TypeOK, DiskOK, MemoryOK, NetOK, ExecOK, ViewOK, memory

(* A step that takes up, files and posts nothing.                          *)
LEMMA NothingTaken ==
  ASSUME TakeInv, TypeOK',
         UNCHANGED <<log, torn, gone, seen, post, late>>,
         \A s \in Session : DOMAIN age'[s] = DOMAIN age[s],
         \A t \in Reader : Elements(view'[t].todo) \subseteq Elements(view[t].todo)
  PROVE  TakeInv'
  <1>1. \A e \in Event : Dated(e) => Dated(e)'
    BY DEF Dated, Event
  <1>2. \A e \in Event : Filed(e) => Filed(e)'
    BY DEF Filed
  <1>3. \A s \in Session : Elements(log[s]) \subseteq Event
    BY DEF TakeInv, TypeOK, DiskOK, Elements
  <1>4. \A h \in Hub, s \in Session : Elements(seen[h][s]) \subseteq Event
    BY DEF TakeInv, TypeOK, MemoryOK, Elements
  <1>5. \A t \in Reader : Elements(view[t].todo) \subseteq Event
    BY DEF TakeInv, TypeOK, ViewOK, Elements
  <1>6. LogOK'
    BY <1>1, <1>3 DEF TakeInv, LogOK
  <1>7. SeenOK'
    BY <1>1, <1>2, <1>4 DEF TakeInv, SeenOK
  <1>8. TodoOK'
    BY <1>1, <1>2, <1>5 DEF TakeInv, TodoOK
  <1>9. NetDated'
    BY <1>1 DEF TakeInv, NetDated, TypeOK, NetOK
  <1> QED
    BY <1>6, <1>7, <1>8, <1>9 DEF TakeInv

-----------------------------------------------------------------------------
(* Writing an event and taking one up.                                     *)

LEMMA Written ==
  ASSUME DiskOK, NEW e \in Event, WriteEvent(e)
  PROVE  /\ log' \in [Session -> Seq(Event)]
         /\ \A r \in Session : Elements(log[r]) \subseteq Elements(log'[r])
         /\ \A r \in Session : \A d \in Elements(log'[r]) :
              d \in Elements(log[r]) \/ (r = e.s /\ d = e)
         /\ e.s \notin torn => e \in Elements(log'[e.s])
  <1>1. e.s \in Session /\ log \in [Session -> Seq(Event)]
    BY DEF Event, DiskOK
  <1>2. CASE e.s \in torn
    BY <1>1, <1>2 DEF WriteEvent
  <1>3. CASE e.s \notin torn
    <2>1. log' = [log EXCEPT ![e.s] = Append(log[e.s], e)]
      BY <1>3 DEF WriteEvent
    <2>2. /\ Append(log[e.s], e) \in Seq(Event)
          /\ Elements(Append(log[e.s], e)) = Elements(log[e.s]) \cup {e}
      BY <1>1, AppendElements
    <2>3. log'[e.s] = Append(log[e.s], e) /\ \A r \in Session \ {e.s} : log'[r] = log[r]
      BY <1>1, <2>1
    <2> QED
      BY <1>1, <2>1, <2>2, <2>3
  <1> QED
    BY <1>2, <1>3

LEMMA Added ==
  ASSUME MemoryOK, NEW h \in Hub, NEW e \in Event,
         seen' = [seen EXCEPT ![h][e.s] = Append(@, e)]
  PROVE  /\ seen' \in [Hub -> [Session -> Seq(Event)]]
         /\ \A g \in Hub, r \in Session :
              g # h \/ r # e.s => seen'[g][r] = seen[g][r]
         /\ Elements(seen'[h][e.s]) = Elements(seen[h][e.s]) \cup {e}
         /\ Distinctly(seen[h][e.s]) /\ e \notin Elements(seen[h][e.s])
              => Distinctly(seen'[h][e.s])
  <1>1. e.s \in Session /\ seen \in [Hub -> [Session -> Seq(Event)]]
    BY DEF Event, MemoryOK
  <1>2. seen[h][e.s] \in Seq(Event) /\ seen'[h][e.s] = Append(seen[h][e.s], e)
    BY <1>1
  <1>3. /\ Append(seen[h][e.s], e) \in Seq(Event)
        /\ Elements(Append(seen[h][e.s], e)) = Elements(seen[h][e.s]) \cup {e}
    BY <1>2, AppendElements
  <1>4. Distinctly(seen[h][e.s]) /\ e \notin Elements(seen[h][e.s])
          => Distinctly(Append(seen[h][e.s], e))
    BY <1>2, AppendDistinct
  <1>5. seen' \in [Hub -> [Session -> Seq(Event)]]
    BY <1>1, <1>3
  <1>6. \A g \in Hub, r \in Session : g # h \/ r # e.s => seen'[g][r] = seen[g][r]
    BY <1>1
  <1> QED
    BY <1>2, <1>3, <1>4, <1>5, <1>6

(* Once taken up, an event that the file has or gets keeps SeenOK.         *)
LEMMA TakenUp ==
  ASSUME TakeInv, NEW h \in Hub, NEW e \in Event, e \notin Elements(seen[h][e.s]),
         seen' = [seen EXCEPT ![h][e.s] = Append(@, e)],
         \A d \in Event : Dated(d) => Dated(d)', Dated(e)',
         UNCHANGED <<torn, gone>>,
         \A r \in Session : Elements(log[r]) \subseteq Elements(log'[r]),
         Filed(e)'
  PROVE  SeenOK'
  <1>1. MemoryOK /\ SeenOK /\ DiskOK
    BY DEF TakeInv, TypeOK
  <1>2. \A g \in Hub, r \in Session : Elements(seen[g][r]) \subseteq Event
    BY <1>1 DEF MemoryOK, Elements
  <1>3. \A d \in Event : Filed(d) => Filed(d)'
    BY DEF Filed, Event
  <1>4. /\ \A g \in Hub, r \in Session :
             g # h \/ r # e.s => seen'[g][r] = seen[g][r]
        /\ Elements(seen'[h][e.s]) = Elements(seen[h][e.s]) \cup {e}
        /\ Distinctly(seen[h][e.s]) /\ e \notin Elements(seen[h][e.s])
             => Distinctly(seen'[h][e.s])
    <2>1. \A g \in Hub, r \in Session :
            g # h \/ r # e.s => seen'[g][r] = seen[g][r]
      BY <1>1, Added
    <2>2. Elements(seen'[h][e.s]) = Elements(seen[h][e.s]) \cup {e}
      BY <1>1, Added
    <2>3. Distinctly(seen[h][e.s]) /\ e \notin Elements(seen[h][e.s])
             => Distinctly(seen'[h][e.s])
      BY <1>1, Added, Zenon
    <2> QED
      BY <2>1, <2>2, <2>3
  <1>5. e.s \in Session
    BY DEF Event
  <1> SUFFICES ASSUME NEW g \in Hub, NEW r \in Session
               PROVE  /\ Distinctly(seen'[g][r])
                      /\ \A d \in Elements(seen'[g][r]) :
                           d.s = r /\ Dated(d)' /\ Filed(d)'
    BY DEF SeenOK
  <1>6. CASE g = h /\ r = e.s
    BY <1>1, <1>2, <1>3, <1>4, <1>5, <1>6 DEF SeenOK
  <1>7. CASE g # h \/ r # e.s
    BY <1>1, <1>2, <1>3, <1>4, <1>7 DEF SeenOK
  <1> QED
    BY <1>6, <1>7

LEMMA AppendEventTakes ==
  ASSUME TakeInv, NEW x \in Session \cup Reader, NEW h \in Hub, NEW s \in Session,
         NEW kind \in Kind, AppendEvent(x, h, s, kind),
         UNCHANGED <<up, faults, gone>>, ExecOK', ViewOK',
         \A t \in Reader : Elements(view'[t].todo) \subseteq Elements(view[t].todo)
  PROVE  TakeInv'
  <1>1. DiskOK /\ MemoryOK /\ NetOK /\ ViewOK /\ LogOK /\ SeenOK /\ TodoOK /\ NetDated
    BY DEF TakeInv, TypeOK
  <1>2. age \in [Session -> Seq(Age)] /\ 0 \in Age
    BY <1>1 DEF DiskOK, Age, Expired
  <1>3. PICK e \in Event : /\ e = [s |-> s, n |-> Len(age[s]) + 1, kind |-> kind]
                          /\ e.s = s /\ e.n = Len(age[s]) + 1
    <2> DEFINE d == [s |-> s, n |-> Len(age[s]) + 1, kind |-> kind]
    <2>1. d \in Event /\ d.s = s /\ d.n = Len(age[s]) + 1
      BY <1>2 DEF Event
    <2> QED
      BY <2>1
  <1>4. /\ age' = [age EXCEPT ![s] = Append(age[s], 0)]
        /\ seen' = [seen EXCEPT ![h][s] = Append(@, e)]
        /\ WriteEvent(e)
        /\ quiet' = IF status[h][s] = None THEN quiet ELSE [quiet EXCEPT ![h][s] = 0]
        /\ post' = IF Attached(h) THEN [post EXCEPT ![x] = e] ELSE post
        /\ UNCHANGED <<torn, status, late>>
    BY <1>3 DEF AppendEvent
  <1>5. /\ age' \in [Session -> Seq(Age)]
        /\ DOMAIN age'[s] = 1 .. Len(age[s]) + 1 /\ DOMAIN age[s] = 1 .. Len(age[s])
        /\ Len(age[s]) \in Nat
        /\ \A r \in Session : DOMAIN age[r] \subseteq DOMAIN age'[r]
    <2>1. /\ Append(age[s], 0) \in Seq(Age) /\ Len(age[s]) \in Nat
          /\ DOMAIN Append(age[s], 0) = 1 .. Len(age[s]) + 1
          /\ DOMAIN age[s] = 1 .. Len(age[s])
      BY <1>2
    <2>2. age'[s] = Append(age[s], 0) /\ \A r \in Session \ {s} : age'[r] = age[r]
      BY <1>2, <1>4
    <2> QED
      BY <1>2, <1>4, <2>1, <2>2
  <1>6. /\ \A d \in Event : Dated(d) => Dated(d)'
        /\ Dated(e)' /\ ~Dated(e)
    BY <1>3, <1>5 DEF Dated, Event
  <1>7. /\ log' \in [Session -> Seq(Event)]
        /\ \A r \in Session : Elements(log[r]) \subseteq Elements(log'[r])
        /\ \A r \in Session : \A d \in Elements(log'[r]) :
             d \in Elements(log[r]) \/ (r = e.s /\ d = e)
        /\ e.s \notin torn => e \in Elements(log'[e.s])
    BY <1>1, <1>3, <1>4, Written
  <1>8. DiskOK'
    BY <1>1, <1>4, <1>5, <1>7 DEF DiskOK
  <1>9. MemoryOK'
    <2>1. seen' \in [Hub -> [Session -> Seq(Event)]]
      BY <1>1, <1>3, <1>4, Added
    <2> QED
      BY <1>1, <1>2, <1>4, <2>1 DEF MemoryOK
  <1>10. NetOK'
    BY <1>1, <1>3, <1>4 DEF NetOK
  <1>11. LogOK'
    <2>1. \A r \in Session : Elements(log[r]) \subseteq Event
      BY <1>1 DEF DiskOK, Elements
    <2> QED
      BY <1>1, <1>3, <1>6, <1>7, <2>1 DEF LogOK
  <1>12. SeenOK'
    <2>1. e \notin Elements(seen[h][e.s])
      BY <1>1, <1>3, <1>6 DEF SeenOK
    <2>2. Filed(e)'
      BY <1>4, <1>7 DEF Filed
    <2> QED
      BY <1>3, <1>4, <1>6, <1>7, <2>1, <2>2, TakenUp
  <1>13. TodoOK'
    <2>1. \A t \in Reader : Elements(view[t].todo) \subseteq Event
      BY <1>1 DEF ViewOK, Elements
    <2>2. \A d \in Event : Filed(d) => Filed(d)'
      BY <1>4, <1>7 DEF Filed, Event
    <2> QED
      BY <1>1, <1>6, <2>1, <2>2 DEF TodoOK
  <1>14. NetDated'
    <2>1. Attached(h) => Dash \in Hub
      BY Distinct DEF Attached
    <2> QED
      BY <1>1, <1>3, <1>4, <1>6, <2>1 DEF NetDated, NetOK
  <1> QED
    BY <1>8, <1>9, <1>10, <1>11, <1>12, <1>13, <1>14 DEF TakeInv, TypeOK

LEMMA RebuildMemory ==
  ASSUME TypeOK, NEW h \in Hub, NEW e \in Event, Dated(e), Rebuild(h, e)
  PROVE  MemoryOK'
  <1>1. seen' \in [Hub -> [Session -> Seq(Event)]]
    BY Added DEF TypeOK, Rebuild
  <1>2. e.s \in Session /\ age[e.s][e.n] \in Age /\ (e.kind # "note" => e.kind \in Status)
    <2>1. e.s \in Session /\ e.kind \in Kind
      BY DEF Event
    <2>2. age[e.s] \in Seq(Age) /\ e.n \in DOMAIN age[e.s]
      BY <2>1 DEF TypeOK, DiskOK, Dated
    <2>3. age[e.s][e.n] \in Age
      BY <2>2
    <2> QED
      BY <2>1, <2>3 DEF Kind
  <1>3. status' \in [Hub -> [Session -> Status \cup {None}]]
    BY <1>2 DEF TypeOK, MemoryOK, Rebuild
  <1>4. quiet' \in [Hub -> [Session -> Age]]
    BY <1>2 DEF TypeOK, MemoryOK, Rebuild
  <1> QED
    BY <1>1, <1>3, <1>4 DEF MemoryOK

-----------------------------------------------------------------------------
(* Steps of the executor.                                                  *)

(* Names for pieces of an action, not facts.                               *)
USE DEF Exec, Goto, View, Home, world, net, memory, disk

LEMMA TakeInit == Init => TakeInv
  <1> SUFFICES ASSUME Init PROVE TakeInv
    OBVIOUS
  <1>1. IdleView \in [at : {"idle", "load", "settle", "mark", "log", "remove", "unlink"},
                      files : SUBSET Session, todo : Seq(Event), stale : SUBSET Session,
                      cur : Session \cup {None}, want : Session \cup {None}]
        /\ IdleView.at = "idle" /\ IdleView.todo = <<>>
    BY DEF IdleView
  <1>2. DiskOK
    BY DEF Init, DiskOK
  <1>3. MemoryOK
    BY DEF Init, MemoryOK, Age, Expired
  <1>4. NetOK /\ ExecOK
    BY Options DEF Init, NetOK, ExecOK, Place
  <1>5. ViewOK
    BY <1>1 DEF Init, ViewOK
  <1>6. LogOK /\ SeenOK
    BY EmptyElements DEF Init, LogOK, SeenOK
  <1>7. TodoOK /\ NetDated
    BY <1>1, EmptyElements DEF Init, TodoOK, NetDated
  <1> QED
    BY <1>2, <1>3, <1>4, <1>5, <1>6, <1>7 DEF TakeInv, TypeOK

LEMMA SetStatusMemory ==
  ASSUME MemoryOK, NEW h \in Hub, NEW s \in Session, NEW new \in Status,
         SetStatus(h, s, new)
  PROVE  MemoryOK'
  BY DEF MemoryOK, SetStatus, Age, Expired

LEMMA ExecSetTakes ==
  ASSUME TakeInv, NEW s \in Session, NEW at, NEW new \in Status, NEW to \in Place,
         ExecSet(s, at, new, to)
  PROVE  TakeInv'
  <1>1. OwnerOf[s] \in Hub /\ TypeOK /\ MemoryOK /\ ExecOK
    BY Placement DEF TakeInv, TypeOK
  <1>2. DiskOK' /\ NetOK' /\ ViewOK'
    BY <1>1, TypeKept DEF ExecSet
  <1>3. MemoryOK'
    <2>1. CASE UNCHANGED memory
      BY <1>1, <2>1, TypeKept
    <2>2. CASE SetStatus(OwnerOf[s], s, new)
      BY <1>1, <2>2, SetStatusMemory
    <2> QED
      BY <2>1, <2>2 DEF ExecSet
  <1>4. ExecOK'
    BY <1>1 DEF ExecOK, ExecSet, Place
  <1>5. UNCHANGED <<log, torn, gone, seen, post, late, age, view>>
    BY DEF ExecSet, SetStatus
  <1> QED
    BY <1>2, <1>3, <1>4, <1>5, NothingTaken DEF TypeOK

LEMMA ExecAppendTakes ==
  ASSUME TakeInv, NEW s \in Session, NEW at, NEW kind \in Kind, NEW to \in Place,
         ExecAppend(s, at, kind, to)
  PROVE  TakeInv'
  <1>1. OwnerOf[s] \in Hub /\ TypeOK /\ ExecOK
    BY Placement DEF TakeInv, TypeOK
  <1>2. ExecOK'
    BY <1>1 DEF ExecOK, ExecAppend
  <1>3. ViewOK' /\ UNCHANGED <<view, up, faults, gone>>
    BY <1>1, TypeKept DEF ExecAppend
  <1>4. AppendEvent(s, OwnerOf[s], s, kind)
    BY DEF ExecAppend
  <1> QED
    BY <1>1, <1>2, <1>3, <1>4, AppendEventTakes

LEMMA CreateSessionTakes ==
  ASSUME TakeInv, NEW s \in Session, CreateSession(s)
  PROVE  TakeInv'
  <1>1. OwnerOf[s] \in Hub /\ TypeOK /\ MemoryOK /\ ExecOK
    BY Placement DEF TakeInv, TypeOK
  <1>2. DiskOK' /\ NetOK' /\ ViewOK'
    BY <1>1, TypeKept DEF CreateSession
  <1>3. MemoryOK'
    BY <1>1, SetStatusMemory DEF CreateSession, Status, Open
  <1>4. ExecOK'
    BY <1>1 DEF ExecOK, CreateSession, Place
  <1>5. UNCHANGED <<log, torn, gone, seen, post, late, age, view>>
    BY DEF CreateSession, SetStatus
  <1> QED
    BY <1>2, <1>3, <1>4, <1>5, NothingTaken DEF TypeOK

LEMMA ProcessTakes ==
  ASSUME TakeInv, NEW s \in Session, Spawn(s) \/ Exit(s)
  PROVE  TakeInv'
  <1>1. TypeOK /\ ExecOK
    BY DEF TakeInv, TypeOK
  <1>2. DiskOK' /\ MemoryOK' /\ NetOK' /\ ViewOK'
    BY <1>1, TypeKept DEF Spawn, Exit
  <1>3. ExecOK'
    BY <1>1 DEF ExecOK, Spawn, Exit, Place
  <1>4. UNCHANGED <<log, torn, gone, seen, post, late, age, view>>
    BY DEF Spawn, Exit
  <1> QED
    BY <1>2, <1>3, <1>4, NothingTaken DEF TypeOK

LEMMA ExecuteTakes ==
  ASSUME TakeInv, NEW s \in Session, Execute(s) \/ Exit(s)
  PROVE  TakeInv'
  <1>1. /\ {"queued", "running", "completed", "note"} \subseteq Kind
        /\ {"sending", "running", "completed"} \subseteq Status
        /\ {"wait", "prompted", "sending", "started", "run", "finish", "done"} \subseteq Place
    BY DEF Kind, Status, Final, Open, Place
  <1>2. CASE CreateSession(s)
    BY <1>2, CreateSessionTakes
  <1>3. CASE LogCreated(s) \/ LogPrompt(s) \/ LogStarted(s)
    BY <1>1, <1>3, ExecAppendTakes DEF LogCreated, LogPrompt, LogStarted
  <1>4. CASE Heartbeat(s) \/ LogCompleted(s)
    BY <1>1, <1>4, ExecAppendTakes DEF Heartbeat, LogCompleted
  <1>5. CASE SetSending(s) \/ SetRunning(s) \/ SetCompleted(s)
    BY <1>1, <1>5, ExecSetTakes DEF SetSending, SetRunning, SetCompleted
  <1>6. CASE Spawn(s) \/ Exit(s)
    BY <1>6, ProcessTakes
  <1> QED
    BY <1>2, <1>3, <1>4, <1>5, <1>6 DEF Execute

-----------------------------------------------------------------------------
(* Steps of requests.                                                      *)

(* What a request thread is at, as ViewOK has it.                          *)
ViewTypes == [at : {"idle", "load", "settle", "mark", "log", "remove", "unlink"},
              files : SUBSET Session, todo : Seq(Event), stale : SUBSET Session,
              cur : Session \cup {None}, want : Session \cup {None}]
ViewOf(v) == /\ v \in ViewTypes
             /\ v.at \in {"mark", "log"} => v.cur \in v.stale
             /\ v.at \in {"remove", "unlink"} => v.want \in Session

LEMMA ViewOfReader ==
  /\ ViewOK <=> /\ view \in [Reader -> ViewTypes]
                /\ \A t \in Reader : ViewOf(view[t])
  /\ ViewOf(IdleView) /\ IdleView.todo = <<>>
  BY DEF ViewOK, ViewOf, ViewTypes, IdleView

LEMMA OneViewMoves ==
  ASSUME ViewOK, NEW t \in Reader, NEW v, ViewOf(v), view' = [view EXCEPT ![t] = v]
  PROVE  /\ ViewOK' /\ view'[t] = v
         /\ \A u \in Reader \ {t} : view'[u] = view[u]
  <1>1. view \in [Reader -> ViewTypes] /\ \A u \in Reader : ViewOf(view[u])
    BY ViewOfReader
  <1>2. view' \in [Reader -> ViewTypes] /\ view'[t] = v
    BY <1>1 DEF ViewOf
  <1>3. \A u \in Reader \ {t} : view'[u] = view[u]
    BY <1>1
  <1>4. \A u \in Reader : ViewOf(view'[u])
    BY <1>1, <1>2, <1>3
  <1>5. ViewOK' <=> /\ view' \in [Reader -> ViewTypes]
                    /\ \A u \in Reader : ViewOf(view'[u])
    BY DEF ViewOK, ViewOf, ViewTypes
  <1> QED
    BY <1>2, <1>3, <1>4, <1>5

(* A step of a reader that changes only where it is.                       *)
LEMMA ReaderMoves ==
  ASSUME TakeInv, NEW t \in Reader, NEW v, ViewOf(v), view' = [view EXCEPT ![t] = v],
         Elements(v.todo) \subseteq Elements(view[t].todo), MemoryOK',
         UNCHANGED <<disk, seen, net, up, faults, gone, ex, alive>>
  PROVE  TakeInv'
  <1>1. TypeOK /\ ViewOK
    BY DEF TakeInv, TypeOK
  <1>2. ViewOK' /\ view'[t] = v /\ \A u \in Reader \ {t} : view'[u] = view[u]
    BY <1>1, OneViewMoves
  <1>3. DiskOK' /\ NetOK' /\ ExecOK'
    BY <1>1, TypeKept
  <1>4. \A u \in Reader : Elements(view'[u].todo) \subseteq Elements(view[u].todo)
    BY <1>2
  <1>5. UNCHANGED <<log, torn, gone, seen, post, late, age>>
    OBVIOUS
  <1> QED
    BY <1>2, <1>3, <1>4, <1>5, NothingTaken DEF TypeOK

LEMMA RequestTakes ==
  ASSUME TakeInv, NEW t \in Reader, Request(t)
  PROVE  TakeInv'
  <1>1. TypeOK /\ ViewOf(view[t]) /\ MemoryOK'
    BY ViewOfReader, TypeKept DEF TakeInv, TypeOK, Request
  <1>2. PICK target \in {None} \cup Session :
          view' = [view EXCEPT ![t] = [view[t] EXCEPT !.at = "load", !.files = Files,
                                                      !.want = target]]
    BY DEF Request
  <1> DEFINE v == [view[t] EXCEPT !.at = "load", !.files = Files, !.want = target]
  <1>3. Files \subseteq Session
    BY <1>1 DEF Files, TypeOK, DiskOK
  <1>4. ViewOf(v) /\ v.todo = view[t].todo
    BY <1>1, <1>3 DEF ViewOf, ViewTypes
  <1> QED
    BY <1>1, <1>2, <1>4, ReaderMoves DEF Request

LEMMA CollectTakes ==
  ASSUME TakeInv, NEW t \in Reader, Collect(t)
  PROVE  TakeInv'
  <1>1. TypeOK /\ ViewOf(view[t]) /\ MemoryOK'
    BY ViewOfReader, TypeKept DEF TakeInv, TypeOK, Collect
  <1> DEFINE v == [view[t] EXCEPT !.at = "settle",
                                  !.stale = {s \in Session : Stale(HubOf[t], s)}]
  <1>2. view' = [view EXCEPT ![t] = v]
    BY DEF Collect
  <1>3. ViewOf(v) /\ v.todo = view[t].todo
    BY <1>1 DEF ViewOf, ViewTypes
  <1> QED
    BY <1>1, <1>2, <1>3, ReaderMoves DEF Collect

LEMMA RecheckTakes ==
  ASSUME TakeInv, NEW t \in Reader, Recheck(t)
  PROVE  TakeInv'
  <1>1. TypeOK /\ ViewOf(view[t]) /\ MemoryOK'
    BY ViewOfReader, TypeKept DEF TakeInv, TypeOK, Recheck
  <1>2. PICK s \in view[t].stale :
          view' = [view EXCEPT ![t] =
                     IF status[HubOf[t]][s] \in Open
                     THEN [view[t] EXCEPT !.at = "mark", !.cur = s]
                     ELSE [view[t] EXCEPT !.stale = view[t].stale \ {s}]]
    BY DEF Recheck
  <1>3. s \in Session /\ view[t].at = "settle"
    BY <1>1 DEF ViewOf, ViewTypes, Recheck
  <1>4. CASE status[HubOf[t]][s] \in Open
    <2> DEFINE v == [view[t] EXCEPT !.at = "mark", !.cur = s]
    <2>1. ViewOf(v) /\ v.todo = view[t].todo
      BY <1>1, <1>3 DEF ViewOf, ViewTypes
    <2>2. view' = [view EXCEPT ![t] = v]
      BY <1>2, <1>4
    <2> QED
      BY <1>1, <2>1, <2>2, ReaderMoves DEF Recheck
  <1>5. CASE status[HubOf[t]][s] \notin Open
    <2> DEFINE v == [view[t] EXCEPT !.stale = view[t].stale \ {s}]
    <2>1. ViewOf(v) /\ v.todo = view[t].todo
      BY <1>1, <1>3 DEF ViewOf, ViewTypes
    <2>2. view' = [view EXCEPT ![t] = v]
      BY <1>2, <1>5
    <2> QED
      BY <1>1, <2>1, <2>2, ReaderMoves DEF Recheck
  <1> QED
    BY <1>4, <1>5

LEMMA IdleMoves ==
  ASSUME TakeInv, NEW t \in Reader, view' = [view EXCEPT ![t] = IdleView], MemoryOK',
         UNCHANGED <<disk, seen, net, up, faults, gone, ex, alive>>
  PROVE  TakeInv'
  <1>1. Elements(IdleView.todo) \subseteq Elements(view[t].todo)
    BY ViewOfReader, EmptyElements
  <1> QED
    BY <1>1, ViewOfReader, ReaderMoves

LEMMA SettleMarkTakes ==
  ASSUME TakeInv, NEW t \in Reader, SettleMark(t)
  PROVE  TakeInv'
  <1>1. TypeOK /\ MemoryOK /\ ViewOf(view[t]) /\ HubOf[t] \in Hub
    BY ViewOfReader, Placement DEF TakeInv, TypeOK
  <1>2. /\ view[t].at = "mark"
        /\ UNCHANGED <<disk, net, up, faults, gone, ex, alive>>
    BY DEF SettleMark
  <1>3. CASE /\ SetStatus(HubOf[t], view[t].cur, "error")
             /\ view' = [view EXCEPT ![t].at = "log"]
    <2> DEFINE v == [view[t] EXCEPT !.at = "log"]
    <2>1. view[t].cur \in Session /\ view[t].cur \in view[t].stale
      BY <1>1, <1>2 DEF ViewOf, ViewTypes
    <2>2. MemoryOK'
      BY <1>1, <1>3, <2>1, SetStatusMemory DEF Status, Final
    <2>3. ViewOf(v) /\ v.todo = view[t].todo
      BY <1>1, <2>1 DEF ViewOf, ViewTypes
    <2>4. view' = [view EXCEPT ![t] = v] /\ UNCHANGED seen
      BY <1>3 DEF SetStatus
    <2> QED
      BY <1>2, <2>2, <2>3, <2>4, ReaderMoves
  <1>4. CASE view' = [view EXCEPT ![t] = IdleView] /\ UNCHANGED memory
    BY <1>1, <1>2, <1>4, TypeKept, IdleMoves
  <1> QED
    BY <1>3, <1>4 DEF SettleMark

LEMMA SettleLogTakes ==
  ASSUME TakeInv, NEW t \in Reader, SettleLog(t)
  PROVE  TakeInv'
  <1>1. TypeOK /\ ViewOK /\ ViewOf(view[t]) /\ HubOf[t] \in Hub
    BY ViewOfReader, Placement DEF TakeInv, TypeOK
  <1>2. view[t].at = "log" /\ view[t].cur \in Session
    BY <1>1 DEF ViewOf, ViewTypes, SettleLog
  <1> DEFINE v == [view[t] EXCEPT !.at = "settle", !.cur = None,
                                  !.stale = view[t].stale \ {view[t].cur}]
  <1>3. ViewOf(v) /\ v.todo = view[t].todo
    BY <1>1 DEF ViewOf, ViewTypes
  <1>4. view' = [view EXCEPT ![t] = v]
    BY DEF SettleLog
  <1>5. ViewOK' /\ \A u \in Reader : Elements(view'[u].todo) \subseteq Elements(view[u].todo)
    <2> HIDE DEF v
    <2>1. /\ ViewOK' /\ view'[t] = v
          /\ \A u \in Reader \ {t} : view'[u] = view[u]
      BY <1>1, <1>3, <1>4, OneViewMoves
    <2>2. view'[t].todo = view[t].todo
      BY <1>3, <2>1
    <2> QED
      BY <2>1, <2>2
  <1>6. ExecOK' /\ UNCHANGED <<up, faults, gone>>
    BY <1>1, TypeKept DEF SettleLog
  <1>7. AppendEvent(t, HubOf[t], view[t].cur, "error") /\ "error" \in Kind
    BY DEF SettleLog, Kind, Status, Final
  <1> QED
    BY <1>1, <1>2, <1>5, <1>6, <1>7, AppendEventTakes

LEMMA RefreshedTakes ==
  ASSUME TakeInv, NEW t \in Reader, Refreshed(t)
  PROVE  TakeInv'
  <1>1. TypeOK /\ ViewOf(view[t]) /\ MemoryOK'
    BY ViewOfReader, TypeKept DEF TakeInv, TypeOK, Refreshed
  <1>2. CASE view[t].want = None
    BY <1>1, <1>2, IdleMoves DEF Refreshed
  <1>3. CASE view[t].want # None
    <2> DEFINE v == [view[t] EXCEPT !.at = "remove"]
    <2>1. ViewOf(v) /\ v.todo = view[t].todo
      BY <1>1, <1>3 DEF ViewOf, ViewTypes
    <2>2. view' = [view EXCEPT ![t] = v]
      BY <1>3 DEF Refreshed
    <2> QED
      BY <1>1, <2>1, <2>2, ReaderMoves DEF Refreshed
  <1> QED
    BY <1>2, <1>3

LEMMA ReadFileTakes ==
  ASSUME TakeInv, NEW t \in Reader, ReadFile(t)
  PROVE  TakeInv'
  <1>1. TypeOK /\ ViewOK /\ DiskOK /\ ViewOf(view[t]) /\ LogOK /\ TodoOK
    BY ViewOfReader DEF TakeInv, TypeOK
  <1>2. PICK s \in view[t].files :
          view' = [view EXCEPT ![t] = [view[t] EXCEPT !.files = view[t].files \ {s},
                                                      !.todo = log[s]]]
    BY DEF ReadFile
  <1> DEFINE v == [view[t] EXCEPT !.files = view[t].files \ {s}, !.todo = log[s]]
  <1>3. s \in Session /\ view[t].at = "load"
    BY <1>1 DEF ViewOf, ViewTypes, ReadFile
  <1>4. ViewOf(v) /\ v.todo = log[s]
    BY <1>1, <1>3 DEF ViewOf, ViewTypes, DiskOK
  <1>5. ViewOK' /\ view'[t].todo = log[s] /\ \A u \in Reader \ {t} : view'[u] = view[u]
    BY <1>1, <1>2, <1>4, OneViewMoves
  <1>6. UNCHANGED <<disk, memory, net, up, faults, gone, ex, alive>>
    BY DEF ReadFile
  <1>7. DiskOK' /\ MemoryOK' /\ NetOK' /\ ExecOK'
    BY <1>1, <1>6, TypeKept
  <1>8. TodoOK'
    <2>1. \A e \in Elements(log[s]) : Dated(e)' /\ Filed(e)'
      BY <1>1, <1>3, <1>6 DEF LogOK, Dated, Filed
    <2>2. \A u \in Reader \ {t} : \A e \in Elements(view[u].todo) : Dated(e)' /\ Filed(e)'
      BY <1>1, <1>6 DEF TodoOK, Dated, Filed
    <2> QED
      BY <1>5, <2>1, <2>2 DEF TodoOK
  <1>9. LogOK' /\ SeenOK' /\ NetDated'
    BY <1>6 DEF TakeInv, LogOK, SeenOK, NetDated, Dated, Filed
  <1> QED
    BY <1>5, <1>7, <1>8, <1>9 DEF TakeInv, TypeOK

LEMMA LoadLineTakes ==
  ASSUME TakeInv, NEW t \in Reader, LoadLine(t)
  PROVE  TakeInv'
  <1>1. /\ TypeOK /\ ViewOK /\ MemoryOK /\ ViewOf(view[t]) /\ TodoOK /\ LogOK
        /\ HubOf[t] \in Hub
    BY ViewOfReader, Placement DEF TakeInv, TypeOK
  <1> DEFINE v == [view[t] EXCEPT !.todo = Tail(@)]
  <1>2. PICK e \in Event : e = Head(view[t].todo) /\ e \in Elements(view[t].todo)
    BY <1>1, TailElements DEF ViewOf, ViewTypes, LoadLine
  <1>3. ViewOf(v) /\ Elements(v.todo) \subseteq Elements(view[t].todo)
    BY <1>1, TailElements DEF ViewOf, ViewTypes, LoadLine
  <1>4. /\ view' = [view EXCEPT ![t] = v]
        /\ UNCHANGED <<disk, net, up, faults, gone, ex, alive>>
    BY DEF LoadLine
  <1>5. CASE UNCHANGED memory
    BY <1>1, <1>3, <1>4, <1>5, TypeKept, ReaderMoves
  <1>6. CASE e \notin Loaded(HubOf[t]) /\ Rebuild(HubOf[t], e)
    <2>1. Dated(e) /\ Filed(e)
      BY <1>1, <1>2 DEF TodoOK
    <2>2. MemoryOK'
      BY <1>1, <1>6, <2>1, RebuildMemory
    <2>3. ViewOK' /\ view'[t] = v /\ \A u \in Reader \ {t} : view'[u] = view[u]
      BY <1>1, <1>3, <1>4, OneViewMoves
    <2>4. DiskOK' /\ NetOK' /\ ExecOK'
      BY <1>1, <1>4, TypeKept
    <2>5. \A d : (Dated(d) <=> Dated(d)') /\ (Filed(d) <=> Filed(d)')
      BY <1>4 DEF Dated, Filed
    <2>6. SeenOK'
      <3>1. e \notin Elements(seen[HubOf[t]][e.s])
        BY <1>6 DEF Loaded, Event
      <3>2. seen' = [seen EXCEPT ![HubOf[t]][e.s] = Append(@, e)]
        BY <1>6 DEF Rebuild
      <3> QED
        BY <1>1, <1>4, <2>1, <2>5, <3>1, <3>2, TakenUp
    <2>7. TodoOK'
      BY <1>1, <1>3, <2>3, <2>5 DEF TodoOK
    <2>8. LogOK' /\ NetDated'
      BY <1>4, <2>5 DEF TakeInv, LogOK, NetDated
    <2> QED
      BY <2>2, <2>3, <2>4, <2>6, <2>7, <2>8 DEF TakeInv, TypeOK
  <1> QED
    BY <1>2, <1>5, <1>6 DEF LoadLine

LEMMA RemoveTakes ==
  ASSUME TakeInv, NEW t \in Reader, Remove(t)
  PROVE  TakeInv'
  <1>1. /\ TypeOK /\ ViewOK /\ MemoryOK /\ SeenOK /\ ViewOf(view[t]) /\ HubOf[t] \in Hub
        /\ view[t].at = "remove"
    BY ViewOfReader, Placement DEF TakeInv, TypeOK, Remove
  <1>2. UNCHANGED <<disk, net, up, faults, gone, ex, alive>>
    BY DEF Remove
  <1>3. CASE view' = [view EXCEPT ![t] = IdleView] /\ UNCHANGED memory
    BY <1>1, <1>2, <1>3, TypeKept, IdleMoves
  <1>4. CASE /\ status' = [status EXCEPT ![HubOf[t]][view[t].want] = None]
             /\ seen' = [seen EXCEPT ![HubOf[t]][view[t].want] = <<>>]
             /\ quiet' = [quiet EXCEPT ![HubOf[t]][view[t].want] = 0]
             /\ view' = [view EXCEPT ![t].at = "unlink"]
    <2> DEFINE v == [view[t] EXCEPT !.at = "unlink"]
    <2>1. view[t].want \in Session
      BY <1>1 DEF ViewOf
    <2>2. ViewOf(v) /\ v.todo = view[t].todo /\ view' = [view EXCEPT ![t] = v]
      BY <1>1, <1>4, <2>1 DEF ViewOf, ViewTypes
    <2>3. ViewOK' /\ view'[t] = v /\ \A u \in Reader \ {t} : view'[u] = view[u]
      BY <1>1, <2>2, OneViewMoves
    <2>4. MemoryOK'
      BY <1>1, <1>4, <2>1 DEF MemoryOK, Age, Expired
    <2>5. DiskOK' /\ NetOK' /\ ExecOK'
      BY <1>1, <1>2, TypeKept
    <2>6. \A d : (Dated(d) <=> Dated(d)') /\ (Filed(d) <=> Filed(d)')
      BY <1>2 DEF Dated, Filed
    <2>7. SeenOK'
      <3>1. \A h \in Hub, s \in Session : seen'[h][s] = seen[h][s] \/ seen'[h][s] = <<>>
        BY <1>1, <1>4, <2>1 DEF MemoryOK
      <3> QED
        BY <1>1, <2>6, <3>1, EmptyElements DEF SeenOK
    <2>8. TodoOK'
      BY <2>2, <2>3, <2>6 DEF TakeInv, TodoOK
    <2>9. LogOK' /\ NetDated'
      BY <1>2, <2>6 DEF TakeInv, LogOK, NetDated
    <2> QED
      BY <2>3, <2>4, <2>5, <2>7, <2>8, <2>9 DEF TakeInv, TypeOK
  <1> QED
    BY <1>3, <1>4 DEF Remove

LEMMA UnlinkTakes ==
  ASSUME TakeInv, NEW t \in Reader, Unlink(t)
  PROVE  TakeInv'
  <1>1. /\ TypeOK /\ ViewOK /\ DiskOK /\ ViewOf(view[t]) /\ view[t].at = "unlink"
        /\ LogOK /\ SeenOK /\ TodoOK /\ NetDated
    BY ViewOfReader DEF TakeInv, TypeOK, Unlink
  <1>2. /\ log' = [log EXCEPT ![view[t].want] = <<>>]
        /\ torn' = torn \ {view[t].want} /\ gone' = gone \cup {view[t].want}
        /\ view' = [view EXCEPT ![t] = IdleView]
        /\ UNCHANGED <<age, memory, net, up, faults, ex, alive>>
    BY DEF Unlink
  <1>3. view[t].want \in Session
    BY <1>1 DEF ViewOf
  <1>4. DiskOK'
    BY <1>1, <1>2, <1>3 DEF DiskOK
  <1>5. MemoryOK' /\ NetOK' /\ ExecOK'
    BY <1>1, <1>2, TypeKept
  <1>6. ViewOK' /\ view'[t] = IdleView /\ \A u \in Reader \ {t} : view'[u] = view[u]
    BY <1>1, <1>2, ViewOfReader, OneViewMoves
  <1>7. \A s \in Session : log'[s] = log[s] \/ log'[s] = <<>>
    BY <1>1, <1>2, <1>3 DEF DiskOK
  <1>8. \A d : Dated(d) <=> Dated(d)'
    BY <1>2 DEF Dated
  <1>9. \A d \in Event : Filed(d) => Filed(d)'
    <2> SUFFICES ASSUME NEW d \in Event, Filed(d), d.s \notin gone' \cup torn'
                 PROVE  d \in Elements(log'[d.s])
      BY DEF Filed
    <2>1. d.s # view[t].want /\ d.s \notin gone \cup torn /\ d.s \in Session
      BY <1>2 DEF Event
    <2>2. log'[d.s] = log[d.s]
      BY <1>1, <1>2, <2>1 DEF DiskOK
    <2> QED
      BY <2>1, <2>2 DEF Filed
  <1>10. LogOK'
    BY <1>1, <1>7, <1>8, EmptyElements DEF LogOK
  <1>11. SeenOK'
    <2>1. \A h \in Hub, s \in Session : Elements(seen[h][s]) \subseteq Event
      BY <1>1 DEF TypeOK, MemoryOK, Elements
    <2> QED
      BY <1>1, <1>2, <1>8, <1>9, <2>1 DEF SeenOK
  <1>12. TodoOK'
    <2>1. \A u \in Reader : Elements(view[u].todo) \subseteq Event
      BY <1>1 DEF ViewOK, Elements
    <2> QED
      BY <1>1, <1>6, <1>8, <1>9, <2>1, ViewOfReader, EmptyElements DEF TodoOK
  <1>13. NetDated'
    BY <1>1, <1>2, <1>8 DEF NetDated
  <1> QED
    BY <1>4, <1>5, <1>6, <1>10, <1>11, <1>12, <1>13 DEF TakeInv, TypeOK

LEMMA ReaderTakes ==
  ASSUME TakeInv, NEW t \in Reader, Request(t) \/ Serve(t)
  PROVE  TakeInv'
  BY RequestTakes, ReadFileTakes, LoadLineTakes, CollectTakes, RecheckTakes,
     SettleMarkTakes, SettleLogTakes, RefreshedTakes, RemoveTakes, UnlinkTakes
     DEF Serve

-----------------------------------------------------------------------------
(* Posts.                                                                  *)

LEMMA IngestEventTakes ==
  ASSUME TakeInv, NEW e \in Event, Dated(e), Dash \in Hub, IngestEvent(e),
         UNCHANGED <<torn, age, ex, alive, view, world>>,
         NetOK', NetDated'
  PROVE  TakeInv'
  <1>1. DiskOK /\ MemoryOK /\ TypeOK /\ LogOK /\ TodoOK
    BY DEF TakeInv, TypeOK
  <1>2. ExecOK' /\ ViewOK'
    BY <1>1, TypeKept
  <1>3. \A d : Dated(d) <=> Dated(d)'
    BY DEF Dated
  <1>4. CASE UNCHANGED <<log, memory>>
    <2>1. DiskOK' /\ MemoryOK'
      BY <1>1, <1>4, TypeKept
    <2>2. \A d : Filed(d) <=> Filed(d)'
      BY <1>4 DEF Filed
    <2>3. LogOK' /\ SeenOK' /\ TodoOK'
      BY <1>3, <1>4, <2>2 DEF TakeInv, LogOK, SeenOK, TodoOK
    <2> QED
      BY <1>2, <2>1, <2>3 DEF TakeInv, TypeOK
  <1>5. CASE e \notin Loaded(Dash) /\ Rebuild(Dash, e) /\ WriteEvent(e)
    <2>1. /\ log' \in [Session -> Seq(Event)]
          /\ \A r \in Session : Elements(log[r]) \subseteq Elements(log'[r])
          /\ \A r \in Session : \A d \in Elements(log'[r]) :
               d \in Elements(log[r]) \/ (r = e.s /\ d = e)
          /\ e.s \notin torn => e \in Elements(log'[e.s])
      BY <1>1, <1>5, Written
    <2>2. DiskOK'
      BY <1>1, <2>1 DEF DiskOK
    <2>3. MemoryOK'
      BY <1>1, <1>5, RebuildMemory
    <2>4. LogOK'
      BY <1>1, <1>3, <2>1 DEF LogOK
    <2>5. SeenOK'
      <3>1. e \notin Elements(seen[Dash][e.s])
        BY <1>5 DEF Loaded, Event
      <3>2. seen' = [seen EXCEPT ![Dash][e.s] = Append(@, e)]
        BY <1>5 DEF Rebuild
      <3>3. Filed(e)'
        BY <2>1 DEF Filed
      <3> QED
        BY <1>3, <2>1, <3>1, <3>2, <3>3, TakenUp
    <2>6. TodoOK'
      <3>1. \A u \in Reader : Elements(view[u].todo) \subseteq Event
        BY <1>1 DEF TypeOK, ViewOK, Elements
      <3>2. \A d \in Event : Filed(d) => Filed(d)'
        BY <2>1 DEF Filed, Event
      <3> QED
        BY <1>1, <1>3, <3>1, <3>2 DEF TodoOK
    <2> QED
      BY <1>2, <2>2, <2>3, <2>4, <2>5, <2>6 DEF TakeInv, TypeOK
  <1> QED
    BY <1>4, <1>5 DEF IngestEvent

LEMMA PostTakes ==
  ASSUME TakeInv, NEW x \in Session \cup Reader, Ingest(x) \/ GiveUp(x)
  PROVE  TakeInv'
  <1>1. TypeOK /\ NetOK /\ NetDated
    BY DEF TakeInv, TypeOK
  <1>2. /\ post[x] \in Event /\ Dated(post[x]) /\ Dash \in Hub
        /\ post' = [post EXCEPT ![x] = None]
    BY <1>1 DEF NetOK, NetDated, Ingest, GiveUp
  <1>3. late' \subseteq late \cup {post[x]} /\ UNCHANGED <<age, up>>
    BY DEF Ingest, GiveUp
  <1>a. faults' \in 0 .. MaxFaults
    <2>1. faults \in 0 .. MaxFaults /\ MaxFaults \in Nat
      BY <1>1, Options DEF NetOK
    <2>2. faults' = faults \/ (faults < MaxFaults /\ faults' = faults + 1)
      BY DEF Ingest, GiveUp, world
    <2> QED
      BY <2>1, <2>2, SMT
  <1>4. NetOK' /\ NetDated'
    <2>1. \A d : Dated(d) <=> Dated(d)'
      BY <1>3 DEF Dated
    <2>2. NetOK'
      BY <1>1, <1>2, <1>3, <1>a DEF NetOK
    <2>3. \A y \in Session \cup Reader : post'[y] = post[y] \/ post'[y] = None
      BY <1>1, <1>2 DEF NetOK
    <2>4. NetDated'
      BY <1>1, <1>2, <1>3, <2>1, <2>3 DEF NetDated
    <2> QED
      BY <2>2, <2>4
  <1>5. CASE Ingest(x)
    <2>1. PICK e \in Event : e = post[x]
      BY <1>2
    <2>2. IngestEvent(e) /\ UNCHANGED <<torn, age, ex, alive, view, world>>
      BY <1>5, <2>1 DEF Ingest
    <2> QED
      BY <1>2, <1>4, <2>1, <2>2, IngestEventTakes
  <1>6. CASE GiveUp(x)
    <2>1. UNCHANGED <<disk, memory, ex, alive, view, up, gone>>
      BY <1>6 DEF GiveUp
    <2>2. TypeOK'
      BY <1>1, <1>4, <2>1, TypeKept DEF TypeOK
    <2>3. LogOK' /\ SeenOK' /\ TodoOK'
      BY <2>1 DEF TakeInv, LogOK, SeenOK, TodoOK, Dated, Filed
    <2> QED
      BY <1>4, <2>2, <2>3 DEF TakeInv
  <1> QED
    BY <1>5, <1>6

LEMMA IngestLateTakes ==
  ASSUME TakeInv, Dash \in Hub, IngestLate
  PROVE  TakeInv'
  <1>1. TypeOK /\ NetOK /\ NetDated
    BY DEF TakeInv, TypeOK
  <1>2. PICK e \in late : IngestEvent(e) /\ late' = late \ {e}
    BY DEF IngestLate
  <1>3. UNCHANGED <<torn, age, ex, alive, view, post, world>>
    BY DEF IngestLate
  <1>4. e \in Event /\ Dated(e)
    BY <1>1, <1>2 DEF NetOK, NetDated
  <1>5. NetOK' /\ NetDated'
    BY <1>1, <1>2, <1>3 DEF NetOK, NetDated, Dated
  <1> QED
    BY <1>2, <1>3, <1>4, <1>5, IngestEventTakes

-----------------------------------------------------------------------------
(* Crashes, restarts and time.                                             *)

LEMMA CrashTakes ==
  ASSUME TakeInv, NEW h \in Hub, Crash(h)
  PROVE  TakeInv'
  <1>1. /\ TypeOK /\ DiskOK /\ MemoryOK /\ NetOK /\ ExecOK /\ ViewOK
        /\ LogOK /\ SeenOK /\ TodoOK /\ NetDated
    BY DEF TakeInv, TypeOK
  <1>2. UNCHANGED <<log, age, alive, gone>>
    BY DEF Crash
  <1>3. \A t \in Reader : ViewOf(view[t]) /\ (view[t].at = "log" => view[t].cur \in Session)
    BY <1>1, ViewOfReader DEF ViewOf, ViewTypes
  <1>4. torn \subseteq torn' /\ torn' \subseteq Session
    <2>1. Writing(h) \subseteq Session
      BY <1>3 DEF Writing
    <2> QED
      BY <1>1, <2>1 DEF Crash, DiskOK
  <1>5. DiskOK'
    BY <1>1, <1>2, <1>4 DEF DiskOK
  <1>6. MemoryOK'
    BY <1>1 DEF Crash, MemoryOK, Age, Expired
  <1>7. NetOK' /\ NetDated'
    <2>1. up' \in [Hub -> {"up", "boot", "down"}] /\ faults' \in 0 .. MaxFaults
      BY <1>1, Options DEF Crash, NetOK
    <2>2. PICK mine \in SUBSET (Session \cup Reader) :
            /\ late' \subseteq late \cup ({post[x] : x \in mine} \ {None})
            /\ post' = [x \in DOMAIN post |-> IF x \in mine THEN None ELSE post[x]]
      <3> DEFINE m == {s \in Session : OwnerOf[s] = h} \cup {t \in Reader : HubOf[t] = h}
      <3>1. /\ m \in SUBSET (Session \cup Reader)
            /\ late' \subseteq late \cup ({post[x] : x \in m} \ {None})
            /\ post' = [x \in DOMAIN post |-> IF x \in m THEN None ELSE post[x]]
        BY DEF Crash
      <3> QED
        BY <3>1
    <2>3. post' \in [Session \cup Reader -> Event \cup {None}] /\ late' \subseteq Event
      BY <1>1, <2>2 DEF NetOK
    <2>4. \A d : Dated(d) <=> Dated(d)'
      BY <1>2 DEF Dated
    <2>5. NetDated'
      BY <1>1, <2>2, <2>4 DEF NetOK, NetDated
    <2> QED
      BY <2>1, <2>3, <2>5 DEF NetOK
  <1>8. ExecOK'
    BY <1>1, <1>2 DEF Crash, ExecOK, Place
  <1>9. \A t \in Reader : view'[t] = view[t] \/ view'[t] = IdleView
    BY DEF Crash
  <1>10. ViewOK'
    <2>1. view' \in [Reader -> ViewTypes]
      BY <1>1, ViewOfReader DEF Crash, ViewOf
    <2>2. \A t \in Reader : ViewOf(view'[t])
      BY <1>3, <1>9, ViewOfReader
    <2>3. ViewOK' <=> /\ view' \in [Reader -> ViewTypes]
                      /\ \A u \in Reader : ViewOf(view'[u])
      BY DEF ViewOK, ViewOf, ViewTypes
    <2> QED
      BY <2>1, <2>2, <2>3
  <1>11. \A d : (Dated(d) <=> Dated(d)') /\ (Filed(d) => Filed(d)')
    BY <1>2, <1>4 DEF Dated, Filed
  <1>12. LogOK'
    BY <1>1, <1>2, <1>11 DEF LogOK
  <1>13. SeenOK'
    <2>1. \A g \in Hub, s \in Session : seen'[g][s] = seen[g][s] \/ seen'[g][s] = <<>>
      BY <1>1 DEF Crash, MemoryOK
    <2> QED
      BY <1>1, <1>11, <2>1, EmptyElements DEF SeenOK
  <1>14. TodoOK'
    BY <1>1, <1>9, <1>11, ViewOfReader, EmptyElements DEF TodoOK
  <1> QED
    BY <1>5, <1>6, <1>7, <1>8, <1>10, <1>12, <1>13, <1>14 DEF TakeInv, TypeOK

LEMMA BootTakes ==
  ASSUME TakeInv, NEW h \in Hub, Restart(h) \/ Booted(h)
  PROVE  TakeInv'
  <1>1. TypeOK /\ ViewOK /\ NetOK
    BY DEF TakeInv, TypeOK
  <1>2. UNCHANGED <<disk, memory, ex, alive, net, faults, gone>>
    BY DEF Restart, Booted
  <1>3. DiskOK' /\ MemoryOK' /\ ExecOK'
    BY <1>1, <1>2, TypeKept
  <1>4. NetOK'
    BY <1>1, <1>2 DEF Restart, Booted, NetOK
  <1>5. PICK t \in Reader : \E v \in {IdleView, [IdleView EXCEPT !.at = "load", !.files = Files]} :
          view' = [view EXCEPT ![t] = v]
    BY DEF Restart, Booted
  <1>6. PICK v \in {IdleView, [IdleView EXCEPT !.at = "load", !.files = Files]} :
          view' = [view EXCEPT ![t] = v]
    BY <1>5
  <1>7. ViewOf(v) /\ v.todo = <<>>
    <2>1. Files \subseteq Session
      BY <1>1 DEF Files, TypeOK, DiskOK
    <2>2. CASE v = IdleView
      BY <2>2, ViewOfReader
    <2>3. CASE v = [IdleView EXCEPT !.at = "load", !.files = Files]
      <3>1. IdleView \in ViewTypes /\ IdleView.todo = <<>>
        BY ViewOfReader DEF ViewOf
      <3>2. v \in ViewTypes
        BY <2>1, <2>3, <3>1 DEF ViewTypes
      <3>3. v.at = "load" /\ v.todo = <<>>
        BY <2>3, <3>1 DEF ViewTypes
      <3> QED
        BY <3>2, <3>3 DEF ViewOf
    <2> QED
      BY <1>6, <2>2, <2>3
  <1>8. ViewOK' /\ view'[t] = v /\ \A u \in Reader \ {t} : view'[u] = view[u]
    BY <1>1, <1>6, <1>7, OneViewMoves
  <1>9. \A u \in Reader : Elements(view'[u].todo) \subseteq Elements(view[u].todo)
    BY <1>7, <1>8, EmptyElements
  <1>10. UNCHANGED <<log, torn, gone, seen, post, late, age>>
    BY <1>2
  <1> QED
    BY <1>3, <1>4, <1>8, <1>9, <1>10, NothingTaken DEF TypeOK

LEMMA TickTakes ==
  ASSUME TakeInv, Tick
  PROVE  TakeInv'
  <1>1. TypeOK /\ DiskOK /\ MemoryOK
    BY DEF TakeInv, TypeOK
  <1>2. UNCHANGED <<log, torn, status, seen, ex, alive, view, net, world>>
    BY DEF Tick
  <1>3. \A a \in Age : Older(a) \in Age
    BY DEF Age, Older, Expired
  <1>4. \A s \in Session : /\ age'[s] = [n \in DOMAIN age[s] |-> Older(age[s][n])]
                           /\ age'[s] \in Seq(Age) /\ DOMAIN age'[s] = DOMAIN age[s]
    <2> SUFFICES ASSUME NEW s \in Session
                 PROVE  LET q == [n \in DOMAIN age[s] |-> Older(age[s][n])]
                        IN age'[s] = q /\ q \in Seq(Age) /\ DOMAIN q = DOMAIN age[s]
      OBVIOUS
    <2>1. age[s] \in Seq(Age)
      BY <1>1 DEF DiskOK
    <2>2. Len(age[s]) \in Nat /\ DOMAIN age[s] = 1 .. Len(age[s])
          /\ \A n \in DOMAIN age[s] : age[s][n] \in Age
      BY <2>1
    <2>3. [n \in 1 .. Len(age[s]) |-> Older(age[s][n])] \in [1 .. Len(age[s]) -> Age]
      BY <1>3, <2>2
    <2>4. [n \in 1 .. Len(age[s]) |-> Older(age[s][n])] \in Seq(Age)
      BY <2>2, <2>3
    <2>5. age'[s] = [n \in DOMAIN age[s] |-> Older(age[s][n])]
      BY DEF Tick
    <2> QED
      BY <2>2, <2>4, <2>5
  <1>5. DiskOK'
    <2>1. age' = [s \in Session |-> age'[s]]
      BY DEF Tick
    <2>2. age' \in [Session -> Seq(Age)]
      BY <1>4, <2>1
    <2> QED
      BY <1>1, <1>2, <2>2 DEF DiskOK
  <1>6. MemoryOK'
    <2>1. quiet' \in [Hub -> [Session -> Age]]
      <3>1. 0 \in Age /\ quiet \in [Hub -> [Session -> Age]]
        BY <1>1 DEF MemoryOK, Age, Expired
      <3> QED
        BY <1>3, <3>1 DEF Tick
    <2> QED
      BY <1>1, <1>2, <2>1 DEF MemoryOK
  <1>7. NetOK' /\ ExecOK' /\ ViewOK'
    BY <1>1, <1>2, TypeKept
  <1> QED
    BY <1>2, <1>4, <1>5, <1>6, <1>7, NothingTaken DEF TypeOK

-----------------------------------------------------------------------------
(* The theorems.                                                           *)

LEMMA TakeStep == TakeInv /\ [Next]_vars => TakeInv'
  <1> SUFFICES ASSUME TakeInv, [Next]_vars PROVE TakeInv'
    OBVIOUS
  <1>1. ASSUME NEW s \in Session, Execute(s) \/ Exit(s) PROVE TakeInv'
    BY <1>1, ExecuteTakes
  <1>2. ASSUME NEW t \in Reader, Request(t) \/ Serve(t) PROVE TakeInv'
    BY <1>2, ReaderTakes
  <1>3. ASSUME NEW x \in Session \cup Reader, Ingest(x) \/ GiveUp(x) PROVE TakeInv'
    BY <1>3, PostTakes
  <1>4. CASE IngestLate
    <2>1. Dash \in Hub
      BY <1>4 DEF IngestLate, TakeInv, NetDated
    <2> QED
      BY <1>4, <2>1, IngestLateTakes
  <1>5. CASE Tick
    BY <1>5, TickTakes
  <1>6. ASSUME NEW h \in Hub, Crash(h) \/ Restart(h) \/ Booted(h) PROVE TakeInv'
    BY <1>6, CrashTakes, BootTakes
  <1>7. CASE UNCHANGED vars
    <2>1. TypeOK'
      BY <1>7, TypeKept DEF TakeInv, TypeOK, vars
    <2> QED
      BY <1>7, <2>1, NothingTaken DEF vars
  <1> QED
    BY <1>1, <1>2, <1>3, <1>4, <1>5, <1>6, <1>7 DEF Next

LEMMA TakeCorrect == Spec => []TakeInv
  BY TakeInit, TakeStep, PTL DEF Spec

(* TypeOK: every variable of the hubs, the directory and the posts keeps   *)
(* its type, and a reader about to settle or delete knows its session.     *)
THEOREM TranscriptTyped == Spec => []TypeOK
  <1>1. TakeInv => TypeOK
    BY DEF TakeInv
  <1> QED
    BY <1>1, TakeCorrect, PTL

(* TakenOnce: whatever refreshes, the hub's own appends, posts and late    *)
(* posts race, _loaded_event_ids lets an event in once, and only into the  *)
(* list of its session.                                                    *)
THEOREM TakenUpOnce == Spec => []TakenOnce
  <1>1. TakeInv => TakenOnce
    BY DEF TakeInv, SeenOK, TakenOnce
  <1> QED
    BY <1>1, TakeCorrect, PTL

(* Durable: what a hub shows is in the file of its session, unless a       *)
(* delete has removed it or a crash cut off one of its lines.              *)
THEOREM ShownIsFiled == Spec => []Durable
  <1>1. TakeInv => Durable
    BY DEF TakeInv, SeenOK, Durable, Filed
  <1> QED
    BY <1>1, TakeCorrect, PTL

-----------------------------------------------------------------------------
(* What an executor does to its session, used by the proofs below.         *)

(* Where a run stands, by the place of its executor.                       *)
StatusAt(at) ==
  IF at = "new" THEN None
  ELSE IF at \in {"create", "wait", "prompted"} THEN "queued"
  ELSE IF at \in {"sending", "spawned"} THEN "sending"
  ELSE IF at \in {"started", "run"} THEN "running"
  ELSE "completed"

(* The executor of s appends event e. *)
Appends(s, e) ==
  /\ seen' = [seen EXCEPT ![OwnerOf[s]][s] = Append(@, e)]
  /\ log' = [log EXCEPT ![s] = Append(@, e)]
  /\ age' = [age EXCEPT ![s] = Append(@, 0)]
  /\ quiet' = IF status[OwnerOf[s]][s] = None THEN quiet
              ELSE [quiet EXCEPT ![OwnerOf[s]][s] = 0]
  /\ post' = IF Attached(OwnerOf[s]) THEN [post EXCEPT ![s] = e] ELSE post
  /\ UNCHANGED <<torn, status, late, alive, view, world>>

(* The event an executor appends next. *)
NextEvent(s, kind) == [s |-> s, n |-> Len(age[s]) + 1, kind |-> kind]

LEMMA ExecAppends ==
  ASSUME TakeInv, NEW s \in Session, s \notin torn, NEW at, NEW k \in Kind, NEW to,
         ExecAppend(s, at, k, to)
  PROVE  /\ ex[s] = at /\ ex' = [ex EXCEPT ![s] = to] /\ Appends(s, NextEvent(s, k))
         /\ NextEvent(s, k) \in Event
         /\ NextEvent(s, k).s = s /\ NextEvent(s, k).kind = k
         /\ NextEvent(s, k).n = Len(age[s]) + 1
  <1> DEFINE e == NextEvent(s, k)
  <1>1. age[s] \in Seq(Age)
    BY DEF TakeInv, TypeOK, DiskOK
  <1>2. e \in Event /\ e.s = s /\ e.n = Len(age[s]) + 1 /\ e.kind = k
    BY <1>1 DEF Event, NextEvent
  <1>3. Appends(s, e)
    BY DEF ExecAppend, AppendEvent, Appends, WriteEvent, NextEvent
  <1> QED
    BY <1>2, <1>3 DEF ExecAppend

LEMMA ExecSets ==
  ASSUME NEW s \in Session, NEW at, NEW new, NEW to, ExecSet(s, at, new, to),
         status[OwnerOf[s]][s] # None
  PROVE  /\ up[OwnerOf[s]] = "up" /\ ex[s] = at /\ ex' = [ex EXCEPT ![s] = to]
         /\ SetStatus(OwnerOf[s], s, new)
         /\ UNCHANGED <<disk, alive, net, view, world>>
  BY DEF ExecSet, SetStatus

(* The hubs' records of another session, and its file, stay.               *)
LEMMA OtherSessions ==
  ASSUME TakeInv, NEW s \in Session, Execute(s) \/ Exit(s),
         NEW r \in Session, r # s
  PROVE  /\ ex'[r] = ex[r] /\ alive'[r] = alive[r] /\ log'[r] = log[r]
         /\ age'[r] = age[r]
         /\ \A h \in Hub : /\ status'[h][r] = status[h][r]
                           /\ seen'[h][r] = seen[h][r] /\ quiet'[h][r] = quiet[h][r]
  <1>1. /\ ex \in [Session -> Place] /\ alive \in [Session -> BOOLEAN]
        /\ log \in [Session -> Seq(Event)] /\ age \in [Session -> Seq(Age)]
        /\ status \in [Hub -> [Session -> Status \cup {None}]]
        /\ seen \in [Hub -> [Session -> Seq(Event)]]
        /\ quiet \in [Hub -> [Session -> Age]] /\ OwnerOf[s] \in Hub
    BY Placement DEF TakeInv, TypeOK, ExecOK, DiskOK, MemoryOK
  <1>2. ASSUME NEW at, NEW kind, NEW to, ExecAppend(s, at, kind, to)
        PROVE  /\ ex'[r] = ex[r] /\ alive'[r] = alive[r] /\ log'[r] = log[r]
               /\ age'[r] = age[r]
               /\ \A h \in Hub : /\ status'[h][r] = status[h][r]
                                 /\ seen'[h][r] = seen[h][r]
                                 /\ quiet'[h][r] = quiet[h][r]
    <2>1. PICK e : e.s = s /\ WriteEvent(e)
      BY <1>2 DEF ExecAppend, AppendEvent
    <2>2. log'[r] = log[r]
      BY <1>1, <2>1 DEF WriteEvent
    <2>3. ex'[r] = ex[r] /\ alive'[r] = alive[r] /\ age'[r] = age[r] /\ status' = status
      BY <1>1, <1>2 DEF ExecAppend, AppendEvent
    <2>4. \A h \in Hub : seen'[h][r] = seen[h][r]
      BY <1>1, <1>2 DEF ExecAppend, AppendEvent
    <2>5. \A h \in Hub : quiet'[h][r] = quiet[h][r]
      BY <1>1, <1>2 DEF ExecAppend, AppendEvent
    <2> QED
      BY <2>2, <2>3, <2>4, <2>5
  <1>3. ASSUME NEW at, NEW new, NEW to, ExecSet(s, at, new, to)
        PROVE  /\ ex'[r] = ex[r] /\ alive'[r] = alive[r] /\ log'[r] = log[r]
               /\ age'[r] = age[r]
               /\ \A h \in Hub : /\ status'[h][r] = status[h][r]
                                 /\ seen'[h][r] = seen[h][r]
                                 /\ quiet'[h][r] = quiet[h][r]
    <2>1. CASE UNCHANGED memory
      BY <1>1, <1>3, <2>1 DEF ExecSet
    <2>2. CASE SetStatus(OwnerOf[s], s, new)
      BY <1>1, <1>3, <2>2 DEF ExecSet, SetStatus
    <2> QED
      BY <1>3, <2>1, <2>2 DEF ExecSet
  <1>4. CASE LogCreated(s) \/ LogPrompt(s) \/ LogStarted(s) \/ Heartbeat(s) \/ LogCompleted(s)
    BY <1>2, <1>4 DEF LogCreated, LogPrompt, LogStarted, Heartbeat, LogCompleted
  <1>5. CASE SetSending(s) \/ SetRunning(s) \/ SetCompleted(s)
    BY <1>3, <1>5 DEF SetSending, SetRunning, SetCompleted
  <1>6. CASE CreateSession(s)
    BY <1>1, <1>6 DEF CreateSession, SetStatus
  <1>7. CASE Spawn(s) \/ Exit(s)
    BY <1>1, <1>7 DEF Spawn, Exit
  <1> QED
    BY <1>4, <1>5, <1>6, <1>7 DEF Execute

-----------------------------------------------------------------------------
(* A server on its own: what it settles and what it deletes.               *)

(* One hub on the directory, whose server stays up.                        *)
Alone == Mortal = {} /\ \A g, h \in Hub : g = h

(* The process has ended and the executor will not start one.              *)
Over(s) == ~alive[s] /\ ex[s] \in {"run", "finish", "done", "failed"}

(* What the hub has of a run that is not over is what the executor left,   *)
(* and no older than the heartbeats allow.                                 *)
Fresh(s) ==
  /\ ex[s] \in {"new", "create", "wait", "prompted", "sending",
                "spawned", "started", "run"}
  /\ alive[s] <=> ex[s] \in {"spawned", "started", "run"}
  /\ status[OwnerOf[s]][s] = StatusAt(ex[s])
  /\ ex[s] \notin {"new", "wait", "run"} => quiet[OwnerOf[s]][s] = 0
  /\ ex[s] = "run" => quiet[OwnerOf[s]][s] < Expired
  /\ seen[OwnerOf[s]][s] = log[s]

(* No request is about to settle, reload or delete it.                     *)
Untouched(s) ==
  /\ s \notin gone
  /\ \A t \in Reader :
       /\ s \notin view[t].stale
       /\ view[t].at = "unlink" => view[t].want # s
       /\ \A e \in Elements(view[t].todo) :
            e.s = s => e \in Elements(seen[OwnerOf[s]][s])

KeptInv ==
  /\ torn = {} /\ \A h \in Hub : up[h] = "up"
  /\ late = {} /\ \A x \in Session \cup Reader : post[x] = None
  /\ \A s \in Session : ~Over(s) => Fresh(s) /\ Untouched(s)

(* What a step may do to a session.                                        *)
Stays(s) ==
  /\ Over(s) => Over(s)'
  /\ ~Over(s) => /\ ~Over(s)' => Fresh(s)' /\ Untouched(s)'
                 /\ status'[OwnerOf[s]][s] \notin Final

LEMMA KeptInit == Init /\ Alone => KeptInv
  <1> SUFFICES ASSUME Init PROVE KeptInv
    OBVIOUS
  <1>1. \A s \in Session : OwnerOf[s] \in Hub
    BY Placement
  <1>2. IdleView.at = "idle" /\ IdleView.todo = <<>> /\ IdleView.stale = {}
    BY DEF IdleView
  <1>3. \A s \in Session : Fresh(s)
    BY <1>1 DEF Init, Fresh, StatusAt
  <1>4. \A s \in Session : Untouched(s)
    BY <1>1, <1>2, EmptyElements DEF Init, Untouched
  <1> QED
    BY <1>3, <1>4 DEF Init, KeptInv

(* A fresh session is open, without being stale.                           *)
LEMMA FreshIsNotStale ==
  ASSUME TakeInv, Alone, NEW s \in Session, Fresh(s), NEW h \in Hub
  PROVE  ~Stale(h, s) /\ status[h][s] \notin Final
  <1>1. OwnerOf[s] = h
    BY Placement DEF Alone
  <1>2. None \notin Status
    BY Distinct
  <1>3. quiet[h][s] \in Age
    BY DEF TakeInv, TypeOK, MemoryOK
  <1>4. status[h][s] \notin Final /\ (ex[s] = "new" => status[h][s] \notin Open)
    BY <1>1, <1>2 DEF Fresh, StatusAt, Final, Open, Status
  <1>5. CASE ex[s] = "new"
    BY <1>4, <1>5 DEF Stale
  <1>6. CASE ex[s] = "wait"
    BY <1>1, <1>4, <1>6 DEF Stale, Managed, Fresh, StatusAt
  <1>7. CASE ex[s] = "run"
    BY <1>1, <1>3, <1>4, <1>7 DEF Stale, Fresh, Age, Expired
  <1>8. CASE ex[s] \notin {"new", "wait", "run"}
    BY <1>1, <1>3, <1>4, <1>8 DEF Stale, Fresh, Age, Expired
  <1> QED
    BY <1>5, <1>6, <1>7, <1>8

LEMMA FreshIsOpen ==
  ASSUME TakeInv, NEW s \in Session, Fresh(s)
  PROVE  status[OwnerOf[s]][s] \notin Final
  BY Distinct DEF Fresh, StatusAt, Final, Status

(* A session that a step leaves alone, apart from the requests.            *)
LEMMA LeftAlone ==
  ASSUME TakeInv, KeptInv, NEW s \in Session,
         ex'[s] = ex[s], alive'[s] = alive[s], log'[s] = log[s],
         status'[OwnerOf[s]][s] = status[OwnerOf[s]][s],
         seen'[OwnerOf[s]][s] = seen[OwnerOf[s]][s],
         quiet'[OwnerOf[s]][s] = quiet[OwnerOf[s]][s],
         ~Over(s) => Untouched(s)'
  PROVE  Stays(s)
  <1>1. Over(s)' <=> Over(s)
    BY DEF Over
  <1>2. Fresh(s) => Fresh(s)'
    BY DEF Fresh
  <1>3. ~Over(s) => Fresh(s)
    BY DEF KeptInv
  <1> QED
    BY <1>1, <1>2, <1>3, FreshIsOpen DEF Stays

LEMMA RequestsKept ==
  ASSUME KeptInv, NEW s \in Session, ~Over(s), UNCHANGED <<view, gone>>,
         Elements(seen[OwnerOf[s]][s]) \subseteq Elements(seen'[OwnerOf[s]][s])
  PROVE  Untouched(s)'
  <1>1. Untouched(s)
    BY DEF KeptInv
  <1> QED
    BY <1>1 DEF Untouched

LEMMA ExecAppendStays ==
  ASSUME TakeInv, KeptInv, Alone, NEW s \in Session, NEW at, NEW kind \in Kind, NEW to,
         ExecAppend(s, at, kind, to),
         \/ <<at, to>> \in {<<"create", "wait">>, <<"wait", "prompted">>,
                            <<"started", "run">>, <<"finish", "done">>}
         \/ at = "run" /\ to = "run" /\ alive[s]
  PROVE  Stays(s) /\ UNCHANGED <<torn, up, late, post>>
  <1>1. /\ ex \in [Session -> Place] /\ alive \in [Session -> BOOLEAN]
        /\ log \in [Session -> Seq(Event)] /\ quiet \in [Hub -> [Session -> Age]]
        /\ seen \in [Hub -> [Session -> Seq(Event)]] /\ OwnerOf[s] \in Hub
    BY Placement DEF TakeInv, TypeOK, ExecOK, DiskOK, MemoryOK
  <1>2. s \notin torn
    BY DEF KeptInv
  <1>3. /\ ex[s] = at /\ ex'[s] = to
        /\ \E e \in Event : Appends(s, e)
    BY <1>1, <1>2, ExecAppends
  <1>4. PICK e \in Event : Appends(s, e)
    BY <1>3
  <1>5. /\ UNCHANGED <<torn, up, late, view, gone, status, alive>>
        /\ seen'[OwnerOf[s]][s] = Append(seen[OwnerOf[s]][s], e)
        /\ log'[s] = Append(log[s], e)
    BY <1>1, <1>4 DEF Appends
  <1>6. post' = post
    <2>1. ~Attached(OwnerOf[s])
      BY <1>1, Distinct DEF Attached, Alone
    <2> QED
      BY <1>4, <2>1 DEF Appends
  <1>7. CASE at = "finish"
    BY <1>3, <1>5, <1>6, <1>7 DEF KeptInv, Fresh, Stays, Over
  <1>8. CASE at # "finish"
    <2>1. ~Over(s) /\ ~Over(s)'
      BY <1>3, <1>5, <1>8 DEF KeptInv, Fresh, Over
    <2>2. Fresh(s) /\ Untouched(s)
      BY <2>1 DEF KeptInv
    <2>3. Elements(seen[OwnerOf[s]][s]) \subseteq Elements(seen'[OwnerOf[s]][s])
      BY <1>1, <1>5, AppendElements
    <2>4. Untouched(s)'
      BY <1>5, <2>1, <2>3, RequestsKept
    <2>5. quiet'[OwnerOf[s]][s] = 0 \/ to = "wait"
      <3>1. status[OwnerOf[s]][s] # None
        BY <1>3, <1>8, <2>2, Distinct DEF Fresh, StatusAt, Status, Open
      <3> QED
        BY <1>1, <1>4, <3>1 DEF Appends
    <2>6. Fresh(s)'
      BY <1>3, <1>5, <1>8, <2>2, <2>5 DEF Fresh, StatusAt, Expired
    <2>7. status'[OwnerOf[s]][s] \notin Final
      BY <1>5, <2>2, FreshIsOpen
    <2> QED
      BY <1>5, <1>6, <2>1, <2>4, <2>6, <2>7 DEF Stays
  <1> QED
    BY <1>5, <1>6, <1>7, <1>8

LEMMA ExecSetStays ==
  ASSUME TakeInv, KeptInv, Alone, NEW s \in Session, NEW at, NEW new \in Status, NEW to,
         ExecSet(s, at, new, to),
         \/ at = "prompted" /\ new = "sending" /\ to = "sending"
         \/ at = "spawned" /\ new = "running" /\ to = "started"
         \/ at = "run" /\ to = "finish" /\ ~alive[s]
  PROVE  Stays(s) /\ UNCHANGED <<torn, up, late, post>>
  <1>1. /\ ex \in [Session -> Place] /\ alive \in [Session -> BOOLEAN]
        /\ status \in [Hub -> [Session -> Status \cup {None}]]
        /\ quiet \in [Hub -> [Session -> Age]] /\ OwnerOf[s] \in Hub
    BY Placement DEF TakeInv, TypeOK, ExecOK, MemoryOK
  <1>2. ex[s] = at /\ UNCHANGED <<torn, up, late, post, view, gone, alive, seen, log>>
    BY DEF ExecSet, SetStatus
  <1>3. CASE at = "run"
    <2>1. ex'[s] \in {"finish", "failed"}
      BY <1>1, <1>3 DEF ExecSet
    <2> QED
      BY <1>2, <1>3, <2>1 DEF Stays, Over
  <1>4. CASE at # "run"
    <2>1. ~Over(s) /\ Fresh(s) /\ Untouched(s)
      BY <1>2, <1>4 DEF Over, KeptInv
    <2>2. status[OwnerOf[s]][s] # None
      BY <1>2, <1>4, <2>1, Distinct DEF Fresh, StatusAt, Status, Open
    <2>3. ex' = [ex EXCEPT ![s] = to] /\ SetStatus(OwnerOf[s], s, new)
      BY <2>2, ExecSets
    <2>4. ex'[s] = to /\ status'[OwnerOf[s]][s] = new /\ quiet'[OwnerOf[s]][s] = 0
      BY <1>1, <2>3 DEF SetStatus
    <2>5. Fresh(s)' /\ ~Over(s)'
      BY <1>2, <1>4, <2>1, <2>4 DEF Fresh, Over, StatusAt
    <2>6. Untouched(s)'
      BY <1>2, <2>1, RequestsKept
    <2> QED
      BY <1>2, <1>4, <2>1, <2>4, <2>5, <2>6 DEF Stays, Final
  <1> QED
    BY <1>2, <1>3, <1>4

LEMMA ExecuteStays ==
  ASSUME TakeInv, KeptInv, Alone, NEW s \in Session, Execute(s) \/ Exit(s)
  PROVE  /\ \A r \in Session : Stays(r)
         /\ UNCHANGED <<torn, up, late, post>>
  <1>1. {"queued", "running", "completed", "note"} \subseteq Kind
        /\ {"queued", "sending", "running", "completed"} \subseteq Status
    BY DEF Kind, Status, Final, Open
  <1>2. /\ ex \in [Session -> Place] /\ alive \in [Session -> BOOLEAN]
        /\ status \in [Hub -> [Session -> Status \cup {None}]]
        /\ quiet \in [Hub -> [Session -> Age]] /\ OwnerOf[s] \in Hub
    BY Placement DEF TakeInv, TypeOK, ExecOK, MemoryOK
  <1>3. Stays(s) /\ UNCHANGED <<torn, up, late, post>>
    <2>1. CASE LogCreated(s) \/ LogPrompt(s) \/ LogStarted(s)
      BY <1>1, <2>1, ExecAppendStays DEF LogCreated, LogPrompt, LogStarted
    <2>2. CASE Heartbeat(s) \/ LogCompleted(s)
      BY <1>1, <2>2, ExecAppendStays DEF Heartbeat, LogCompleted
    <2>3. CASE SetSending(s) \/ SetRunning(s) \/ SetCompleted(s)
      BY <1>1, <2>3, ExecSetStays DEF SetSending, SetRunning, SetCompleted
    <2>4. CASE CreateSession(s)
      <3>1. /\ ex[s] = "new" /\ ex'[s] = "create"
            /\ status'[OwnerOf[s]][s] = "queued" /\ quiet'[OwnerOf[s]][s] = 0
            /\ UNCHANGED <<torn, up, late, post, view, gone, alive, seen, log>>
        BY <1>2, <2>4 DEF CreateSession, SetStatus
      <3>2. ~Over(s) /\ Fresh(s)
        BY <3>1 DEF Over, KeptInv
      <3>3. Fresh(s)'
        BY <3>1, <3>2 DEF Fresh, StatusAt
      <3>4. Untouched(s)'
        BY <3>1, <3>2, RequestsKept
      <3> QED
        BY <3>1, <3>2, <3>3, <3>4 DEF Stays, Final
    <2>5. CASE Spawn(s)
      <3>1. /\ ex[s] = "sending" /\ ex'[s] = "spawned" /\ alive'[s] = TRUE
            /\ UNCHANGED <<torn, up, late, post, view, gone, status, quiet, seen, log>>
        BY <1>2, <2>5 DEF Spawn
      <3>2. ~Over(s) /\ Fresh(s)
        BY <3>1 DEF Over, KeptInv
      <3>3. Fresh(s)'
        BY <3>1, <3>2 DEF Fresh, StatusAt
      <3>4. Untouched(s)'
        BY <3>1, <3>2, RequestsKept
      <3>5. status'[OwnerOf[s]][s] \notin Final
        BY <3>1, <3>2, FreshIsOpen
      <3> QED
        BY <3>1, <3>2, <3>3, <3>4, <3>5 DEF Stays
    <2>6. CASE Exit(s)
      <3>1. /\ alive[s] /\ alive'[s] = FALSE /\ ex[s] \notin {"spawned", "started"}
            /\ UNCHANGED <<torn, up, late, post, status, ex>>
        BY <1>2, <2>6 DEF Exit
      <3>2. ~Over(s) /\ Fresh(s)
        BY <3>1 DEF Over, KeptInv
      <3>3. Over(s)'
        BY <3>1, <3>2 DEF Over, Fresh
      <3>4. status'[OwnerOf[s]][s] \notin Final
        BY <3>1, <3>2, FreshIsOpen
      <3> QED
        BY <3>1, <3>2, <3>3, <3>4 DEF Stays
    <2> QED
      BY <2>1, <2>2, <2>3, <2>4, <2>5, <2>6 DEF Execute
  <1>4. ASSUME NEW r \in Session, r # s PROVE Stays(r)
    <2>1. OwnerOf[r] \in Hub
      BY Placement
    <2>2. /\ ex'[r] = ex[r] /\ alive'[r] = alive[r] /\ log'[r] = log[r]
          /\ status'[OwnerOf[r]][r] = status[OwnerOf[r]][r]
          /\ seen'[OwnerOf[r]][r] = seen[OwnerOf[r]][r]
          /\ quiet'[OwnerOf[r]][r] = quiet[OwnerOf[r]][r]
      BY <1>4, <2>1, OtherSessions
    <2>3. UNCHANGED <<view, gone>>
      BY DEF Execute, CreateSession, LogCreated, LogPrompt, SetSending, Spawn,
             SetRunning, LogStarted, Heartbeat, SetCompleted, LogCompleted,
             ExecAppend, ExecSet, Exit
    <2>4. ~Over(r) => Untouched(r)'
      BY <2>2, <2>3, RequestsKept
    <2> QED
      BY <2>2, <2>4, LeftAlone
  <1> QED
    BY <1>3, <1>4

(* Requests.  A step of reader t that changes the records of session c at  *)
(* most, which is over.                                                    *)
LEMMA ReaderStays ==
  ASSUME TakeInv, KeptInv, Alone, NEW t \in Reader, NEW c, c \in Session => Over(c),
         UNCHANGED <<ex, alive>>, gone' \subseteq gone \cup {c},
         \A r \in Session \ {c} :
           /\ log'[r] = log[r]
           /\ \A h \in Hub : /\ status'[h][r] = status[h][r]
                             /\ seen'[h][r] = seen[h][r] /\ quiet'[h][r] = quiet[h][r],
         \A u \in Reader \ {t} : view'[u] = view[u],
         \A r \in Session \ {c} : ~Over(r) =>
           /\ r \notin view'[t].stale
           /\ view'[t].at = "unlink" => view'[t].want # r
           /\ \A e \in Elements(view'[t].todo) :
                e.s = r => e \in Elements(seen[OwnerOf[r]][r])
  PROVE  \A r \in Session : Stays(r)
  <1> SUFFICES ASSUME NEW r \in Session PROVE Stays(r)
    OBVIOUS
  <1>1. CASE Over(r)
    BY <1>1 DEF Stays, Over
  <1>2. CASE ~Over(r)
    <2>1. r \in Session \ {c} /\ OwnerOf[r] \in Hub /\ Untouched(r)
      BY <1>2, Placement DEF KeptInv
    <2>2. /\ log'[r] = log[r] /\ status'[OwnerOf[r]][r] = status[OwnerOf[r]][r]
          /\ seen'[OwnerOf[r]][r] = seen[OwnerOf[r]][r]
          /\ quiet'[OwnerOf[r]][r] = quiet[OwnerOf[r]][r]
      BY <2>1
    <2>3. Untouched(r)'
      BY <1>2, <2>1, <2>2 DEF Untouched
    <2> QED
      BY <2>2, <2>3, LeftAlone
  <1> QED
    BY <1>1, <1>2

(* A step of reader t that changes only where it is.                       *)
LEMMA ReaderOnlyStays ==
  ASSUME TakeInv, KeptInv, Alone, NEW t \in Reader, NEW v, ViewOf(v),
         view' = [view EXCEPT ![t] = v], UNCHANGED <<ex, alive, gone, log, memory>>,
         \A r \in Session : ~Over(r) =>
           /\ r \notin v.stale
           /\ v.at = "unlink" => v.want # r
           /\ \A e \in Elements(v.todo) : e.s = r => e \in Elements(seen[OwnerOf[r]][r])
  PROVE  \A r \in Session : Stays(r)
  <1>1. view'[t] = v /\ \A u \in Reader \ {t} : view'[u] = view[u]
    BY OneViewMoves DEF TakeInv, TypeOK
  <1>2. PICK c : c \notin Session
    BY Distinct
  <1> QED
    BY <1>1, <1>2, ReaderStays

(* What a request has in hand is not of a fresh session.                   *)
LEMMA InHand ==
  ASSUME TakeInv, KeptInv, NEW t \in Reader
  PROVE  /\ ViewOf(view[t]) /\ HubOf[t] \in Hub
         /\ view[t].stale \subseteq Session
         /\ \A s \in view[t].stale : Over(s)
         /\ view[t].at \in {"mark", "log"} => view[t].cur \in view[t].stale
         /\ view[t].at = "unlink" => view[t].want \in Session /\ Over(view[t].want)
         /\ \A s \in Session : ~Over(s) =>
              /\ s \notin view[t].stale
              /\ view[t].at = "unlink" => view[t].want # s
              /\ \A e \in Elements(view[t].todo) :
                   e.s = s => e \in Elements(seen[OwnerOf[s]][s])
  <1>1. ViewOf(view[t]) /\ HubOf[t] \in Hub
    BY ViewOfReader, Placement DEF TakeInv, TypeOK
  <1>2. \A s \in Session : ~Over(s) => Untouched(s)
    BY DEF KeptInv
  <1> QED
    BY <1>1, <1>2 DEF Untouched, ViewOf, ViewTypes

LEMMA ReadFileStays ==
  ASSUME TakeInv, KeptInv, Alone, NEW t \in Reader, ReadFile(t)
  PROVE  \A s \in Session : Stays(s)
  <1>1. PICK f \in view[t].files :
          view' = [view EXCEPT ![t] = [view[t] EXCEPT !.files = view[t].files \ {f},
                                                      !.todo = log[f]]]
    BY DEF ReadFile
  <1> DEFINE v == [view[t] EXCEPT !.files = view[t].files \ {f}, !.todo = log[f]]
  <1>2. f \in Session /\ view[t].at = "load" /\ log[f] \in Seq(Event)
    BY InHand DEF ViewOf, ViewTypes, ReadFile, TakeInv, TypeOK, DiskOK
  <1>3. ViewOf(v) /\ v.todo = log[f] /\ v.stale = view[t].stale /\ v.at = "load"
    BY <1>2, InHand DEF ViewOf, ViewTypes
  <1>4. UNCHANGED <<ex, alive, gone, log, memory>>
    BY DEF ReadFile
  <1>5. ASSUME NEW r \in Session, ~Over(r), NEW e \in Elements(log[f]), e.s = r
        PROVE  e \in Elements(seen[OwnerOf[r]][r])
    <2>1. e.s = f
      BY <1>2, <1>5 DEF TakeInv, LogOK
    <2> QED
      BY <1>5, <2>1 DEF KeptInv, Fresh
  <1> HIDE DEF v
  <1>6. view' = [view EXCEPT ![t] = v]
    BY <1>1 DEF v
  <1>7. \A r \in Session : ~Over(r) =>
          /\ r \notin v.stale
          /\ v.at = "unlink" => v.want # r
          /\ \A e \in Elements(v.todo) : e.s = r => e \in Elements(seen[OwnerOf[r]][r])
    BY <1>3, <1>5, InHand
  <1> QED
    BY <1>3, <1>4, <1>6, <1>7, ReaderOnlyStays

LEMMA LoadLineStays ==
  ASSUME TakeInv, KeptInv, Alone, NEW t \in Reader, LoadLine(t)
  PROVE  \A s \in Session : Stays(s)
  <1> DEFINE v == [view[t] EXCEPT !.todo = Tail(@)]
  <1>1. PICK e \in Event : e = Head(view[t].todo) /\ e \in Elements(view[t].todo)
    BY InHand, TailElements DEF ViewOf, ViewTypes, LoadLine
  <1>2. /\ ViewOf(v) /\ Elements(v.todo) \subseteq Elements(view[t].todo)
        /\ v.stale = view[t].stale /\ v.at = "load" /\ view[t].at = "load"
    <2>1. view[t].todo \in Seq(Event) /\ view[t].todo # <<>> /\ view[t].at = "load"
      BY InHand DEF ViewOf, ViewTypes, LoadLine
    <2>2. /\ Tail(view[t].todo) \in Seq(Event)
          /\ Elements(Tail(view[t].todo)) \subseteq Elements(view[t].todo)
      BY <2>1, TailElements
    <2> QED
      BY <2>1, <2>2, InHand DEF ViewOf, ViewTypes
  <1>3. view' = [view EXCEPT ![t] = v] /\ UNCHANGED <<ex, alive, gone, log>>
    BY DEF LoadLine
  <1>4. \A r \in Session : ~Over(r) =>
          /\ r \notin v.stale
          /\ v.at = "unlink" => v.want # r
          /\ \A d \in Elements(v.todo) : d.s = r => d \in Elements(seen[OwnerOf[r]][r])
    BY <1>2, InHand
  <1> HIDE DEF v
  <1>5. CASE UNCHANGED memory
    BY <1>2, <1>3, <1>4, <1>5, ReaderOnlyStays
  <1>6. CASE e \notin Loaded(HubOf[t]) /\ Rebuild(HubOf[t], e)
    <2>1. e.s \in Session
      BY DEF Event
    <2>2. Over(e.s)
      <3>1. HubOf[t] = OwnerOf[e.s]
        BY <2>1, Placement DEF Alone
      <3> QED
        BY <1>1, <1>6, <2>1, <3>1, InHand DEF Loaded
    <2>3. /\ status \in [Hub -> [Session -> Status \cup {None}]]
          /\ seen \in [Hub -> [Session -> Seq(Event)]]
          /\ quiet \in [Hub -> [Session -> Age]] /\ HubOf[t] \in Hub
      BY InHand DEF TakeInv, TypeOK, MemoryOK
    <2>4. \A r \in Session \ {e.s} : \A h \in Hub :
            /\ status'[h][r] = status[h][r]
            /\ seen'[h][r] = seen[h][r] /\ quiet'[h][r] = quiet[h][r]
      BY <1>6, <2>1, <2>3 DEF Rebuild
    <2>5. view'[t] = v /\ \A u \in Reader \ {t} : view'[u] = view[u]
      BY <1>2, <1>3, OneViewMoves DEF TakeInv, TypeOK
    <2> QED
      BY <1>3, <1>4, <2>2, <2>4, <2>5, ReaderStays
  <1> QED
    BY <1>1, <1>5, <1>6 DEF LoadLine

LEMMA SettleMarkStays ==
  ASSUME TakeInv, KeptInv, Alone, NEW t \in Reader, SettleMark(t)
  PROVE  \A s \in Session : Stays(s)
  <1>1. UNCHANGED <<ex, alive, gone, log>> /\ view[t].at = "mark"
    BY DEF SettleMark
  <1>2. CASE view' = [view EXCEPT ![t] = IdleView] /\ UNCHANGED memory
    <2>1. \A r \in Session : ~Over(r) =>
            /\ r \notin IdleView.stale
            /\ IdleView.at = "unlink" => IdleView.want # r
            /\ \A e \in Elements(IdleView.todo) :
                 e.s = r => e \in Elements(seen[OwnerOf[r]][r])
      BY EmptyElements DEF IdleView
    <2> QED
      BY <1>1, <1>2, <2>1, ViewOfReader, ReaderOnlyStays
  <1>3. CASE /\ SetStatus(HubOf[t], view[t].cur, "error")
             /\ view' = [view EXCEPT ![t].at = "log"]
    <2> DEFINE v == [view[t] EXCEPT !.at = "log"]
    <2>1. view[t].cur \in Session /\ Over(view[t].cur)
      BY <1>1, InHand
    <2>2. ViewOf(v) /\ v.stale = view[t].stale /\ v.todo = view[t].todo /\ v.at = "log"
      BY <1>1, InHand DEF ViewOf, ViewTypes
    <2>3. /\ status \in [Hub -> [Session -> Status \cup {None}]]
          /\ seen \in [Hub -> [Session -> Seq(Event)]]
          /\ quiet \in [Hub -> [Session -> Age]] /\ HubOf[t] \in Hub
      BY InHand DEF TakeInv, TypeOK, MemoryOK
    <2>4. \A r \in Session \ {view[t].cur} : \A h \in Hub :
            /\ status'[h][r] = status[h][r]
            /\ seen'[h][r] = seen[h][r] /\ quiet'[h][r] = quiet[h][r]
      BY <1>3, <2>1, <2>3 DEF SetStatus
    <2>5. view' = [view EXCEPT ![t] = v]
      BY <1>3
    <2> HIDE DEF v
    <2>6. view'[t] = v /\ \A u \in Reader \ {t} : view'[u] = view[u]
      BY <2>2, <2>5, OneViewMoves DEF TakeInv, TypeOK
    <2> QED
      BY <1>1, <2>1, <2>2, <2>4, <2>6, InHand, ReaderStays
  <1> QED
    BY <1>2, <1>3 DEF SettleMark

LEMMA SettleLogStays ==
  ASSUME TakeInv, KeptInv, Alone, NEW t \in Reader, SettleLog(t)
  PROVE  (\A s \in Session : Stays(s)) /\ post' = post
  <1> DEFINE c == view[t].cur
             h == HubOf[t]
             v == [view[t] EXCEPT !.at = "settle", !.cur = None,
                                  !.stale = view[t].stale \ {c}]
  <1>1. UNCHANGED <<ex, alive, gone>> /\ AppendEvent(t, h, c, "error")
    BY DEF SettleLog
  <1>2. c \in Session /\ Over(c) /\ h \in Hub
    BY InHand DEF SettleLog
  <1>3. ViewOf(v) /\ v.stale \subseteq view[t].stale /\ v.todo = view[t].todo
        /\ v.at = "settle"
    BY InHand DEF ViewOf, ViewTypes
  <1>4. view' = [view EXCEPT ![t] = v]
    BY DEF SettleLog
  <1>5. /\ status' = status
        /\ \A r \in Session \ {c} :
             /\ log'[r] = log[r]
             /\ \A g \in Hub : seen'[g][r] = seen[g][r] /\ quiet'[g][r] = quiet[g][r]
    <2>1. /\ log \in [Session -> Seq(Event)] /\ seen \in [Hub -> [Session -> Seq(Event)]]
          /\ quiet \in [Hub -> [Session -> Age]]
      BY DEF TakeInv, TypeOK, MemoryOK, DiskOK
    <2>2. PICK e : e.s = c /\ WriteEvent(e)
      BY <1>1 DEF AppendEvent
    <2>3. \A r \in Session \ {c} : log'[r] = log[r]
      BY <1>2, <2>1, <2>2 DEF WriteEvent
    <2>4. \A r \in Session \ {c} : \A g \in Hub : seen'[g][r] = seen[g][r]
      BY <1>1, <1>2, <2>1 DEF AppendEvent
    <2>5. \A r \in Session \ {c} : \A g \in Hub : quiet'[g][r] = quiet[g][r]
      BY <1>1, <1>2, <2>1 DEF AppendEvent
    <2> QED
      BY <1>1, <2>3, <2>4, <2>5 DEF AppendEvent
  <1>6. post' = post
    <2>1. ~Attached(h)
      BY <1>2, Distinct DEF Attached, Alone
    <2> QED
      BY <1>1, <2>1 DEF AppendEvent
  <1> HIDE DEF v, h, c
  <1>7. view'[t] = v /\ \A u \in Reader \ {t} : view'[u] = view[u]
    BY <1>3, <1>4, OneViewMoves DEF TakeInv, TypeOK
  <1>8. \A r \in Session \ {c} : ~Over(r) =>
          /\ r \notin view'[t].stale
          /\ view'[t].at = "unlink" => view'[t].want # r
          /\ \A e \in Elements(view'[t].todo) :
               e.s = r => e \in Elements(seen[OwnerOf[r]][r])
    BY <1>3, <1>7, InHand
  <1> QED
    BY <1>1, <1>2, <1>5, <1>6, <1>7, <1>8, ReaderStays

LEMMA RemoveStays ==
  ASSUME TakeInv, KeptInv, Alone, NEW t \in Reader, Remove(t)
  PROVE  \A s \in Session : Stays(s)
  <1> DEFINE h == HubOf[t]
             s == view[t].want
  <1>1. UNCHANGED <<ex, alive, gone, log>> /\ view[t].at = "remove"
    BY DEF Remove
  <1>2. CASE view' = [view EXCEPT ![t] = IdleView] /\ UNCHANGED memory
    <2>1. \A r \in Session : ~Over(r) =>
            /\ r \notin IdleView.stale
            /\ IdleView.at = "unlink" => IdleView.want # r
            /\ \A e \in Elements(IdleView.todo) :
                 e.s = r => e \in Elements(seen[OwnerOf[r]][r])
      BY EmptyElements DEF IdleView
    <2> QED
      BY <1>1, <1>2, <2>1, ViewOfReader, ReaderOnlyStays
  <1>3. CASE /\ status[h][s] \in Final
             /\ status' = [status EXCEPT ![h][s] = None]
             /\ seen' = [seen EXCEPT ![h][s] = <<>>]
             /\ quiet' = [quiet EXCEPT ![h][s] = 0]
             /\ view' = [view EXCEPT ![t].at = "unlink"]
    <2> DEFINE v == [view[t] EXCEPT !.at = "unlink"]
    <2>1. s \in Session /\ h \in Hub
      BY <1>1, InHand DEF ViewOf
    <2>2. Over(s)
      BY <1>3, <2>1, FreshIsNotStale DEF KeptInv
    <2>3. ViewOf(v) /\ v.stale = view[t].stale /\ v.todo = view[t].todo
          /\ v.want = s
      BY <1>1, InHand DEF ViewOf, ViewTypes
    <2>4. /\ status \in [Hub -> [Session -> Status \cup {None}]]
          /\ seen \in [Hub -> [Session -> Seq(Event)]]
          /\ quiet \in [Hub -> [Session -> Age]]
      BY DEF TakeInv, TypeOK, MemoryOK
    <2>5. \A r \in Session \ {s} : \A g \in Hub :
            /\ status'[g][r] = status[g][r]
            /\ seen'[g][r] = seen[g][r] /\ quiet'[g][r] = quiet[g][r]
      BY <1>3, <2>1, <2>4
    <2>6. view' = [view EXCEPT ![t] = v]
      BY <1>3
    <2> HIDE DEF v, h, s
    <2>7. view'[t] = v /\ \A u \in Reader \ {t} : view'[u] = view[u]
      BY <2>3, <2>6, OneViewMoves DEF TakeInv, TypeOK
    <2> QED
      BY <1>1, <2>2, <2>3, <2>5, <2>7, InHand, ReaderStays
  <1> QED
    BY <1>2, <1>3 DEF Remove

LEMMA UnlinkStays ==
  ASSUME TakeInv, KeptInv, Alone, NEW t \in Reader, Unlink(t)
  PROVE  \A s \in Session : Stays(s)
  <1>1. /\ UNCHANGED <<ex, alive, memory>> /\ view[t].at = "unlink"
        /\ gone' = gone \cup {view[t].want} /\ log' = [log EXCEPT ![view[t].want] = <<>>]
        /\ view' = [view EXCEPT ![t] = IdleView]
    BY DEF Unlink
  <1>2. Over(view[t].want) /\ view[t].want \in Session
    BY <1>1, InHand
  <1>3. \A r \in Session \ {view[t].want} : log'[r] = log[r]
    BY <1>1 DEF TakeInv, TypeOK, DiskOK
  <1>4. view'[t] = IdleView /\ \A u \in Reader \ {t} : view'[u] = view[u]
    BY <1>1, ViewOfReader, OneViewMoves DEF TakeInv, TypeOK
  <1>5. /\ IdleView.stale = {} /\ IdleView.at = "idle"
        /\ Elements(IdleView.todo) = {}
    BY EmptyElements DEF IdleView
  <1> QED
    BY <1>1, <1>2, <1>3, <1>4, <1>5, ReaderStays

(* The steps that change nothing but where the request is.                 *)
LEMMA OnwardStays ==
  ASSUME TakeInv, KeptInv, Alone, NEW t \in Reader,
         Request(t) \/ Collect(t) \/ Recheck(t) \/ Refreshed(t)
  PROVE  \A s \in Session : Stays(s)
  <1>1. UNCHANGED <<ex, alive, gone, log, memory>>
    BY DEF Request, Collect, Recheck, Refreshed
  <1>2. PICK v : /\ view' = [view EXCEPT ![t] = v] /\ ViewOf(v)
                 /\ v.at # "unlink"
                 /\ \A s \in v.stale : s \in view[t].stale \/ Stale(HubOf[t], s)
                 /\ v.todo = view[t].todo \/ v.todo = <<>>
    <2>0. ViewOf(view[t]) /\ HubOf[t] \in Hub
      BY InHand
    <2>1. CASE Request(t)
      <3>1. PICK target \in {None} \cup Session :
              view' = [view EXCEPT ![t] =
                         [view[t] EXCEPT !.at = "load", !.files = Files, !.want = target]]
        BY <2>1 DEF Request
      <3>2. Files \subseteq Session
        BY DEF Files, TakeInv, TypeOK, DiskOK
      <3>3. LET v == [view[t] EXCEPT !.at = "load", !.files = Files, !.want = target]
            IN ViewOf(v) /\ v.at # "unlink" /\ v.stale = view[t].stale
               /\ v.todo = view[t].todo
        BY <2>0, <3>2 DEF ViewOf, ViewTypes
      <3> QED
        BY <3>1, <3>3
    <2>2. CASE Collect(t)
      <3>1. LET v == [view[t] EXCEPT !.at = "settle",
                                     !.stale = {s \in Session : Stale(HubOf[t], s)}]
            IN /\ view' = [view EXCEPT ![t] = v]
               /\ ViewOf(v) /\ v.at # "unlink" /\ v.todo = view[t].todo
               /\ v.stale = {s \in Session : Stale(HubOf[t], s)}
        BY <2>0, <2>2 DEF ViewOf, ViewTypes, Collect
      <3> QED
        BY <3>1
    <2>3. CASE Recheck(t)
      <3>1. PICK s \in view[t].stale :
              view' = [view EXCEPT ![t] =
                         IF status[HubOf[t]][s] \in Open
                         THEN [view[t] EXCEPT !.at = "mark", !.cur = s]
                         ELSE [view[t] EXCEPT !.stale = view[t].stale \ {s}]]
        BY <2>3 DEF Recheck
      <3>2. view[t].at = "settle" /\ s \in Session
        BY <2>0, <2>3 DEF Recheck, ViewOf, ViewTypes
      <3>3. LET v == [view[t] EXCEPT !.at = "mark", !.cur = s]
            IN ViewOf(v) /\ v.at # "unlink" /\ v.stale = view[t].stale
               /\ v.todo = view[t].todo
        BY <2>0, <3>2 DEF ViewOf, ViewTypes
      <3>4. LET v == [view[t] EXCEPT !.stale = view[t].stale \ {s}]
            IN ViewOf(v) /\ v.at # "unlink" /\ v.stale \subseteq view[t].stale
               /\ v.todo = view[t].todo
        BY <2>0, <3>2 DEF ViewOf, ViewTypes
      <3>5. CASE status[HubOf[t]][s] \in Open
        BY <3>1, <3>3, <3>5
      <3>6. CASE status[HubOf[t]][s] \notin Open
        BY <3>1, <3>4, <3>6
      <3> QED
        BY <3>5, <3>6
    <2>4. CASE Refreshed(t)
      <3>1. CASE view[t].want = None
        <4>1. view' = [view EXCEPT ![t] = IdleView]
          BY <2>4, <3>1 DEF Refreshed
        <4>2. IdleView.stale = {} /\ IdleView.at = "idle"
          BY DEF IdleView
        <4> QED
          BY <4>1, <4>2, ViewOfReader
      <3>2. CASE view[t].want # None
        <4>1. LET v == [view[t] EXCEPT !.at = "remove"]
              IN ViewOf(v) /\ v.at # "unlink" /\ v.stale = view[t].stale
                 /\ v.todo = view[t].todo /\ view' = [view EXCEPT ![t] = v]
          BY <2>0, <2>4, <3>2 DEF Refreshed, ViewOf, ViewTypes
        <4> QED
          BY <4>1
      <3> QED
        BY <3>1, <3>2
    <2> QED
      BY <2>1, <2>2, <2>3, <2>4
  <1>3. \A r \in Session : ~Over(r) =>
          /\ r \notin v.stale
          /\ v.at = "unlink" => v.want # r
          /\ \A e \in Elements(v.todo) : e.s = r => e \in Elements(seen[OwnerOf[r]][r])
    <2>1. \A r \in Session : ~Over(r) => ~Stale(HubOf[t], r)
      BY InHand, FreshIsNotStale DEF KeptInv
    <2> QED
      BY <1>2, <2>1, InHand, EmptyElements
  <1> QED
    BY <1>1, <1>2, <1>3, ReaderOnlyStays

LEMMA TickStays ==
  ASSUME TakeInv, KeptInv, Alone, Tick
  PROVE  \A s \in Session : Stays(s)
  <1> SUFFICES ASSUME NEW s \in Session PROVE Stays(s)
    OBVIOUS
  <1>1. OwnerOf[s] \in Hub /\ quiet[OwnerOf[s]][s] \in Age
    BY Placement DEF TakeInv, TypeOK, MemoryOK
  <1>2. /\ UNCHANGED <<log, status, seen, ex, alive, view, gone>>
        /\ ex[s] \in {"new", "wait", "run", "done", "failed", "dead"}
        /\ ex[s] = "run" /\ alive[s] => quiet[OwnerOf[s]][s] = 0
        /\ quiet'[OwnerOf[s]][s] =
             IF status[OwnerOf[s]][s] = None THEN 0 ELSE Older(quiet[OwnerOf[s]][s])
    BY <1>1 DEF Tick
  <1>3. CASE Over(s)
    BY <1>2, <1>3 DEF Stays, Over
  <1>4. CASE ~Over(s)
    <2>1. Fresh(s) /\ Untouched(s)
      BY <1>4 DEF KeptInv
    <2>2. ex[s] = "run" => quiet'[OwnerOf[s]][s] < Expired
      BY <1>1, <1>2, <2>1 DEF Fresh, Older, Expired
    <2>3. Fresh(s)'
      BY <1>2, <2>1, <2>2 DEF Fresh
    <2>4. Untouched(s)'
      BY <1>2, <1>4, RequestsKept
    <2>5. status'[OwnerOf[s]][s] \notin Final
      BY <1>2, <2>1, FreshIsOpen
    <2> QED
      BY <1>4, <2>3, <2>4, <2>5 DEF Stays
  <1> QED
    BY <1>3, <1>4

LEMMA StepStays ==
  ASSUME TakeInv, KeptInv, Alone, [Next]_vars
  PROVE  /\ \A r \in Session : Stays(r)
         /\ torn' \subseteq torn /\ UNCHANGED <<up, late, post>>
  <1>1. /\ \A h \in Hub : up[h] = "up"
        /\ torn = {} /\ late = {} /\ \A x \in Session \cup Reader : post[x] = None
    BY DEF KeptInv
  <1>2. ASSUME NEW s \in Session, Execute(s) \/ Exit(s)
        PROVE  (\A r \in Session : Stays(r)) /\ UNCHANGED <<torn, up, late, post>>
    BY <1>2, ExecuteStays
  <1>3. ASSUME NEW t \in Reader, Request(t) \/ Serve(t)
        PROVE  /\ \A r \in Session : Stays(r)
               /\ torn' \subseteq torn /\ UNCHANGED <<up, late, post>>
    <2>1. CASE Request(t) \/ Collect(t) \/ Recheck(t) \/ Refreshed(t)
      BY <2>1, OnwardStays DEF Request, Collect, Recheck, Refreshed
    <2>2. CASE ReadFile(t) \/ LoadLine(t) \/ SettleMark(t)
      BY <2>2, ReadFileStays, LoadLineStays, SettleMarkStays
         DEF ReadFile, LoadLine, SettleMark
    <2>3. CASE SettleLog(t)
      BY <2>3, SettleLogStays DEF SettleLog, AppendEvent
    <2>4. CASE Remove(t) \/ Unlink(t)
      BY <2>4, RemoveStays, UnlinkStays DEF Remove, Unlink
    <2> QED
      BY <1>3, <2>1, <2>2, <2>3, <2>4 DEF Serve
  <1>4. ASSUME NEW x \in Session \cup Reader, Ingest(x) \/ GiveUp(x) PROVE FALSE
    BY <1>1, <1>4 DEF Ingest, GiveUp
  <1>5. CASE IngestLate
    BY <1>1, <1>5 DEF IngestLate
  <1>6. CASE Tick
    BY <1>6, TickStays DEF Tick
  <1>7. ASSUME NEW h \in Hub, Crash(h) \/ Restart(h) \/ Booted(h) PROVE FALSE
    BY <1>1, <1>7 DEF Crash, Restart, Booted, Alone
  <1>8. CASE UNCHANGED vars
    <2>1. ASSUME NEW s \in Session PROVE Stays(s)
      <3>1. ~Over(s) => Untouched(s)'
        BY <1>8, RequestsKept DEF vars
      <3> QED
        BY <1>8, <3>1, LeftAlone DEF vars
    <2> QED
      BY <1>8, <2>1 DEF vars
  <1> QED
    BY <1>2, <1>3, <1>4, <1>5, <1>6, <1>7, <1>8 DEF Next

LEMMA KeptStep == TakeInv /\ KeptInv /\ Alone /\ [Next]_vars => KeptInv'
  BY StepStays DEF KeptInv, Stays

LEMMA KeptCorrect == Alone => (Spec => [](TakeInv /\ KeptInv))
  <1> SUFFICES ASSUME Alone PROVE Spec => [](TakeInv /\ KeptInv)
    OBVIOUS
  <1>1. Init => TakeInv /\ KeptInv
    BY TakeInit, KeptInit
  <1>2. TakeInv /\ KeptInv /\ [Next]_vars => (TakeInv /\ KeptInv)'
    BY TakeStep, KeptStep
  <1> QED
    BY <1>1, <1>2, PTL DEF Spec

(* RunningKept: on a directory with one server that stays up, a run that   *)
(* waits for a worker or has a process is never deleted.                   *)
THEOREM RunningsAreKept == Alone => (Spec => []RunningKept)
  <1> SUFFICES ASSUME Alone PROVE Spec => []RunningKept
    OBVIOUS
  <1>1. TakeInv /\ KeptInv => RunningKept
    <2> SUFFICES ASSUME TakeInv, KeptInv, NEW s \in gone PROVE ~alive[s] /\ ex[s] # "wait"
      BY DEF RunningKept
    <2>1. Over(s)
      BY DEF KeptInv, Untouched, TakeInv, TypeOK, DiskOK
    <2> QED
      BY <2>1 DEF Over
  <1> QED
    BY <1>1, KeptCorrect, PTL

(* SettlesOnlyTheDead: there, no request gives up a run that waits for a   *)
(* worker or that agy serves, whatever it saw when it began.               *)
THEOREM OnlyTheDeadAreSettled == Alone => (Spec => SettlesOnlyTheDead)
  <1> SUFFICES ASSUME Alone PROVE Spec => SettlesOnlyTheDead
    OBVIOUS
  <1> DEFINE Settling == \A h \in Hub, s \in Session :
                           status[h][s] # "error" /\ status'[h][s] = "error"
                             => ~alive[s] /\ ex[s] # "wait"
  <1>1. TakeInv /\ KeptInv /\ [Next]_vars => [Settling]_vars
    <2> SUFFICES ASSUME TakeInv, KeptInv, [Next]_vars, NEW h \in Hub, NEW s \in Session,
                        status'[h][s] = "error"
                 PROVE  ~alive[s] /\ ex[s] # "wait"
      OBVIOUS
    <2>1. h = OwnerOf[s] /\ "error" \in Final
      BY Placement DEF Alone, Final
    <2>2. Stays(s)
      BY StepStays
    <2>3. Over(s)
      BY <2>1, <2>2 DEF Stays
    <2> QED
      BY <2>3 DEF Over
  <1> QED
    BY <1>1, KeptCorrect, PTL DEF Spec, SettlesOnlyTheDead

-----------------------------------------------------------------------------
(* No posts, no delays, no deletions: every hub follows the files.         *)

Calm == ~Ticks /\ Dash = None /\ Removers = {}

(* Nothing is stale, so that no request settles, and none deletes.         *)
Unaged ==
  /\ \A s \in Session : \A n \in DOMAIN age[s] : age[s][n] = 0
  /\ \A h \in Hub, s \in Session : quiet[h][s] = 0
  /\ gone = {}
  /\ \A t \in Reader :
       /\ view[t].at \in {"idle", "load", "settle"}
       /\ view[t].stale = {} /\ view[t].want = None

(* A file has its executor's events in order, up to a torn line that ended *)
(* the executor; event n is line n.                                        *)
FileOK(s) ==
  /\ s \in torn => ex[s] = "dead"
  /\ ex[s] # "dead" => Len(log[s]) = Len(age[s])
  /\ \A i \in DOMAIN log[s] : log[s][i].n = i
  /\ up[OwnerOf[s]] # "up" => ~Executing(s)

FollowOK(h, s) ==
  /\ Prefix(seen[h][s], log[s])
  /\ OwnerOf[s] = h /\ up[h] = "up" => seen[h][s] = log[s]

(* What is read and not yet applied are lines of one file, in their order, *)
(* the first of them no later than the next one the hub lacks.             *)
Line(e) == e.n \in DOMAIN log[e.s] /\ log[e.s][e.n] = e
TodoFollows(t) ==
  LET q == view[t].todo IN
  q # <<>> => /\ q[1].n <= Len(seen[HubOf[t]][q[1].s]) + 1
              /\ \A i \in DOMAIN q : /\ Line(q[i]) /\ q[i].s = q[1].s
                                     /\ q[i].n = q[1].n + i - 1

(* A server that boots still has to read what it lacks of its own runs.    *)
LastLine(q, s) == q # <<>> /\ q[Len(q)].s = s /\ q[Len(q)].n = Len(log[s])
BootFollows(t, s) ==
  OwnerOf[s] = HubOf[t] /\ up[HubOf[t]] = "boot" /\ view[t].at = "load"
    => \/ s \in view[t].files \/ seen[HubOf[t]][s] = log[s]
       \/ LastLine(view[t].todo, s)

FollowInv ==
  /\ Unaged
  /\ \A s \in Session : FileOK(s)
  /\ \A h \in Hub, s \in Session : FollowOK(h, s)
  /\ \A t \in Reader : TodoFollows(t)
  /\ \A t \in Reader, s \in Session : BootFollows(t, s)
  /\ \A t \in Reader : up[HubOf[t]] = "down" => view[t].at = "idle"

LEMMA CalmFacts ==
  ASSUME Calm, TakeInv
  PROVE  /\ late = {} /\ \A x \in Session \cup Reader : post[x] = None
         /\ \A h : ~Attached(h)
  <1>1. Dash \notin Hub
    BY Distinct DEF Calm
  <1> QED
    BY <1>1 DEF Calm, TakeInv, NetDated, Attached

(* The types the proofs below use. *)
LEMMA Shapes ==
  ASSUME TakeInv
  PROVE  /\ log \in [Session -> Seq(Event)] /\ age \in [Session -> Seq(Age)]
         /\ status \in [Hub -> [Session -> Status \cup {None}]]
         /\ seen \in [Hub -> [Session -> Seq(Event)]]
         /\ quiet \in [Hub -> [Session -> Age]]
         /\ ex \in [Session -> Place] /\ alive \in [Session -> BOOLEAN]
         /\ up \in [Hub -> {"up", "boot", "down"}]
         /\ \A s \in Session : /\ OwnerOf[s] \in Hub /\ log[s] \in Seq(Event)
                               /\ age[s] \in Seq(Age)
                               /\ \A e \in Elements(log[s]) : e.s = s
         /\ \A t \in Reader : /\ HubOf[t] \in Hub /\ ViewOf(view[t])
                              /\ view[t].todo \in Seq(Event)
  <1>1. \A t \in Reader : ViewOf(view[t])
    BY ViewOfReader DEF TakeInv, TypeOK
  <1>2. \A t \in Reader : HubOf[t] \in Hub /\ view[t].todo \in Seq(Event)
    BY <1>1, Placement DEF ViewOf, ViewTypes
  <1>3. \A s \in Session : OwnerOf[s] \in Hub
    BY Placement
  <1>4. /\ log \in [Session -> Seq(Event)] /\ age \in [Session -> Seq(Age)]
        /\ status \in [Hub -> [Session -> Status \cup {None}]]
        /\ seen \in [Hub -> [Session -> Seq(Event)]]
        /\ quiet \in [Hub -> [Session -> Age]]
        /\ ex \in [Session -> Place] /\ alive \in [Session -> BOOLEAN]
        /\ up \in [Hub -> {"up", "boot", "down"}]
    BY DEF TakeInv, TypeOK, DiskOK, MemoryOK, ExecOK, NetOK
  <1>5. \A s \in Session : \A e \in Elements(log[s]) : e.s = s
    BY DEF TakeInv, LogOK
  <1> QED
    BY <1>1, <1>2, <1>3, <1>4, <1>5

LEMMA PrefixFacts ==
  ASSUME NEW S, NEW p \in Seq(S), NEW q \in Seq(S)
  PROVE  /\ Prefix(q, q) /\ Prefix(<<>>, q)
         /\ Prefix(p, <<>>) => p = <<>>
         /\ Prefix(p, q) /\ Len(p) = Len(q) => p = q
  <1>1. Prefix(q, q)
    BY DEF Prefix
  <1>2. Prefix(<<>>, q)
    BY DEF Prefix
  <1>3. Prefix(p, <<>>) => p = <<>>
    BY DEF Prefix
  <1>4. Prefix(p, q) /\ Len(p) = Len(q) => p = q
    BY DEF Prefix
  <1> QED
    BY <1>1, <1>2, <1>3, <1>4

LEMMA PrefixAppend ==
  ASSUME NEW S, NEW p \in Seq(S), NEW q \in Seq(S), NEW e \in S, Prefix(p, q)
  PROVE  /\ Prefix(p, Append(q, e))
         /\ Len(p) + 1 \in DOMAIN q /\ q[Len(p) + 1] = e => Prefix(Append(p, e), q)
  <1>1. /\ Len(Append(q, e)) = Len(q) + 1 /\ Len(Append(p, e)) = Len(p) + 1
        /\ \A i \in 1 .. Len(q) : Append(q, e)[i] = q[i]
        /\ \A i \in 1 .. Len(p) : Append(p, e)[i] = p[i]
        /\ Append(p, e)[Len(p) + 1] = e
        /\ DOMAIN p = 1 .. Len(p) /\ DOMAIN q = 1 .. Len(q)
        /\ DOMAIN Append(p, e) = 1 .. Len(p) + 1
        /\ Len(p) \in Nat /\ Len(q) \in Nat
    OBVIOUS
  <1>2. Len(p) <= Len(q) /\ \A i \in DOMAIN p : p[i] = q[i]
    BY DEF Prefix
  <1>3. Prefix(p, Append(q, e))
    BY <1>1, <1>2 DEF Prefix
  <1>4. ASSUME Len(p) + 1 \in DOMAIN q, q[Len(p) + 1] = e
        PROVE  Prefix(Append(p, e), q)
    <2>1. \A i \in 1 .. Len(p) + 1 : Append(p, e)[i] = q[i]
      <3> SUFFICES ASSUME NEW i \in 1 .. Len(p) + 1 PROVE Append(p, e)[i] = q[i]
        OBVIOUS
      <3>1. CASE i = Len(p) + 1
        BY <1>1, <1>4, <3>1
      <3>2. CASE i \in 1 .. Len(p)
        BY <1>1, <1>2, <3>2
      <3> QED
        BY <1>1, <3>1, <3>2
    <2> QED
      BY <1>1, <1>2, <1>4, <2>1 DEF Prefix
  <1> QED
    BY <1>3, <1>4

LEMMA FollowInit == Init => FollowInv
  <1> SUFFICES ASSUME Init PROVE FollowInv
    OBVIOUS
  <1>1. /\ IdleView.at = "idle" /\ IdleView.todo = <<>> /\ IdleView.stale = {}
        /\ IdleView.want = None
    BY DEF IdleView
  <1>2. \A s \in Session : OwnerOf[s] \in Hub
    BY Placement
  <1>3. Unaged
    BY <1>1 DEF Init, Unaged
  <1>4. \A s \in Session : FileOK(s)
    BY <1>2 DEF Init, FileOK
  <1>5. \A h \in Hub, s \in Session : FollowOK(h, s)
    BY DEF Init, FollowOK, Prefix
  <1>6. \A t \in Reader : TodoFollows(t) /\ view[t].at = "idle"
    BY <1>1 DEF Init, TodoFollows
  <1>7. \A t \in Reader, s \in Session : BootFollows(t, s)
    BY <1>6 DEF BootFollows
  <1> QED
    BY <1>3, <1>4, <1>5, <1>6, <1>7 DEF FollowInv

LEMMA LengthOfSeen ==
  ASSUME TakeInv, NEW h \in Hub, NEW s \in Session
  PROVE  seen[h][s] \in Seq(Event) /\ Len(seen[h][s]) \in Nat
  <1>1. seen[h][s] \in Seq(Event)
    BY DEF TakeInv, TypeOK, MemoryOK
  <1> QED
    BY <1>1

(* Files that grow and hubs that take up more keep what is yet to apply.   *)
LEMMA TodoKept ==
  ASSUME TakeInv, TakeInv', NEW t \in Reader, TodoFollows(t),
         view'[t].todo = view[t].todo,
         \A d \in Event : Line(d) => Line(d)',
         \A r \in Session : Len(seen[HubOf[t]][r]) <= Len(seen'[HubOf[t]][r])
  PROVE  TodoFollows(t)'
  <1>1. view[t].todo \in Seq(Event) /\ HubOf[t] \in Hub
    BY Shapes
  <1>2. PICK q \in Seq(Event) : q = view[t].todo /\ q = view'[t].todo
    BY <1>1
  <1>3. CASE q = <<>>
    BY <1>2, <1>3 DEF TodoFollows
  <1>4. CASE q # <<>>
    <2>0. 1 \in DOMAIN q /\ \A i \in DOMAIN q : q[i] \in Event
      BY <1>4
    <2>1. \A i \in DOMAIN q : q[i] \in Event /\ q[i].s \in Session /\ q[i].n \in Nat
      BY <2>0 DEF Event
    <2>2. /\ q[1].n <= Len(seen[HubOf[t]][q[1].s]) + 1
          /\ \A i \in DOMAIN q : /\ Line(q[i]) /\ q[i].s = q[1].s
                                 /\ q[i].n = q[1].n + i - 1
      BY <1>2, <1>4 DEF TodoFollows
    <2>3. PICK r \in Session : r = q[1].s /\ q[1].n \in Nat
      BY <2>0, <2>1
    <2>4. /\ Len(seen[HubOf[t]][r]) \in Nat /\ Len(seen'[HubOf[t]][r]) \in Nat
          /\ Len(seen[HubOf[t]][r]) <= Len(seen'[HubOf[t]][r])
      <3>1. Len(seen[HubOf[t]][r]) \in Nat
        BY <1>1, LengthOfSeen
      <3>2. Len(seen'[HubOf[t]][r]) \in Nat
        BY <1>1 DEF TakeInv, TypeOK, MemoryOK
      <3> QED
        BY <3>1, <3>2
    <2>5. q[1].n <= Len(seen'[HubOf[t]][q[1].s]) + 1
      <3>1. q[1].n <= Len(seen[HubOf[t]][r]) + 1
        BY <2>0, <2>2, <2>3
      <3>2. q[1].n <= Len(seen'[HubOf[t]][r]) + 1
        <4>1. \A a, b, c \in Nat : a <= b + 1 /\ b <= c => a <= c + 1
          OBVIOUS
        <4> QED
          BY <2>3, <2>4, <3>1, <4>1, Zenon
      <3> QED
        BY <2>3, <3>2
    <2>6. \A i \in DOMAIN q : Line(q[i])'
      BY <2>1, <2>2
    <2> QED
      BY <1>2, <2>2, <2>5, <2>6 DEF TodoFollows
  <1> QED
    BY <1>3, <1>4

LEMMA BootKept ==
  ASSUME NEW t \in Reader, NEW s \in Session, BootFollows(t, s),
         view'[t] = view[t], up'[HubOf[t]] = up[HubOf[t]], log'[s] = log[s],
         seen'[HubOf[t]][s] = seen[HubOf[t]][s]
  PROVE  BootFollows(t, s)'
  BY DEF BootFollows, LastLine

(* The executor's events.                                                  *)
LEMMA ExecAppendFollows ==
  ASSUME TakeInv, TakeInv', FollowInv, Calm, NEW s \in Session, NEW at, NEW k \in Kind,
         NEW to, ExecAppend(s, at, k, to), to \in Place \ {"dead"},
         at \notin {"new", "done", "failed", "dead"}
  PROVE  FollowInv'
  <1>1. /\ log \in [Session -> Seq(Event)] /\ age \in [Session -> Seq(Age)]
        /\ seen \in [Hub -> [Session -> Seq(Event)]] /\ quiet \in [Hub -> [Session -> Age]]
        /\ ex \in [Session -> Place] /\ OwnerOf[s] \in Hub
        /\ \A t \in Reader : HubOf[t] \in Hub
    BY Shapes
  <1>2. ex[s] = at /\ up[OwnerOf[s]] = "up"
    BY DEF ExecAppend
  <1>3. s \in Session \ torn
    BY <1>2 DEF FollowInv, FileOK
  <1>4. PICK e \in Event : e.s = s /\ e.n = Len(age[s]) + 1 /\ Appends(s, e)
    BY <1>3, ExecAppends
  <1>5. ex' = [ex EXCEPT ![s] = to]
    BY <1>3, ExecAppends
  <1>6. /\ UNCHANGED <<torn, view, up, gone, late>>
        /\ log'[s] = Append(log[s], e) /\ age'[s] = Append(age[s], 0) /\ ex'[s] = to
        /\ seen'[OwnerOf[s]][s] = Append(seen[OwnerOf[s]][s], e)
        /\ \A r \in Session \ {s} : log'[r] = log[r] /\ age'[r] = age[r] /\ ex'[r] = ex[r]
        /\ \A h \in Hub, r \in Session :
             h # OwnerOf[s] \/ r # s => seen'[h][r] = seen[h][r]
    BY <1>1, <1>4, <1>5 DEF Appends
  <1>7. seen[OwnerOf[s]][s] = log[s]
    BY <1>1, <1>2 DEF FollowInv, FollowOK
  <1>8. Len(log[s]) = Len(age[s]) /\ \A i \in DOMAIN log[s] : log[s][i].n = i
    BY <1>2 DEF FollowInv, FileOK
  <1>9. /\ Len(Append(log[s], e)) = Len(log[s]) + 1 /\ Len(log[s]) \in Nat
        /\ Len(Append(age[s], 0)) = Len(age[s]) + 1
        /\ DOMAIN Append(log[s], e) = 1 .. Len(log[s]) + 1 /\ DOMAIN log[s] = 1 .. Len(log[s])
        /\ \A i \in 1 .. Len(log[s]) : Append(log[s], e)[i] = log[s][i]
        /\ Append(log[s], e)[Len(log[s]) + 1] = e
        /\ DOMAIN Append(age[s], 0) = 1 .. Len(age[s]) + 1 /\ DOMAIN age[s] = 1 .. Len(age[s])
        /\ \A i \in 1 .. Len(age[s]) : Append(age[s], 0)[i] = age[s][i]
        /\ Append(age[s], 0)[Len(age[s]) + 1] = 0 /\ Len(age[s]) \in Nat
    BY <1>1
  <1>10. Unaged'
    <2>1. \A i \in DOMAIN age'[s] : age'[s][i] = 0
      <3> SUFFICES ASSUME NEW i \in 1 .. Len(age[s]) + 1
                   PROVE  Append(age[s], 0)[i] = 0
        BY <1>6, <1>9
      <3>1. CASE i \in 1 .. Len(age[s])
        BY <1>9, <3>1 DEF FollowInv, Unaged
      <3> QED
        BY <1>9, <3>1
    <2>2. \A h \in Hub, r \in Session : quiet'[h][r] = 0
      BY <1>1, <1>4 DEF Appends, FollowInv, Unaged
    <2>3. \A r \in Session : \A i \in DOMAIN age'[r] : age'[r][i] = 0
      <3> SUFFICES ASSUME NEW r \in Session, NEW i \in DOMAIN age'[r] PROVE age'[r][i] = 0
        OBVIOUS
      <3>1. CASE r = s
        BY <2>1, <3>1
      <3>2. CASE r # s
        BY <1>6, <3>2 DEF FollowInv, Unaged
      <3> QED
        BY <3>1, <3>2
    <2> QED
      BY <1>6, <2>2, <2>3 DEF FollowInv, Unaged
  <1>11. ASSUME NEW r \in Session PROVE FileOK(r)'
    <2>1. CASE r = s
      <3>1. \A i \in DOMAIN log'[s] : log'[s][i].n = i
        <4> SUFFICES ASSUME NEW i \in 1 .. Len(log[s]) + 1
                     PROVE  Append(log[s], e)[i].n = i
          BY <1>6, <1>9
        <4>1. CASE i \in 1 .. Len(log[s])
          BY <1>8, <1>9, <4>1
        <4> QED
          BY <1>4, <1>8, <1>9, <4>1
      <3> QED
        BY <1>2, <1>3, <1>6, <1>8, <1>9, <2>1, <3>1 DEF FileOK, Executing
    <2>2. CASE r # s
      BY <1>6, <2>2 DEF FollowInv, FileOK, Executing
    <2> QED
      BY <2>1, <2>2
  <1>12. ASSUME NEW h \in Hub, NEW r \in Session PROVE FollowOK(h, r)'
    <2>1. CASE r # s
      BY <1>6, <2>1 DEF FollowInv, FollowOK
    <2>2. CASE r = s /\ h = OwnerOf[s]
      <3>1. seen'[h][s] = Append(log[s], e) /\ log'[s] = Append(log[s], e)
        BY <1>6, <1>7, <2>2
      <3>a. Append(log[s], e) \in Seq(Event)
        BY <1>1, AppendElements
      <3>2. Prefix(Append(log[s], e), Append(log[s], e))
        BY <3>a, PrefixFacts
      <3> QED
        BY <2>2, <3>1, <3>2 DEF FollowOK
    <2>3. CASE r = s /\ h # OwnerOf[s]
      <3>1. Prefix(seen[h][s], log[s]) /\ seen'[h][s] = seen[h][s]
        BY <1>6, <2>3 DEF FollowInv, FollowOK
      <3>2. Prefix(seen[h][s], Append(log[s], e))
        BY <1>1, <3>1, PrefixAppend
      <3> QED
        BY <1>6, <2>3, <3>1, <3>2 DEF FollowOK
    <2> QED
      BY <2>1, <2>2, <2>3
  <1>13. ASSUME NEW d \in Event, Line(d) PROVE Line(d)'
    <2>1. d.n \in DOMAIN log[d.s] /\ log[d.s][d.n] = d /\ d.s \in Session
      BY <1>13 DEF Line, Event
    <2>2. CASE d.s = s
      <3>1. d.n \in 1 .. Len(log[s]) + 1 /\ Append(log[s], e)[d.n] = d
        BY <1>9, <2>1, <2>2
      <3> QED
        BY <1>6, <1>9, <2>2, <3>1 DEF Line
    <2>3. CASE d.s # s
      BY <1>6, <2>1, <2>3 DEF Line
    <2> QED
      BY <2>2, <2>3
  <1>14. \A h \in Hub, r \in Session : Len(seen[h][r]) <= Len(seen'[h][r])
    <2>1. ASSUME NEW h \in Hub, NEW r \in Session PROVE Len(seen[h][r]) <= Len(seen'[h][r])
      <3>1. seen[h][r] \in Seq(Event)
        BY <1>1
      <3>2. seen'[h][r] = seen[h][r] \/ seen'[h][r] = Append(seen[h][r], e)
        BY <1>6
      <3> QED
        BY <3>1, <3>2
    <2> QED
      BY <2>1
  <1>15. ASSUME NEW t \in Reader PROVE TodoFollows(t)'
    BY <1>1, <1>6, <1>13, <1>14, TodoKept DEF FollowInv
  <1>16. ASSUME NEW t \in Reader, NEW r \in Session PROVE BootFollows(t, r)'
    <2>1. CASE r = s
      BY <1>2, <1>6, <2>1 DEF BootFollows
    <2>2. CASE r # s
      <3>1. /\ log'[r] = log[r] /\ seen'[HubOf[t]][r] = seen[HubOf[t]][r]
            /\ view'[t] = view[t] /\ up'[HubOf[t]] = up[HubOf[t]]
        BY <1>1, <1>6, <2>2
      <3>2. BootFollows(t, r)
        BY DEF FollowInv
      <3> QED
        BY <3>1, <3>2, BootKept
    <2> QED
      BY <2>1, <2>2
  <1> QED
    BY <1>6, <1>10, <1>11, <1>12, <1>15, <1>16 DEF FollowInv

(* The executor's other steps write nothing.                               *)
LEMMA QuietStepFollows ==
  ASSUME TakeInv, TakeInv', FollowInv, UNCHANGED <<log, torn, age, gone, seen, up, view>>,
         \A h \in Hub, s \in Session : quiet'[h][s] = 0,
         \A s \in Session : \/ ex'[s] = ex[s]
                            \/ /\ ex[s] # "dead" /\ ex'[s] # "dead"
                               /\ up[OwnerOf[s]] = "up"
  PROVE  FollowInv'
  <1>1. Unaged'
    BY DEF FollowInv, Unaged
  <1>2. \A s \in Session : FileOK(s)'
    BY DEF FollowInv, FileOK, Executing
  <1>3. \A h \in Hub, s \in Session : FollowOK(h, s)'
    BY DEF FollowInv, FollowOK
  <1>4. \A t \in Reader : TodoFollows(t)'
    BY DEF FollowInv, TodoFollows, Line
  <1>5. \A t \in Reader, s \in Session : BootFollows(t, s)'
    BY DEF FollowInv, BootFollows, LastLine
  <1> QED
    BY <1>1, <1>2, <1>3, <1>4, <1>5 DEF FollowInv

LEMMA ExecSetFollows ==
  ASSUME TakeInv, TakeInv', FollowInv, NEW s \in Session, NEW at, NEW new, NEW to,
         ExecSet(s, at, new, to), to # "dead", at # "dead"
  PROVE  FollowInv'
  <1>1. ex \in [Session -> Place] /\ quiet \in [Hub -> [Session -> Age]] /\ OwnerOf[s] \in Hub
    BY Shapes
  <1>2. UNCHANGED <<log, torn, age, gone, seen, up, view>>
    BY DEF ExecSet, SetStatus
  <1>3. \A h \in Hub, r \in Session : quiet'[h][r] = 0
    BY <1>1 DEF ExecSet, SetStatus, FollowInv, Unaged
  <1>4. ex[s] = at /\ up[OwnerOf[s]] = "up" /\ ex'[s] \in {to, "failed"}
    BY <1>1 DEF ExecSet
  <1>5. \A r \in Session \ {s} : ex'[r] = ex[r]
    BY <1>1 DEF ExecSet
  <1> QED
    BY <1>2, <1>3, <1>4, <1>5, QuietStepFollows

LEMMA ExecuteFollows ==
  ASSUME TakeInv, TakeInv', FollowInv, Calm, NEW s \in Session, Execute(s) \/ Exit(s)
  PROVE  FollowInv'
  <1>1. /\ {"queued", "running", "completed", "note"} \subseteq Kind
        /\ {"wait", "prompted", "run", "done"} \subseteq Place \ {"dead"}
    BY DEF Kind, Status, Final, Open, Place
  <1>2. CASE LogCreated(s) \/ LogPrompt(s) \/ LogStarted(s) \/ Heartbeat(s) \/ LogCompleted(s)
    BY <1>1, <1>2, ExecAppendFollows
       DEF LogCreated, LogPrompt, LogStarted, Heartbeat, LogCompleted
  <1>3. CASE SetSending(s) \/ SetRunning(s) \/ SetCompleted(s)
    BY <1>3, ExecSetFollows DEF SetSending, SetRunning, SetCompleted
  <1>4. CASE CreateSession(s) \/ Spawn(s) \/ Exit(s)
    <2>1. ex \in [Session -> Place] /\ quiet \in [Hub -> [Session -> Age]] /\ OwnerOf[s] \in Hub
      BY Shapes
    <2>2. UNCHANGED <<log, torn, age, gone, seen, up, view>>
      BY <1>4 DEF CreateSession, Spawn, Exit, SetStatus
    <2>3. \A h \in Hub, r \in Session : quiet'[h][r] = 0
      BY <1>4, <2>1 DEF CreateSession, Spawn, Exit, SetStatus, FollowInv, Unaged
    <2>4. \A r \in Session : \/ ex'[r] = ex[r]
                             \/ /\ ex[r] # "dead" /\ ex'[r] # "dead"
                                /\ up[OwnerOf[r]] = "up"
      BY <1>4, <2>1 DEF CreateSession, Spawn, Exit
    <2> QED
      BY <2>2, <2>3, <2>4, QuietStepFollows
  <1> QED
    BY <1>2, <1>3, <1>4 DEF Execute

-----------------------------------------------------------------------------
(* Requests only read.                                                     *)

LEMMA ReaderFollows ==
  ASSUME TakeInv, TakeInv', FollowInv, NEW t \in Reader,
         UNCHANGED <<log, torn, age, ex, gone, up>>,
         \A u \in Reader \ {t} : view'[u] = view[u],
         \A h \in Hub, s \in Session :
           /\ quiet'[h][s] = 0 /\ FollowOK(h, s)'
           /\ Len(seen[h][s]) <= Len(seen'[h][s])
           /\ seen[h][s] = log[s] => seen'[h][s] = seen[h][s],
         view'[t].at \in {"idle", "load", "settle"}, view'[t].stale = {},
         view'[t].want = None, up[HubOf[t]] # "down",
         TodoFollows(t)', \A s \in Session : BootFollows(t, s)'
  PROVE  FollowInv'
  <1>1. Unaged'
    BY DEF FollowInv, Unaged
  <1>2. \A s \in Session : FileOK(s)'
    BY DEF FollowInv, FileOK, Executing
  <1>3. ASSUME NEW u \in Reader \ {t} PROVE TodoFollows(u)'
    <2>1. \A d \in Event : Line(d) => Line(d)'
      BY DEF Line
    <2>2. HubOf[u] \in Hub
      BY Placement
    <2> QED
      BY <2>1, <2>2, TodoKept DEF FollowInv
  <1>4. ASSUME NEW u \in Reader \ {t}, NEW s \in Session PROVE BootFollows(u, s)'
    <2>1. HubOf[u] \in Hub /\ BootFollows(u, s)
      BY Placement DEF FollowInv
    <2>2. seen[HubOf[u]][s] = log[s] => seen'[HubOf[u]][s] = log'[s]
      BY <2>1
    <2>3. view'[u] = view[u]
      OBVIOUS
    <2> QED
      BY <2>1, <2>2, <2>3 DEF BootFollows, LastLine
  <1>5. \A u \in Reader : up'[HubOf[u]] = "down" => view'[u].at = "idle"
    BY DEF FollowInv
  <1> QED
    BY <1>1, <1>2, <1>3, <1>4, <1>5 DEF FollowInv

LEMMA OnwardFollows ==
  ASSUME TakeInv, TakeInv', FollowInv, Calm, NEW t \in Reader,
         Request(t) \/ ReadFile(t) \/ Collect(t) \/ Refreshed(t)
  PROVE  FollowInv'
  <1>1. /\ UNCHANGED <<log, torn, age, ex, gone, up, seen, quiet>>
        /\ up[HubOf[t]] # "down"
    BY DEF Request, ReadFile, Collect, Refreshed
  <1>2. /\ ViewOf(view[t]) /\ HubOf[t] \in Hub /\ TypeOK /\ ViewOK
        /\ view[t].todo \in Seq(Event)
        /\ view[t].stale = {} /\ view[t].want = None
    BY Shapes DEF TakeInv, TypeOK, FollowInv, Unaged
  <1>3. \A h \in Hub, s \in Session :
          /\ quiet'[h][s] = 0 /\ FollowOK(h, s)'
          /\ Len(seen[h][s]) <= Len(seen'[h][s])
          /\ seen[h][s] = log[s] => seen'[h][s] = seen[h][s]
    <2> SUFFICES ASSUME NEW h \in Hub, NEW s \in Session
                 PROVE  /\ quiet'[h][s] = 0 /\ FollowOK(h, s)'
                        /\ Len(seen[h][s]) <= Len(seen'[h][s])
      BY <1>1
    <2>1. Len(seen[h][s]) \in Nat
      BY LengthOfSeen
    <2> QED
      BY <1>1, <2>1 DEF FollowInv, Unaged, FollowOK
  <1>4. CASE Request(t)
    <2> DEFINE v == [view[t] EXCEPT !.at = "load", !.files = Files, !.want = None]
    <2>1. view' = [view EXCEPT ![t] = v] /\ view[t].at = "idle" /\ up[HubOf[t]] = "up"
      BY <1>4 DEF Request, Calm
    <2>2. Files \subseteq Session
      BY DEF Files, TakeInv, TypeOK, DiskOK
    <2>3. /\ ViewOf(v) /\ v.at = "load" /\ v.stale = {} /\ v.want = None
          /\ v.todo = view[t].todo
      BY <1>2, <2>2 DEF ViewOf, ViewTypes
    <2> HIDE DEF v
    <2>4. view'[t] = v /\ \A u \in Reader \ {t} : view'[u] = view[u]
      BY <1>2, <2>1, <2>3, OneViewMoves
    <2>5. TodoFollows(t)'
      <3>1. \A d \in Event : Line(d) => Line(d)'
        BY <1>1 DEF Line
      <3>2. TodoFollows(t) /\ view'[t].todo = view[t].todo
        BY <2>3, <2>4 DEF FollowInv
      <3> QED
        BY <1>2, <1>3, <3>1, <3>2, TodoKept
    <2>6. \A s \in Session : BootFollows(t, s)'
      BY <1>1, <2>1 DEF BootFollows
    <2> QED
      BY <1>1, <1>3, <2>3, <2>4, <2>5, <2>6, ReaderFollows
  <1>5. CASE ReadFile(t)
    <2>1. PICK f \in view[t].files :
            view' = [view EXCEPT ![t] = [view[t] EXCEPT !.files = view[t].files \ {f},
                                                        !.todo = log[f]]]
      BY <1>5 DEF ReadFile
    <2> DEFINE v == [view[t] EXCEPT !.files = view[t].files \ {f}, !.todo = log[f]]
    <2>2. /\ f \in Session /\ view[t].at = "load" /\ view[t].todo = <<>>
          /\ log[f] \in Seq(Event)
      BY <1>2, <1>5, Shapes DEF ViewOf, ViewTypes, ReadFile
    <2>3. /\ ViewOf(v) /\ v.at = "load" /\ v.stale = {} /\ v.want = None
          /\ v.todo = log[f] /\ v.files = view[t].files \ {f}
      BY <1>2, <2>2 DEF ViewOf, ViewTypes
    <2>a. view' = [view EXCEPT ![t] = v]
      BY <2>1
    <2> HIDE DEF v
    <2>4. view'[t] = v /\ \A u \in Reader \ {t} : view'[u] = view[u]
      BY <1>2, <2>a, <2>3, OneViewMoves
    <2>5. TodoFollows(t)'
      <3>1. ASSUME log[f] # <<>>
            PROVE  /\ log[f][1].n = 1 /\ log[f][1].s = f
                   /\ \A i \in DOMAIN log[f] :
                        /\ log[f][i].s = f /\ log[f][i].n = i /\ Line(log[f][i])
        <4>1. /\ 1 \in DOMAIN log[f] /\ DOMAIN log[f] \subseteq Nat
              /\ \A i \in DOMAIN log[f] : log[f][i] \in Elements(log[f])
          BY <2>2, <3>1 DEF Elements
        <4>2. \A i \in DOMAIN log[f] : log[f][i].s = f /\ log[f][i].n = i
          BY <2>2, <4>1, Shapes DEF FollowInv, FileOK
        <4> QED
          BY <4>1, <4>2 DEF Line
      <3>2. Len(seen[HubOf[t]][f]) \in Nat
        BY <1>2, <2>2, LengthOfSeen
      <3>3. \A i \in DOMAIN log[f] : i = 1 + i - 1
        BY <2>2
      <3>4. ASSUME log[f] # <<>>
            PROVE  /\ log[f][1].n <= Len(seen[HubOf[t]][log[f][1].s]) + 1
                   /\ \A i \in DOMAIN log[f] :
                        /\ Line(log[f][i]) /\ log[f][i].s = log[f][1].s
                        /\ log[f][i].n = log[f][1].n + i - 1
        BY <3>1, <3>2, <3>3, <3>4
      <3>5. view'[t].todo = log[f] /\ seen' = seen /\ \A d : Line(d)' <=> Line(d)
        BY <1>1, <2>3, <2>4 DEF Line
      <3> QED
        BY <3>4, <3>5 DEF TodoFollows
    <2>6. ASSUME NEW s \in Session PROVE BootFollows(t, s)'
      <3>1. BootFollows(t, s) /\ FollowOK(HubOf[t], s) /\ ~LastLine(view[t].todo, s)
        BY <1>2, <2>2 DEF FollowInv, LastLine
      <3>2. CASE s # f
        BY <1>1, <2>2, <2>3, <2>4, <3>1, <3>2 DEF BootFollows
      <3>3. CASE s = f /\ log[f] = <<>>
        <4>1. seen[HubOf[t]][s] \in Seq(Event)
          BY <1>2, LengthOfSeen
        <4>2. seen[HubOf[t]][s] = log[s]
          BY <3>1, <3>3, <4>1, PrefixFacts DEF FollowOK
        <4> QED
          BY <1>1, <4>2 DEF BootFollows
      <3>4. CASE s = f /\ log[f] # <<>>
        <4>1. Len(log[f]) \in DOMAIN log[f] /\ log[f][Len(log[f])] \in Elements(log[f])
          BY <2>2, <3>4 DEF Elements
        <4>2. log[f][Len(log[f])].n = Len(log[f]) /\ log[f][Len(log[f])].s = f
          BY <2>2, <4>1, Shapes DEF FollowInv, FileOK
        <4>3. LastLine(log[f], s)
          BY <3>4, <4>2 DEF LastLine
        <4> QED
          BY <1>1, <2>3, <2>4, <4>3 DEF BootFollows, LastLine
      <3> QED
        BY <3>2, <3>3, <3>4
    <2> QED
      BY <1>1, <1>3, <2>3, <2>4, <2>5, <2>6, ReaderFollows
  <1>6. CASE Collect(t)
    <2> DEFINE v == [view[t] EXCEPT !.at = "settle", !.stale = {}]
    <2>1. {s \in Session : Stale(HubOf[t], s)} = {}
      <3>1. \A s \in Session : ~Stale(HubOf[t], s)
        BY <1>2 DEF Stale, Expired, FollowInv, Unaged
      <3> QED
        BY <3>1
    <2>2. /\ view' = [view EXCEPT ![t] = v] /\ up[HubOf[t]] = "up"
          /\ view[t].todo = <<>>
      BY <1>6, <2>1 DEF Collect, LoadDone
    <2>3. /\ ViewOf(v) /\ v.at = "settle" /\ v.stale = {} /\ v.want = None
          /\ v.todo = <<>>
      BY <1>2, <2>2 DEF ViewOf, ViewTypes
    <2> HIDE DEF v
    <2>4. view'[t] = v /\ \A u \in Reader \ {t} : view'[u] = view[u]
      BY <1>2, <2>2, <2>3, OneViewMoves
    <2>5. TodoFollows(t)' /\ \A s \in Session : BootFollows(t, s)'
      BY <2>3, <2>4 DEF TodoFollows, BootFollows
    <2> QED
      BY <1>1, <1>3, <2>3, <2>4, <2>5, ReaderFollows
  <1>7. CASE Refreshed(t)
    <2>1. view' = [view EXCEPT ![t] = IdleView]
      BY <1>2, <1>7 DEF Refreshed
    <2>2. /\ ViewOf(IdleView) /\ IdleView.at = "idle" /\ IdleView.stale = {}
          /\ IdleView.want = None /\ IdleView.todo = <<>>
      BY ViewOfReader DEF IdleView
    <2>4. view'[t] = IdleView /\ \A u \in Reader \ {t} : view'[u] = view[u]
      BY <1>2, <2>1, <2>2, OneViewMoves
    <2>5. TodoFollows(t)' /\ \A s \in Session : BootFollows(t, s)'
      BY <2>2, <2>4 DEF TodoFollows, BootFollows
    <2> QED
      BY <1>1, <1>3, <2>2, <2>4, <2>5, ReaderFollows
  <1> QED
    BY <1>4, <1>5, <1>6, <1>7

(* A line that is not loaded yet is the next one; one that is came before. *)
LEMMA HeadFollows ==
  ASSUME TakeInv, FollowInv, NEW t \in Reader, view[t].todo # <<>>, NEW e \in Event,
         e = Head(view[t].todo)
  PROVE  /\ e.s \in Session /\ e.n \in Nat \ {0} /\ Line(e)
         /\ e \in Loaded(HubOf[t]) => e.n <= Len(seen[HubOf[t]][e.s])
         /\ e \notin Loaded(HubOf[t]) => e.n = Len(seen[HubOf[t]][e.s]) + 1
  <1>1. /\ HubOf[t] \in Hub /\ e.s \in Session /\ e.n \in Nat \ {0}
        /\ view[t].todo \in Seq(Event)
    BY Shapes DEF Event
  <1>2. PICK p \in Seq(Event) : p = seen[HubOf[t]][e.s]
    BY <1>1, LengthOfSeen
  <1>3. PICK m \in Nat : m = Len(p) /\ DOMAIN p = 1 .. m
    BY <1>2
  <1>4. e = view[t].todo[1] /\ 1 \in DOMAIN view[t].todo
    BY <1>1
  <1>5. Line(e) /\ e.n <= m + 1
    BY <1>2, <1>3, <1>4 DEF FollowInv, TodoFollows
  <1>6. Prefix(p, log[e.s])
    BY <1>1, <1>2 DEF FollowInv, FollowOK
  <1>7. e \in Loaded(HubOf[t]) => e.n <= m
    <2> SUFFICES ASSUME NEW r \in Session, e \in Elements(seen[HubOf[t]][r]) PROVE e.n <= m
      BY DEF Loaded
    <2>1. r = e.s
      BY <1>1 DEF TakeInv, SeenOK
    <2>2. PICK i \in DOMAIN p : e = p[i]
      BY <1>2, <2>1 DEF Elements
    <2>3. log[e.s][i] = e /\ i \in DOMAIN log[e.s]
      <3>1. log[e.s] \in Seq(Event)
        BY <1>1, Shapes
      <3>2. Len(log[e.s]) \in Nat /\ DOMAIN log[e.s] = 1 .. Len(log[e.s])
        BY <3>1
      <3>3. Len(p) <= Len(log[e.s]) /\ log[e.s][i] = p[i]
        BY <1>6 DEF Prefix
      <3> QED
        BY <1>3, <2>2, <3>2, <3>3
    <2>4. e.n = i
      BY <1>1, <2>3 DEF FollowInv, FileOK
    <2> QED
      BY <1>3, <2>4
  <1>8. e.n <= m => e \in Loaded(HubOf[t])
    <2> SUFFICES ASSUME e.n \in DOMAIN p PROVE e \in Loaded(HubOf[t])
      BY <1>1, <1>3
    <2>1. p[e.n] = e
      BY <1>5, <1>6 DEF Prefix, Line
    <2>2. e \in Elements(seen[HubOf[t]][e.s])
      BY <1>2, <2>1 DEF Elements
    <2> QED
      BY <1>1, <2>2 DEF Loaded
  <1>9. e \notin Loaded(HubOf[t]) => e.n = m + 1
    BY <1>1, <1>5, <1>8
  <1> QED
    BY <1>1, <1>2, <1>3, <1>5, <1>7, <1>9

(* What a line of the file does to the hub that reads it: its list grows   *)
(* by that line at most, and it is the line's session that changes.        *)
LEMMA LoadLineAdds ==
  ASSUME TakeInv, FollowInv, NEW t \in Reader, LoadLine(t)
  PROVE  /\ up[HubOf[t]] # "down" /\ view[t].at = "load" /\ view[t].todo # <<>>
         /\ view[t].todo \in Seq(Event) /\ HubOf[t] \in Hub
         /\ view' = [view EXCEPT ![t].todo = Tail(@)]
         /\ UNCHANGED <<log, torn, age, ex, gone, up>>
         /\ \E e \in Event :
              /\ e = Head(view[t].todo)
              /\ \/ /\ e \in Loaded(HubOf[t]) /\ UNCHANGED memory
                    /\ e.n <= Len(seen[HubOf[t]][e.s])
                 \/ /\ e \notin Loaded(HubOf[t]) /\ Rebuild(HubOf[t], e)
                    /\ seen' = [seen EXCEPT ![HubOf[t]][e.s] = Append(@, e)]
                    /\ e.n = Len(seen[HubOf[t]][e.s]) + 1
  <1>1. view[t].todo # <<>> /\ view[t].todo \in Seq(Event) /\ HubOf[t] \in Hub
    BY Shapes DEF LoadLine
  <1>2. PICK e \in Event : e = Head(view[t].todo)
    BY <1>1, TailElements
  <1>3. \/ e \in Loaded(HubOf[t]) /\ UNCHANGED memory
        \/ e \notin Loaded(HubOf[t]) /\ Rebuild(HubOf[t], e)
    BY <1>2 DEF LoadLine
  <1>4. /\ e \in Loaded(HubOf[t]) => e.n <= Len(seen[HubOf[t]][e.s])
        /\ e \notin Loaded(HubOf[t]) => e.n = Len(seen[HubOf[t]][e.s]) + 1
    BY <1>1, <1>2, HeadFollows
  <1>5. Rebuild(HubOf[t], e) => seen' = [seen EXCEPT ![HubOf[t]][e.s] = Append(@, e)]
    BY DEF Rebuild
  <1>6. /\ up[HubOf[t]] # "down" /\ view[t].at = "load"
        /\ view' = [view EXCEPT ![t].todo = Tail(@)]
        /\ UNCHANGED <<log, torn, age, ex, gone, up>>
    BY DEF LoadLine
  <1> QED
    BY <1>1, <1>2, <1>3, <1>4, <1>5, <1>6

LEMMA TailFacts ==
  ASSUME NEW S, NEW q \in Seq(S), q # <<>>
  PROVE  /\ Tail(q) \in Seq(S) /\ Len(q) \in Nat \ {0} /\ Len(Tail(q)) = Len(q) - 1
         /\ DOMAIN q = 1 .. Len(q) /\ DOMAIN Tail(q) = 1 .. Len(q) - 1
         /\ \A i \in DOMAIN Tail(q) : i + 1 \in DOMAIN q /\ Tail(q)[i] = q[i + 1]
         /\ Head(q) = q[1] /\ 1 \in DOMAIN q /\ q[1] \in S
         /\ \A i \in DOMAIN q : q[i] \in S
  OBVIOUS

LEMMA LoadLineFollows ==
  ASSUME TakeInv, TakeInv', FollowInv, NEW t \in Reader, LoadLine(t)
  PROVE  FollowInv'
  <1> DEFINE v == [view[t] EXCEPT !.todo = Tail(@)]
  <1>1. /\ up[HubOf[t]] # "down" /\ view[t].at = "load" /\ view[t].todo # <<>>
        /\ view[t].todo \in Seq(Event) /\ HubOf[t] \in Hub
        /\ UNCHANGED <<log, torn, age, ex, gone, up>> /\ view' = [view EXCEPT ![t] = v]
    BY LoadLineAdds
  <1>2. PICK q \in Seq(Event) : q = view[t].todo /\ q # <<>>
    BY <1>1
  <1>3. PICK e \in Event :
          /\ e = Head(q)
          /\ \/ /\ e \in Loaded(HubOf[t]) /\ UNCHANGED memory
                /\ e.n <= Len(seen[HubOf[t]][e.s])
             \/ /\ e \notin Loaded(HubOf[t]) /\ Rebuild(HubOf[t], e)
                /\ seen' = [seen EXCEPT ![HubOf[t]][e.s] = Append(@, e)]
                /\ e.n = Len(seen[HubOf[t]][e.s]) + 1
    BY <1>2, LoadLineAdds
  <1>4. e.s \in Session /\ e.n \in Nat \ {0} /\ Line(e)
    BY <1>2, <1>3, HeadFollows
  <1>a. /\ Tail(q) \in Seq(Event) /\ Len(q) \in Nat \ {0}
        /\ DOMAIN Tail(q) = 1 .. Len(q) - 1 /\ Len(Tail(q)) = Len(q) - 1
        /\ \A i \in DOMAIN Tail(q) : i + 1 \in DOMAIN q /\ Tail(q)[i] = q[i + 1]
        /\ q[1] = e
    <2>1. q[1] = e
      BY <1>2, <1>3, TailFacts
    <2> QED
      BY <1>2, <2>1, TailFacts
  <1>5. /\ seen \in [Hub -> [Session -> Seq(Event)]] /\ log \in [Session -> Seq(Event)]
        /\ quiet \in [Hub -> [Session -> Age]] /\ age \in [Session -> Seq(Age)]
        /\ ViewOf(view[t]) /\ ViewOK
    BY Shapes DEF TakeInv, TypeOK
  <1>6. /\ ViewOf(v) /\ v.at = "load" /\ v.stale = {} /\ v.want = None
        /\ v.todo = Tail(q) /\ v.files = view[t].files
    <2>1. Tail(q) \in Seq(Event)
      BY <1>2
    <2> QED
      BY <1>1, <1>2, <1>5, <2>1 DEF ViewOf, ViewTypes, FollowInv, Unaged
  <1> HIDE DEF v
  <1>7. view'[t] = v /\ \A u \in Reader \ {t} : view'[u] = view[u]
    BY <1>1, <1>5, <1>6, OneViewMoves
  <1>8. PICK m \in Nat : m = Len(seen[HubOf[t]][e.s])
    BY <1>1, <1>4, LengthOfSeen
  <1>9. e.n <= Len(seen'[HubOf[t]][e.s]) /\ Len(seen'[HubOf[t]][e.s]) \in Nat
    <2>1. CASE seen' = seen /\ e.n <= Len(seen[HubOf[t]][e.s])
      BY <1>8, <2>1
    <2>2. CASE /\ seen' = [seen EXCEPT ![HubOf[t]][e.s] = Append(@, e)]
               /\ e.n = Len(seen[HubOf[t]][e.s]) + 1
      <3>1. seen'[HubOf[t]][e.s] = Append(seen[HubOf[t]][e.s], e)
        BY <1>1, <1>4, <1>5, <2>2
      <3>2. seen[HubOf[t]][e.s] \in Seq(Event)
        BY <1>1, <1>4, <1>5
      <3>3. Len(seen'[HubOf[t]][e.s]) = m + 1
        BY <1>8, <3>1, <3>2
      <3> QED
        BY <1>8, <2>2, <3>3
    <2> QED
      BY <1>3, <2>1, <2>2
  <1>10. \A h \in Hub, s \in Session :
           h # HubOf[t] \/ s # e.s => seen'[h][s] = seen[h][s]
    <2>1. seen' = seen \/ seen' = [seen EXCEPT ![HubOf[t]][e.s] = Append(@, e)]
      BY <1>3
    <2> QED
      BY <1>1, <1>4, <1>5, <2>1
  <1>11. ASSUME seen'[HubOf[t]][e.s] # seen[HubOf[t]][e.s]
         PROVE  /\ seen'[HubOf[t]][e.s] = Append(seen[HubOf[t]][e.s], e)
                /\ Prefix(Append(seen[HubOf[t]][e.s], e), log[e.s])
                /\ seen[HubOf[t]][e.s] # log[e.s]
    <2>1. /\ seen' = [seen EXCEPT ![HubOf[t]][e.s] = Append(@, e)]
          /\ e.n = m + 1
      BY <1>3, <1>8, <1>11
    <2>2. seen'[HubOf[t]][e.s] = Append(seen[HubOf[t]][e.s], e)
      BY <1>1, <1>4, <1>5, <2>1
    <2>3. PICK p \in Seq(Event), l \in Seq(Event) :
            p = seen[HubOf[t]][e.s] /\ l = log[e.s] /\ m = Len(p)
      BY <1>1, <1>4, <1>5, <1>8
    <2>4. m + 1 \in DOMAIN l /\ l[m + 1] = e
      BY <1>4, <2>1, <2>3 DEF Line
    <2>5. Prefix(p, l)
      BY <1>1, <1>4, <2>3 DEF FollowInv, FollowOK
    <2>6. Prefix(Append(p, e), l)
      BY <2>3, <2>4, <2>5, PrefixAppend
    <2>7. p # l
      BY <1>8, <2>3, <2>4
    <2> QED
      BY <2>2, <2>3, <2>6, <2>7
  <1>12. \A h \in Hub, s \in Session : quiet'[h][s] = 0
    <2>1. age[e.s][e.n] = 0
      <3>1. e \in Elements(q)
        BY <1>2, <1>3, TailElements
      <3>2. Dated(e)
        BY <1>2, <3>1 DEF TakeInv, TodoOK
      <3> QED
        BY <1>4, <3>2 DEF FollowInv, Unaged, Dated
    <2>2. \A h \in Hub, s \in Session : quiet[h][s] = 0
      BY DEF FollowInv, Unaged
    <2>3. CASE UNCHANGED memory
      BY <2>2, <2>3
    <2>4. CASE Rebuild(HubOf[t], e)
      BY <1>1, <1>4, <1>5, <2>1, <2>2, <2>4 DEF Rebuild
    <2> QED
      BY <1>3, <2>3, <2>4
  <1>13. ASSUME NEW h \in Hub, NEW s \in Session
         PROVE  /\ FollowOK(h, s)' /\ Len(seen[h][s]) <= Len(seen'[h][s])
                /\ seen[h][s] = log[s] => seen'[h][s] = seen[h][s]
    <2>1. FollowOK(h, s) /\ Len(seen[h][s]) \in Nat
      BY LengthOfSeen DEF FollowInv
    <2>2. CASE seen'[h][s] = seen[h][s]
      BY <1>1, <2>1, <2>2 DEF FollowOK
    <2>3. CASE seen'[h][s] # seen[h][s]
      <3>1. h = HubOf[t] /\ s = e.s
        BY <1>10, <2>3
      <3>2. /\ seen'[h][s] = Append(seen[h][s], e)
            /\ Prefix(seen'[h][s], log[s]) /\ seen[h][s] # log[s]
        BY <1>11, <2>3, <3>1
      <3>3. Len(seen[h][s]) <= Len(seen'[h][s])
        BY <1>5, <3>2
      <3> QED
        BY <1>1, <2>1, <3>2, <3>3 DEF FollowOK
    <2> QED
      BY <2>2, <2>3
  <1>14. TodoFollows(t)'
    <2> SUFFICES ASSUME Tail(q) # <<>>
                 PROVE  /\ Tail(q)[1].n <= Len(seen'[HubOf[t]][Tail(q)[1].s]) + 1
                        /\ \A i \in DOMAIN Tail(q) :
                             /\ Line(Tail(q)[i]) /\ Tail(q)[i].s = Tail(q)[1].s
                             /\ Tail(q)[i].n = Tail(q)[1].n + i - 1
      <3>1. view'[t].todo = Tail(q) /\ \A d : Line(d)' <=> Line(d)
        BY <1>1, <1>6, <1>7 DEF Line
      <3> QED
        BY <3>1 DEF TodoFollows
    <2>1. /\ Tail(q) \in Seq(Event) /\ Len(q) \in Nat \ {0}
          /\ DOMAIN Tail(q) = 1 .. Len(q) - 1 /\ Len(Tail(q)) = Len(q) - 1
          /\ \A i \in DOMAIN Tail(q) : i + 1 \in DOMAIN q /\ Tail(q)[i] = q[i + 1]
          /\ q[1] = e
      BY <1>a
    <2>2. 1 \in DOMAIN Tail(q) /\ DOMAIN Tail(q) \subseteq Nat
      BY <2>1
    <2>3. \A i \in DOMAIN q : Line(q[i]) /\ q[i].s = e.s /\ q[i].n = e.n + i - 1
      BY <1>2, <2>1 DEF FollowInv, TodoFollows
    <2>4. \A i \in DOMAIN Tail(q) : /\ Line(Tail(q)[i]) /\ Tail(q)[i].s = e.s
                                    /\ Tail(q)[i].n = e.n + i
      <3> SUFFICES ASSUME NEW i \in DOMAIN Tail(q)
                   PROVE  /\ Line(Tail(q)[i]) /\ Tail(q)[i].s = e.s
                          /\ Tail(q)[i].n = e.n + i
        OBVIOUS
      <3>1. i + 1 \in DOMAIN q /\ Tail(q)[i] = q[i + 1] /\ i \in Nat
        BY <2>1, <2>2
      <3>2. q[i + 1].n = e.n + (i + 1) - 1
        BY <2>3, <3>1
      <3> QED
        BY <1>4, <2>3, <3>1, <3>2
    <2>5. Tail(q)[1].s = e.s /\ Tail(q)[1].n = e.n + 1
      BY <2>2, <2>4
    <2>6. \A i \in DOMAIN Tail(q) : Tail(q)[i].n = Tail(q)[1].n + i - 1
      <3> SUFFICES ASSUME NEW i \in DOMAIN Tail(q)
                   PROVE  Tail(q)[i].n = Tail(q)[1].n + i - 1
        OBVIOUS
      <3>1. Tail(q)[i].n = e.n + i /\ i \in Nat
        BY <2>2, <2>4
      <3>2. e.n + i = (e.n + 1) + i - 1
        BY <1>4, <3>1
      <3> QED
        BY <2>5, <3>1, <3>2
    <2>7. e.n + 1 <= Len(seen'[HubOf[t]][e.s]) + 1
      BY <1>4, <1>9
    <2>8. Tail(q)[1].n <= Len(seen'[HubOf[t]][Tail(q)[1].s]) + 1
      BY <2>5, <2>7
    <2> QED
      BY <2>4, <2>5, <2>6, <2>8
  <1>15. ASSUME NEW s \in Session PROVE BootFollows(t, s)'
    <2> SUFFICES ASSUME OwnerOf[s] = HubOf[t], up[HubOf[t]] = "boot",
                        s \notin view[t].files, seen'[HubOf[t]][s] # log[s]
                 PROVE  LastLine(Tail(q), s)
      BY <1>1, <1>6, <1>7 DEF BootFollows, LastLine
    <2>1. LastLine(q, s)
      BY <1>1, <1>2, <1>13 DEF FollowInv, BootFollows
    <2>2. /\ Tail(q) \in Seq(Event) /\ Len(q) \in Nat \ {0}
          /\ DOMAIN Tail(q) = 1 .. Len(q) - 1 /\ Len(Tail(q)) = Len(q) - 1
          /\ \A i \in DOMAIN Tail(q) : i + 1 \in DOMAIN q /\ Tail(q)[i] = q[i + 1]
          /\ q[1] = e
      BY <1>a
    <2>3. CASE Len(q) = 1
      <3>1. e.s = s /\ e.n = Len(log[s])
        BY <2>1, <2>2, <2>3 DEF LastLine
      <3>2. FollowOK(HubOf[t], s)'
        BY <1>1, <1>13
      <3>3. Prefix(seen'[HubOf[t]][s], log[s])
        BY <1>1, <3>2 DEF FollowOK
      <3>4. PICK p \in Seq(Event), l \in Seq(Event) : p = seen'[HubOf[t]][s] /\ l = log[s]
        BY <1>1, <1>5 DEF TakeInv, TypeOK, MemoryOK
      <3>5. Len(p) = Len(l)
        <4>1. Len(p) <= Len(l) /\ Len(l) <= Len(p)
          BY <1>9, <3>1, <3>3, <3>4 DEF Prefix
        <4> QED
          BY <3>4, <4>1
      <3>6. p = l
        BY <3>3, <3>4, <3>5, PrefixFacts
      <3> QED
        BY <3>4, <3>6
    <2>4. CASE Len(q) # 1
      <3>1. Len(Tail(q)) \in DOMAIN Tail(q) /\ Len(Tail(q)) + 1 = Len(q)
        BY <2>2, <2>4
      <3>a. Tail(q)[Len(Tail(q))] = q[Len(Tail(q)) + 1]
        BY <2>2, <3>1
      <3>b. Tail(q) # <<>>
        <4>1. PICK r \in Seq(Event) : r = Tail(q)
          BY <2>2
        <4>2. Len(r) # 0
          BY <2>2, <2>4, <4>1
        <4> QED
          BY <4>1, <4>2
      <3>2. Tail(q)[Len(Tail(q))] = q[Len(q)] /\ Tail(q) # <<>>
        BY <3>1, <3>a, <3>b
      <3> QED
        BY <2>1, <3>2 DEF LastLine
    <2> QED
      BY <2>3, <2>4
  <1> QED
    BY <1>1, <1>6, <1>7, <1>12, <1>13, <1>14, <1>15, ReaderFollows

-----------------------------------------------------------------------------
(* Crashes and restarts.                                                   *)

LEMMA CrashFollows ==
  ASSUME TakeInv, FollowInv, NEW h \in Hub, Crash(h)
  PROVE  FollowInv'
  <1>1. /\ UNCHANGED <<log, age, gone>> /\ up' = [up EXCEPT ![h] = "down"]
        /\ seen' = [seen EXCEPT ![h] = [s \in Session |-> <<>>]]
        /\ quiet' = [quiet EXCEPT ![h] = [s \in Session |-> 0]]
        /\ ex' = [s \in Session |->
                    IF OwnerOf[s] = h /\ Executing(s) THEN "dead" ELSE ex[s]]
        /\ view' = [t \in Reader |-> IF HubOf[t] = h THEN IdleView ELSE view[t]]
    BY DEF Crash
  <1>2. /\ seen \in [Hub -> [Session -> Seq(Event)]] /\ log \in [Session -> Seq(Event)]
        /\ quiet \in [Hub -> [Session -> Age]] /\ up \in [Hub -> {"up", "boot", "down"}]
        /\ \A s \in Session : OwnerOf[s] \in Hub
    BY Shapes
  <1>3. /\ up'[h] = "down" /\ \A g \in Hub \ {h} : up'[g] = up[g]
        /\ \A s \in Session : seen'[h][s] = <<>> /\ quiet'[h][s] = 0
        /\ \A g \in Hub \ {h} : seen'[g] = seen[g] /\ quiet'[g] = quiet[g]
    BY <1>1, <1>2
  <1>4. /\ IdleView.at = "idle" /\ IdleView.todo = <<>> /\ IdleView.stale = {}
        /\ IdleView.want = None
    BY DEF IdleView
  <1>5. Writing(h) \subseteq {s \in Session : OwnerOf[s] = h /\ Executing(s)}
    <2>1. \A t \in Reader : view[t].at # "log"
      BY DEF FollowInv, Unaged
    <2> QED
      BY <2>1 DEF Writing, Executing
  <1>6. \A s \in Session : s \in torn' => s \in torn \/ (OwnerOf[s] = h /\ Executing(s))
    BY <1>5 DEF Crash
  <1>7. Unaged'
    BY <1>1, <1>3, <1>4 DEF FollowInv, Unaged
  <1>8. ASSUME NEW s \in Session PROVE FileOK(s)'
    <2>1. CASE OwnerOf[s] = h /\ Executing(s)
      BY <1>1, <2>1 DEF FollowInv, FileOK, Executing
    <2>2. CASE ~(OwnerOf[s] = h /\ Executing(s))
      BY <1>1, <1>2, <1>3, <1>6, <2>2 DEF FollowInv, FileOK, Executing
    <2> QED
      BY <2>1, <2>2
  <1>9. ASSUME NEW g \in Hub, NEW s \in Session PROVE FollowOK(g, s)'
    <2>1. CASE g = h
      <3>1. Prefix(<<>>, log[s])
        BY <1>2, PrefixFacts
      <3> QED
        BY <1>1, <1>3, <2>1, <3>1 DEF FollowOK
    <2>2. CASE g # h
      BY <1>1, <1>3, <2>2 DEF FollowInv, FollowOK
    <2> QED
      BY <2>1, <2>2
  <1>10. ASSUME NEW t \in Reader
         PROVE  /\ TodoFollows(t)' /\ (up'[HubOf[t]] = "down" => view'[t].at = "idle")
                /\ \A s \in Session : BootFollows(t, s)'
    <2>1. HubOf[t] \in Hub
      BY Placement
    <2>2. CASE HubOf[t] = h
      BY <1>1, <1>4, <2>2 DEF TodoFollows, BootFollows
    <2>3. CASE HubOf[t] # h
      <3>1. /\ view'[t] = view[t] /\ up'[HubOf[t]] = up[HubOf[t]]
            /\ seen'[HubOf[t]] = seen[HubOf[t]]
        BY <1>1, <1>3, <2>1, <2>3
      <3>2. TodoFollows(t) /\ \A s \in Session : BootFollows(t, s)
        BY DEF FollowInv
      <3>3. TodoFollows(t)'
        BY <1>1, <3>1, <3>2 DEF TodoFollows, Line
      <3> QED
        BY <1>1, <3>1, <3>2, <3>3 DEF BootFollows, LastLine, FollowInv
    <2> QED
      BY <2>2, <2>3
  <1> QED
    BY <1>7, <1>8, <1>9, <1>10 DEF FollowInv

(* A step of a server's start.                                             *)
LEMMA BootStepFollows ==
  ASSUME TakeInv, FollowInv, NEW h \in Hub, NEW t \in Reader, HubOf[t] = h,
         UNCHANGED <<log, torn, age, ex, gone, seen, quiet>>,
         up'[h] \in {"up", "boot"}, \A g \in Hub \ {h} : up'[g] = up[g], up[h] # "up",
         \A u \in Reader \ {t} : view'[u] = view[u],
         view'[t].at \in {"idle", "load"}, view'[t].stale = {}, view'[t].want = None,
         view'[t].todo = <<>>,
         \A s \in Session : /\ BootFollows(t, s)'
                            /\ OwnerOf[s] = h /\ up'[h] = "up" => seen[h][s] = log[s],
         \A u \in Reader \ {t} : HubOf[u] = h /\ up'[h] = "boot" => view[u].at = "idle"
  PROVE  FollowInv'
  <1>1. up'[h] \in {"up", "boot"} /\ \A g \in Hub \ {h} : up'[g] = up[g]
    OBVIOUS
  <1>2. /\ \A s \in Session : OwnerOf[s] \in Hub
        /\ \A u \in Reader : HubOf[u] \in Hub
    BY Placement
  <1>3. Unaged'
    BY DEF FollowInv, Unaged
  <1>4. \A s \in Session : FileOK(s)'
    BY <1>1, <1>2 DEF FollowInv, FileOK, Executing
  <1>5. \A g \in Hub, s \in Session : FollowOK(g, s)'
    BY <1>1 DEF FollowInv, FollowOK
  <1>6. ASSUME NEW u \in Reader
        PROVE  TodoFollows(u)' /\ (up'[HubOf[u]] = "down" => view'[u].at = "idle")
    <2>1. CASE u = t
      BY <1>1, <2>1 DEF TodoFollows
    <2>2. CASE u # t
      <3>1. view'[u] = view[u] /\ HubOf[u] \in Hub /\ TodoFollows(u)
        BY <1>2, <2>2 DEF FollowInv
      <3>2. TodoFollows(u)'
        BY <3>1 DEF TodoFollows, Line
      <3>3. up'[HubOf[u]] = "down" => up[HubOf[u]] = "down"
        BY <1>1, <3>1
      <3> QED
        BY <3>1, <3>2, <3>3 DEF FollowInv
    <2> QED
      BY <2>1, <2>2
  <1>7. ASSUME NEW u \in Reader, NEW s \in Session PROVE BootFollows(u, s)'
    <2>1. CASE u # t /\ HubOf[u] = h
      BY <1>1, <2>1 DEF BootFollows
    <2>2. CASE u # t /\ HubOf[u] # h
      BY <1>1, <1>2, <2>2 DEF FollowInv, BootFollows, LastLine
    <2> QED
      BY <2>1, <2>2
  <1> QED
    BY <1>3, <1>4, <1>5, <1>6, <1>7 DEF FollowInv

LEMMA BootFollowsOn ==
  ASSUME TakeInv, FollowInv, NEW h \in Hub, Restart(h) \/ Booted(h)
  PROVE  FollowInv'
  <1>1. UNCHANGED <<log, torn, age, ex, gone, seen, quiet>> /\ ViewOK
    BY DEF Restart, Booted, TakeInv, TypeOK
  <1>2. CASE Restart(h)
    <2> DEFINE v == [IdleView EXCEPT !.at = "load", !.files = Files]
    <2>1. PICK t \in Reader : HubOf[t] = h /\ view' = [view EXCEPT ![t] = v]
      BY <1>2 DEF Restart
    <2>2. up[h] = "down" /\ up' = [up EXCEPT ![h] = "boot"]
      BY <1>2 DEF Restart
    <2>3. Files \subseteq Session
      BY DEF Files, TakeInv, TypeOK, DiskOK
    <2>4. /\ ViewOf(v) /\ v.at = "load" /\ v.todo = <<>> /\ v.files = Files
          /\ v.stale = {} /\ v.want = None
      <3>1. IdleView \in ViewTypes /\ IdleView.todo = <<>>
        BY ViewOfReader DEF ViewOf
      <3>2. /\ v \in ViewTypes /\ v.at = "load" /\ v.todo = IdleView.todo /\ v.files = Files
            /\ v.stale = IdleView.stale /\ v.want = IdleView.want
        BY <2>3, <3>1 DEF ViewTypes
      <3>3. IdleView.stale = {} /\ IdleView.want = None
        BY DEF IdleView
      <3> QED
        BY <3>1, <3>2, <3>3 DEF ViewOf
    <2> HIDE DEF v
    <2>5. view'[t] = v /\ \A u \in Reader \ {t} : view'[u] = view[u]
      BY <1>1, <2>1, <2>4, OneViewMoves
    <2>6. ASSUME NEW s \in Session PROVE BootFollows(t, s)'
      <3>1. CASE s \in Files
        BY <2>4, <2>5, <3>1 DEF BootFollows
      <3>2. CASE s \notin Files
        <4>1. log[s] = <<>> /\ Prefix(seen[h][s], log[s])
          BY <3>2 DEF Files, FollowInv, FollowOK
        <4>2. seen[h][s] = log[s]
          BY <4>1, LengthOfSeen, PrefixFacts
        <4> QED
          BY <1>1, <2>1, <4>2 DEF BootFollows
      <3> QED
        BY <3>1, <3>2
    <2>7. \A u \in Reader \ {t} : HubOf[u] = h => view[u].at = "idle"
      BY <2>2 DEF FollowInv
    <2>8. up'[h] = "boot" /\ up'[h] \in {"up", "boot"} /\ up[h] # "up"
      BY <2>2, Shapes
    <2>9. \A g \in Hub \ {h} : up'[g] = up[g]
      BY <2>2, Shapes
    <2>10. /\ view'[t].at \in {"idle", "load"} /\ view'[t].stale = {}
           /\ view'[t].want = None /\ view'[t].todo = <<>>
      BY <2>4, <2>5
    <2>11. \A s \in Session : /\ BootFollows(t, s)'
                              /\ OwnerOf[s] = h /\ up'[h] = "up" => seen[h][s] = log[s]
      BY <2>6, <2>8
    <2>12. \A u \in Reader \ {t} : HubOf[u] = h /\ up'[h] = "boot" => view[u].at = "idle"
      BY <2>7
    <2> QED
      BY <1>1, <2>1, <2>5, <2>8, <2>9, <2>10, <2>11, <2>12, BootStepFollows
  <1>3. CASE Booted(h)
    <2>1. PICK t \in Reader : /\ HubOf[t] = h /\ view[t].at = "load" /\ LoadDone(t)
                              /\ view' = [view EXCEPT ![t] = IdleView]
      BY <1>3 DEF Booted
    <2>2. up[h] = "boot" /\ up' = [up EXCEPT ![h] = "up"]
      BY <1>3 DEF Booted
    <2>4. /\ ViewOf(IdleView) /\ IdleView.at = "idle" /\ IdleView.todo = <<>>
          /\ IdleView.stale = {} /\ IdleView.want = None
      BY ViewOfReader DEF IdleView
    <2>5. view'[t] = IdleView /\ \A u \in Reader \ {t} : view'[u] = view[u]
      BY <1>1, <2>1, <2>4, OneViewMoves
    <2>6. \A s \in Session : BootFollows(t, s)'
      BY <2>4, <2>5 DEF BootFollows
    <2>7. ASSUME NEW s \in Session, OwnerOf[s] = h PROVE seen[h][s] = log[s]
      <3>1. BootFollows(t, s) /\ view[t].files = {} /\ view[t].todo = <<>>
        BY <2>1 DEF FollowInv, LoadDone
      <3> QED
        BY <2>1, <2>2, <2>7, <3>1 DEF BootFollows, LastLine
    <2>8. up'[h] = "up" /\ up'[h] \in {"up", "boot"} /\ up[h] # "up"
      BY <2>2, Shapes
    <2>9. \A g \in Hub \ {h} : up'[g] = up[g]
      BY <2>2, Shapes
    <2>10. /\ view'[t].at \in {"idle", "load"} /\ view'[t].stale = {}
           /\ view'[t].want = None /\ view'[t].todo = <<>>
      BY <2>4, <2>5
    <2>11. \A s \in Session : /\ BootFollows(t, s)'
                              /\ OwnerOf[s] = h /\ up'[h] = "up" => seen[h][s] = log[s]
      BY <2>6, <2>7
    <2>12. \A u \in Reader \ {t} : HubOf[u] = h /\ up'[h] = "boot" => view[u].at = "idle"
      BY <2>8
    <2> QED
      BY <1>1, <2>1, <2>5, <2>8, <2>9, <2>10, <2>11, <2>12, BootStepFollows
  <1> QED
    BY <1>2, <1>3

-----------------------------------------------------------------------------
LEMMA ServeOnly ==
  ASSUME FollowInv, Calm, NEW t \in Reader
  PROVE  ~(Recheck(t) \/ SettleMark(t) \/ SettleLog(t) \/ Remove(t) \/ Unlink(t))
  <1>1. view[t].at \in {"idle", "load", "settle"} /\ view[t].stale = {}
    BY DEF FollowInv, Unaged
  <1> QED
    BY <1>1 DEF Recheck, SettleMark, SettleLog, Remove, Unlink

LEMMA FollowStep == TakeInv /\ FollowInv /\ Calm /\ [Next]_vars => FollowInv'
  <1> SUFFICES ASSUME TakeInv, FollowInv, Calm, [Next]_vars PROVE FollowInv'
    OBVIOUS
  <1>1. TakeInv'
    BY TakeStep
  <1>2. late = {} /\ \A x \in Session \cup Reader : post[x] = None
    BY CalmFacts
  <1>3. ASSUME NEW s \in Session, Execute(s) \/ Exit(s) PROVE FollowInv'
    BY <1>1, <1>3, ExecuteFollows
  <1>4. ASSUME NEW t \in Reader, Request(t) \/ Serve(t) PROVE FollowInv'
    BY <1>1, <1>4, OnwardFollows, LoadLineFollows, ServeOnly DEF Serve
  <1>5. ASSUME NEW x \in Session \cup Reader, Ingest(x) \/ GiveUp(x) PROVE FollowInv'
    BY <1>2, <1>5 DEF Ingest, GiveUp
  <1>6. CASE IngestLate \/ Tick
    BY <1>2, <1>6 DEF IngestLate, Tick, Calm
  <1>7. ASSUME NEW h \in Hub, Crash(h) \/ Restart(h) \/ Booted(h) PROVE FollowInv'
    BY <1>7, CrashFollows, BootFollowsOn
  <1>8. CASE UNCHANGED vars
    <2>1. /\ UNCHANGED <<log, torn, age, gone, seen, up, view>>
          /\ \A h \in Hub, s \in Session : quiet'[h][s] = 0
          /\ \A s \in Session : ex'[s] = ex[s]
      BY <1>8 DEF vars, FollowInv, Unaged
    <2> QED
      BY <1>1, <2>1, QuietStepFollows
  <1> QED
    BY <1>3, <1>4, <1>5, <1>6, <1>7, <1>8 DEF Next

LEMMA FollowCorrect == Calm => (Spec => [](TakeInv /\ FollowInv))
  <1> SUFFICES ASSUME Calm PROVE Spec => [](TakeInv /\ FollowInv)
    OBVIOUS
  <1>1. Init => TakeInv /\ FollowInv
    BY TakeInit, FollowInit
  <1>2. TakeInv /\ FollowInv /\ [Next]_vars => (TakeInv /\ FollowInv)'
    BY TakeStep, FollowStep
  <1> QED
    BY <1>1, <1>2, PTL DEF Spec

(* FollowsLog: while no grace period passes, nothing is posted and nobody  *)
(* deletes, every hub has a prefix of each file, in its order and with     *)
(* none missing, and a server that answers has all of its own runs' events, *)
(* through crashes and restarts of any of them.                            *)
THEOREM HubsFollowTheFiles == Calm => (Spec => []FollowsLog)
  <1> SUFFICES ASSUME Calm PROVE Spec => []FollowsLog
    OBVIOUS
  <1>1. FollowInv => FollowsLog
    BY DEF FollowInv, FollowOK, FollowsLog
  <1> QED
    BY <1>1, FollowCorrect, PTL

-----------------------------------------------------------------------------
(* What a hub shows of a session only moves on: a file's kinds never go    *)
(* back, no further than its executor is, and a hub that reads it shows    *)
(* one of the kinds it has read.                                           *)

Says(e) == e.kind # "note"
Rising(q) ==
  \A i, j \in DOMAIN q : i < j /\ Says(q[i]) /\ Says(q[j])
                           => Rank(q[i].kind) <= Rank(q[j].kind)
Within(q, st) == \A i \in DOMAIN q : Says(q[i]) => Rank(q[i].kind) <= Rank(st)

KindsOK(s) == Rising(log[s]) /\ (ex[s] # "dead" => Within(log[s], StatusAt(ex[s])))

(* The executing server is as far as its executor. *)
ShownOK(h, s) ==
  IF h = OwnerOf[s] /\ ex[s] \notin {"new", "dead"}
  THEN Executing(s) => Rank(status[h][s]) <= Rank(StatusAt(ex[s]))
  ELSE \/ status[h][s] = None
       \/ \E i \in DOMAIN seen[h][s] : /\ Says(seen[h][s][i])
                                       /\ seen[h][s][i].kind = status[h][s]

ShowInv == \A s \in Session : KindsOK(s) /\ \A h \in Hub : ShownOK(h, s)

OnlyForward ==
  \A h \in Hub, s \in Session :
    up[h] = "up" /\ up'[h] = "up" => Rank(status[h][s]) <= Rank(status'[h][s])

LEMMA RankFacts ==
  /\ Rank(None) = 0 /\ Rank("queued") = 1 /\ Rank("sending") = 2 /\ Rank("running") = 3
  /\ Rank("completed") = 4 /\ Rank("error") = 4
  /\ \A st \in Status \cup {None} : Rank(st) \in 0 .. 4
  /\ \A st \in Status : Rank(st) >= 1
  /\ \A at \in Place : StatusAt(at) \in Status \cup {None}
  <1>1. /\ Status = {"completed", "error", "queued", "sending", "running"}
        /\ None \notin Status
    BY Distinct DEF Status, Final, Open
  <1>2. /\ None # "queued" /\ None # "sending" /\ None # "running"
        /\ None # "completed" /\ None # "error"
    BY <1>1
  <1>3. /\ Rank(None) = 0 /\ Rank("queued") = 1 /\ Rank("sending") = 2
        /\ Rank("running") = 3 /\ Rank("completed") = 4 /\ Rank("error") = 4
    BY <1>2 DEF Rank
  <1>4. \A st \in Status : Rank(st) \in 1 .. 4
    BY <1>1, <1>3
  <1>5. \A at \in Place : StatusAt(at) \in Status \cup {None}
    BY <1>1 DEF StatusAt
  <1> QED
    BY <1>3, <1>4, <1>5

LEMMA RankTypes ==
  ASSUME TakeInv
  PROVE  /\ \A h \in Hub, s \in Session : Rank(status[h][s]) \in 0 .. 4
         /\ \A s \in Session : Rank(StatusAt(ex[s])) \in 0 .. 4
         /\ \A e \in Event : Says(e) => Rank(e.kind) \in 1 .. 4
  <1>1. \A e \in Event : Says(e) => e.kind \in Status
    BY DEF Says, Event, Kind
  <1>2. \A st \in Status : Rank(st) \in 1 .. 4
    BY RankFacts
  <1>3. \A h \in Hub, s \in Session : status[h][s] \in Status \cup {None}
    BY DEF TakeInv, TypeOK, MemoryOK
  <1>4. \A s \in Session : StatusAt(ex[s]) \in Status \cup {None}
    BY RankFacts DEF TakeInv, TypeOK, ExecOK
  <1> QED
    BY <1>1, <1>2, <1>3, <1>4, RankFacts

LEMMA ShowInit == Init => ShowInv
  <1> SUFFICES ASSUME Init, NEW s \in Session PROVE KindsOK(s) /\ \A h \in Hub : ShownOK(h, s)
    BY DEF ShowInv
  <1>1. log[s] = <<>> /\ ex[s] = "new" /\ \A h \in Hub : status[h][s] = None
    BY DEF Init
  <1>2. KindsOK(s)
    BY <1>1 DEF KindsOK, Rising, Within
  <1> QED
    BY <1>1, <1>2 DEF ShownOK

(* Steps that touch neither the files nor what a hub shows.                *)
LEMMA StillShows ==
  ASSUME TakeInv, ShowInv, UNCHANGED <<log, ex, seen, status>>
  PROVE  ShowInv' /\ OnlyForward
  <1>1. ShowInv'
    BY DEF ShowInv, KindsOK, ShownOK, Executing
  <1>2. OnlyForward
    BY RankTypes DEF OnlyForward
  <1> QED
    BY <1>1, <1>2

LEMMA LastOrBefore == \A n \in Nat : \A k \in 1 .. n + 1 : k = n + 1 \/ k \in 1 .. n
  OBVIOUS

(* A step of an executor.                                                  *)
LEMMA OwnStepShows ==
  ASSUME TakeInv, TakeInv', ShowInv, NEW s \in Session, Execute(s),
         ex[s] # "dead", ex'[s] \notin {"new", "dead"},
         Rank(StatusAt(ex[s])) <= Rank(StatusAt(ex'[s])),
         \/ log'[s] = log[s]
         \/ \E e \in Event : /\ log'[s] = Append(log[s], e)
                             /\ Says(e) => Rank(e.kind) = Rank(StatusAt(ex[s])),
         \A h \in Hub \ {OwnerOf[s]} :
           status'[h][s] = status[h][s] /\ seen'[h][s] = seen[h][s],
         Executing(s)' => Rank(status'[OwnerOf[s]][s]) <= Rank(StatusAt(ex'[s])),
         Rank(status[OwnerOf[s]][s]) <= Rank(status'[OwnerOf[s]][s])
  PROVE  ShowInv' /\ OnlyForward
  <1>1. \A r \in Session \ {s} :
          /\ ex'[r] = ex[r] /\ log'[r] = log[r]
          /\ \A h \in Hub : status'[h][r] = status[h][r] /\ seen'[h][r] = seen[h][r]
    BY OtherSessions
  <1>2. KindsOK(s) /\ log[s] \in Seq(Event)
    BY Shapes DEF ShowInv
  <1>3. PICK a \in 0 .. 4, b \in 0 .. 4 :
          a = Rank(StatusAt(ex[s])) /\ b = Rank(StatusAt(ex'[s])) /\ a <= b
    <2>1. ex'[s] \in Place
      BY DEF TakeInv, TypeOK, ExecOK
    <2> QED
      BY <2>1, RankTypes, RankFacts
  <1>4. KindsOK(s)'
    <2>1. \A i \in DOMAIN log[s] :
            Says(log[s][i]) => Rank(log[s][i].kind) \in 1 .. 4 /\ Rank(log[s][i].kind) <= a
      BY <1>2, <1>3, RankTypes DEF KindsOK, Within
    <2>2. CASE log'[s] = log[s]
      <3>1. Within(log[s], StatusAt(ex'[s]))
        BY <1>3, <2>1 DEF Within
      <3> QED
        BY <1>2, <2>2, <3>1 DEF KindsOK
    <2>3. CASE \E e \in Event : /\ log'[s] = Append(log[s], e)
                                /\ Says(e) => Rank(e.kind) = Rank(StatusAt(ex[s]))
      <3>1. PICK e \in Event : /\ log'[s] = Append(log[s], e)
                               /\ Says(e) => Rank(e.kind) = a
        BY <1>3, <2>3
      <3>2. PICK q \in Seq(Event), m \in Nat :
              q = log[s] /\ m = Len(q) /\ DOMAIN q = 1 .. m
        BY <1>2
      <3>3. /\ DOMAIN Append(q, e) = 1 .. m + 1 /\ Append(q, e)[m + 1] = e
            /\ \A i \in 1 .. m : Append(q, e)[i] = q[i]
        BY <3>2
      <3>4. \A i \in 1 .. m + 1 : Says(Append(q, e)[i]) =>
              /\ Rank(Append(q, e)[i].kind) \in 1 .. 4
              /\ Rank(Append(q, e)[i].kind) <= a
        <4> SUFFICES ASSUME NEW i \in 1 .. m + 1, Says(Append(q, e)[i])
                     PROVE  /\ Rank(Append(q, e)[i].kind) \in 1 .. 4
                            /\ Rank(Append(q, e)[i].kind) <= a
          OBVIOUS
        <4>1. CASE i \in 1 .. m
          BY <2>1, <3>2, <3>3, <4>1
        <4>2. CASE i = m + 1
          BY <3>1, <3>3, <4>2, RankTypes
        <4> QED
          BY <3>2, <4>1, <4>2
      <3>5. Within(Append(q, e), StatusAt(ex'[s]))
        BY <1>3, <3>3, <3>4 DEF Within
      <3>6. Rising(Append(q, e))
        <4> SUFFICES ASSUME NEW i \in 1 .. m + 1, NEW j \in 1 .. m + 1, i < j,
                            Says(Append(q, e)[i]), Says(Append(q, e)[j])
                     PROVE  Rank(Append(q, e)[i].kind) <= Rank(Append(q, e)[j].kind)
          BY <3>3 DEF Rising
        <4>1. CASE j = m + 1
          <5>1. Rank(Append(q, e)[j].kind) = a
            BY <3>1, <3>3, <4>1
          <5> QED
            BY <3>4, <5>1
        <4>2. CASE j \in 1 .. m
          <5>1. i \in 1 .. m
            BY <3>2, <4>2
          <5> QED
            BY <1>2, <3>2, <3>3, <4>2, <5>1 DEF KindsOK, Rising
        <4>3. j = m + 1 \/ j \in 1 .. m
          BY LastOrBefore
        <4> QED
          BY <4>1, <4>2, <4>3
      <3> QED
        BY <3>1, <3>2, <3>5, <3>6 DEF KindsOK
    <2> QED
      BY <2>2, <2>3
  <1>5. \A h \in Hub : ShownOK(h, s)'
    BY DEF ShowInv, ShownOK
  <1>6. \A r \in Session \ {s} : KindsOK(r)' /\ \A h \in Hub : ShownOK(h, r)'
    BY <1>1 DEF ShowInv, KindsOK, ShownOK, Executing
  <1>7. OnlyForward
    <2>1. \A h \in Hub, r \in Session :
            status'[h][r] = status[h][r] \/ (h = OwnerOf[s] /\ r = s)
      BY <1>1
    <2> QED
      BY <2>1, RankTypes DEF OnlyForward
  <1> QED
    BY <1>4, <1>5, <1>6, <1>7 DEF ShowInv

LEMMA ExecAppendShows ==
  ASSUME TakeInv, TakeInv', FollowInv, ShowInv, NEW s \in Session, NEW at,
         NEW k \in Kind, NEW to, ExecAppend(s, at, k, to), Execute(s),
         at \in {"create", "wait", "started", "run", "finish"},
         to \in {"wait", "prompted", "run", "done"},
         k # "note" => Rank(k) = Rank(StatusAt(at)),
         Rank(StatusAt(at)) <= Rank(StatusAt(to))
  PROVE  ShowInv' /\ OnlyForward
  <1>1. /\ OwnerOf[s] \in Hub /\ seen \in [Hub -> [Session -> Seq(Event)]]
        /\ log \in [Session -> Seq(Event)] /\ ex \in [Session -> Place]
    BY Shapes
  <1>2. ex[s] = at /\ up[OwnerOf[s]] = "up"
    BY DEF ExecAppend
  <1>3. s \notin torn
    BY <1>2 DEF FollowInv, FileOK
  <1>4. ex' = [ex EXCEPT ![s] = to] /\ Appends(s, NextEvent(s, k))
    BY <1>3, ExecAppends
  <1>a. NextEvent(s, k) \in Event /\ NextEvent(s, k).kind = k
    <2>1. age[s] \in Seq(Age)
      BY Shapes
    <2> QED
      BY <2>1 DEF NextEvent, Event
  <1> DEFINE e == NextEvent(s, k)
  <1>b. e \in Event /\ e.kind = k /\ Appends(s, e)
    BY <1>4, <1>a
  <1> HIDE DEF e
  <1>5. /\ ex'[s] = to /\ log'[s] = Append(log[s], e) /\ status' = status
        /\ \A h \in Hub \ {OwnerOf[s]} : seen'[h][s] = seen[h][s]
    BY <1>1, <1>4, <1>b DEF Appends
  <1>6. Says(e) => Rank(e.kind) = Rank(StatusAt(ex[s]))
    BY <1>2, <1>b DEF Says
  <1>7. Rank(status[OwnerOf[s]][s]) <= Rank(StatusAt(at))
    BY <1>1, <1>2 DEF ShowInv, ShownOK, Executing
  <1>8. /\ Rank(StatusAt(at)) \in 0 .. 4 /\ Rank(StatusAt(to)) \in 0 .. 4
        /\ Rank(status[OwnerOf[s]][s]) \in 0 .. 4
    <2>1. to \in Place
      BY DEF Place
    <2> QED
      BY <1>1, <1>2, <2>1, RankTypes, RankFacts
  <1>9. /\ Rank(status'[OwnerOf[s]][s]) <= Rank(StatusAt(ex'[s]))
        /\ Rank(status[OwnerOf[s]][s]) <= Rank(status'[OwnerOf[s]][s])
    BY <1>5, <1>7, <1>8
  <1>10. ex[s] # "dead" /\ ex'[s] \notin {"new", "dead"}
    BY <1>2, <1>5
  <1>11. Rank(StatusAt(ex[s])) <= Rank(StatusAt(ex'[s]))
    BY <1>2, <1>5
  <1> QED
    BY <1>b, <1>5, <1>6, <1>9, <1>10, <1>11, OwnStepShows

LEMMA SetShows ==
  ASSUME TakeInv, TakeInv', ShowInv, NEW s \in Session, NEW new \in Status, NEW to,
         Execute(s), ex[s] # "dead", ex'[s] = to, to \in Place \ {"new", "dead"},
         SetStatus(OwnerOf[s], s, new), log' = log,
         Rank(StatusAt(ex[s])) <= Rank(StatusAt(to)), Rank(new) = Rank(StatusAt(to)),
         Rank(status[OwnerOf[s]][s]) <= Rank(StatusAt(ex[s]))
  PROVE  ShowInv' /\ OnlyForward
  <1>1. /\ OwnerOf[s] \in Hub
        /\ status \in [Hub -> [Session -> Status \cup {None}]]
    BY Shapes
  <1>2. /\ status'[OwnerOf[s]][s] = new /\ seen' = seen
        /\ \A h \in Hub \ {OwnerOf[s]} : status'[h][s] = status[h][s]
    BY <1>1 DEF SetStatus
  <1>3. /\ Rank(StatusAt(ex[s])) \in 0 .. 4 /\ Rank(StatusAt(to)) \in 0 .. 4
        /\ Rank(status[OwnerOf[s]][s]) \in 0 .. 4
    BY <1>1, RankTypes, RankFacts
  <1>4. /\ Rank(status'[OwnerOf[s]][s]) <= Rank(StatusAt(ex'[s]))
        /\ Rank(status[OwnerOf[s]][s]) <= Rank(status'[OwnerOf[s]][s])
    BY <1>2, <1>3
  <1>5. ex'[s] \notin {"new", "dead"} /\ Rank(StatusAt(ex[s])) <= Rank(StatusAt(ex'[s]))
    OBVIOUS
  <1> QED
    BY <1>2, <1>4, <1>5, OwnStepShows

LEMMA ExecSetShows ==
  ASSUME TakeInv, TakeInv', ShowInv, NEW s \in Session, NEW at, NEW new \in Status, NEW to,
         ExecSet(s, at, new, to), Execute(s), at \in {"prompted", "spawned", "run"},
         to \in {"sending", "started", "finish"},
         Rank(StatusAt(at)) <= Rank(StatusAt(to)), Rank(new) = Rank(StatusAt(to))
  PROVE  ShowInv' /\ OnlyForward
  <1>1. /\ OwnerOf[s] \in Hub /\ ex \in [Session -> Place]
    BY Shapes
  <1>2. ex[s] = at /\ log' = log
    BY DEF ExecSet
  <1>3. Rank(status[OwnerOf[s]][s]) <= Rank(StatusAt(ex[s]))
    BY <1>1, <1>2 DEF ShowInv, ShownOK, Executing
  <1>4. CASE status[OwnerOf[s]][s] # None
    <2>1. ex'[s] = to /\ SetStatus(OwnerOf[s], s, new)
      BY <1>1, <1>4 DEF ExecSet
    <2>2. to \in Place \ {"new", "dead"} /\ ex[s] # "dead"
      BY <1>2 DEF Place
    <2> QED
      BY <1>2, <1>3, <2>1, <2>2, SetShows
  <1>5. CASE status[OwnerOf[s]][s] = None
    <2>1. ex'[s] = "failed" /\ status' = status /\ seen' = seen
      BY <1>1, <1>5 DEF ExecSet
    <2>2. ~Executing(s)'
      BY <2>1 DEF Executing
    <2>3. Rank(StatusAt(ex[s])) <= Rank(StatusAt(ex'[s]))
      <3>1. StatusAt("failed") = "completed"
        BY DEF StatusAt
      <3> QED
        BY <2>1, <3>1, RankTypes, RankFacts
    <2>4. Rank(status[OwnerOf[s]][s]) <= Rank(status'[OwnerOf[s]][s])
      BY <1>1, <2>1, RankTypes
    <2>5. ex[s] # "dead" /\ ex'[s] \notin {"new", "dead"}
      BY <1>2, <2>1
    <2> QED
      BY <1>2, <2>1, <2>2, <2>3, <2>4, <2>5, OwnStepShows
  <1> QED
    BY <1>4, <1>5

(* A run nobody has created is shown nowhere. *)
LEMMA NewIsUnshown ==
  ASSUME TakeInv, FollowInv, ShowInv, NEW s \in Session, ex[s] = "new",
         up[OwnerOf[s]] = "up"
  PROVE  status[OwnerOf[s]][s] = None
  <1>1. /\ OwnerOf[s] \in Hub /\ log[s] \in Seq(Event)
        /\ status[OwnerOf[s]][s] \in Status \cup {None}
    BY Shapes
  <1>2. Within(log[s], None)
    BY DEF ShowInv, KindsOK, StatusAt
  <1>3. \A i \in DOMAIN log[s] : ~Says(log[s][i])
    <2> SUFFICES ASSUME NEW i \in DOMAIN log[s], Says(log[s][i]) PROVE FALSE
      OBVIOUS
    <2>1. log[s][i] \in Event /\ Rank(log[s][i].kind) <= Rank(None)
      BY <1>1, <1>2 DEF Within
    <2> QED
      BY <2>1, RankTypes, RankFacts
  <1>4. seen[OwnerOf[s]][s] = log[s]
    BY <1>1 DEF FollowInv, FollowOK
  <1> QED
    BY <1>1, <1>3, <1>4 DEF ShowInv, ShownOK

LEMMA ExecuteShows ==
  ASSUME TakeInv, TakeInv', FollowInv, ShowInv, NEW s \in Session, Execute(s) \/ Exit(s)
  PROVE  ShowInv' /\ OnlyForward
  <1>1. /\ {"queued", "running", "completed", "note"} \subseteq Kind
        /\ {"queued", "sending", "running", "completed"} \subseteq Status
    BY DEF Kind, Status, Final, Open
  <1>2. /\ StatusAt("new") = None /\ StatusAt("create") = "queued"
        /\ StatusAt("wait") = "queued" /\ StatusAt("prompted") = "queued"
        /\ StatusAt("sending") = "sending" /\ StatusAt("spawned") = "sending"
        /\ StatusAt("started") = "running" /\ StatusAt("run") = "running"
        /\ StatusAt("finish") = "completed" /\ StatusAt("done") = "completed"
    BY DEF StatusAt
  <1>3. /\ Rank(None) = 0 /\ Rank("queued") = 1 /\ Rank("sending") = 2 /\ Rank("running") = 3
        /\ Rank("completed") = 4
    BY RankFacts
  <1>4. CASE LogCreated(s)
    BY <1>1, <1>2, <1>3, <1>4, ExecAppendShows DEF LogCreated, Execute
  <1>5. CASE LogPrompt(s)
    BY <1>1, <1>2, <1>3, <1>5, ExecAppendShows DEF LogPrompt, Execute
  <1>6. CASE LogStarted(s)
    BY <1>1, <1>2, <1>3, <1>6, ExecAppendShows DEF LogStarted, Execute
  <1>7. CASE Heartbeat(s)
    <2>1. ExecAppend(s, "run", "note", "run") /\ Execute(s)
      BY <1>7 DEF Heartbeat, Execute
    <2> QED
      BY <1>1, <1>2, <1>3, <2>1, ExecAppendShows
  <1>8. CASE LogCompleted(s)
    BY <1>1, <1>2, <1>3, <1>8, ExecAppendShows DEF LogCompleted, Execute
  <1>9. CASE SetSending(s)
    BY <1>1, <1>2, <1>3, <1>9, ExecSetShows DEF SetSending, Execute
  <1>10. CASE SetRunning(s)
    BY <1>1, <1>2, <1>3, <1>10, ExecSetShows DEF SetRunning, Execute
  <1>11. CASE SetCompleted(s)
    BY <1>1, <1>2, <1>3, <1>11, ExecSetShows DEF SetCompleted, Execute
  <1>12. CASE CreateSession(s)
    <2>1. /\ ex[s] = "new" /\ ex'[s] = "create" /\ up[OwnerOf[s]] = "up"
          /\ SetStatus(OwnerOf[s], s, "queued") /\ log' = log
      BY <1>12, Shapes DEF CreateSession
    <2>2. status[OwnerOf[s]][s] = None
      BY <2>1, NewIsUnshown
    <2>3. "create" \in Place \ {"new", "dead"} /\ Execute(s)
      BY <1>12 DEF Place, Execute
    <2> QED
      BY <1>1, <1>2, <1>3, <2>1, <2>2, <2>3, SetShows
  <1>13. CASE Spawn(s)
    <2>1. /\ ex[s] = "sending" /\ ex'[s] = "spawned"
          /\ UNCHANGED <<log, seen, status>>
      BY <1>13, Shapes DEF Spawn
    <2>2. Rank(status[OwnerOf[s]][s]) <= Rank(StatusAt(ex[s]))
      BY <2>1, Shapes DEF ShowInv, ShownOK, Executing
    <2>3. Rank(StatusAt(ex'[s])) = Rank(StatusAt(ex[s])) /\ Rank(StatusAt(ex[s])) = 2
      BY <1>2, <1>3, <2>1
    <2>4. Rank(status[OwnerOf[s]][s]) \in 0 .. 4
      BY RankTypes, Shapes
    <2>5. Execute(s) /\ ex[s] # "dead" /\ ex'[s] \notin {"new", "dead"}
      BY <1>13, <2>1 DEF Execute
    <2> QED
      BY <2>1, <2>2, <2>3, <2>4, <2>5, OwnStepShows
  <1>14. CASE Exit(s)
    BY <1>14, StillShows DEF Exit
  <1> QED
    BY <1>4, <1>5, <1>6, <1>7, <1>8, <1>9, <1>10, <1>11, <1>12, <1>13, <1>14 DEF Execute

(* A line read from the file.                                              *)
LEMMA LoadLineShows ==
  ASSUME TakeInv, TakeInv', FollowInv, ShowInv, NEW t \in Reader, LoadLine(t)
  PROVE  ShowInv' /\ OnlyForward
  <1>1. /\ view[t].todo # <<>> /\ HubOf[t] \in Hub
        /\ UNCHANGED <<log, torn, age, ex, gone, up>>
    BY LoadLineAdds
  <1>2. PICK e \in Event :
          /\ e = Head(view[t].todo)
          /\ \/ UNCHANGED memory
             \/ /\ Rebuild(HubOf[t], e)
                /\ seen' = [seen EXCEPT ![HubOf[t]][e.s] = Append(@, e)]
                /\ e.n = Len(seen[HubOf[t]][e.s]) + 1
    BY LoadLineAdds
  <1>3. CASE UNCHANGED memory
    BY <1>1, <1>3, StillShows
  <1>4. CASE /\ Rebuild(HubOf[t], e)
             /\ seen' = [seen EXCEPT ![HubOf[t]][e.s] = Append(@, e)]
             /\ e.n = Len(seen[HubOf[t]][e.s]) + 1
    <2>1. PICK s \in Session, h \in Hub : s = e.s /\ h = HubOf[t]
      BY <1>1 DEF Event
    <2>2. /\ seen \in [Hub -> [Session -> Seq(Event)]] /\ log[s] \in Seq(Event)
          /\ status \in [Hub -> [Session -> Status \cup {None}]]
          /\ OwnerOf[s] \in Hub
      BY Shapes
    <2>3. PICK p \in Seq(Event), m \in Nat :
            p = seen[h][s] /\ m = Len(p) /\ DOMAIN p = 1 .. m /\ e.n = m + 1
      <3>1. seen[h][s] \in Seq(Event) /\ e.n = Len(seen[h][s]) + 1
        BY <1>4, <2>1, <2>2
      <3>2. Len(seen[h][s]) \in Nat /\ DOMAIN seen[h][s] = 1 .. Len(seen[h][s])
        BY <3>1
      <3> QED
        BY <3>1, <3>2
    <2>4. /\ m + 1 \in DOMAIN log[s] /\ log[s][m + 1] = e /\ Prefix(p, log[s])
      BY <1>1, <1>2, <2>1, <2>3, HeadFollows DEF FollowInv, FollowOK, Line
    <2>5. /\ DOMAIN Append(p, e) = 1 .. m + 1 /\ Append(p, e)[m + 1] = e
          /\ \A i \in 1 .. m : Append(p, e)[i] = p[i]
      BY <2>3
    <2>6. /\ seen'[h][s] = Append(p, e)
          /\ \/ status'[h][s] = status[h][s]
             \/ Says(e) /\ status'[h][s] = e.kind
          /\ \A g \in Hub, r \in Session : g # h \/ r # s =>
               seen'[g][r] = seen[g][r] /\ status'[g][r] = status[g][r]
      <3>1. seen'[h][s] = Append(p, e)
        BY <1>4, <2>1, <2>2, <2>3
      <3>2. \A g \in Hub, r \in Session : g # h \/ r # s => seen'[g][r] = seen[g][r]
        BY <1>4, <2>1, <2>2
      <3>3. status' = status \/ (Says(e) /\ status' = [status EXCEPT ![h][s] = e.kind])
        BY <1>4, <2>1 DEF Rebuild, Says
      <3> QED
        BY <2>2, <3>1, <3>2, <3>3
    <2>7. ~(h = OwnerOf[s] /\ up[h] = "up")
      <3>1. log[s] # p
        BY <2>3, <2>4
      <3> QED
        BY <2>3, <3>1 DEF FollowInv, FollowOK
    <2>8. h = OwnerOf[s] => ~Executing(s)
      BY <2>7 DEF FollowInv, FileOK
    <2>9. \A i \in 1 .. m : Says(p[i]) /\ Says(e) => Rank(p[i].kind) <= Rank(e.kind)
      <3> SUFFICES ASSUME NEW i \in 1 .. m, Says(p[i]), Says(e)
                   PROVE  Rank(p[i].kind) <= Rank(e.kind)
        OBVIOUS
      <3>1. log[s][i] = p[i] /\ i \in DOMAIN log[s] /\ i < m + 1
        <4>1. log[s][i] = p[i] /\ Len(p) <= Len(log[s])
          BY <2>3, <2>4 DEF Prefix
        <4> QED
          BY <2>2, <2>3, <4>1
      <3>2. Rising(log[s])
        BY DEF ShowInv, KindsOK
      <3>3. log[s][m + 1] = e /\ m + 1 \in DOMAIN log[s]
        BY <2>4
      <3> QED
        BY <3>1, <3>2, <3>3 DEF Rising
    <2>10. ASSUME ~(h = OwnerOf[s] /\ ex[s] \notin {"new", "dead"})
           PROVE  /\ \/ status[h][s] = None
                     \/ \E i \in 1 .. m : Says(p[i]) /\ p[i].kind = status[h][s]
                  /\ Rank(status[h][s]) <= Rank(status'[h][s])
                  /\ \/ status'[h][s] = None
                     \/ \E i \in 1 .. m + 1 : /\ Says(Append(p, e)[i])
                                              /\ Append(p, e)[i].kind = status'[h][s]
      <3>1. ShownOK(h, s)
        BY DEF ShowInv
      <3>2. \/ status[h][s] = None
            \/ \E i \in 1 .. m : Says(p[i]) /\ p[i].kind = status[h][s]
        BY <2>3, <2>10, <3>1 DEF ShownOK
      <3>3. Rank(status[h][s]) \in 0 .. 4 /\ (Says(e) => Rank(e.kind) \in 1 .. 4)
        BY RankTypes
      <3>4. CASE status'[h][s] = status[h][s]
        <4>1. \A i \in 1 .. m : i \in 1 .. m + 1 /\ Append(p, e)[i] = p[i]
          BY <2>3, <2>5
        <4>2. Rank(status[h][s]) <= Rank(status'[h][s])
          BY <3>3, <3>4
        <4>3. \/ status'[h][s] = None
              \/ \E i \in 1 .. m + 1 : /\ Says(Append(p, e)[i])
                                       /\ Append(p, e)[i].kind = status'[h][s]
          BY <3>2, <3>4, <4>1
        <4> QED
          BY <3>2, <4>2, <4>3
      <3>5. CASE Says(e) /\ status'[h][s] = e.kind
        <4>1. Rank(status[h][s]) <= Rank(e.kind)
          <5>1. CASE status[h][s] = None
            BY <3>3, <3>5, <5>1, RankFacts
          <5>2. CASE status[h][s] # None
            <6>1. PICK i \in 1 .. m : Says(p[i]) /\ p[i].kind = status[h][s]
              BY <3>2, <5>2
            <6> QED
              BY <2>9, <3>5, <6>1
          <5> QED
            BY <5>1, <5>2
        <4>2. m + 1 \in 1 .. m + 1
          BY <2>3
        <4> QED
          BY <2>5, <3>2, <3>5, <4>1, <4>2
      <3> QED
        BY <2>6, <3>4, <3>5
    <2>11. ShownOK(h, s)'
      <3>1. CASE h = OwnerOf[s] /\ ex[s] \notin {"new", "dead"}
        BY <1>1, <2>8, <3>1 DEF ShownOK, Executing
      <3>2. CASE ~(h = OwnerOf[s] /\ ex[s] \notin {"new", "dead"})
        BY <1>1, <2>5, <2>6, <2>10, <3>2 DEF ShownOK
      <3> QED
        BY <3>1, <3>2
    <2>12. \A g \in Hub, r \in Session : g # h \/ r # s => ShownOK(g, r)'
      BY <1>1, <2>6 DEF ShowInv, ShownOK, Executing
    <2>13. \A r \in Session : KindsOK(r)'
      BY <1>1 DEF ShowInv, KindsOK
    <2>14. ShowInv'
      BY <2>11, <2>12, <2>13 DEF ShowInv
    <2>15. OnlyForward
      <3> SUFFICES ASSUME NEW g \in Hub, NEW r \in Session, up[g] = "up"
                   PROVE  Rank(status[g][r]) <= Rank(status'[g][r])
        BY DEF OnlyForward
      <3>1. CASE g = h /\ r = s
        BY <2>7, <2>10, <3>1
      <3>2. CASE g # h \/ r # s
        BY <2>6, <3>2, RankTypes
      <3> QED
        BY <3>1, <3>2
    <2> QED
      BY <2>14, <2>15
  <1> QED
    BY <1>2, <1>3, <1>4

LEMMA CrashShows ==
  ASSUME TakeInv, ShowInv, NEW h \in Hub, Crash(h)
  PROVE  ShowInv' /\ OnlyForward
  <1>1. /\ log' = log /\ up' = [up EXCEPT ![h] = "down"]
        /\ seen' = [seen EXCEPT ![h] = [s \in Session |-> <<>>]]
        /\ status' = [status EXCEPT ![h] = [s \in Session |-> None]]
        /\ ex' = [s \in Session |->
                    IF OwnerOf[s] = h /\ Executing(s) THEN "dead" ELSE ex[s]]
    BY DEF Crash
  <1>2. /\ up'[h] = "down" /\ \A s \in Session : status'[h][s] = None
        /\ \A g \in Hub \ {h} : seen'[g] = seen[g] /\ status'[g] = status[g]
    BY <1>1, Shapes
  <1>3. \A s \in Session : KindsOK(s)'
    BY <1>1 DEF ShowInv, KindsOK
  <1>4. ASSUME NEW g \in Hub, NEW s \in Session PROVE ShownOK(g, s)'
    <2>1. CASE g = h
      BY <1>1, <1>2, <2>1 DEF ShownOK, Executing
    <2>2. CASE g # h
      <3>1. ShownOK(g, s)
        BY DEF ShowInv
      <3>2. g = OwnerOf[s] => ex'[s] = ex[s]
        BY <1>1, <2>2
      <3> QED
        BY <1>2, <2>2, <3>1, <3>2 DEF ShownOK, Executing
    <2> QED
      BY <2>1, <2>2
  <1>5. OnlyForward
    BY <1>2, RankTypes DEF OnlyForward
  <1> QED
    BY <1>3, <1>4, <1>5 DEF ShowInv

LEMMA ShowStep ==
  TakeInv /\ FollowInv /\ ShowInv /\ Calm /\ [Next]_vars => ShowInv' /\ OnlyForward
  <1> SUFFICES ASSUME TakeInv, FollowInv, ShowInv, Calm, [Next]_vars
               PROVE  ShowInv' /\ OnlyForward
    OBVIOUS
  <1>1. TakeInv'
    BY TakeStep
  <1>2. late = {} /\ \A x \in Session \cup Reader : post[x] = None
    BY CalmFacts
  <1>3. ASSUME NEW s \in Session, Execute(s) \/ Exit(s) PROVE ShowInv' /\ OnlyForward
    BY <1>1, <1>3, ExecuteShows
  <1>4. ASSUME NEW t \in Reader, Request(t) \/ Serve(t) PROVE ShowInv' /\ OnlyForward
    <2>1. CASE Request(t) \/ ReadFile(t) \/ Collect(t) \/ Refreshed(t)
      BY <2>1, StillShows DEF Request, ReadFile, Collect, Refreshed
    <2>2. CASE LoadLine(t)
      BY <1>1, <2>2, LoadLineShows
    <2> QED
      BY <1>4, <2>1, <2>2, ServeOnly DEF Serve
  <1>5. ASSUME NEW x \in Session \cup Reader, Ingest(x) \/ GiveUp(x)
        PROVE  ShowInv' /\ OnlyForward
    BY <1>2, <1>5 DEF Ingest, GiveUp
  <1>6. CASE IngestLate \/ Tick
    BY <1>2, <1>6 DEF IngestLate, Tick, Calm
  <1>7. ASSUME NEW h \in Hub, Crash(h) \/ Restart(h) \/ Booted(h)
        PROVE  ShowInv' /\ OnlyForward
    BY <1>7, CrashShows, StillShows DEF Restart, Booted
  <1>8. CASE UNCHANGED vars
    BY <1>8, StillShows DEF vars
  <1> QED
    BY <1>3, <1>4, <1>5, <1>6, <1>7, <1>8 DEF Next

(* NeverBack: there, no server that stays up ever shows a run at an        *)
(* earlier stage than it did, its own runs and those of other servers.     *)
THEOREM StagesNeverGoBack == Calm => (Spec => NeverBack)
  <1> SUFFICES ASSUME Calm PROVE Spec => NeverBack
    OBVIOUS
  <1>1. Init => ShowInv
    BY ShowInit
  <1>2. TakeInv /\ FollowInv /\ ShowInv /\ [Next]_vars => ShowInv' /\ [OnlyForward]_vars
    BY ShowStep
  <1>3. Spec => [][OnlyForward]_vars
    BY <1>1, <1>2, FollowCorrect, PTL DEF Spec
  <1> QED
    BY <1>3 DEF NeverBack, OnlyForward

=============================================================================
