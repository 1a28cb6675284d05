------------------------ MODULE ObserverOwnerProofs ------------------------
(* Why a server that is well keeps its port, its record and its life: the  *)
(* types of ObserverOwner, the invariant behind ForeignSpared,             *)
(* WellUndisturbed and LiveRecordKept, and their proofs.                   *)
EXTENDS ObserverOwner, TLAPS

-----------------------------------------------------------------------------
(* Types of what the helpers of the actions assign.                        *)
Pcs == {"idle", "bind", "serve", "scan", "request", "asked", "kill",
        "killed", "last", "recover"}
Records == [Hub -> Record \cup {Nobody}]

LEMMA IdleTyped == Idle \in Job
  BY DEF Idle, Job

LEMMA NextJobTyped ==
  ASSUME NEW j \in Job, NEW pc \in Pcs
  PROVE  /\ [j EXCEPT !.pc = pc] \in Job
         /\ \A q \in Hub, rest \in SUBSET (Hub \X BOOLEAN) :
              [j EXCEPT !.pc = pc, !.of = q, !.todo = rest] \in Job
         /\ \A rest \in SUBSET (Hub \X BOOLEAN) : [j EXCEPT !.todo = rest] \in Job
  BY DEF Job, Pcs

LEMMA NewJobTyped ==
  /\ [Idle EXCEPT !.pc = "bind"] \in Job
  /\ [Idle EXCEPT !.pc = "serve"] \in Job
  /\ [Idle EXCEPT !.pc = "recover", !.for = "recover"] \in Job
  /\ \A q \in Hub :
       [Idle EXCEPT !.pc = "request", !.for = "status", !.of = q] \in Job
  /\ \A rest \in SUBSET (Hub \X BOOLEAN) :
       [Idle EXCEPT !.pc = "scan", !.for = "scan", !.todo = rest] \in Job
  /\ \A q \in Hub, b \in BOOLEAN :
       [Idle EXCEPT !.pc = "recover", !.for = "recover", !.of = q,
                    !.stale = b] \in Job
  BY DEF Idle, Job

LEMMA JobSet ==
  ASSUME JobOK, NEW t \in Thread, NEW j \in Job,
         job' = [job EXCEPT ![t] = j]
  PROVE  JobOK'
  BY DEF JobOK

LEMMA GoTyped ==
  ASSUME JobOK, NEW t \in Thread, NEW pc \in Pcs, Go(t, pc)
  PROVE  JobOK'
  <1>1. job[t] \in Job
    BY DEF JobOK
  <1>2. job' = [job EXCEPT ![t] = [job[t] EXCEPT !.pc = pc]]
    BY DEF Go
  <1> QED
    BY <1>1, <1>2, NextJobTyped, JobSet

LEMMA RestTyped ==
  ASSUME JobOK, NEW t \in Thread, Rest(t)
  PROVE  JobOK'
  BY IdleTyped, JobSet DEF Rest

LEMMA JobsAfterTyped ==
  ASSUME JobOK, NEW S
  PROVE  JobsAfter(S) \in [Thread -> Job]
  BY IdleTyped DEF JobOK, JobsAfter

LEMMA WriteTyped ==
  ASSUME record \in Records, NEW h \in Hub, NEW owns \in BOOLEAN, Write(h, owns)
  PROVE  record' \in Records
  BY DEF Records, Record, Write

LEMMA SetModeTyped ==
  ASSUME record \in Records, mode \in [Hub -> Modes],
         NEW h \in Hub, NEW m \in Modes, SetMode(h, m)
  PROVE  record' \in Records /\ mode' \in [Hub -> Modes]
  <1>1. (h \in web) \in BOOLEAN
    OBVIOUS
  <1>2. Write(h, h \in web) /\ mode' = [mode EXCEPT ![h] = m]
    BY DEF SetMode
  <1>3. record' \in Records
    BY <1>1, <1>2, WriteTyped
  <1> QED
    BY <1>2, <1>3

LEMMA FaultTyped ==
  ASSUME faults \in 0 .. MaxFaults, Fault
  PROVE  faults' \in 0 .. MaxFaults
  BY Bound DEF Fault

LEMMA DieTyped ==
  ASSUME TypeOK, NEW S, Die(S)
  PROVE  /\ life' \in [Process -> {"new", "up", "stopping", "stopped", "gone"}]
         /\ hung' \subseteq Hub
         /\ beat' \in [Hub -> {"wait", "owner", "other", "off"}]
         /\ web' \subseteq Hub
         /\ leaving' \in [Hub -> Nat]
         /\ mode' \in [Hub -> Modes]
         /\ seat' \in [Hub -> Hub \cup {Nobody}]
         /\ port' \in Thread \cup {Nobody} /\ served' \in BOOLEAN
  <1> USE DEF TypeOK, ProcOK, RecordOK, ServerOK, Die
  <1>1. life' \in [Process -> {"new", "up", "stopping", "stopped", "gone"}]
    OBVIOUS
  <1>2. hung' \subseteq Hub /\ web' \subseteq Hub
    OBVIOUS
  <1>3. beat' \in [Hub -> {"wait", "owner", "other", "off"}]
    OBVIOUS
  <1>4. leaving' \in [Hub -> Nat]
    OBVIOUS
  <1>5. mode' \in [Hub -> Modes]
    BY DEF Modes
  <1>6. seat' \in [Hub -> Hub \cup {Nobody}]
    OBVIOUS
  <1>7. port' \in Thread \cup {Nobody} /\ served' \in BOOLEAN
    OBVIOUS
  <1> QED
    BY <1>1, <1>2, <1>3, <1>4, <1>5, <1>6, <1>7

LEMMA AskedInVainTyped ==
  ASSUME TypeOK, NEW t \in Thread, AskedInVain(t)
  PROVE  /\ record' \in Records
         /\ mode' \in [Hub -> Modes]
         /\ seat' \in [Hub -> Hub \cup {Nobody}]
         /\ JobOK'
  <1>1. Host[t] \in Hub /\ job[t] \in Job /\ job[t].of \in Hub \cup {Nobody}
    BY Hosts DEF TypeOK, JobOK, Job
  <1>2. record \in Records /\ mode \in [Hub -> Modes] /\ JobOK
        /\ seat \in [Hub -> Hub \cup {Nobody}]
    BY DEF TypeOK, RecordOK, ServerOK, Records
  <1>3. CASE job[t].for = "status"
    <2>1. SetMode(Host[t], "attached") /\ Rest(t)
          /\ seat' = [seat EXCEPT ![Host[t]] = job[t].of]
      BY <1>3 DEF AskedInVain
    <2>2. "attached" \in Modes
      BY DEF Modes
    <2> QED
      BY <1>1, <1>2, <2>1, <2>2, SetModeTyped, RestTyped
  <1>4. CASE job[t].for # "status"
    <2>1. UNCHANGED <<mode, seat, record>>
          /\ \E pc \in {"kill", "scan", "last"} : Go(t, pc)
      BY <1>4 DEF AskedInVain
    <2> QED
      BY <1>2, <2>1, GoTyped DEF Pcs
  <1> QED
    BY <1>3, <1>4

-----------------------------------------------------------------------------
(* Types of the variables.                                                 *)
Seats == [Hub -> Hub \cup {Nobody}]

LEMMA TypeInit == Init => TypeOK
  <1> SUFFICES ASSUME Init PROVE TypeOK
    OBVIOUS
  <1>1. ProcOK
    BY Bound DEF Init, ProcOK
  <1>2. RecordOK
    BY DEF Init, RecordOK
  <1>3. ServerOK
    BY DEF Init, ServerOK, Modes
  <1>4. JobOK
    BY IdleTyped DEF Init, JobOK
  <1> QED
    BY <1>1, <1>2, <1>3, <1>4 DEF TypeOK

LEMMA TypeParts ==
  ASSUME TypeOK
  PROVE  /\ record \in Records /\ mode \in [Hub -> Modes] /\ seat \in Seats
         /\ leaving \in [Hub -> Nat] /\ faults \in 0 .. MaxFaults /\ JobOK
         /\ \A t \in Thread : /\ Host[t] \in Hub /\ job[t] \in Job
                              /\ job[t].of \in Hub \cup {Nobody}
                              /\ job[t].todo \subseteq Hub \X BOOLEAN
         /\ port # Nobody => Holder \in Hub
  BY Hosts DEF TypeOK, ProcOK, RecordOK, ServerOK, JobOK, Job, Records, Seats,
    Holder

(* Groups of variables that a step leaves alone.                           *)
LEMMA TypeKept ==
  ASSUME TypeOK
  PROVE  /\ UNCHANGED <<proc, lapsed, faults>> => ProcOK'
         /\ UNCHANGED <<proc, lapsed>> /\ faults' \in 0 .. MaxFaults => ProcOK'
         /\ UNCHANGED <<record, beat>> => RecordOK'
         /\ UNCHANGED <<web, mode, seat, sock, leaving>> => ServerOK'
         /\ UNCHANGED job => JobOK'
  BY DEF TypeOK, ProcOK, RecordOK, ServerOK, JobOK, proc, sock

(* What a thread's step changes, when it neither binds nor ends processes. *)
LEMMA ThreadStepTyped ==
  ASSUME TypeOK, UNCHANGED <<proc, beat, web, sock, lapsed>>,
         record' \in Records, mode' \in [Hub -> Modes], seat' \in Seats,
         leaving' \in [Hub -> Nat], faults' \in 0 .. MaxFaults, JobOK'
  PROVE  TypeOK'
  <1>1. ProcOK'
    BY TypeKept
  <1>2. RecordOK'
    BY DEF TypeOK, RecordOK, Records
  <1>3. ServerOK'
    BY DEF TypeOK, ServerOK, Seats, sock
  <1> QED
    BY <1>1, <1>2, <1>3 DEF TypeOK

(* What the end of the processes of S changes.                             *)
LEMMA DeathTyped ==
  ASSUME TypeOK, NEW S, Die(S), UNCHANGED <<orphans, lapsed>>,
         record' \in Records, faults' \in 0 .. MaxFaults, JobOK'
  PROVE  TypeOK'
  <1>1. ProcOK'
    BY DieTyped DEF TypeOK, ProcOK
  <1>2. RecordOK'
    BY DieTyped DEF RecordOK, Records
  <1>3. ServerOK'
    BY DieTyped DEF ServerOK
  <1> QED
    BY <1>1, <1>2, <1>3 DEF TypeOK

LEMMA TypeStart ==
  ASSUME TypeOK, NEW p \in Process, Start(p)
  PROVE  TypeOK'
  <1>1. ServerOK' /\ JobOK'
    BY TypeKept DEF Start
  <1>2. ProcOK'
    BY DEF TypeOK, ProcOK, Start
  <1>3. RecordOK'
    <2>1. CASE p \in Hub
      <3>1. Write(p, FALSE) /\ beat' = [beat EXCEPT ![p] = "wait"]
        BY <2>1 DEF Start
      <3>2. record' \in Records
        BY <2>1, <3>1, TypeParts, WriteTyped
      <3> QED
        BY <2>1, <3>1, <3>2 DEF TypeOK, RecordOK, Records
    <2>2. CASE p \notin Hub
      BY <2>2, TypeKept DEF Start
    <2> QED
      BY <2>1, <2>2
  <1> QED
    BY <1>1, <1>2, <1>3 DEF TypeOK

LEMMA TypeCrash ==
  ASSUME TypeOK, NEW h \in Hub, Crash(h)
  PROVE  TypeOK'
  <1>1. Die({h}) /\ Fault /\ job' = JobsAfter({h})
        /\ UNCHANGED <<orphans, record, lapsed>>
    BY DEF Crash
  <1>2. record' \in Records /\ faults' \in 0 .. MaxFaults
    BY <1>1, TypeParts, FaultTyped
  <1>3. JobOK'
    BY <1>1, TypeParts, JobsAfterTyped DEF JobOK
  <1> QED
    BY <1>1, <1>2, <1>3, DeathTyped

LEMMA TypeExit ==
  ASSUME TypeOK, NEW h \in Hub, Exit(h)
  PROVE  TypeOK'
  <1>1. Die({h}) /\ job' = JobsAfter({h})
        /\ UNCHANGED <<orphans, record, lapsed, faults>>
    BY DEF Exit
  <1>2. record' \in Records /\ faults' \in 0 .. MaxFaults
    BY <1>1, TypeParts
  <1>3. JobOK'
    BY <1>1, TypeParts, JobsAfterTyped DEF JobOK
  <1> QED
    BY <1>1, <1>2, <1>3, DeathTyped

LEMMA TypeHang ==
  ASSUME TypeOK, NEW h \in Hub, Hang(h)
  PROVE  TypeOK'
  <1>1. RecordOK' /\ ServerOK' /\ JobOK'
    BY TypeKept DEF Hang
  <1>2. ProcOK'
    BY TypeParts, FaultTyped DEF TypeOK, ProcOK, Hang
  <1> QED
    BY <1>1, <1>2 DEF TypeOK

LEMMA TypeResume ==
  ASSUME TypeOK, NEW h \in Hub, Resume(h)
  PROVE  TypeOK'
  <1>1. RecordOK' /\ ServerOK' /\ JobOK'
    BY TypeKept DEF Resume
  <1>2. ProcOK'
    BY DEF TypeOK, ProcOK, Resume
  <1> QED
    BY <1>1, <1>2 DEF TypeOK

LEMMA TypeParentExit ==
  ASSUME TypeOK, NEW h \in Hub, ParentExit(h)
  PROVE  TypeOK'
  <1>1. RecordOK' /\ ServerOK' /\ JobOK'
    BY TypeKept DEF ParentExit
  <1>2. ProcOK'
    BY TypeParts, FaultTyped DEF TypeOK, ProcOK, ParentExit
  <1> QED
    BY <1>1, <1>2 DEF TypeOK

LEMMA TypeAge ==
  ASSUME TypeOK, NEW h \in Hub, Age(h)
  PROVE  TypeOK'
  <1>1. ServerOK' /\ JobOK'
    BY TypeKept DEF Age
  <1>2. ProcOK'
    BY DEF TypeOK, ProcOK, Age, proc
  <1>3. RecordOK'
    <2>1. record[h] \in Record /\ record \in Records
      BY TypeParts DEF Records, Age
    <2>2. [record[h] EXCEPT !.stale = TRUE] \in Record
      BY <2>1 DEF Record
    <2>3. record' = [record EXCEPT ![h] = [record[h] EXCEPT !.stale = TRUE]]
      BY DEF Age
    <2>4. record' \in Records
      BY <2>1, <2>2, <2>3 DEF Records
    <2> QED
      BY <2>4 DEF TypeOK, RecordOK, Records, Age
  <1> QED
    BY <1>1, <1>2, <1>3 DEF TypeOK

LEMMA TypeBeats ==
  ASSUME TypeOK, NEW h \in Hub, Sample(h) \/ Beat(h) \/ BeatFails(h)
  PROVE  TypeOK'
  <1>1. ServerOK' /\ JobOK'
    BY TypeKept DEF Sample, Beat, BeatFails
  <1>2. ProcOK'
    BY TypeKept, TypeParts, FaultTyped DEF Sample, Beat, BeatFails
  <1>3. record' \in Records
    BY TypeParts, WriteTyped DEF Sample, Beat, BeatFails
  <1>4. RecordOK'
    BY <1>3 DEF TypeOK, RecordOK, Records, Sample, Beat, BeatFails
  <1> QED
    BY <1>1, <1>2, <1>4 DEF TypeOK

LEMMA TypeShutdown ==
  ASSUME TypeOK, NEW h \in Hub, Shutdown(h)
  PROVE  TypeOK'
  <1>1. JobOK'
    BY TypeKept DEF Shutdown
  <1>2. ProcOK'
    BY DEF TypeOK, ProcOK, Process, Shutdown
  <1>3. RecordOK'
    BY DEF TypeOK, RecordOK, Shutdown
  <1>4. ServerOK'
    BY DEF TypeOK, ServerOK, Modes, Shutdown, sock
  <1> QED
    BY <1>1, <1>2, <1>3, <1>4 DEF TypeOK

LEMMA TypeLeave ==
  ASSUME TypeOK, NEW h \in Hub, Leave(h)
  PROVE  TypeOK'
  <1>1. JobOK'
    BY TypeKept DEF Leave
  <1>2. ProcOK'
    BY TypeKept, TypeParts, FaultTyped DEF Leave
  <1>3. record' \in Records
    BY TypeParts, WriteTyped DEF Leave
  <1>4. RecordOK'
    BY <1>3 DEF TypeOK, RecordOK, Records, Leave
  <1>5. web' \subseteq Hub /\ mode' \in [Hub -> Modes] /\ seat' = seat
    BY DEF TypeOK, ServerOK, Modes, Leave
  <1>6. leaving' \in [Hub -> Nat]
    <2>1. leaving[h] - 1 \in Nat
      BY TypeParts DEF Leave
    <2> QED
      BY <2>1, TypeParts DEF Leave
  <1>7. port' \in Thread \cup {Nobody} /\ served' \in BOOLEAN
    BY DEF TypeOK, ServerOK, Leave, sock
  <1> QED
    BY <1>1, <1>2, <1>4, <1>5, <1>6, <1>7 DEF TypeOK, ServerOK

LEMMA TypeCleanDead ==
  ASSUME TypeOK, NEW h \in Hub, CleanDead(h)
  PROVE  TypeOK'
  <1>1. ProcOK' /\ ServerOK' /\ JobOK'
    BY TypeKept DEF CleanDead
  <1>2. RecordOK'
    BY DEF TypeOK, RecordOK, CleanDead, Remove
  <1> QED
    BY <1>1, <1>2 DEF TypeOK

LEMMA TypeCleanOrphan ==
  ASSUME TypeOK, NEW h \in Hub, CleanOrphan(h)
  PROVE  TypeOK'
  <1>1. Die(Victims(h)) /\ job' = JobsAfter(Victims(h)) /\ Remove(h)
        /\ UNCHANGED <<orphans, lapsed, faults>>
    BY DEF CleanOrphan
  <1>2. record' \in Records /\ faults' \in 0 .. MaxFaults
    BY <1>1, TypeParts DEF Remove, Records
  <1>3. JobOK'
    BY <1>1, TypeParts, JobsAfterTyped DEF JobOK
  <1> QED
    BY <1>1, <1>2, <1>3, DeathTyped

LEMMA TypeAsk ==
  ASSUME TypeOK, NEW t \in Thread, Ask(t)
  PROVE  TypeOK'
  <1>1. record' \in Records
    BY TypeParts, WriteTyped DEF Ask
  <1>2. JobOK'
    BY TypeParts, NewJobTyped, JobSet DEF Ask
  <1>3. UNCHANGED <<proc, beat, web, mode, seat, sock, leaving, lapsed, faults>>
    BY DEF Ask
  <1> QED
    BY <1>1, <1>2, <1>3, TypeParts, ThreadStepTyped

LEMMA TypeBind ==
  ASSUME TypeOK, NEW t \in Thread, Bind(t)
  PROVE  TypeOK'
  <1>1. ProcOK' /\ RecordOK'
    BY TypeKept DEF Bind
  <1>2. ServerOK'
    BY TypeParts DEF TypeOK, ServerOK, Modes, Bind
  <1>3. JobOK'
    BY TypeParts, NewJobTyped, JobSet DEF Bind
  <1> QED
    BY <1>1, <1>2, <1>3 DEF TypeOK

LEMMA TypeServe ==
  ASSUME TypeOK, NEW t \in Thread, Serve(t)
  PROVE  TypeOK'
  <1>1. ProcOK'
    BY TypeKept DEF Serve
  <1>2. RecordOK'
    <2>1. (Host[t] \in web) \in BOOLEAN
      OBVIOUS
    <2>2. record' \in Records
      BY <2>1, TypeParts, WriteTyped DEF Serve
    <2> QED
      BY <2>2 DEF TypeOK, RecordOK, Records, Serve
  <1>3. served' \in BOOLEAN
    BY DEF Serve
  <1>4. ServerOK'
    BY <1>3 DEF TypeOK, ServerOK, Serve
  <1>5. JobOK'
    BY TypeParts, RestTyped DEF Serve
  <1> QED
    BY <1>1, <1>2, <1>4, <1>5 DEF TypeOK

LEMMA TypeServeFails ==
  ASSUME TypeOK, NEW t \in Thread, ServeFails(t)
  PROVE  TypeOK'
  <1>1. RecordOK' /\ ServerOK'
    BY TypeKept DEF ServeFails
  <1>2. ProcOK'
    BY TypeKept, TypeParts, FaultTyped DEF ServeFails
  <1>3. JobOK'
    BY TypeParts, RestTyped DEF ServeFails
  <1> QED
    BY <1>1, <1>2, <1>3 DEF TypeOK


LEMMA ModesTyped == "seeking" \in Modes /\ "attached" \in Modes
  BY DEF Modes

LEMMA HolderTyped == TypeOK /\ Answering => Holder \in Hub /\ port # Nobody
  BY Kinds DEF Answering, Active, Process, Holder

LEMMA TypeProbeAnswered ==
  ASSUME TypeOK, NEW t \in Thread, ProbeAnswered(t)
  PROVE  TypeOK'
  <1>1. Host[t] \in Hub /\ Holder \in Hub
    BY TypeParts DEF ProbeAnswered
  <1>2. record' \in Records /\ mode' \in [Hub -> Modes]
    <2>1. SetMode(Host[t], "seeking") \/ SetMode(Host[t], "attached")
      BY DEF ProbeAnswered
    <2> QED
      BY <1>1, <2>1, ModesTyped, TypeParts, SetModeTyped
  <1>3. seat' \in Seats
    <2>1. \/ seat' = [seat EXCEPT ![Host[t]] = Nobody]
          \/ seat' = [seat EXCEPT ![Host[t]] = Holder]
      BY DEF ProbeAnswered
    <2> QED
      BY <1>1, <2>1, TypeParts DEF Seats
  <1>4. JobOK'
    <2>1. \/ Rest(t)
          \/ job' = [job EXCEPT ![t] =
               [Idle EXCEPT !.pc = "request", !.for = "status", !.of = Holder]]
      BY DEF ProbeAnswered
    <2> QED
      BY <1>1, <2>1, TypeParts, RestTyped, NewJobTyped, JobSet
  <1>5. faults' \in 0 .. MaxFaults /\ leaving' \in [Hub -> Nat]
        /\ UNCHANGED <<proc, beat, web, sock, lapsed>>
    BY TypeParts, FaultTyped DEF ProbeAnswered
  <1> QED
    BY <1>2, <1>3, <1>4, <1>5, ThreadStepTyped

LEMMA TypeProbeSilent ==
  ASSUME TypeOK, NEW t \in Thread, ProbeSilent(t)
  PROVE  TypeOK'
  <1> DEFINE owners == {h \in Hub : record[h] # Nobody /\ record[h].owns}
             found == {<<h, record[h].stale>> : h \in owners}
  <1>1. found \in SUBSET (Hub \X BOOLEAN)
    BY TypeParts DEF Records, Record
  <1>2. job' = [job EXCEPT ![t] =
          [Idle EXCEPT !.pc = "scan", !.for = "scan", !.todo = found]]
    BY DEF ProbeSilent
  <1> HIDE DEF found
  <1>3. JobOK'
    BY <1>1, <1>2, TypeParts, NewJobTyped, JobSet
  <1>4. UNCHANGED <<proc, record, beat, web, mode, seat, sock, leaving, lapsed,
                    faults>>
    BY DEF ProbeSilent
  <1> QED
    BY <1>3, <1>4, TypeParts, ThreadStepTyped

LEMMA TypeScanNext ==
  ASSUME TypeOK, NEW t \in Thread, ScanNext(t)
  PROVE  TypeOK'
  <1>1. Host[t] \in Hub
    BY TypeParts
  <1>2. PICK e \in job[t].todo :
          \/ /\ SetMode(Host[t], "seeking")
             /\ seat' = [seat EXCEPT ![Host[t]] = Nobody]
             /\ job' = [job EXCEPT ![t] =
                  [job[t] EXCEPT !.pc = "request", !.of = e[1],
                                 !.todo = job[t].todo \ {e}]]
          \/ /\ job' = [job EXCEPT ![t] =
                  [job[t] EXCEPT !.todo = job[t].todo \ {e}]]
             /\ UNCHANGED <<mode, seat, record>>
    BY DEF ScanNext
  <1>3. e[1] \in Hub /\ job[t].todo \ {e} \in SUBSET (Hub \X BOOLEAN)
        /\ job[t] \in Job
    BY TypeParts
  <1>4. record' \in Records /\ mode' \in [Hub -> Modes]
    BY <1>1, <1>2, ModesTyped, TypeParts, SetModeTyped
  <1>5. seat' \in Seats
    BY <1>1, <1>2, TypeParts DEF Seats
  <1>6. JobOK'
    <2>1. [job[t] EXCEPT !.todo = job[t].todo \ {e}] \in Job
          /\ [job[t] EXCEPT !.pc = "request", !.of = e[1],
                            !.todo = job[t].todo \ {e}] \in Job
      BY <1>3, NextJobTyped DEF Pcs
    <2> QED
      BY <1>2, <2>1, TypeParts, JobSet
  <1>7. UNCHANGED <<proc, beat, web, sock, leaving, lapsed, faults>>
    BY DEF ScanNext
  <1> QED
    BY <1>4, <1>5, <1>6, <1>7, TypeParts, ThreadStepTyped

LEMMA TypeGiveUp ==
  ASSUME TypeOK, NEW t \in Thread, GiveUp(t)
  PROVE  TypeOK'
  <1>1. record' \in Records /\ mode' \in [Hub -> Modes]
    BY ModesTyped, TypeParts, SetModeTyped DEF GiveUp
  <1>2. seat' \in Seats /\ JobOK'
    BY TypeParts, RestTyped DEF GiveUp, Seats
  <1>3. UNCHANGED <<proc, beat, web, sock, leaving, lapsed, faults>>
    BY DEF GiveUp
  <1> QED
    BY <1>1, <1>2, <1>3, TypeParts, ThreadStepTyped

LEMMA AcceptsTyped ==
  ASSUME TypeOK, NEW h, Accepts(h)
  PROVE  h \in Hub
  BY HolderTyped DEF Accepts

LEMMA AcceptTyped ==
  ASSUME TypeOK, NEW h \in Hub, Accept(h)
  PROVE  leaving' \in [Hub -> Nat]
  BY TypeParts DEF Accept

LEMMA TypeRequestAccepted ==
  ASSUME TypeOK, NEW t \in Thread, RequestAccepted(t)
  PROVE  TypeOK'
  <1>1. leaving' \in [Hub -> Nat]
    BY AcceptsTyped, AcceptTyped DEF RequestAccepted
  <1>2. JobOK'
    BY TypeParts, GoTyped DEF RequestAccepted, Pcs
  <1>3. UNCHANGED <<proc, record, beat, web, mode, seat, sock, lapsed, faults>>
    BY DEF RequestAccepted
  <1> QED
    BY <1>1, <1>2, <1>3, TypeParts, ThreadStepTyped

LEMMA TypeRequestRejected ==
  ASSUME TypeOK, NEW t \in Thread, RequestRejected(t)
  PROVE  TypeOK'
  <1>1. AskedInVain(t)
        /\ UNCHANGED <<proc, beat, web, sock, leaving, lapsed, faults>>
    BY DEF RequestRejected
  <1> QED
    BY <1>1, AskedInVainTyped, TypeParts, ThreadStepTyped DEF Seats

LEMMA TypeReplyLost ==
  ASSUME TypeOK, NEW t \in Thread, ReplyLost(t)
  PROVE  TypeOK'
  <1>1. AskedInVain(t) /\ Accept(job[t].of) /\ Fault
        /\ UNCHANGED <<proc, beat, web, sock, lapsed>>
    BY DEF ReplyLost
  <1>2. leaving' \in [Hub -> Nat] /\ faults' \in 0 .. MaxFaults
    BY <1>1, AcceptsTyped, AcceptTyped, FaultTyped, TypeParts DEF ReplyLost
  <1> QED
    BY <1>1, <1>2, AskedInVainTyped, ThreadStepTyped DEF Seats

LEMMA TypeRetryFails ==
  ASSUME TypeOK, NEW t \in Thread, RetryFails(t)
  PROVE  TypeOK'
  <1>1. UNCHANGED <<proc, beat, web, sock, leaving, lapsed, faults>>
    BY DEF RetryFails
  <1>2. record' \in Records /\ mode' \in [Hub -> Modes] /\ seat' \in Seats
        /\ JobOK'
    <2>1. CASE AskedInVain(t)
      BY <2>1, AskedInVainTyped DEF Seats
    <2>2. CASE /\ \E pc \in {"scan", "last"} : Go(t, pc)
               /\ UNCHANGED <<mode, seat, record>>
      BY <2>2, TypeParts, GoTyped DEF Pcs
    <2> QED
      BY <2>1, <2>2 DEF RetryFails
  <1> QED
    BY <1>1, <1>2, TypeParts, ThreadStepTyped

LEMMA TypeKill ==
  ASSUME TypeOK, NEW t \in Thread, Kill(t)
  PROVE  TypeOK'
  <1> DEFINE S == Victims(job[t].of)
  <1>1. Die(S) /\ job' = [JobsAfter(S) EXCEPT ![t].pc = "killed"]
        /\ UNCHANGED <<orphans, record, lapsed, faults>>
    BY DEF Kill
  <1> HIDE DEF S
  <1>2. JobsAfter(S) \in [Thread -> Job]
    BY TypeParts, JobsAfterTyped
  <1>3. [JobsAfter(S)[t] EXCEPT !.pc = "killed"] \in Job
    BY <1>2, NextJobTyped DEF Pcs
  <1>4. JobOK'
    BY <1>1, <1>2, <1>3 DEF JobOK
  <1> QED
    BY <1>1, <1>4, TypeParts, DeathTyped

LEMMA TypeKillRefused ==
  ASSUME TypeOK, NEW t \in Thread, KillRefused(t)
  PROVE  TypeOK'
  <1>1. JobOK'
    BY TypeParts, GoTyped DEF KillRefused, Pcs
  <1>2. UNCHANGED <<proc, record, beat, web, mode, seat, sock, leaving, lapsed,
                    faults>>
    BY DEF KillRefused
  <1> QED
    BY <1>1, <1>2, TypeParts, ThreadStepTyped

LEMMA TypePublishFails ==
  ASSUME TypeOK, NEW t \in Thread, PublishFails(t)
  PROVE  TypeOK'
  <1> DEFINE q == seat[Host[t]]
  <1>1. q \in Hub \cup {Nobody}
    BY TypeParts DEF Seats
  <1>2. JobOK'
    <2>1. CASE q # Nobody /\ record[q] # Nobody
      <3>1. record[q].stale \in BOOLEAN /\ q \in Hub
        BY <1>1, <2>1, TypeParts DEF Records, Record
      <3>2. job' = [job EXCEPT ![t] = [Idle EXCEPT !.pc = "recover",
                !.for = "recover", !.of = q, !.stale = record[q].stale]]
        BY <2>1 DEF PublishFails
      <3> QED
        BY <3>1, <3>2, TypeParts, NewJobTyped, JobSet
    <2>2. CASE ~(q # Nobody /\ record[q] # Nobody)
      <3>1. job' = [job EXCEPT ![t] = [Idle EXCEPT !.pc = "recover",
                !.for = "recover"]]
        BY <2>2 DEF PublishFails
      <3> QED
        BY <3>1, TypeParts, NewJobTyped, JobSet
    <2> QED
      BY <2>1, <2>2
  <1>3. faults' \in 0 .. MaxFaults
    BY TypeParts, FaultTyped DEF PublishFails
  <1>4. UNCHANGED <<proc, record, beat, web, mode, seat, sock, leaving, lapsed>>
    BY DEF PublishFails
  <1> QED
    BY <1>2, <1>3, <1>4, TypeParts, ThreadStepTyped

LEMMA TypeRecoverAnswered ==
  ASSUME TypeOK, NEW t \in Thread, RecoverAnswered(t)
  PROVE  TypeOK'
  <1>1. Host[t] \in Hub /\ Holder \in Hub
    BY TypeParts, HolderTyped DEF RecoverAnswered
  <1>2. record' \in Records /\ mode' \in [Hub -> Modes]
    <2>1. SetMode(Host[t], "seeking") \/ UNCHANGED <<mode, record>>
      BY DEF RecoverAnswered
    <2> QED
      BY <1>1, <2>1, ModesTyped, TypeParts, SetModeTyped
  <1>3. seat' \in Seats /\ JobOK'
    BY <1>1, TypeParts, RestTyped DEF RecoverAnswered, Seats
  <1>4. faults' \in 0 .. MaxFaults
        /\ UNCHANGED <<proc, beat, web, sock, leaving, lapsed>>
    BY TypeParts, FaultTyped DEF RecoverAnswered
  <1> QED
    BY <1>2, <1>3, <1>4, TypeParts, ThreadStepTyped

LEMMA TypeRecoverSilent ==
  ASSUME TypeOK, NEW t \in Thread, RecoverSilent(t)
  PROVE  TypeOK'
  <1>1. Host[t] \in Hub
    BY TypeParts
  <1>2. \/ Rest(t) /\ UNCHANGED <<mode, seat, record>>
        \/ /\ SetMode(Host[t], "seeking")
           /\ seat' = [seat EXCEPT ![Host[t]] = Nobody]
           /\ \E pc \in {"last", "request"} : Go(t, pc)
    BY DEF RecoverSilent
  <1>3. record' \in Records /\ mode' \in [Hub -> Modes]
    BY <1>1, <1>2, ModesTyped, TypeParts, SetModeTyped
  <1>4. seat' \in Seats
    BY <1>1, <1>2, TypeParts DEF Seats
  <1>5. JobOK'
    BY <1>2, TypeParts, RestTyped, GoTyped DEF Pcs
  <1>6. UNCHANGED <<proc, beat, web, sock, leaving, lapsed, faults>>
    BY DEF RecoverSilent
  <1> QED
    BY <1>3, <1>4, <1>5, <1>6, TypeParts, ThreadStepTyped

LEMMA TypeNext == TypeOK /\ [Next]_vars => TypeOK'
  <1> SUFFICES ASSUME TypeOK, [Next]_vars PROVE TypeOK'
    OBVIOUS
  <1>1. CASE \E p \in Process : Start(p)
    BY <1>1, TypeStart
  <1>2. ASSUME NEW h \in Hub,
               \/ Crash(h) \/ Hang(h) \/ Resume(h) \/ ParentExit(h)
               \/ Age(h) \/ Sample(h) \/ Beat(h) \/ BeatFails(h)
               \/ Shutdown(h) \/ Exit(h) \/ Leave(h) \/ Cleanup(h)
        PROVE  TypeOK'
    BY <1>2, TypeCrash, TypeHang, TypeResume, TypeParentExit, TypeAge,
       TypeBeats, TypeShutdown, TypeExit, TypeLeave, TypeCleanDead,
       TypeCleanOrphan DEF Cleanup
  <1>3. ASSUME NEW t \in Thread, Step(t)
        PROVE  TypeOK'
    BY <1>3, TypeAsk, TypeBind, TypeServe, TypeServeFails, TypeProbeAnswered,
       TypeProbeSilent, TypeScanNext, TypeGiveUp, TypeRequestAccepted,
       TypeRequestRejected, TypeReplyLost, TypeRetryFails, TypeKill,
       TypeKillRefused, TypePublishFails, TypeRecoverAnswered,
       TypeRecoverSilent DEF Step
  <1>4. CASE UNCHANGED vars
    BY <1>4 DEF vars, proc, sock, TypeOK, ProcOK, RecordOK, ServerOK, JobOK
  <1> QED
    BY <1>1, <1>2, <1>3, <1>4 DEF Next

(* The variables keep the types of the hub's fields, of the registry's     *)
(* files and of the threads' places in start_web_server, for any number of *)
(* servers, threads and faults.                                            *)
THEOREM OwnerTyped == Spec => []TypeOK
  <1>1. Init => TypeOK
    BY TypeInit
  <1>2. TypeOK /\ [Next]_vars => TypeOK'
    BY TypeNext
  <1> QED
    BY <1>1, <1>2, PTL DEF Spec

-----------------------------------------------------------------------------
(* The invariant.  A hub that is asked to leave or is about to be          *)
(* terminated was found, in a file that may be out of date by now, to be   *)
(* orphaned, lapsed or without a process, and none of these passes: so the *)
(* deed is due however much later than the look it is done.                *)
Begun  == {h \in Hub : life[h] # "new"}
Due    == lapsed \cup orphans
Doomed == Due \cup {h \in Hub : life[h] = "gone"}

(* What a thread knows from the files it has read. *)
SoundJob(j, begun, doomed, late) ==
  /\ j.of # Nobody => j.of \in begun
  /\ j.pc = "recover" /\ j.of # Nobody /\ j.stale => j.of \in late
  /\ \A e \in j.todo : e[1] \in begun /\ (e[2] => e[1] \in late)
  /\ j.pc \in {"request", "asked", "kill"} => j.of \in doomed

PidsUnique  == \A p, q \in Up : Pid[p] = Pid[q] => p = q
RecordSound == \A h \in Hub : record[h] # Nobody =>
                 h \in Begun /\ (record[h].stale => h \in lapsed)
LeavingDue  == \A h \in Hub : leaving[h] > 0 => h \in Due
JobsSound   == \A t \in Thread : SoundJob(job[t], Begun, Doomed, lapsed)

OwnerInv == TypeOK /\ PidsUnique /\ RecordSound /\ LeavingDue /\ JobsSound

LEMMA SoundMonotone ==
  ASSUME NEW j, NEW b1, NEW b2, NEW d1, NEW d2, NEW l1, NEW l2,
         b1 \subseteq b2, d1 \subseteq d2, l1 \subseteq l2,
         SoundJob(j, b1, d1, l1)
  PROVE  SoundJob(j, b2, d2, l2)
  BY DEF SoundJob

LEMMA SoundIdle ==
  ASSUME NEW b, NEW d, NEW l
  PROVE  SoundJob(Idle, b, d, l)
  BY DEF SoundJob, Idle

(* A process whose start marker a record still matches is the only one     *)
(* that is ended for it.                                                   *)
LEMMA VictimAlone ==
  ASSUME PidsUnique, NEW h, IdentityMatches(h)
  PROVE  Victims(h) = {h} /\ h \in Up
  BY DEF PidsUnique, IdentityMatches, Victims, ProcessIdentity

LEMMA NotRunning ==
  ASSUME TypeOK, NEW h \in Hub, h \in Begun, ~Running(Pid[h])
  PROVE  life[h] = "gone"
  <1>1. life[h] \in {"new", "up", "stopping", "stopped", "gone"} /\ h \in Process
    BY DEF TypeOK, ProcOK, Process
  <1>2. h \notin Up
    BY DEF Running
  <1> QED
    BY <1>1, <1>2 DEF Up, Begun

LEMMA EligibleDoomed ==
  ASSUME TypeOK, NEW h \in Hub, h \in Begun, NEW stale, stale => h \in lapsed,
         Eligible(h, stale)
  PROVE  h \in Doomed
  BY NotRunning DEF Eligible, Unwell, Doomed, Due

-----------------------------------------------------------------------------
(* How processes come and go.                                              *)
Born(p)     == /\ life[p] = "new" /\ ~Running(Pid[p])
               /\ life' = [life EXCEPT ![p] = "up"]
Ends(h)     == /\ h \in Up
               /\ life' = [p \in Process |-> IF p \in {h} THEN "gone" ELSE life[p]]
ShutsDown(h) == /\ life[h] = "up"
                /\ \/ life' = [life EXCEPT ![h] = "stopping"]
                   \/ life' = [life EXCEPT ![h] = "stopped"]

LEMMA LifeMoves ==
  ASSUME OwnerInv, [Next]_vars
  PROVE  \/ UNCHANGED life
         \/ \E p \in Process : Born(p)
         \/ \E h \in Hub : Ends(h) \/ ShutsDown(h)
  <1>1. ASSUME NEW p \in Process, Start(p) PROVE Born(p)
    BY <1>1 DEF Start, Born
  <1>2. ASSUME NEW h \in Hub, Crash(h) \/ Exit(h) PROVE Ends(h)
    BY <1>2 DEF Crash, Exit, Active, Die, Ends
  <1>3. ASSUME NEW h \in Hub, Shutdown(h) PROVE ShutsDown(h)
    BY <1>3 DEF Shutdown, ShutsDown
  <1>4. ASSUME NEW h \in Hub, CleanOrphan(h) PROVE Ends(h)
    <2>1. Die(Victims(h)) /\ IdentityMatches(h)
      BY <1>4 DEF CleanOrphan
    <2>2. Victims(h) = {h} /\ h \in Up
      BY <2>1, VictimAlone DEF OwnerInv
    <2> QED
      BY <2>1, <2>2 DEF Die, Ends
  <1>5. ASSUME NEW t \in Thread, Kill(t)
        PROVE  job[t].of \in Hub /\ Ends(job[t].of)
    <2>1. Die(Victims(job[t].of)) /\ IdentityMatches(job[t].of)
          /\ job[t].pc = "kill"
      BY <1>5 DEF Kill, At
    <2>2. Victims(job[t].of) = {job[t].of} /\ job[t].of \in Up
      BY <2>1, VictimAlone DEF OwnerInv
    <2>3. job[t].of \in Doomed
      BY <2>1 DEF OwnerInv, JobsSound, SoundJob
    <2>4. job[t].of \in Hub
      BY <2>3 DEF OwnerInv, TypeOK, ProcOK, Doomed, Due
    <2> QED
      BY <2>1, <2>2, <2>4 DEF Die, Ends
  <1>6. ASSUME NEW h \in Hub,
               \/ Hang(h) \/ Resume(h) \/ ParentExit(h) \/ Age(h) \/ Sample(h)
               \/ Beat(h) \/ BeatFails(h) \/ Leave(h) \/ CleanDead(h)
        PROVE  UNCHANGED life
    BY <1>6 DEF Hang, Resume, ParentExit, Age, Sample, Beat, BeatFails, Leave,
       CleanDead, proc
  <1>7. ASSUME NEW t \in Thread, Step(t), ~Kill(t)
        PROVE  UNCHANGED life
    BY <1>7 DEF Step, Ask, Bind, Serve, ServeFails, ProbeAnswered, ProbeSilent,
       ScanNext, GiveUp, RequestAccepted, RequestRejected, ReplyLost,
       RetryFails, KillRefused, PublishFails, RecoverAnswered, RecoverSilent,
       proc
  <1>8. CASE UNCHANGED vars
    BY <1>8 DEF vars, proc
  <1> QED
    BY <1>1, <1>2, <1>3, <1>4, <1>5, <1>6, <1>7, <1>8 DEF Next, Cleanup

LEMMA HistoryGrows ==
  ASSUME [Next]_vars
  PROVE  lapsed \subseteq lapsed' /\ orphans \subseteq orphans'
  <1>1. ASSUME NEW p \in Process, Start(p)
        PROVE  UNCHANGED <<lapsed, orphans>>
    BY <1>1 DEF Start
  <1>2. ASSUME NEW h \in Hub,
               \/ Crash(h) \/ Hang(h) \/ Resume(h) \/ ParentExit(h)
               \/ Age(h) \/ Sample(h) \/ Beat(h) \/ BeatFails(h)
               \/ Shutdown(h) \/ Exit(h) \/ Leave(h) \/ Cleanup(h)
        PROVE  lapsed \subseteq lapsed' /\ orphans \subseteq orphans'
    BY <1>2 DEF Crash, Hang, Resume, ParentExit, Age, Sample, Beat, BeatFails,
       Shutdown, Exit, Leave, Cleanup, CleanDead, CleanOrphan, proc
  <1>3. ASSUME NEW t \in Thread, Step(t)
        PROVE  UNCHANGED <<lapsed, orphans>>
    BY <1>3 DEF Step, Ask, Bind, Serve, ServeFails, ProbeAnswered, ProbeSilent,
       ScanNext, GiveUp, RequestAccepted, RequestRejected, ReplyLost,
       RetryFails, Kill, KillRefused, PublishFails, RecoverAnswered,
       RecoverSilent, proc
  <1>4. CASE UNCHANGED vars
    BY <1>4 DEF vars, proc
  <1> QED
    BY <1>1, <1>2, <1>3, <1>4 DEF Next

(* What makes a deed due stays true.                                       *)
LEMMA Grows ==
  ASSUME OwnerInv, [Next]_vars
  PROVE  /\ Begun \subseteq Begun' /\ Doomed \subseteq Doomed'
         /\ Due \subseteq Due' /\ lapsed \subseteq lapsed'
  <1>1. life \in [Process -> {"new", "up", "stopping", "stopped", "gone"}]
    BY DEF OwnerInv, TypeOK, ProcOK
  <1>2. \A h \in Hub : h \in Process
    BY DEF Process
  <1>3. \A h \in Hub : /\ life[h] # "new" => life'[h] # "new"
                       /\ life[h] = "gone" => life'[h] = "gone"
    <2>1. CASE UNCHANGED life
      BY <2>1
    <2>2. CASE \E p \in Process : Born(p)
      BY <1>1, <1>2, <2>2 DEF Born
    <2>3. CASE \E h \in Hub : Ends(h)
      BY <1>1, <1>2, <2>3 DEF Ends
    <2>4. CASE \E h \in Hub : ShutsDown(h)
      BY <1>1, <1>2, <2>4 DEF ShutsDown
    <2> QED
      BY <2>1, <2>2, <2>3, <2>4, LifeMoves
  <1> QED
    BY <1>3, HistoryGrows DEF Begun, Doomed, Due

LEMMA PidsStep ==
  ASSUME OwnerInv, [Next]_vars
  PROVE  PidsUnique'
  <1>1. life \in [Process -> {"new", "up", "stopping", "stopped", "gone"}]
    BY DEF OwnerInv, TypeOK, ProcOK
  <1>2. ASSUME NEW p \in Process, Born(p)
        PROVE  PidsUnique'
    <2>1. Up' = Up \cup {p}
      BY <1>1, <1>2 DEF Born, Up
    <2>2. \A q \in Up : Pid[q] # Pid[p]
      BY <1>2 DEF Born, Running
    <2> QED
      BY <2>1, <2>2 DEF PidsUnique, OwnerInv
  <1>3. CASE Up' \subseteq Up
    BY <1>3 DEF PidsUnique, OwnerInv
  <1>4. CASE UNCHANGED life
    BY <1>3, <1>4 DEF Up
  <1>5. ASSUME NEW h \in Hub, Ends(h) \/ ShutsDown(h)
        PROVE  PidsUnique'
    <2>1. Up' \subseteq Up
      BY <1>1, <1>5 DEF Ends, ShutsDown, Up
    <2> QED
      BY <1>3, <2>1
  <1> QED
    BY <1>2, <1>4, <1>5, LifeMoves

-----------------------------------------------------------------------------
(* How the files of the registry come and go.                              *)
Wrote(h)   == h \in Begun' /\ \E owns \in BOOLEAN : Write(h, owns)
Removed(h) == Remove(h) /\ life'[h] \in {"stopped", "gone"}

LEMMA AtWork ==
  ASSUME NEW t \in Thread, Step(t)
  PROVE  Host[t] \in Active
  BY DEF Step, Ask, Bind, Serve, ServeFails, ProbeAnswered, ProbeSilent,
    ScanNext, GiveUp, RequestAccepted, RequestRejected, ReplyLost, RetryFails,
    Kill, KillRefused, PublishFails, RecoverAnswered, RecoverSilent, At

LEMMA ThreadWrites ==
  ASSUME NEW t \in Thread, Step(t)
  PROVE  UNCHANGED record \/ \E owns \in BOOLEAN : Write(Host[t], owns)
  <1>1. (Host[t] \in web) \in BOOLEAN
    OBVIOUS
  <1>2. ASSUME NEW m, SetMode(Host[t], m)
        PROVE  \E owns \in BOOLEAN : Write(Host[t], owns)
    BY <1>1, <1>2 DEF SetMode
  <1>3. CASE Ask(t) \/ Serve(t)
    BY <1>1, <1>3 DEF Ask, Serve
  <1>4. CASE \/ Bind(t) \/ ServeFails(t) \/ ProbeSilent(t) \/ RequestAccepted(t)
             \/ Kill(t) \/ KillRefused(t) \/ PublishFails(t)
    BY <1>4 DEF Bind, ServeFails, ProbeSilent, RequestAccepted, Kill,
       KillRefused, PublishFails
  <1>5. CASE \/ ProbeAnswered(t) \/ ScanNext(t) \/ GiveUp(t)
             \/ RecoverAnswered(t) \/ RecoverSilent(t)
    BY <1>2, <1>5 DEF ProbeAnswered, ScanNext, GiveUp, RecoverAnswered,
       RecoverSilent
  <1>6. CASE RequestRejected(t) \/ ReplyLost(t) \/ RetryFails(t)
    BY <1>2, <1>6 DEF RequestRejected, ReplyLost, RetryFails, AskedInVain
  <1> QED
    BY <1>3, <1>4, <1>5, <1>6 DEF Step

LEMMA ActiveBegun == Active \subseteq Begun
  BY DEF Active, Up, Begun

LEMMA RecordMoves ==
  ASSUME OwnerInv, [Next]_vars
  PROVE  UNCHANGED record \/ \E h \in Hub : Wrote(h) \/ Age(h) \/ Removed(h)
  <1>1. life \in [Process -> {"new", "up", "stopping", "stopped", "gone"}]
        /\ TypeOK
    BY DEF OwnerInv, TypeOK, ProcOK
  <1>2. \A h \in Hub : h \in Process
    BY DEF Process
  <1>3. ASSUME NEW p \in Process, Start(p)
        PROVE  UNCHANGED record \/ \E h \in Hub : Wrote(h)
    BY <1>1, <1>3 DEF Start, Wrote, Begun
  <1>4. ASSUME NEW h \in Hub, Beat(h) \/ Leave(h)
        PROVE  UNCHANGED record \/ Wrote(h)
    <2>1. h \in Begun'
      BY <1>4, ActiveBegun, Grows DEF Beat, Leave
    <2>2. UNCHANGED record \/ \E owns \in BOOLEAN : Write(h, owns)
      BY <1>4 DEF Beat, Leave
    <2> QED
      BY <2>1, <2>2 DEF Wrote
  <1>5. ASSUME NEW h \in Hub, Shutdown(h)
        PROVE  UNCHANGED record \/ Removed(h)
    BY <1>1, <1>2, <1>5 DEF Shutdown, Removed, Remove
  <1>6. ASSUME NEW h \in Hub, CleanDead(h)
        PROVE  Removed(h)
    <2>1. h \in Begun /\ ~Running(Pid[h]) /\ life' = life /\ Remove(h)
      BY <1>6 DEF OwnerInv, RecordSound, CleanDead, proc
    <2>2. life[h] = "gone"
      BY <1>1, <2>1, NotRunning
    <2> QED
      BY <2>1, <2>2 DEF Removed
  <1>7. ASSUME NEW h \in Hub, CleanOrphan(h)
        PROVE  Removed(h)
    BY <1>2, <1>7, VictimAlone DEF OwnerInv, CleanOrphan, Die, Removed
  <1>8. ASSUME NEW h \in Hub,
               \/ Crash(h) \/ Hang(h) \/ Resume(h) \/ ParentExit(h)
               \/ Sample(h) \/ BeatFails(h) \/ Exit(h)
        PROVE  UNCHANGED record
    BY <1>8 DEF Crash, Hang, Resume, ParentExit, Sample, BeatFails, Exit
  <1>9. ASSUME NEW t \in Thread, Step(t)
        PROVE  UNCHANGED record \/ \E h \in Hub : Wrote(h)
    <2>1. Host[t] \in Hub /\ Host[t] \in Begun'
      BY <1>1, <1>9, AtWork, ActiveBegun, Grows, TypeParts
    <2> QED
      BY <1>9, <2>1, ThreadWrites DEF Wrote
  <1>10. CASE UNCHANGED vars
    BY <1>10 DEF vars
  <1> QED
    BY <1>3, <1>4, <1>5, <1>6, <1>7, <1>8, <1>9, <1>10 DEF Next, Cleanup

LEMMA RecordStep ==
  ASSUME OwnerInv, [Next]_vars
  PROVE  RecordSound'
  <1>1. record \in Records /\ RecordSound
    BY TypeParts DEF OwnerInv
  <1>2. CASE UNCHANGED record
    BY <1>1, <1>2, Grows DEF RecordSound
  <1>3. ASSUME NEW h \in Hub, Wrote(h)
        PROVE  RecordSound'
    BY <1>1, <1>3, Grows DEF RecordSound, Wrote, Write, Records
  <1>4. ASSUME NEW h \in Hub, Age(h)
        PROVE  RecordSound'
    <2>1. record[h] # Nobody /\ h \in lapsed'
          /\ record' = [record EXCEPT ![h] = [record[h] EXCEPT !.stale = TRUE]]
      BY <1>4 DEF Age
    <2>2. \A g \in Hub \ {h} : record'[g] = record[g]
      BY <2>1
    <2> QED
      BY <1>1, <2>1, <2>2, Grows DEF RecordSound
  <1>5. ASSUME NEW h \in Hub, Removed(h)
        PROVE  RecordSound'
    BY <1>1, <1>5, Grows DEF RecordSound, Removed, Remove, Records
  <1> QED
    BY <1>2, <1>3, <1>4, <1>5, RecordMoves

-----------------------------------------------------------------------------
(* Who is asked to leave.                                                  *)
LEMMA AcceptsDue ==
  ASSUME OwnerInv, NEW h, Accepts(h)
  PROVE  h \in Hub /\ h \in Due
  <1>1. h \in Hub
    BY AcceptsTyped DEF OwnerInv
  <1> QED
    BY <1>1 DEF OwnerInv, RecordSound, Accepts, Unwell, Due

LEMMA LeavingStep ==
  ASSUME OwnerInv, [Next]_vars
  PROVE  LeavingDue'
  <1>1. leaving \in [Hub -> Nat] /\ LeavingDue
    BY TypeParts DEF OwnerInv
  <1>2. CASE UNCHANGED leaving
    BY <1>1, <1>2, Grows DEF LeavingDue
  <1>3. ASSUME NEW S, Die(S)
        PROVE  LeavingDue'
    <2>1. leaving' = [h \in Hub |-> IF h \in S THEN 0 ELSE leaving[h]]
      BY <1>3 DEF Die
    <2> QED
      BY <1>1, <2>1, Grows DEF LeavingDue
  <1>4. ASSUME NEW h, Accepts(h), Accept(h)
        PROVE  LeavingDue'
    <2>1. h \in Hub /\ h \in Due
      BY <1>4, AcceptsDue
    <2>2. \A g \in Hub \ {h} : leaving'[g] = leaving[g]
      BY <1>1, <1>4 DEF Accept
    <2> QED
      BY <1>1, <2>1, <2>2, Grows DEF LeavingDue
  <1>5. ASSUME NEW h \in Hub, Leave(h)
        PROVE  LeavingDue'
    <2>1. h \in Due
      BY <1>1, <1>5 DEF Leave, LeavingDue
    <2>2. \A g \in Hub \ {h} : leaving'[g] = leaving[g]
      BY <1>1, <1>5 DEF Leave
    <2> QED
      BY <1>1, <2>1, <2>2, Grows DEF LeavingDue
  <1>6. ASSUME NEW p \in Process, Start(p)
        PROVE  UNCHANGED leaving
    BY <1>6 DEF Start
  <1>7. ASSUME NEW h \in Hub, Crash(h) \/ Exit(h) \/ CleanOrphan(h)
        PROVE  LeavingDue'
    BY <1>3, <1>7 DEF Crash, Exit, CleanOrphan
  <1>8. ASSUME NEW h \in Hub,
               \/ Hang(h) \/ Resume(h) \/ ParentExit(h) \/ Age(h) \/ Sample(h)
               \/ Beat(h) \/ BeatFails(h) \/ Shutdown(h) \/ CleanDead(h)
        PROVE  UNCHANGED leaving
    BY <1>8 DEF Hang, Resume, ParentExit, Age, Sample, Beat, BeatFails,
       Shutdown, CleanDead
  <1>9. ASSUME NEW t \in Thread, Step(t)
        PROVE  LeavingDue'
    <2>1. CASE RequestAccepted(t) \/ ReplyLost(t)
      BY <1>4, <2>1 DEF RequestAccepted, ReplyLost
    <2>2. CASE Kill(t)
      BY <1>3, <2>2 DEF Kill
    <2>3. CASE ~(RequestAccepted(t) \/ ReplyLost(t) \/ Kill(t))
      <3>1. UNCHANGED leaving
        BY <1>9, <2>3 DEF Step, Ask, Bind, Serve, ServeFails, ProbeAnswered,
           ProbeSilent, ScanNext, GiveUp, RequestRejected, RetryFails,
           KillRefused, PublishFails, RecoverAnswered, RecoverSilent
      <3> QED
        BY <1>2, <3>1
    <2> QED
      BY <2>1, <2>2, <2>3
  <1>10. CASE UNCHANGED vars
    BY <1>2, <1>10 DEF vars
  <1> QED
    BY <1>2, <1>5, <1>6, <1>7, <1>8, <1>9, <1>10 DEF Next, Cleanup

-----------------------------------------------------------------------------
(* What the threads know.                                                  *)
Sound(j) == SoundJob(j, Begun, Doomed, lapsed)

LEMMA JobsKept ==
  ASSUME OwnerInv, [Next]_vars, UNCHANGED job
  PROVE  JobsSound'
  BY Grows, SoundMonotone DEF OwnerInv, JobsSound

LEMMA JobsEnd ==
  ASSUME OwnerInv, [Next]_vars, NEW S, job' = JobsAfter(S)
  PROVE  JobsSound'
  <1> SUFFICES ASSUME NEW t \in Thread
               PROVE  SoundJob(job'[t], Begun', Doomed', lapsed')
    BY DEF JobsSound
  <1>1. job'[t] = Idle \/ job'[t] = job[t]
    BY DEF JobsAfter
  <1> QED
    BY <1>1, Grows, SoundMonotone, SoundIdle DEF OwnerInv, JobsSound

LEMMA JobsNew ==
  ASSUME OwnerInv, [Next]_vars, NEW t \in Thread, NEW j, Sound(j),
         job' = [job EXCEPT ![t] = j]
  PROVE  JobsSound'
  <1> SUFFICES ASSUME NEW u \in Thread
               PROVE  SoundJob(job'[u], Begun', Doomed', lapsed')
    BY DEF JobsSound
  <1>1. job'[u] = j \/ job'[u] = job[u]
    BY DEF OwnerInv, TypeOK, JobOK
  <1> QED
    BY <1>1, Grows, SoundMonotone DEF OwnerInv, JobsSound, Sound

LEMMA JobsRest ==
  ASSUME OwnerInv, [Next]_vars, NEW t \in Thread, Rest(t)
  PROVE  JobsSound'
  BY SoundIdle, JobsNew DEF Rest, Sound

(* A thread goes on with what it knows: to terminate a process, or to ask  *)
(* it, only when that is due.                                              *)
LEMMA SoundGo ==
  ASSUME NEW j \in Job, Sound(j), NEW pc \in Pcs \ {"recover"},
         pc \in {"request", "asked", "kill"} => j.of \in Doomed
  PROVE  Sound([j EXCEPT !.pc = pc])
  BY DEF Sound, SoundJob, Job

LEMMA JobsGo ==
  ASSUME OwnerInv, [Next]_vars, NEW t \in Thread, NEW pc \in Pcs \ {"recover"},
         pc \in {"request", "asked", "kill"} => job[t].of \in Doomed,
         Go(t, pc)
  PROVE  JobsSound'
  <1>1. job[t] \in Job /\ Sound(job[t])
    BY TypeParts DEF OwnerInv, JobsSound, Sound
  <1>2. Sound([job[t] EXCEPT !.pc = pc])
    BY <1>1, SoundGo
  <1>3. job' = [job EXCEPT ![t] = [job[t] EXCEPT !.pc = pc]]
    BY DEF Go
  <1> QED
    BY <1>2, <1>3, JobsNew

LEMMA JobsVain ==
  ASSUME OwnerInv, [Next]_vars, NEW t \in Thread,
         job[t].pc \in {"request", "asked"}, AskedInVain(t)
  PROVE  JobsSound'
  <1>1. job[t].of \in Doomed
    BY DEF OwnerInv, JobsSound, SoundJob
  <1>2. Rest(t) \/ \E pc \in {"kill", "scan", "last"} : Go(t, pc)
    BY DEF AskedInVain
  <1>3. {"kill", "scan", "last"} \subseteq Pcs \ {"recover"}
    BY DEF Pcs
  <1> QED
    BY <1>1, <1>2, <1>3, JobsRest, JobsGo

(* A file, as read now, tells the truth about its hub. *)
LEMMA ReadSound ==
  ASSUME OwnerInv, NEW h \in Hub, record[h] # Nobody
  PROVE  h \in Begun /\ (record[h].stale => h \in lapsed)
  BY DEF OwnerInv, RecordSound

LEMMA JobsProbeAnswered ==
  ASSUME OwnerInv, [Next]_vars, NEW t \in Thread, ProbeAnswered(t)
  PROVE  JobsSound'
  <1> DEFINE q == Holder
             j == [Idle EXCEPT !.pc = "request", !.for = "status", !.of = q]
  <1>1. q \in Hub
    BY HolderTyped DEF OwnerInv, ProbeAnswered
  <1>2. \/ Rest(t)
        \/ /\ record[q] # Nobody /\ Eligible(q, record[q].stale)
           /\ job' = [job EXCEPT ![t] = j]
    BY DEF ProbeAnswered
  <1>3. CASE record[q] # Nobody /\ Eligible(q, record[q].stale)
             /\ job' = [job EXCEPT ![t] = j]
    <2>1. q \in Begun /\ q \in Doomed
      BY <1>1, <1>3, ReadSound, EligibleDoomed DEF OwnerInv
    <2>2. Sound(j)
      BY <2>1 DEF Sound, SoundJob, Idle
    <2> HIDE DEF j
    <2> QED
      BY <1>3, <2>2, JobsNew
  <1> QED
    BY <1>2, <1>3, JobsRest

LEMMA JobsProbeSilent ==
  ASSUME OwnerInv, [Next]_vars, NEW t \in Thread, ProbeSilent(t)
  PROVE  JobsSound'
  <1> DEFINE owners == {h \in Hub : record[h] # Nobody /\ record[h].owns}
             found == {<<h, record[h].stale>> : h \in owners}
             j == [Idle EXCEPT !.pc = "scan", !.for = "scan", !.todo = found]
  <1>1. \A e \in found : e[1] \in Begun /\ (e[2] => e[1] \in lapsed)
    BY ReadSound
  <1>2. job' = [job EXCEPT ![t] = j]
    BY DEF ProbeSilent
  <1> HIDE DEF found
  <1>3. Sound(j)
    BY <1>1 DEF Sound, SoundJob, Idle
  <1> HIDE DEF j
  <1> QED
    BY <1>2, <1>3, JobsNew

LEMMA JobsScanNext ==
  ASSUME OwnerInv, [Next]_vars, NEW t \in Thread, ScanNext(t)
  PROVE  JobsSound'
  <1>1. PICK e \in job[t].todo :
          \/ /\ Eligible(e[1], e[2])
             /\ job' = [job EXCEPT ![t] =
                  [job[t] EXCEPT !.pc = "request", !.of = e[1],
                                 !.todo = job[t].todo \ {e}]]
          \/ job' = [job EXCEPT ![t] =
                  [job[t] EXCEPT !.todo = job[t].todo \ {e}]]
    BY DEF ScanNext
  <1>2. job[t] \in Job /\ job[t].todo \subseteq Hub \X BOOLEAN
        /\ SoundJob(job[t], Begun, Doomed, lapsed)
    BY TypeParts DEF OwnerInv, JobsSound
  <1>3. e[1] \in Hub /\ e[1] \in Begun /\ (e[2] => e[1] \in lapsed)
    BY <1>2 DEF SoundJob
  <1>4. Sound([job[t] EXCEPT !.todo = job[t].todo \ {e}])
    BY <1>2 DEF Sound, SoundJob, Job
  <1>5. ASSUME Eligible(e[1], e[2])
        PROVE  Sound([job[t] EXCEPT !.pc = "request", !.of = e[1],
                                    !.todo = job[t].todo \ {e}])
    <2>1. e[1] \in Doomed
      BY <1>3, <1>5, EligibleDoomed DEF OwnerInv
    <2> QED
      BY <1>2, <1>3, <2>1 DEF Sound, SoundJob, Job
  <1> QED
    BY <1>1, <1>4, <1>5, JobsNew

LEMMA JobsKill ==
  ASSUME OwnerInv, [Next]_vars, NEW t \in Thread, Kill(t)
  PROVE  JobsSound'
  <1> DEFINE S == Victims(job[t].of)
  <1>1. job' = [JobsAfter(S) EXCEPT ![t].pc = "killed"]
    BY DEF Kill
  <1> HIDE DEF S
  <1>2. JobsAfter(S) \in [Thread -> Job]
    BY JobsAfterTyped DEF OwnerInv, TypeOK
  <1>3. \A u \in Thread : JobsAfter(S)[u] = Idle \/ JobsAfter(S)[u] = job[u]
    BY DEF JobsAfter
  <1>4. \A u \in Thread : Sound(JobsAfter(S)[u])
    BY <1>3, SoundIdle DEF OwnerInv, JobsSound, Sound
  <1>5. Sound([JobsAfter(S)[t] EXCEPT !.pc = "killed"])
    BY <1>2, <1>4, SoundGo DEF Pcs
  <1>6. \A u \in Thread :
          \/ job'[u] = JobsAfter(S)[u]
          \/ job'[u] = [JobsAfter(S)[t] EXCEPT !.pc = "killed"]
    BY <1>1, <1>2
  <1>7. \A u \in Thread : Sound(job'[u])
    BY <1>4, <1>5, <1>6
  <1> QED
    BY <1>7, Grows, SoundMonotone DEF JobsSound, Sound

LEMMA JobsPublishFails ==
  ASSUME OwnerInv, [Next]_vars, NEW t \in Thread, PublishFails(t)
  PROVE  JobsSound'
  <1> DEFINE q == seat[Host[t]]
             j == [Idle EXCEPT !.pc = "recover", !.for = "recover", !.of = q,
                               !.stale = record[q].stale]
             k == [Idle EXCEPT !.pc = "recover", !.for = "recover"]
  <1>1. \/ /\ q # Nobody /\ record[q] # Nobody
           /\ job' = [job EXCEPT ![t] = j]
        \/ job' = [job EXCEPT ![t] = k]
    BY DEF PublishFails
  <1>2. CASE q # Nobody /\ record[q] # Nobody /\ job' = [job EXCEPT ![t] = j]
    <2>1. q \in Hub
      BY <1>2, TypeParts DEF OwnerInv, Seats
    <2>2. q \in Begun /\ (record[q].stale => q \in lapsed)
      BY <1>2, <2>1, ReadSound
    <2>3. Sound(j)
      BY <2>2 DEF Sound, SoundJob, Idle
    <2> HIDE DEF j
    <2> QED
      BY <1>2, <2>3, JobsNew
  <1>3. CASE job' = [job EXCEPT ![t] = k]
    <2>1. Sound(k)
      BY DEF Sound, SoundJob, Idle
    <2> HIDE DEF k
    <2> QED
      BY <1>3, <2>1, JobsNew
  <1> QED
    BY <1>1, <1>2, <1>3

LEMMA JobsRecoverSilent ==
  ASSUME OwnerInv, [Next]_vars, NEW t \in Thread, RecoverSilent(t)
  PROVE  JobsSound'
  <1> DEFINE q == job[t].of
  <1>1. CASE Rest(t)
    BY <1>1, JobsRest
  <1>2. CASE Go(t, "last")
    BY <1>2, JobsGo DEF Pcs
  <1>3. CASE q # Nobody /\ Eligible(q, job[t].stale) /\ Go(t, "request")
    <2>1. job[t].pc = "recover" /\ SoundJob(job[t], Begun, Doomed, lapsed)
          /\ q \in Hub
      BY <1>3, TypeParts DEF RecoverSilent, At, OwnerInv, JobsSound
    <2>2. q \in Begun /\ (job[t].stale => q \in lapsed)
      BY <1>3, <2>1 DEF SoundJob
    <2>3. q \in Doomed
      BY <1>3, <2>1, <2>2, EligibleDoomed DEF OwnerInv
    <2> QED
      BY <1>3, <2>3, JobsGo DEF Pcs
  <1> QED
    BY <1>1, <1>2, <1>3 DEF RecoverSilent

LEMMA JobsThread ==
  ASSUME OwnerInv, [Next]_vars, NEW t \in Thread, Step(t)
  PROVE  JobsSound'
  <1>1. CASE Serve(t) \/ ServeFails(t) \/ GiveUp(t) \/ RecoverAnswered(t)
    BY <1>1, JobsRest DEF Serve, ServeFails, GiveUp, RecoverAnswered
  <1>2. CASE Ask(t) \/ Bind(t)
    <2>1. Sound([Idle EXCEPT !.pc = "bind"])
          /\ Sound([Idle EXCEPT !.pc = "serve"])
      BY DEF Sound, SoundJob, Idle
    <2> QED
      BY <1>2, <2>1, JobsNew DEF Ask, Bind
  <1>3. CASE RequestAccepted(t)
    <2>1. job[t].of \in Doomed /\ Go(t, "asked")
      BY <1>3, AcceptsDue DEF RequestAccepted, Doomed
    <2> QED
      BY <2>1, JobsGo DEF Pcs
  <1>4. CASE RequestRejected(t) \/ ReplyLost(t)
    BY <1>4, JobsVain DEF RequestRejected, ReplyLost, At
  <1>5. CASE RetryFails(t)
    <2>1. \/ job[t].pc = "asked" /\ AskedInVain(t)
          \/ Go(t, "scan") \/ Go(t, "last")
      BY <1>5 DEF RetryFails, At
    <2> QED
      BY <2>1, JobsVain, JobsGo DEF Pcs
  <1>6. CASE KillRefused(t)
    <2>1. Go(t, "scan") \/ Go(t, "last")
      BY <1>6 DEF KillRefused
    <2> QED
      BY <2>1, JobsGo DEF Pcs
  <1> QED
    BY <1>1, <1>2, <1>3, <1>4, <1>5, <1>6, JobsProbeAnswered, JobsProbeSilent,
       JobsScanNext, JobsKill, JobsPublishFails, JobsRecoverSilent DEF Step

LEMMA JobsStep ==
  ASSUME OwnerInv, [Next]_vars
  PROVE  JobsSound'
  <1>1. ASSUME NEW p \in Process, Start(p)
        PROVE  UNCHANGED job
    BY <1>1 DEF Start
  <1>2. ASSUME NEW h \in Hub, Crash(h) \/ Exit(h) \/ CleanOrphan(h)
        PROVE  JobsSound'
    BY <1>2, JobsEnd DEF Crash, Exit, CleanOrphan
  <1>3. ASSUME NEW h \in Hub,
               \/ Hang(h) \/ Resume(h) \/ ParentExit(h) \/ Age(h) \/ Sample(h)
               \/ Beat(h) \/ BeatFails(h) \/ Shutdown(h) \/ Leave(h)
               \/ CleanDead(h)
        PROVE  UNCHANGED job
    BY <1>3 DEF Hang, Resume, ParentExit, Age, Sample, Beat, BeatFails,
       Shutdown, Leave, CleanDead
  <1>4. CASE UNCHANGED vars
    BY <1>4, JobsKept DEF vars
  <1> QED
    BY <1>1, <1>2, <1>3, <1>4, JobsThread, JobsKept DEF Next, Cleanup

LEMMA InvInit == Init => OwnerInv
  <1> SUFFICES ASSUME Init PROVE OwnerInv
    OBVIOUS
  <1>1. TypeOK
    BY TypeInit
  <1>2. PidsUnique
    BY DEF Init, PidsUnique, Up
  <1>3. RecordSound /\ LeavingDue
    BY DEF Init, RecordSound, LeavingDue
  <1>4. JobsSound
    BY SoundIdle DEF Init, JobsSound
  <1> QED
    BY <1>1, <1>2, <1>3, <1>4 DEF OwnerInv

LEMMA InvNext == OwnerInv /\ [Next]_vars => OwnerInv'
  BY TypeNext, PidsStep, RecordStep, LeavingStep, JobsStep DEF OwnerInv

LEMMA Inductive == Spec => []OwnerInv
  BY InvInit, InvNext, PTL DEF Spec

-----------------------------------------------------------------------------
(* A process that is not a Gemness server survives every step, although a  *)
(* record may name the pid it was given after the server that wrote the    *)
(* record had ended: takeover and cleanup compare the start marker too     *)
(* (record_identity_matches).                                              *)
THEOREM OthersSpared == Spec => ForeignSpared
  <1>1. OwnerInv /\ [Next]_vars =>
          [\A p \in Foreign : life[p] = "up" => life'[p] = "up"]_vars
    <2> SUFFICES ASSUME OwnerInv, [Next]_vars, NEW p \in Foreign,
                        life[p] = "up"
                 PROVE  life'[p] = "up"
      OBVIOUS
    <2>1. life \in [Process -> {"new", "up", "stopping", "stopped", "gone"}]
      BY DEF OwnerInv, TypeOK, ProcOK
    <2>2. p \in Process /\ p \notin Hub
      BY Kinds DEF Process
    <2>3. CASE UNCHANGED life
      BY <2>3
    <2>4. CASE \E q \in Process : Born(q)
      BY <2>1, <2>2, <2>4 DEF Born
    <2>5. CASE \E h \in Hub : Ends(h) \/ ShutsDown(h)
      BY <2>1, <2>2, <2>5 DEF Ends, ShutsDown
    <2> QED
      BY <2>3, <2>4, <2>5, LifeMoves
  <1> QED
    BY <1>1, Inductive, PTL DEF Spec, ForeignSpared

(* What may end a server, or its ownership of the port, in one step.       *)
Excused(h) ==
  \/ faults' # faults
  \/ life[h] = "stopped"
  \/ life'[h] \in {"stopping", "stopped"}
  \/ h \in lapsed \cup orphans

LEMMA CausesOfEnd ==
  ASSUME OwnerInv, [Next]_vars
  PROVE  \/ Up \subseteq Up' /\ web \subseteq web'
         \/ \E h \in Hub : /\ (Up \ Up') \cup (web \ web') \subseteq {h}
                           /\ Excused(h)
  <1>1. life \in [Process -> {"new", "up", "stopping", "stopped", "gone"}]
        /\ web \subseteq Hub
    BY DEF OwnerInv, TypeOK, ProcOK, ServerOK
  <1>2. \A h \in Hub : h \in Process
    BY DEF Process
  <1>3. ASSUME NEW h \in Hub, Die({h}), Excused(h)
        PROVE  (Up \ Up') \cup (web \ web') \subseteq {h}
    BY <1>1, <1>3 DEF Die, Up
  <1>4. ASSUME NEW h \in Hub, Crash(h)
        PROVE  Die({h}) /\ Excused(h)
    BY <1>4 DEF Crash, Fault, Excused, OwnerInv, TypeOK, ProcOK
  <1>5. ASSUME NEW h \in Hub, Exit(h)
        PROVE  Die({h}) /\ Excused(h)
    BY <1>5 DEF Exit, Excused
  <1>6. ASSUME NEW h \in Hub, CleanOrphan(h)
        PROVE  Die({h}) /\ Excused(h)
    BY <1>6, VictimAlone DEF CleanOrphan, Excused, OwnerInv
  <1>7. ASSUME NEW t \in Thread, Kill(t)
        PROVE  \E h \in Hub : Die({h}) /\ Excused(h)
    <2> DEFINE h == job[t].of
    <2>1. Victims(h) = {h} /\ h \in Up /\ Die(Victims(h)) /\ job[t].pc = "kill"
      BY <1>7, VictimAlone DEF Kill, At, OwnerInv
    <2>2. h \in Doomed
      BY <2>1 DEF OwnerInv, JobsSound, SoundJob
    <2>3. h \in Due
      BY <2>1, <2>2 DEF Doomed, Up
    <2>4. h \in Hub
      BY <2>3 DEF Due, OwnerInv, TypeOK, ProcOK
    <2> QED
      BY <2>1, <2>3, <2>4 DEF Excused, Due
  <1>8. ASSUME NEW h \in Hub, Shutdown(h)
        PROVE  (Up \ Up') \cup (web \ web') \subseteq {h} /\ Excused(h)
    BY <1>1, <1>2, <1>8 DEF Shutdown, Excused, Up
  <1>9. ASSUME NEW h \in Hub, Leave(h)
        PROVE  (Up \ Up') \cup (web \ web') \subseteq {h} /\ Excused(h)
    <2>1. h \in Due
      BY <1>9 DEF Leave, OwnerInv, LeavingDue
    <2>2. life' = life /\ web' = web \ {h}
      BY <1>9 DEF Leave, proc
    <2> QED
      BY <2>1, <2>2 DEF Excused, Due, Up
  <1>10. ASSUME NEW p \in Process, Start(p)
         PROVE  Up \subseteq Up' /\ web \subseteq web'
    BY <1>1, <1>10 DEF Start, Up
  <1>11. ASSUME NEW h \in Hub,
                \/ Hang(h) \/ Resume(h) \/ ParentExit(h) \/ Age(h) \/ Sample(h)
                \/ Beat(h) \/ BeatFails(h) \/ CleanDead(h)
         PROVE  UNCHANGED <<life, web>>
    BY <1>11 DEF Hang, Resume, ParentExit, Age, Sample, Beat, BeatFails,
       CleanDead, proc
  <1>12. ASSUME NEW t \in Thread, Step(t), ~Kill(t)
         PROVE  UNCHANGED life /\ web \subseteq web'
    BY <1>12 DEF Step, Ask, Bind, Serve, ServeFails, ProbeAnswered,
       ProbeSilent, ScanNext, GiveUp, RequestAccepted, RequestRejected,
       ReplyLost, RetryFails, KillRefused, PublishFails, RecoverAnswered,
       RecoverSilent, proc
  <1>13. UNCHANGED life => Up' = Up
    BY DEF Up
  <1>14. CASE UNCHANGED vars
    BY <1>13, <1>14 DEF vars, proc
  <1>15. CASE \E h \in Hub : Die({h}) /\ Excused(h)
    BY <1>3, <1>15
  <1> QED
    BY <1>4, <1>5, <1>6, <1>7, <1>8, <1>9, <1>10, <1>11, <1>12, <1>13, <1>14,
       <1>15 DEF Next, Cleanup

(* A server that loses the port or its process without a shutdown, an exit *)
(* or a crash of its own has been orphaned or has lapsed, whatever has     *)
(* happened between the look at its record (record_is_takeover_eligible)   *)
(* and the takeover, the kill or the cleanup that it led to.               *)
THEOREM WellAreUndisturbed == Spec => WellUndisturbed
  <1>1. OwnerInv /\ [Next]_vars =>
          [\A h \in (Up \ Up') \cup (web \ web') :
             \/ faults' # faults
             \/ life[h] = "stopped"
             \/ life'[h] \in {"stopping", "stopped"}
             \/ h \in lapsed \cup orphans]_vars
    BY CausesOfEnd DEF Excused
  <1> QED
    BY <1>1, Inductive, PTL DEF Spec, WellUndisturbed

(* The registry loses the file of a hub only with the hub: at its shutdown,*)
(* or once its process has ended or as it is ended (gemness cleanup).      *)
THEOREM LiveRecordsKept == Spec => LiveRecordKept
  <1>1. OwnerInv /\ [Next]_vars =>
          [\A h \in Hub : record[h] # Nobody /\ record'[h] = Nobody =>
             life'[h] \in {"stopped", "gone"}]_vars
    <2> SUFFICES ASSUME OwnerInv, [Next]_vars, NEW h \in Hub,
                        record[h] # Nobody, record'[h] = Nobody
                 PROVE  life'[h] \in {"stopped", "gone"}
      OBVIOUS
    <2>1. record \in Records /\ Nobody \notin Record
      BY TypeParts, Kinds DEF OwnerInv
    <2>2. ASSUME NEW g \in Hub, Wrote(g)
          PROVE  FALSE
      <3>1. PICK owns \in BOOLEAN :
              record' = [record EXCEPT ![g] = [owns |-> owns, stale |-> FALSE]]
        BY <2>2 DEF Wrote, Write
      <3>2. [owns |-> owns, stale |-> FALSE] \in Record
        BY DEF Record
      <3> QED
        BY <2>1, <3>1, <3>2 DEF Records
    <2>3. ASSUME NEW g \in Hub, Age(g)
          PROVE  FALSE
      <3>1. record' \in Records /\ record[g] \in Record
        BY <2>1, <2>3, TypeAge, TypeParts DEF OwnerInv, Age, Records
      <3>2. [record[g] EXCEPT !.stale = TRUE] \in Record
        BY <3>1 DEF Record
      <3>3. record' = [record EXCEPT ![g] = [record[g] EXCEPT !.stale = TRUE]]
        BY <2>3 DEF Age
      <3> QED
        BY <2>1, <3>2, <3>3 DEF Records
    <2>4. ASSUME NEW g \in Hub, Removed(g)
          PROVE  life'[h] \in {"stopped", "gone"}
      BY <2>1, <2>4 DEF Removed, Remove, Records
    <2> QED
      BY <2>2, <2>3, <2>4, RecordMoves
  <1> QED
    BY <1>1, Inductive, PTL DEF Spec, LiveRecordKept
=============================================================================
