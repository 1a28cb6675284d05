------------------------ MODULE ConversationsProofs ------------------------
(* That the invariant of ConversationsInv is one, for every number of      *)
(* servers, workers, runs and faults, and what follows from it.            *)
EXTENDS ConversationsInv, FiniteSetTheorems, SequenceTheorems,
        WellFoundedInduction, TLAPS

USE DEF Conv, FollowUp, GoOn, NoCall, NoWork, NoRemoval, memory, disk

-----------------------------------------------------------------------------
(* Turns.                                                                  *)

(* A set of bounded numbers has a greatest one.                            *)
LEMMA Greatest ==
  ASSUME NEW b \in Nat, NEW T \in SUBSET (0 .. b), T # {}
  PROVE  \E m \in T : \A k \in T : k <= m
  <1> DEFINE U == {b - k : k \in T}
             Less == OpToRel(<, Nat)
  <1>1. \A x, y \in Nat : <<y, x>> \in Less <=> y < x
    BY DEF OpToRel
  <1>2. IsWellFoundedOn(Less, Nat)
    BY NatLessThanWellFounded
  <1> HIDE DEF Less
  <1>3. \A k \in T : k \in 0 .. b /\ b - k \in Nat
    OBVIOUS
  <1>4. U \subseteq Nat
    BY ONLY <1>3
  <1>5. U # {}
    OBVIOUS
  <1>6. \E x \in U : \A y \in U : ~ (<<y, x>> \in Less)
    <2> HIDE DEF U
    <2> QED
      BY <1>4, <1>5, <1>2, WFMin
  <1>7. PICK m \in T : \A y \in U : ~ (<<y, b - m>> \in Less)
    BY ONLY <1>6
  <1>8. ASSUME NEW k \in T PROVE k <= m
    <2>1. b - k \in U
      OBVIOUS
    <2>2. ~ (b - k < b - m)
      BY ONLY <1>1, <1>3, <1>7, <2>1, k \in T, m \in T
    <2> QED
      BY ONLY <1>3, <2>2, k \in T, m \in T, b \in Nat
  <1> QED
    BY ONLY <1>8, m \in T

(* Runs are numbers, and neither no run nor an unknown one.                *)
LEMMA RunNumbers ==
  /\ MaxRuns \in Nat /\ Run \subseteq Nat /\ Run \subseteq Root
  /\ None \notin Run /\ Unknown \notin Run /\ Unknown # None
  /\ None \in Root /\ Unknown \in Root
  BY Bounds DEF Run, None, Unknown, Root

(* The fields of the runs.                                                 *)
LEMMA RunFields ==
  ASSUME TypeOK
  PROVE  /\ Len(run) \in Nat /\ Len(run) <= MaxRuns
         /\ \A r : r \in Created <=> r \in Nat /\ 1 <= r /\ r <= Len(run)
         /\ Created \subseteq Run
         /\ \A r \in Created :
              /\ run[r].home \in Server /\ run[r].conv \in Run
              /\ run[r].turn \in Nat \ {0} /\ run[r].parent \in Run \cup {None}
  <1>1. Len(run) \in Nat /\ Len(run) <= MaxRuns /\ Created = 1 .. Len(run)
    BY DEF TypeOK, Created
  <1>2. Created \subseteq Run
    BY <1>1, Bounds DEF Run
  <1>3. \A r \in Created : run[r] \in RunRecord
    BY <1>1 DEF TypeOK
  <1>4. \A r \in Created : /\ run[r].home \in Server /\ run[r].conv \in Run
                            /\ run[r].turn \in Nat \ {0}
                            /\ run[r].parent \in Run \cup {None}
    BY <1>3 DEF RunRecord
  <1> QED
    BY <1>1, <1>2, <1>4

(* The next turn is above every known one, the first turn is 1, and there  *)
(* are no more turns than runs.                                            *)
LEMMA NextTurnIsNext ==
  ASSUME TypeOK, FirstOK, NEW s \in Server, NEW c \in Run
  PROVE  /\ NextTurn(s, c) \in 1 .. Len(run) + 1
         /\ \A r \in Runs(s, c) : run[r].turn < NextTurn(s, c)
         /\ Runs(s, c) = {} => NextTurn(s, c) = 1
  <1> DEFINE T == {0} \cup {run[r].turn : r \in Runs(s, c)}
             top == CHOOSE n \in T : \A r \in Runs(s, c) : run[r].turn <= n
  <1>1. Len(run) \in Nat /\ \A r \in Runs(s, c) : run[r].turn \in 1 .. Len(run)
    <2>1. Runs(s, c) \subseteq Created
      BY DEF Runs, TypeOK
    <2> QED
      BY <2>1, RunFields DEF FirstOK
  <1>2. \E m \in T : \A k \in T : k <= m
    <2>1. T \subseteq 0 .. Len(run) /\ T # {}
      BY <1>1
    <2> HIDE DEF T
    <2> QED
      BY <1>1, <2>1, Greatest
  <1>3. \E n \in T : \A r \in Runs(s, c) : run[r].turn <= n
    BY <1>2
  <1>4. top \in T /\ \A r \in Runs(s, c) : run[r].turn <= top
    <2> HIDE DEF T
    <2> QED
      BY <1>3
  <1>5. NextTurn(s, c) = 1 + top
    BY DEF NextTurn
  <1>6. top \in 0 .. Len(run)
    <2> HIDE DEF top
    <2> QED
      BY <1>1, <1>4
  <1>7. Runs(s, c) = {} => top = 0
    <2> HIDE DEF top
    <2> QED
      BY <1>4
  <1> HIDE DEF T, top
  <1> QED
    BY <1>1, <1>4, <1>5, <1>6, <1>7

-----------------------------------------------------------------------------
(* Types.                                                                  *)

Planning == {s \in Server : Planned(s)}

(* How many calls are between plan and create_session.                     *)
LEMMA PlanningCounts ==
  /\ IsFiniteSet(Planning) /\ Cardinality(Planning) \in Nat
  /\ Planning' \subseteq Planning => Cardinality(Planning') <= Cardinality(Planning)
  /\ \A s : s \notin Planning /\ Planning' \subseteq Planning \cup {s}
              => Cardinality(Planning') <= Cardinality(Planning) + 1
  /\ \A s : s \in Planning /\ Planning' \subseteq Planning \ {s}
              => Cardinality(Planning') + 1 <= Cardinality(Planning)
  <1>1. IsFiniteSet(Planning) /\ Cardinality(Planning) \in Nat
    BY Homes, FS_Subset, FS_CardinalityType DEF Planning
  <1>2. IsFiniteSet(Planning') /\ Cardinality(Planning') \in Nat
    BY Homes, FS_Subset, FS_CardinalityType DEF Planning
  <1>3. ASSUME Planning' \subseteq Planning
        PROVE  Cardinality(Planning') <= Cardinality(Planning)
    BY <1>1, <1>3, FS_Subset
  <1>4. ASSUME NEW s, s \notin Planning, Planning' \subseteq Planning \cup {s}
        PROVE  Cardinality(Planning') <= Cardinality(Planning) + 1
    <2>1. /\ IsFiniteSet(Planning \cup {s})
          /\ Cardinality(Planning \cup {s}) = Cardinality(Planning) + 1
      BY <1>1, <1>4, FS_AddElement
    <2> QED
      BY <1>4, <2>1, FS_Subset
  <1>5. ASSUME NEW s, s \in Planning, Planning' \subseteq Planning \ {s}
        PROVE  Cardinality(Planning') + 1 <= Cardinality(Planning)
    <2>1. /\ IsFiniteSet(Planning \ {s})
          /\ Cardinality(Planning \ {s}) = Cardinality(Planning) - 1
      BY <1>1, <1>5, FS_RemoveElement
    <2>2. Cardinality(Planning') <= Cardinality(Planning \ {s})
      BY <1>5, <2>1, FS_Subset
    <2> QED
      BY <1>1, <1>2, <2>1, <2>2
  <1> QED
    BY <1>1, <1>3, <1>4, <1>5

(* What one more run is.                                                   *)
LEMMA RunAdded ==
  ASSUME TypeInv, FirstOK, NEW s \in Server, AddRun(s), Len(run) < MaxRuns
  PROVE  LET n == Len(run) + 1
             c == IF caller[s].conv = None THEN n ELSE caller[s].conv IN
         /\ n \in Run /\ c \in Run /\ n \notin Created
         /\ run' \in Seq(RunRecord) /\ Len(run') = n
         /\ Created' = Created \cup {n}
         /\ \A r \in Created : r < n /\ run'[r] = run[r]
         /\ run'[n] = [home |-> s, conv |-> c, turn |-> NextTurn(s, c),
                       parent |-> caller[s].parent]
         /\ known' = [known EXCEPT ![s] = @ \cup {n}]
         /\ root' = [root EXCEPT ![s][c] = IF @ \in {None, Unknown} THEN n ELSE @]
  <1> DEFINE n == Len(run) + 1
             c == IF caller[s].conv = None THEN n ELSE caller[s].conv
             x == [home |-> s, conv |-> c, turn |-> NextTurn(s, c),
                   parent |-> caller[s].parent]
  <1>1. n \in Run /\ n \notin Created /\ n \in Nat
    BY RunFields, Bounds DEF TypeInv, Run
  <1>2. c \in Run /\ caller[s].parent \in Run \cup {None}
    BY <1>1 DEF TypeInv, TypeOK, CallRecord
  <1>3. NextTurn(s, c) \in Nat \ {0}
    BY <1>1, <1>2, NextTurnIsNext DEF TypeInv
  <1>4. x \in RunRecord
    BY <1>2, <1>3 DEF RunRecord
  <1>5. NewRun(s) = x
    BY DEF NewRun
  <1>6. run' = Append(run, x) /\ run \in Seq(RunRecord)
    BY <1>5 DEF AddRun, TypeInv, TypeOK
  <1> HIDE DEF x
  <1>7. /\ run' \in Seq(RunRecord) /\ Len(run') = n /\ run'[n] = x
        /\ \A r \in 1 .. Len(run) : run'[r] = run[r]
    BY <1>4, <1>6
  <1>8. Created' = Created \cup {n} /\ \A r \in Created : r < n
    BY <1>1, <1>7, RunFields DEF Created, TypeInv
  <1>9. /\ known' = [known EXCEPT ![s] = @ \cup {n}]
        /\ root' = [root EXCEPT ![s][c] = IF @ \in {None, Unknown} THEN n ELSE @]
    BY <1>5 DEF AddRun, x
  <1> QED
    BY <1>1, <1>2, <1>7, <1>8, <1>9 DEF x, Created

LEMMA TypeInit == Init => TypeInv
  <1> SUFFICES ASSUME Init PROVE TypeInv
    OBVIOUS
  <1>1. Len(run) = 0 /\ Created = {} /\ run \in Seq(RunRecord)
    BY DEF Init, Created
  <1>2. TypeOK
    BY <1>1, Bounds, RunNumbers DEF Init, TypeOK, NoConversations, CallRecord,
      WorkRecord, RemovalRecord
  <1>3. CallOK /\ WorkOK
    BY DEF Init, CallOK, WorkOK, Planned
  <1>4. SlotsOK
    <2>1. Planning = {}
      BY DEF Init, Planning, Planned
    <2> QED
      BY <1>1, <2>1, FS_EmptySet, Bounds DEF SlotsOK, Planning
  <1> QED
    BY <1>2, <1>3, <1>4 DEF TypeInv

(* A step that creates no run and plans nothing.                           *)
QuietRuns == UNCHANGED <<run, state>> /\ Planning' \subseteq Planning

LEMMA SlotsKept ==
  ASSUME TypeInv, QuietRuns
  PROVE  SlotsOK'
  <1>1. Cardinality(Planning') <= Cardinality(Planning)
    BY PlanningCounts DEF QuietRuns
  <1>2. Len(run) \in Nat /\ Len(run') = Len(run) /\ Cardinality(Planning) \in Nat
    BY RunFields, PlanningCounts DEF TypeInv, QuietRuns
  <1>3. Cardinality(Planning') \in Nat
    BY Homes, FS_Subset, FS_CardinalityType DEF Planning
  <1>4. Len(run) + Cardinality(Planning) <= MaxRuns
    BY DEF TypeInv, SlotsOK, Planning
  <1>5. Len(run') + Cardinality(Planning') <= MaxRuns
    BY <1>1, <1>2, <1>3, <1>4, RunNumbers
  <1> QED
    BY <1>5 DEF SlotsOK, Planning

(* What a call may become.                                                 *)
LEMMA CallBecomes ==
  ASSUME TypeInv, NEW s \in Server, NEW x \in CallRecord,
         caller' = [caller EXCEPT ![s] = x],
         UNCHANGED <<run, work, removal>>,
         x.pc = "idle" => x = NoCall,
         x.pc \in {"wait", "check", "create"} => x.parent \in Created,
         x.pc = "wait" => x.conv # None
  PROVE  /\ caller' \in [Server -> CallRecord]
         /\ caller'[s] = x /\ \A t \in Server : t # s => caller'[t] = caller[t]
         /\ CallOK' /\ WorkOK'
  <1>1. /\ caller' \in [Server -> CallRecord]
        /\ caller'[s] = x /\ \A t \in Server : t # s => caller'[t] = caller[t]
    BY DEF TypeInv, TypeOK
  <1> QED
    BY <1>1 DEF TypeInv, CallOK, WorkOK, Planned, Created

LEMMA PlanTypes ==
  ASSUME TypeInv, NEW s \in Server, NEW p \in Created, PlanFollowUp(s, p)
  PROVE  TypeInv'
  <1>1. p \in Run /\ Conv(p) \in Run
    BY RunFields DEF TypeInv
  <1>2. PICK x \in CallRecord :
          /\ caller' = [caller EXCEPT ![s] = x]
          /\ x.pc \in {"wait", "check"} /\ x.parent = p
          /\ x.pc = "wait" => x.conv = Conv(p)
    <2> DEFINE w == [NoCall EXCEPT !.pc = "wait", !.parent = p, !.conv = Conv(p)]
               c == [NoCall EXCEPT !.pc = "check", !.parent = p]
    <2>1. /\ w \in CallRecord /\ w.pc = "wait" /\ w.parent = p /\ w.conv = Conv(p)
          /\ c \in CallRecord /\ c.pc = "check" /\ c.parent = p
      BY <1>1 DEF CallRecord
    <2>2. \/ caller' = [caller EXCEPT ![s] = w]
          \/ caller' = [caller EXCEPT ![s] = c]
      BY DEF PlanFollowUp
    <2> QED
      BY <2>1, <2>2
  <1>3. UNCHANGED <<run, state, disk, up, memory, locked, queue, work, removal, raced, faults>>
    BY DEF PlanFollowUp
  <1>4. /\ caller' \in [Server -> CallRecord]
        /\ caller'[s] = x /\ \A t \in Server : t # s => caller'[t] = caller[t]
        /\ CallOK' /\ WorkOK'
    BY <1>1, <1>2, <1>3, RunNumbers, CallBecomes
  <1>5. TypeOK'
    BY <1>3, <1>4 DEF TypeInv, TypeOK, RemovalRecord, Created
  <1>6. SlotsOK'
    <2>1. Planning' \subseteq Planning \cup {s} /\ s \notin Planning
      BY <1>4 DEF Planning, Planned, PlanFollowUp, Calling
    <2>2. Cardinality(Planning') <= Cardinality(Planning) + 1
      BY <2>1, PlanningCounts
    <2>3. Len(run) + Cardinality(Planning) < MaxRuns
      BY DEF PlanFollowUp, RunsLeft, Planning, Planned
    <2>4. Cardinality(Planning') \in Nat /\ Cardinality(Planning) \in Nat /\ Len(run) \in Nat
      BY Homes, FS_Subset, FS_CardinalityType, PlanningCounts, RunFields DEF Planning, TypeInv
    <2>5. Len(run) + Cardinality(Planning') <= MaxRuns
      BY <2>2, <2>3, <2>4, RunNumbers
    <2> QED
      BY <1>3, <2>5 DEF SlotsOK, Planning
  <1> QED
    BY <1>4, <1>5, <1>6 DEF TypeInv

LEMMA LockTypes ==
  ASSUME TypeInv, NEW s \in Server, LockConversation(s)
  PROVE  TypeInv'
  <1>1. caller[s] \in CallRecord /\ caller[s].pc = "wait" /\ caller[s].conv \in Run
    BY RunNumbers DEF LockConversation, Calling, TypeInv, TypeOK, CallOK, CallRecord
  <1>2. PICK x \in CallRecord :
          /\ caller' = [caller EXCEPT ![s] = x]
          /\ x.pc = "check" /\ x.parent = caller[s].parent
    <2> DEFINE x == [caller[s] EXCEPT !.pc = "check", !.lock = caller[s].conv]
    <2>1. x \in CallRecord /\ x.pc = "check" /\ x.parent = caller[s].parent
      BY <1>1 DEF CallRecord
    <2>2. caller' = [caller EXCEPT ![s] = x]
      BY DEF LockConversation, TypeInv, TypeOK
    <2> QED
      BY <2>1, <2>2
  <1>3. /\ UNCHANGED <<run, state, disk, up, memory, queue, work, removal, raced, faults>>
        /\ locked' = locked \cup {<<s, caller[s].conv>>}
    BY DEF LockConversation
  <1>4. /\ caller' \in [Server -> CallRecord]
        /\ caller'[s] = x /\ \A t \in Server : t # s => caller'[t] = caller[t]
        /\ CallOK' /\ WorkOK'
    <2>1. x.parent \in Created
      BY <1>1, <1>2 DEF TypeInv, CallOK, Planned
    <2> QED
      BY <1>2, <1>3, <2>1, CallBecomes
  <1>5. TypeOK'
    BY <1>1, <1>3, <1>4 DEF TypeInv, TypeOK, RemovalRecord, Created
  <1>6. QuietRuns
    BY <1>1, <1>2, <1>3, <1>4 DEF QuietRuns, Planning, Planned
  <1> QED
    BY <1>4, <1>5, <1>6, SlotsKept DEF TypeInv

LEMMA CheckTypes ==
  ASSUME TypeInv, NEW s \in Server, CheckPlan(s)
  PROVE  TypeInv'
  <1>1. /\ caller[s] \in CallRecord /\ caller[s].pc = "check"
        /\ caller[s].parent \in Created /\ Conv(caller[s].parent) \in Run
    BY RunFields DEF CheckPlan, Calling, TypeInv, TypeOK, CallOK, Planned
  <1>2. PICK x \in CallRecord :
          /\ caller' = [caller EXCEPT ![s] = x]
          /\ \/ x = NoCall
             \/ x.pc = "create" /\ x.parent = caller[s].parent
    <2> DEFINE y == [caller[s] EXCEPT !.pc = "create", !.conv = Conv(caller[s].parent)]
               z == [caller[s] EXCEPT !.pc = "create"]
    <2>1. /\ y \in CallRecord /\ y.pc = "create" /\ y.parent = caller[s].parent
          /\ z \in CallRecord /\ z.pc = "create" /\ z.parent = caller[s].parent
          /\ NoCall \in CallRecord
      BY <1>1 DEF CallRecord
    <2>2. \/ caller' = [caller EXCEPT ![s] = y]
          \/ caller' = [caller EXCEPT ![s] = z]
          \/ caller' = [caller EXCEPT ![s] = NoCall]
      BY DEF CheckPlan, TypeInv, TypeOK
    <2> QED
      BY <2>1, <2>2
  <1>3. /\ UNCHANGED <<run, state, disk, up, memory, queue, work, removal, raced, faults>>
        /\ locked' \subseteq locked
    BY DEF CheckPlan, Release
  <1>4. /\ caller' \in [Server -> CallRecord]
        /\ caller'[s] = x /\ \A t \in Server : t # s => caller'[t] = caller[t]
        /\ CallOK' /\ WorkOK'
    BY <1>1, <1>2, <1>3, CallBecomes
  <1>5. TypeOK'
    BY <1>3, <1>4 DEF TypeInv, TypeOK, RemovalRecord, Created
  <1>6. QuietRuns
    BY <1>1, <1>2, <1>3, <1>4 DEF QuietRuns, Planning, Planned
  <1> QED
    BY <1>4, <1>5, <1>6, SlotsKept DEF TypeInv

(* create_session adds a run, whether or not the index can be written.     *)
LEMMA AddTypes ==
  ASSUME TypeInv, FirstOK, NEW s \in Server, AddRun(s), Len(run) < MaxRuns
  PROVE  /\ run' \in Seq(RunRecord) /\ Len(run') = Len(run) + 1 /\ Len(run') <= MaxRuns
         /\ Created \subseteq Created'
         /\ known' \in [Server -> SUBSET Created']
         /\ root' \in [Server -> [Run -> Root]]
  <1> DEFINE n == Len(run) + 1
             c == IF caller[s].conv = None THEN n ELSE caller[s].conv
  <1>1. /\ n \in Run /\ c \in Run /\ Created' = Created \cup {n}
        /\ run' \in Seq(RunRecord) /\ Len(run') = n
        /\ known' = [known EXCEPT ![s] = @ \cup {n}]
        /\ root' = [root EXCEPT ![s][c] = IF @ \in {None, Unknown} THEN n ELSE @]
    BY RunAdded
  <1> HIDE DEF c
  <1>2. known' \in [Server -> SUBSET Created']
    BY <1>1 DEF TypeInv, TypeOK
  <1>3. root' \in [Server -> [Run -> Root]]
    BY <1>1, RunNumbers DEF TypeInv, TypeOK
  <1>4. n <= MaxRuns
    BY RunFields, RunNumbers DEF TypeInv
  <1> QED
    BY <1>1, <1>2, <1>3, <1>4

(* The other variables, as there are more runs.                            *)
LEMMA TypesGrow ==
  ASSUME TypeInv, Created \subseteq Created',
         UNCHANGED <<queue, work, removal>>
  PROVE  /\ queue' \in [Server -> Seq(Created')]
         /\ work' \in [Worker -> WorkRecord]
         /\ removal' \in [Server -> RemovalRecord']
         /\ WorkOK'
  <1>1. \A q \in Seq(Created) : q \in Seq(Created')
    BY SeqMonotonic
  <1>2. queue' \in [Server -> Seq(Created')]
    BY <1>1 DEF TypeInv, TypeOK
  <1>3. removal' \in [Server -> RemovalRecord']
    <2>1. \A x \in RemovalRecord : x \in RemovalRecord'
      BY DEF RemovalRecord
    <2> QED
      BY <2>1 DEF TypeInv, TypeOK
  <1> QED
    BY <1>2, <1>3 DEF TypeInv, TypeOK, WorkOK, WorkRecord

LEMMA CreateTypes ==
  ASSUME TypeInv, FirstOK, NEW s \in Server, StartRun(s) \/ CreateRun(s)
  PROVE  TypeInv'
  <1>1. Create(s) /\ caller[s].pc \in {"idle", "create"}
    BY DEF StartRun, CreateRun, Calling
  <1>2. Len(run) \in Nat /\ Cardinality(Planning) \in Nat /\ Cardinality(Planning') \in Nat
        /\ MaxRuns \in Nat /\ Len(run) + Cardinality(Planning) <= MaxRuns
    BY Homes, FS_Subset, FS_CardinalityType, RunFields, RunNumbers
      DEF Planning, TypeInv, SlotsOK
  <1>3. PICK x \in CallRecord : caller' = [caller EXCEPT ![s] = x] /\ x.pc = "log"
    <2> DEFINE x == [caller[s] EXCEPT !.pc = "log"]
    <2>1. caller[s] \in CallRecord
      BY DEF TypeInv, TypeOK
    <2>2. x \in CallRecord /\ x.pc = "log"
      BY <2>1 DEF CallRecord
    <2>3. caller' = [caller EXCEPT ![s] = x]
      BY <1>1 DEF Create, TypeInv, TypeOK
    <2> QED
      BY <2>2, <2>3
  <1>4. /\ caller' \in [Server -> CallRecord]
        /\ caller'[s] = x /\ \A t \in Server : t # s => caller'[t] = caller[t]
    BY <1>3 DEF TypeInv, TypeOK
  <1>5. /\ Len(run) < MaxRuns
        /\ Len(run) + 1 + Cardinality(Planning') <= MaxRuns
    <2>1. CASE StartRun(s)
      <3>1. Planning' \subseteq Planning
        BY <1>3, <1>4 DEF Planning, Planned
      <3>2. Cardinality(Planning') <= Cardinality(Planning)
        BY <3>1, PlanningCounts
      <3>3. Len(run) + Cardinality(Planning) < MaxRuns
        BY <2>1 DEF StartRun, RunsLeft, Planning, Planned
      <3> QED
        BY <1>2, <3>2, <3>3
    <2>2. CASE CreateRun(s)
      <3>1. Planning' \subseteq Planning \ {s} /\ s \in Planning
        BY <2>2, <1>3, <1>4 DEF Planning, Planned, CreateRun, Calling
      <3>2. Cardinality(Planning') + 1 <= Cardinality(Planning)
        BY <3>1, PlanningCounts
      <3> QED
        BY <1>2, <3>2
    <2> QED
      BY <2>1, <2>2
  <1>6. /\ run' \in Seq(RunRecord) /\ Len(run') = Len(run) + 1 /\ Len(run') <= MaxRuns
        /\ Created \subseteq Created'
        /\ known' \in [Server -> SUBSET Created']
        /\ root' \in [Server -> [Run -> Root]]
    BY <1>1, <1>5, AddTypes DEF Create
  <1>7. /\ state' = Append(state, "queued") /\ index' = root'[s]
        /\ UNCHANGED <<files, up, locked, queue, work, removal, raced, faults>>
    BY <1>1 DEF Create
  <1>8. /\ queue' \in [Server -> Seq(Created')]
        /\ work' \in [Worker -> WorkRecord]
        /\ removal' \in [Server -> RemovalRecord']
        /\ WorkOK'
    BY <1>6, <1>7, TypesGrow
  <1>9. /\ state' \in Seq({"queued", "running", "final", "void"})
        /\ Len(state') = Len(run')
    BY <1>6, <1>7 DEF TypeInv, TypeOK
  <1>10. TypeOK'
    BY <1>4, <1>6, <1>7, <1>8, <1>9 DEF TypeInv, TypeOK
  <1>11. CallOK'
    BY <1>3, <1>4, <1>6, <1>7 DEF TypeInv, CallOK, Planned
  <1>12. SlotsOK'
    BY <1>5, <1>6 DEF SlotsOK, Planning
  <1> QED
    BY <1>8, <1>10, <1>11, <1>12 DEF TypeInv

LEMMA FailTypes ==
  ASSUME TypeInv, FirstOK, NEW s \in Server, CreateFails(s)
  PROVE  TypeInv'
  <1>1. AddRun(s) /\ caller[s].pc = "create"
    BY DEF CreateFails, Calling
  <1>2. Len(run) \in Nat /\ Cardinality(Planning) \in Nat /\ Cardinality(Planning') \in Nat
        /\ MaxRuns \in Nat /\ Len(run) + Cardinality(Planning) <= MaxRuns
    BY Homes, FS_Subset, FS_CardinalityType, RunFields, RunNumbers
      DEF Planning, TypeInv, SlotsOK
  <1>3. /\ caller' \in [Server -> CallRecord]
        /\ caller'[s] = NoCall /\ \A t \in Server : t # s => caller'[t] = caller[t]
    BY DEF CreateFails, TypeInv, TypeOK, CallRecord
  <1>4. /\ Len(run) < MaxRuns
        /\ Len(run) + 1 + Cardinality(Planning') <= MaxRuns
    <2>1. Planning' \subseteq Planning \ {s} /\ s \in Planning
      BY <1>1, <1>3 DEF Planning, Planned
    <2>2. Cardinality(Planning') + 1 <= Cardinality(Planning)
      BY <2>1, PlanningCounts
    <2> QED
      BY <1>2, <2>2
  <1>5. /\ run' \in Seq(RunRecord) /\ Len(run') = Len(run) + 1 /\ Len(run') <= MaxRuns
        /\ Created \subseteq Created'
        /\ known' \in [Server -> SUBSET Created']
        /\ root' \in [Server -> [Run -> Root]]
    BY <1>1, <1>4, AddTypes
  <1>6. /\ state' = Append(state, "void") /\ locked' \subseteq locked
        /\ faults' = faults + 1 /\ faults < MaxFaults
        /\ UNCHANGED <<disk, up, queue, work, removal, raced>>
    BY DEF CreateFails, Release, Fault
  <1>7. /\ queue' \in [Server -> Seq(Created')]
        /\ work' \in [Worker -> WorkRecord]
        /\ removal' \in [Server -> RemovalRecord']
        /\ WorkOK'
    BY <1>5, <1>6, TypesGrow
  <1>8. /\ state' \in Seq({"queued", "running", "final", "void"})
        /\ Len(state') = Len(run')
    BY <1>5, <1>6 DEF TypeInv, TypeOK
  <1>9. TypeOK'
    BY <1>3, <1>5, <1>6, <1>7, <1>8, Bounds DEF TypeInv, TypeOK
  <1>10. CallOK'
    BY <1>3, <1>5, <1>6 DEF TypeInv, CallOK, Planned
  <1>11. SlotsOK'
    BY <1>4, <1>5 DEF SlotsOK, Planning
  <1> QED
    BY <1>7, <1>9, <1>10, <1>11 DEF TypeInv

(* The newest run of a server that is about to log one.                    *)
LEMMA NewestIs ==
  ASSUME TypeInv, NewestOK, NEW s \in Server, caller[s].pc = "log"
  PROVE  /\ Newest(s) \in Created /\ run[Newest(s)].home = s
         /\ \A q \in Created : run[q].home = s => q <= Newest(s)
  <1>1. \E r \in Created : run[r].home = s /\ \A q \in Created : run[q].home = s => q <= r
    BY DEF NewestOK
  <1> QED
    BY <1>1 DEF Newest

LEMMA LogTypes ==
  ASSUME TypeInv, NewestOK, NEW s \in Server, LogRun(s)
  PROVE  TypeInv'
  <1>1. Newest(s) \in Created
    BY NewestIs DEF LogRun, Calling
  <1>2. /\ UNCHANGED <<run, state, index, up, memory, work, removal, raced, faults>>
        /\ files' = files \cup {Newest(s)} /\ locked' \subseteq locked
        /\ queue' = [queue EXCEPT ![s] = Append(@, Newest(s))]
        /\ caller' = [caller EXCEPT ![s] = NoCall]
    BY DEF LogRun, Release
  <1>3. NoCall \in CallRecord
    BY DEF CallRecord
  <1>4. /\ caller' \in [Server -> CallRecord]
        /\ caller'[s] = NoCall /\ \A t \in Server : t # s => caller'[t] = caller[t]
        /\ CallOK' /\ WorkOK'
    BY <1>2, <1>3, CallBecomes
  <1>5. queue' \in [Server -> Seq(Created)]
    BY <1>1, <1>2 DEF TypeInv, TypeOK
  <1>6. TypeOK'
    BY <1>1, <1>2, <1>4, <1>5 DEF TypeInv, TypeOK, RemovalRecord, Created
  <1>7. QuietRuns
    BY <1>2, <1>4 DEF QuietRuns, Planning, Planned
  <1> QED
    BY <1>4, <1>6, <1>7, SlotsKept DEF TypeInv

(* Steps of the hub, of the dashboard and of the workers.                  *)
LEMMA QuietCalls ==
  ASSUME TypeInv, UNCHANGED <<run, state, caller>>, TypeOK', WorkOK',
         \A s \in Server : removal'[s].pc = "check" => removal'[s].conv \in Run
  PROVE  TypeInv'
  <1>1. QuietRuns
    BY DEF QuietRuns, Planning, Planned
  <1>2. CallOK'
    BY DEF TypeInv, CallOK, Planned, Created
  <1> QED
    BY <1>1, <1>2, SlotsKept DEF TypeInv

LEMMA HubTypes ==
  ASSUME TypeInv, NEW s \in Server
  PROVE  /\ \A r \in Run : Load(s, r) => TypeInv'
         /\ \A c \in Run : AskRemoval(s, c) => TypeInv'
         /\ Forget(s) => TypeInv'
         /\ Unlink(s) => TypeInv'
         /\ Boot(s) => TypeInv'
  <1>1. ASSUME NEW r \in Run, Load(s, r) PROVE TypeInv'
    <2>1. r \in Created /\ Conv(r) \in Run /\ Rebuilt(s, r) \in Root
      <3>1. r \in Created
        BY <1>1 DEF Load, TypeInv, TypeOK
      <3> QED
        BY <3>1, RunFields, RunNumbers DEF Rebuilt, TypeInv, TypeOK
    <2>2. known' \in [Server -> SUBSET Created]
      BY <1>1, <2>1 DEF Load, TypeInv, TypeOK
    <2>3. root' \in [Server -> [Run -> Root]]
      BY <1>1, <2>1 DEF Load, TypeInv, TypeOK
    <2>4. UNCHANGED <<run, state, disk, up, locked, caller, queue, work, removal, raced, faults>>
      BY <1>1 DEF Load
    <2>5. TypeOK' /\ WorkOK'
      BY <2>2, <2>3, <2>4 DEF TypeInv, TypeOK, WorkOK, RemovalRecord, Created
    <2> QED
      BY <2>4, <2>5, QuietCalls DEF TypeInv, CallOK
  <1>2. ASSUME NEW c \in Run, AskRemoval(s, c) PROVE TypeInv'
    <2> DEFINE x == [NoRemoval EXCEPT !.pc = "check", !.conv = c,
                                      !.open = {r \in Open : run[r].home # s}]
    <2>1. /\ x \in RemovalRecord
          /\ x.conv = c
      BY DEF Open, RemovalRecord
    <2>2. /\ removal' = [removal EXCEPT ![s] = x]
          /\ UNCHANGED <<run, state, disk, up, memory, locked, caller, queue, work, raced>>
          /\ faults' = faults + 1 /\ faults < MaxFaults
      BY <1>2 DEF AskRemoval, Fault
    <2> HIDE DEF x
    <2>3. TypeOK' /\ WorkOK'
      BY <2>1, <2>2, Bounds DEF TypeInv, TypeOK, WorkOK, RemovalRecord, Created
    <2>4. \A t \in Server : removal'[t].pc = "check" => removal'[t].conv \in Run
      BY <2>1, <2>2 DEF TypeInv, TypeOK, CallOK
    <2> QED
      BY <2>2, <2>3, <2>4, QuietCalls
  <1>3. ASSUME Forget(s) PROVE TypeInv'
    <2> DEFINE c == removal[s].conv
               x == [NoRemoval EXCEPT !.pc = "unlink", !.paths = Runs(s, c)]
    <2>1. c \in Run
      BY <1>3 DEF Forget, Removing, TypeInv, CallOK
    <2>2. Runs(s, c) \subseteq Created
      BY DEF Runs, TypeInv, TypeOK
    <2>3. /\ x \in RemovalRecord
          /\ x.pc = "unlink"
          /\ NoRemoval \in RemovalRecord /\ NoRemoval.pc = "idle"
      BY <2>2 DEF RemovalRecord
    <2>4. UNCHANGED <<run, state, files, up, locked, caller, queue, work, faults>>
      BY <1>3 DEF Forget
    <2>5. \/ /\ removal' = [removal EXCEPT ![s] = NoRemoval]
             /\ UNCHANGED <<memory, index, raced>>
          \/ /\ removal' = [removal EXCEPT ![s] = x]
             /\ known' = [known EXCEPT ![s] = @ \ Runs(s, c)]
             /\ root' = [root EXCEPT ![s][c] = Unknown]
             /\ index' = root'[s] /\ raced' \in {raced, raced \cup {c}}
      BY <1>3 DEF Forget
    <2> HIDE DEF c, x
    <2>6. /\ known' \in [Server -> SUBSET Created]
          /\ root' \in [Server -> [Run -> Root]] /\ index' \in [Run -> Root]
          /\ raced' \subseteq Run
      <3>1. /\ known \in [Server -> SUBSET Created] /\ index \in [Run -> Root]
            /\ root \in [Server -> [Run -> Root]] /\ raced \subseteq Run
        BY DEF TypeInv, TypeOK
      <3>2. [root EXCEPT ![s][c] = Unknown] \in [Server -> [Run -> Root]]
        BY <2>1, <3>1, RunNumbers
      <3> QED
        BY <2>1, <2>5, <3>1, <3>2
    <2>7. /\ removal' \in [Server -> RemovalRecord]
          /\ \A t \in Server : removal'[t].pc = "check" => removal'[t].conv \in Run
      <3>1. PICK z \in RemovalRecord : removal' = [removal EXCEPT ![s] = z] /\ z.pc # "check"
        BY <2>3, <2>5
      <3> QED
        BY <3>1 DEF TypeInv, TypeOK, CallOK
    <2>8. TypeOK' /\ WorkOK'
      BY <2>4, <2>6, <2>7 DEF TypeInv, TypeOK, WorkOK, RemovalRecord, Created
    <2> QED
      BY <2>4, <2>7, <2>8, QuietCalls
  <1>4. ASSUME Unlink(s) PROVE TypeInv'
    <2>1. /\ removal' = [removal EXCEPT ![s] = NoRemoval] /\ files' \subseteq files
          /\ UNCHANGED <<run, state, index, up, memory, locked, caller, queue, work, raced, faults>>
      BY <1>4 DEF Unlink
    <2>2. /\ removal' \in [Server -> RemovalRecord]
          /\ \A t \in Server : removal'[t].pc = "check" => removal'[t].conv \in Run
      BY <2>1 DEF TypeInv, TypeOK, CallOK, RemovalRecord
    <2>3. TypeOK' /\ WorkOK'
      BY <2>1, <2>2 DEF TypeInv, TypeOK, WorkOK, RemovalRecord, Created
    <2> QED
      BY <2>1, <2>2, <2>3, QuietCalls
  <1>5. ASSUME Boot(s) PROVE TypeInv'
    <2>1. /\ root' \in [Server -> [Run -> Root]] /\ up' \subseteq Server
          /\ UNCHANGED <<run, state, disk, known, locked, caller, queue, work, removal,
                         raced, faults>>
      BY <1>5 DEF Boot, TypeInv, TypeOK
    <2>2. TypeOK' /\ WorkOK'
      BY <2>1 DEF TypeInv, TypeOK, WorkOK, RemovalRecord, Created
    <2> QED
      BY <2>1, <2>2, QuietCalls DEF TypeInv, CallOK
  <1> QED
    BY <1>1, <1>2, <1>3, <1>4, <1>5

LEMMA WorkTypes ==
  ASSUME TypeInv, NEW w \in Worker, Work(w)
  PROVE  TypeInv'
  <1> DEFINE Status == {"queued", "running", "final", "void"}
  <1>0. /\ state \in Seq(Status) /\ Len(state) = Len(run)
        /\ "running" \in Status /\ "final" \in Status
    BY DEF TypeInv, TypeOK
  <1> HIDE DEF Status
  <1>1. Home[w] \in Server
    BY Homes
  <1>2. /\ UNCHANGED <<run, disk, up, memory, caller, removal, raced, faults>>
        /\ locked' \subseteq Server \X Run
        /\ state' \in Seq(Status) /\ Len(state') = Len(run)
        /\ queue' \in [Server -> Seq(Created)]
        /\ work' \in [Worker -> WorkRecord]
        /\ WorkOK'
    <2>1. CASE Take(w)
      <3> DEFINE s == Home[w]
                 r == Head(queue[s])
      <3>1. queue[s] \in Seq(Created) /\ queue[s] # <<>>
        BY <1>1, <2>1 DEF Take, TypeInv, TypeOK
      <3>2. r \in Created /\ Tail(queue[s]) \in Seq(Created)
        BY <3>1, HeadTailProperties
      <3>3. r \in Run /\ r \in 1 .. Len(state)
        BY <3>2, RunFields DEF TypeInv, TypeOK, RemovalRecord, Created
      <3>4. /\ queue' = [queue EXCEPT ![s] = Tail(@)]
            /\ UNCHANGED <<run, disk, up, memory, locked, caller, removal, raced, faults>>
            /\ \/ /\ work' = [work EXCEPT ![w] = [pc |-> "wait", r |-> r]]
                  /\ UNCHANGED state
               \/ /\ work' = [work EXCEPT ![w] = [pc |-> "run", r |-> r]]
                  /\ state' = [state EXCEPT ![r] = "running"]
        BY <2>1 DEF Take, Begin
      <3> HIDE DEF r
      <3>5. state' \in Seq(Status) /\ Len(state') = Len(run)
        BY <1>0, <3>3, <3>4, ExceptSeq
      <3>6. queue' \in [Server -> Seq(Created)]
        BY <1>1, <3>2, <3>4 DEF TypeInv, TypeOK
      <3>7. /\ work' \in [Worker -> WorkRecord]
            /\ WorkOK'
        <4>1. \A p \in {"wait", "run"} : /\ [pc |-> p, r |-> r] \in WorkRecord
                                          /\ [pc |-> p, r |-> r].r = r
          BY <3>3 DEF WorkRecord
        <4>2. [pc |-> "idle", r |-> None] \in WorkRecord
          BY DEF WorkRecord
        <4>3. PICK z \in WorkRecord : /\ work' = [work EXCEPT ![w] = z]
                                      /\ z.pc # "idle" => z.r \in Created
          BY <3>2, <3>3, <3>4, <4>1, <4>2
        <4> QED
          BY <4>3, <3>4 DEF TypeInv, TypeOK, WorkOK, Created
      <3> QED
        BY <3>4, <3>5, <3>6, <3>7 DEF TypeInv, TypeOK
    <2>2. CASE Enter(w) \/ Finish(w)
      <3> DEFINE r == work[w].r
      <3>1. r \in Created /\ Conv(r) \in Run
        BY <2>2, RunFields DEF Enter, Finish, Working, TypeInv, WorkOK
      <3>2. r \in Run /\ r \in 1 .. Len(state)
        BY <3>1, RunFields DEF TypeInv, TypeOK, RemovalRecord, Created
      <3>3. /\ UNCHANGED <<run, disk, up, memory, caller, queue, removal, raced, faults>>
            /\ \/ locked' = locked \cup {<<Home[w], Conv(r)>>}
               \/ locked' \subseteq locked
            /\ \/ work' = [work EXCEPT ![w] = [pc |-> "run", r |-> r]]
               \/ work' = [work EXCEPT ![w] = [pc |-> "idle", r |-> None]]
            /\ \/ state' = [state EXCEPT ![r] = "running"]
               \/ state' = [state EXCEPT ![r] = "final"]
        BY <2>2 DEF Enter, Finish, Begin
      <3> HIDE DEF r
      <3>4. state' \in Seq(Status) /\ Len(state') = Len(run)
        BY <1>0, <3>2, <3>3, ExceptSeq
      <3>5. /\ work' \in [Worker -> WorkRecord]
            /\ WorkOK'
        <4>1. \A p \in {"wait", "run"} : /\ [pc |-> p, r |-> r] \in WorkRecord
                                          /\ [pc |-> p, r |-> r].r = r
          BY <3>2 DEF WorkRecord
        <4>2. [pc |-> "idle", r |-> None] \in WorkRecord
          BY DEF WorkRecord
        <4>3. PICK z \in WorkRecord : /\ work' = [work EXCEPT ![w] = z]
                                      /\ z.pc # "idle" => z.r \in Created
          BY <3>1, <3>2, <3>3, <4>1, <4>2
        <4> QED
          BY <4>3, <3>3 DEF TypeInv, TypeOK, WorkOK, Created
      <3>6. locked' \subseteq Server \X Run
        BY <1>1, <3>1, <3>3 DEF TypeInv, TypeOK
      <3> QED
        BY <3>3, <3>4, <3>5, <3>6 DEF TypeInv, TypeOK
    <2> QED
      BY <2>1, <2>2 DEF Work
  <1>3. TypeOK'
    BY <1>2 DEF TypeInv, TypeOK, RemovalRecord, Created, Status
  <1>4. CallOK'
    BY <1>2 DEF TypeInv, CallOK, Planned, Created
  <1>5. SlotsOK'
    BY <1>2 DEF TypeInv, SlotsOK, Planned
  <1> QED
    BY <1>2, <1>3, <1>4, <1>5 DEF TypeInv

LEMMA CrashTypes ==
  ASSUME TypeInv, NEW s \in Server, Crash(s)
  PROVE  TypeInv'
  <1> DEFINE Status == {"queued", "running", "final", "void"}
  <1>1. state' \in Seq(Status) /\ Len(state') = Len(run)
    <2>1. Len(run) \in Nat /\ Created = 1 .. Len(run)
      BY RunFields DEF TypeInv, Created
    <2>2. \A r \in Created : state[r] \in Status
      BY <2>1 DEF TypeInv, TypeOK
    <2>3. state' \in [1 .. Len(run) -> Status]
      BY <2>1, <2>2 DEF Crash
    <2> QED
      BY <2>1, <2>3
  <1>2. /\ caller' = [caller EXCEPT ![s] = NoCall] /\ NoCall \in CallRecord
        /\ removal' = [removal EXCEPT ![s] = NoRemoval]
        /\ \A w \in Worker : work'[w] \in {NoWork, work[w]}
        /\ UNCHANGED <<run, disk, raced>>
    BY DEF Crash, CallRecord, TypeInv, TypeOK
  <1>3. /\ known' \in [Server -> SUBSET Created]
        /\ root' \in [Server -> [Run -> Root]]
    <2>1. NoConversations \in [Run -> Root]
      BY RunNumbers DEF NoConversations
    <2> QED
      BY <2>1 DEF Crash, TypeInv, TypeOK
  <1>4. /\ locked' \subseteq Server \X Run /\ up' \subseteq Server
        /\ faults' \in 0 .. MaxFaults
    BY Bounds DEF Crash, Fault, TypeInv, TypeOK
  <1>5. queue' \in [Server -> Seq(Created)]
    <2>1. <<>> \in Seq(Created)
      BY EmptySeq
    <2> QED
      BY <2>1 DEF Crash, TypeInv, TypeOK
  <1>6. /\ removal' \in [Server -> RemovalRecord]
        /\ \A t \in Server : removal'[t].pc = "check" => removal'[t].conv \in Run
    BY <1>2 DEF TypeInv, TypeOK, CallOK, RemovalRecord
  <1>7. /\ caller' \in [Server -> CallRecord]
        /\ caller'[s] = NoCall /\ \A t \in Server : t # s => caller'[t] = caller[t]
    BY <1>2 DEF TypeInv, TypeOK
  <1>8. /\ work' \in [Worker -> WorkRecord]
        /\ WorkOK'
    BY <1>2 DEF Crash, TypeInv, TypeOK, WorkOK, WorkRecord, Created
  <1>9. TypeOK'
    BY <1>1, <1>2, <1>3, <1>4, <1>5, <1>6, <1>7, <1>8 DEF TypeInv, TypeOK, RemovalRecord, Created
  <1>10. CallOK'
    BY <1>2, <1>6, <1>7 DEF TypeInv, CallOK, Planned, Created
  <1>11. SlotsOK'
    <2>1. Planning' \subseteq Planning
      BY <1>7 DEF Planning, Planned
    <2>2. Cardinality(Planning') <= Cardinality(Planning)
      BY <2>1, PlanningCounts
    <2>3. Cardinality(Planning') \in Nat /\ Cardinality(Planning) \in Nat /\ Len(run) \in Nat
      BY Homes, FS_Subset, FS_CardinalityType, PlanningCounts, RunFields DEF Planning, TypeInv
    <2>4. Len(run) + Cardinality(Planning) <= MaxRuns
      BY DEF TypeInv, SlotsOK, Planning
    <2>5. Len(run) + Cardinality(Planning') <= MaxRuns
      BY <2>2, <2>3, <2>4, RunNumbers
    <2> QED
      BY <1>2, <2>5 DEF SlotsOK, Planning
  <1> QED
    BY <1>8, <1>9, <1>10, <1>11 DEF TypeInv

LEMMA TypeStep ==
  ASSUME TypeInv, FirstOK, NewestOK, [Next]_vars
  PROVE  TypeInv'
  <1>1. ASSUME NEW s \in Server,
               \/ StartRun(s) \/ (\E p \in Created : PlanFollowUp(s, p)) \/ Call(s)
               \/ Refresh(s) \/ Forget(s) \/ Unlink(s) \/ Crash(s) \/ Boot(s)
        PROVE TypeInv'
    BY <1>1, PlanTypes, LockTypes, CheckTypes, CreateTypes, FailTypes, LogTypes, HubTypes,
      CrashTypes DEF Call, Refresh
  <1>2. ASSUME NEW s \in Remover, NEW c \in Run, AskRemoval(s, c) PROVE TypeInv'
    BY <1>2, HubTypes, Homes
  <1>3. ASSUME UNCHANGED vars PROVE TypeInv'
    BY <1>3 DEF vars, TypeInv, TypeOK, CallOK, WorkOK, SlotsOK, Planned, RemovalRecord, Created
  <1> QED
    BY <1>1, <1>2, <1>3, WorkTypes DEF Next

-----------------------------------------------------------------------------
(* The locks of conversations.                                             *)

(* No run is changed.                                                      *)
Stable == Created \subseteq Created' /\ \A r \in Created : run'[r] = run[r]

LEMMA ContinuesKept ==
  ASSUME TypeInv, Stable, NEW w \in Worker, work'[w] = work[w], NEW s, NEW c
  PROVE  w \in Continues(s, c)' <=> w \in Continues(s, c)
  BY DEF Continues, Stable, TypeInv, WorkOK

LEMMA LocksKept ==
  ASSUME TypeInv, LockOK, Stable, UNCHANGED <<locked, work>>,
         \A s \in Server : caller'[s].lock \in {None, caller[s].lock}
  PROVE  LockOK'
  <1>1. \A s \in Server, c \in Run : Continues(s, c)' = Continues(s, c)
    <2>1. \A s, c : Continues(s, c) \subseteq Worker /\ Continues(s, c)' \subseteq Worker
      BY DEF Continues
    <2> QED
      BY <2>1, ContinuesKept
  <1>2. \A s \in Server : caller'[s].lock # None => <<s, caller'[s].lock>> \in locked'
    BY DEF LockOK
  <1>3. ASSUME NEW s \in Server, NEW c \in Run, NEW w \in Continues(s, c)'
        PROVE  /\ <<s, c>> \in locked' /\ caller'[s].lock # c
               /\ \A v \in Continues(s, c)' : v = w
    <2>1. /\ <<s, c>> \in locked /\ caller[s].lock # c
          /\ \A v \in Continues(s, c) : v = w
      BY <1>1, <1>3 DEF LockOK
    <2>2. c # None
      BY RunNumbers
    <2> QED
      BY <1>1, <2>1, <2>2
  <1> QED
    BY <1>2, <1>3 DEF LockOK

LEMMA LockReleased ==
  ASSUME TypeInv, LockOK, Stable, UNCHANGED work, NEW s \in Server,
         Release(s), caller' = [caller EXCEPT ![s] = NoCall]
  PROVE  LockOK'
  <1>1. \A t \in Server, c \in Run : Continues(t, c)' = Continues(t, c)
    <2>1. \A t, c : Continues(t, c) \subseteq Worker /\ Continues(t, c)' \subseteq Worker
      BY DEF Continues
    <2> QED
      BY <2>1, ContinuesKept
  <1>2. /\ caller'[s].lock = None
        /\ \A t \in Server : t # s => caller'[t] = caller[t]
    BY DEF TypeInv, TypeOK
  <1>3. \A t \in Server : \A c : <<t, c>> \in locked /\ (t # s \/ c # caller[s].lock)
                             => <<t, c>> \in locked'
    BY DEF Release
  <1> QED
    BY <1>1, <1>2, <1>3, RunNumbers DEF LockOK

LEMMA LockTaken ==
  ASSUME TypeInv, LockOK, NEW s \in Server, LockConversation(s)
  PROVE  LockOK'
  <1>1. /\ Stable /\ UNCHANGED work /\ caller[s].conv \in Run
        /\ <<s, caller[s].conv>> \notin locked
        /\ locked' = locked \cup {<<s, caller[s].conv>>}
    BY RunNumbers DEF LockConversation, Calling, TypeInv, TypeOK, CallOK, CallRecord, Stable,
      Created
  <1>2. \A t \in Server, c \in Run : Continues(t, c)' = Continues(t, c)
    <2>1. \A t, c : Continues(t, c) \subseteq Worker /\ Continues(t, c)' \subseteq Worker
      BY DEF Continues
    <2> QED
      BY <1>1, <2>1, ContinuesKept
  <1>3. /\ caller'[s].lock = caller[s].conv
        /\ \A t \in Server : t # s => caller'[t] = caller[t]
    BY DEF LockConversation, TypeInv, TypeOK
  <1> QED
    BY <1>1, <1>2, <1>3 DEF LockOK

LEMMA WorkLocks ==
  ASSUME TypeInv, LockOK, NEW w \in Worker, Work(w)
  PROVE  LockOK'
  <1>1. /\ Stable /\ UNCHANGED caller /\ Home[w] \in Server
        /\ \A v \in Worker : v # w => work'[v] = work[v]
    BY Homes DEF Work, Take, Enter, Finish, Begin, Stable, Created, TypeInv, TypeOK
  <1>2. \A s, c : Continues(s, c) \subseteq Worker /\ Continues(s, c)' \subseteq Worker
    BY DEF Continues
  <1>3. \A s \in Server, c \in Run : \A v \in Continues(s, c)' : v # w => v \in Continues(s, c)
    BY <1>1, <1>2, ContinuesKept
  <1>4. CASE Take(w)
    <2>1. \A s, c : w \notin Continues(s, c)'
      BY <1>4 DEF Take, Begin, Continues, TypeInv, TypeOK
    <2>2. UNCHANGED locked
      BY <1>4 DEF Take
    <2> QED
      BY <1>1, <1>3, <2>1, <2>2 DEF LockOK
  <1>5. CASE Enter(w)
    <2> DEFINE d == Conv(work[w].r)
    <2>1. /\ <<Home[w], d>> \notin locked /\ locked' = locked \cup {<<Home[w], d>>}
          /\ work'[w].r = work[w].r /\ UNCHANGED run
      BY <1>5 DEF Enter, Begin, TypeInv, TypeOK
    <2>2. \A s, c : w \in Continues(s, c)' => s = Home[w] /\ c = d
      BY <2>1 DEF Continues
    <2> HIDE DEF d
    <2>3. ASSUME NEW s \in Server, NEW c \in Run, NEW v \in Continues(s, c)'
          PROVE  /\ <<s, c>> \in locked' /\ caller[s].lock # c
                 /\ \A u \in Continues(s, c)' : u = v
      <3>1. CASE v = w
        <4>1. s = Home[w] /\ c = d
          BY <2>2, <2>3, <3>1
        <4>2. c \notin {l \in Run : <<s, l>> \in locked}
          BY <2>1, <4>1
        <4>3. \A u \in Continues(s, c)' : u = w
          BY <1>3, <4>2 DEF LockOK
        <4>4. caller[s].lock # c
          BY <4>2, RunNumbers DEF LockOK
        <4> QED
          BY <2>1, <3>1, <4>1, <4>3, <4>4
      <3>2. CASE v # w
        <4>1. v \in Continues(s, c)
          BY <1>3, <2>3, <3>2
        <4>2. <<s, c>> \in locked /\ caller[s].lock # c /\ \A u \in Continues(s, c) : u = v
          BY <4>1 DEF LockOK
        <4>3. w \notin Continues(s, c)'
          BY <2>1, <2>2, <4>2
        <4> QED
          BY <1>3, <2>1, <4>2, <4>3
      <3> QED
        BY <3>1, <3>2
    <2> QED
      BY <1>1, <2>1, <2>3 DEF LockOK
  <1>6. CASE Finish(w)
    <2> DEFINE d == Conv(work[w].r)
    <2>1. \A s, c : w \notin Continues(s, c)'
      BY <1>6 DEF Finish, Continues, TypeInv, TypeOK
    <2>2. CASE FollowUp(work[w].r)
      <3>1. d \in Run /\ w \in Continues(Home[w], d)
        BY <1>6, <2>2, RunFields DEF Finish, Working, Continues, TypeInv, WorkOK
      <3>2. locked' = locked \ {<<Home[w], d>>}
        BY <1>6, <2>2 DEF Finish
      <3> HIDE DEF d
      <3>3. \A s \in Server, c \in Run : \A v \in Continues(s, c)' : s # Home[w] \/ c # d
        <4> SUFFICES ASSUME NEW s \in Server, NEW c \in Run, NEW v \in Continues(s, c)',
                            s = Home[w], c = d
                     PROVE  FALSE
          OBVIOUS
        <4>1. v # w
          BY <2>1
        <4>2. v \in Continues(s, c)
          BY <1>3, <4>1
        <4>3. w \in Continues(s, c)
          BY <3>1
        <4> QED
          BY <4>1, <4>2, <4>3 DEF LockOK
      <3>4. \A s \in Server : caller[s].lock # None => s # Home[w] \/ caller[s].lock # d
        BY <1>1, <3>1 DEF LockOK
      <3> QED
        BY <1>1, <1>3, <2>1, <3>2, <3>3, <3>4 DEF LockOK
    <2>3. CASE ~FollowUp(work[w].r)
      <3>1. UNCHANGED locked
        BY <1>6, <2>3 DEF Finish
      <3> QED
        BY <1>1, <1>3, <2>1, <3>1 DEF LockOK
    <2> QED
      BY <2>2, <2>3
  <1> QED
    BY <1>4, <1>5, <1>6 DEF Work

LEMMA CrashLocks ==
  ASSUME TypeInv, LockOK, NEW s \in Server, Crash(s)
  PROVE  LockOK'
  <1>1. /\ Stable /\ caller'[s].lock = None
        /\ \A t \in Server : t # s => caller'[t] = caller[t]
        /\ \A w \in Worker : work'[w] = IF Home[w] = s THEN NoWork ELSE work[w]
        /\ \A t \in Server : \A c : t # s /\ <<t, c>> \in locked => <<t, c>> \in locked'
    BY DEF Crash, Stable, Created, TypeInv, TypeOK
  <1>2. \A c : Continues(s, c)' = {}
    BY <1>1 DEF Continues
  <1>3. \A t \in Server, c \in Run : t # s => Continues(t, c)' \subseteq Continues(t, c)
    <2>1. ASSUME NEW t \in Server, NEW c \in Run, t # s, NEW w \in Continues(t, c)'
          PROVE  w \in Continues(t, c)
      <3>1. w \in Worker /\ Home[w] = t
        BY <2>1 DEF Continues
      <3>2. work'[w] = work[w]
        BY <1>1, <2>1, <3>1
      <3> QED
        BY <1>1, <2>1, <3>1, <3>2, ContinuesKept
    <2> QED
      BY <2>1
  <1> QED
    BY <1>1, <1>2, <1>3 DEF LockOK

LEMMA LockStep ==
  ASSUME TypeInv, LockOK, Stable, [Next]_vars
  PROVE  LockOK'
  <1>1. ASSUME NEW s \in Server,
               \/ StartRun(s) \/ (\E p \in Created : PlanFollowUp(s, p)) \/ CreateRun(s)
               \/ Refresh(s) \/ Forget(s) \/ Unlink(s) \/ Boot(s)
               \/ \E c \in Run : AskRemoval(s, c)
        PROVE LockOK'
    <2>1. UNCHANGED <<locked, work>>
      BY <1>1 DEF StartRun, PlanFollowUp, CreateRun, Create, Refresh, Load, Forget, Unlink, Boot,
        AskRemoval
    <2>2. \A t \in Server : caller'[t].lock \in {None, caller[t].lock}
      <3>1. caller \in [Server -> CallRecord]
        BY DEF TypeInv, TypeOK
      <3>2. CASE \E p \in Created : PlanFollowUp(s, p)
        <4>1. PICK p \in Created : PlanFollowUp(s, p)
          BY <3>2
        <4>2. /\ [NoCall EXCEPT !.pc = "wait", !.parent = p, !.conv = Conv(p)].lock = None
              /\ [NoCall EXCEPT !.pc = "check", !.parent = p].lock = None
          OBVIOUS
        <4>3. PICK x : caller' = [caller EXCEPT ![s] = x] /\ x.lock = None
          BY <4>1, <4>2 DEF PlanFollowUp
        <4> QED
          BY <3>1, <4>3
      <3>3. CASE StartRun(s) \/ CreateRun(s)
        BY <3>1, <3>3 DEF StartRun, CreateRun, Create, CallRecord
      <3>4. CASE UNCHANGED caller
        BY <3>4
      <3> QED
        BY <1>1, <3>2, <3>3, <3>4 DEF Refresh, Load, Forget, Unlink, Boot, AskRemoval
    <2> QED
      BY <2>1, <2>2, LocksKept
  <1>2. ASSUME NEW s \in Server, CreateFails(s) \/ LogRun(s) PROVE LockOK'
    BY <1>2, LockReleased DEF CreateFails, LogRun
  <1>3. ASSUME NEW s \in Server, CheckPlan(s) PROVE LockOK'
    <2>1. UNCHANGED work
      BY <1>3 DEF CheckPlan
    <2>2. CASE caller[s].parent \notin known[s]
      BY <1>3, <2>1, <2>2, LockReleased DEF CheckPlan
    <2>3. CASE caller[s].parent \in known[s]
      <3>1. UNCHANGED locked /\ \A t \in Server : caller'[t].lock = caller[t].lock
        <4>1. caller \in [Server -> CallRecord]
          BY DEF TypeInv, TypeOK
        <4> QED
          BY <1>3, <2>3, <4>1 DEF CheckPlan, CallRecord
      <3> QED
        BY <2>1, <3>1, LocksKept
    <2> QED
      BY <2>2, <2>3
  <1>4. ASSUME UNCHANGED vars PROVE LockOK'
    BY <1>4, LocksKept DEF vars
  <1> QED
    BY <1>1, <1>2, <1>3, <1>4, LockTaken, WorkLocks, CrashLocks, Homes DEF Next, Call

-----------------------------------------------------------------------------
(* What a new run is to the others: run n of server s in conversation c.   *)
Follows(s, n, c) ==
  /\ Own(s, c) \subseteq known[s]
  /\ \A q \in Own(s, c) : run[q].turn < run'[n].turn
  /\ run'[n].parent \in known[s] /\ Conv(run'[n].parent) = c
  /\ run[run'[n].parent].home = s => \A q \in Own(s, c) : q <= run'[n].parent

Joins(s, n, c) ==
  /\ n \in Run \ Created /\ c \in Created' /\ c <= n
  /\ Created' = Created \cup {n}
  /\ \A r \in Created : r < n /\ run[r].conv # n /\ run'[r] = run[r]
  /\ run'[n].home = s /\ run'[n].conv = c /\ run'[n].turn \in 1 .. n
  /\ c # n /\ c \notin raced => run'[n].turn # 1 /\ Follows(s, n, c)
  /\ known' = [known EXCEPT ![s] = @ \cup {n}]
  /\ root' = [root EXCEPT ![s][c] = IF @ \in {None, Unknown} THEN n ELSE @]

LEMMA RunJoins ==
  ASSUME Inv, NEW s \in Server, AddRun(s), Len(run) < MaxRuns,
         caller[s].pc \in {"idle", "create"}
  PROVE  \E n, c : Joins(s, n, c)
  <1> DEFINE n == Len(run) + 1
             c == IF caller[s].conv = None THEN n ELSE caller[s].conv
             p == caller[s].parent
  <1>1. TypeInv /\ TypeOK /\ FirstOK /\ PlanOK
    BY DEF Inv, TypeInv
  <1>2. /\ n \in Run /\ c \in Run /\ n \notin Created
        /\ Created' = Created \cup {n}
        /\ \A r \in Created : r < n /\ run'[r] = run[r]
        /\ run'[n] = [home |-> s, conv |-> c, turn |-> NextTurn(s, c), parent |-> p]
        /\ known' = [known EXCEPT ![s] = @ \cup {n}]
        /\ root' = [root EXCEPT ![s][c] = IF @ \in {None, Unknown} THEN n ELSE @]
    BY <1>1, RunAdded
  <1>3. /\ NextTurn(s, c) \in 1 .. n
        /\ \A r \in Runs(s, c) : run[r].turn < NextTurn(s, c)
    BY <1>1, <1>2, NextTurnIsNext
  <1>4. \A r \in Created : run[r].conv # n
    BY <1>1, <1>2, RunFields DEF FirstOK
  <1>5. caller[s].conv = None \/ (Planned(s) /\ c = caller[s].conv /\ c \in Created)
    BY <1>1, RunNumbers DEF TypeInv, CallOK, FirstOK, Planned
  <1>6. c \in Created' /\ c <= n
    BY <1>2, <1>5, RunNumbers
  <1>7. ASSUME c # n, c \notin raced PROVE NextTurn(s, c) # 1 /\ Follows(s, n, c)
    <2>1. Planned(s) /\ c = caller[s].conv /\ c # None
      BY <1>2, <1>5, <1>7, RunNumbers
    <2>2. /\ p \in known[s] /\ Conv(p) = c /\ Own(s, c) \subseteq known[s]
          /\ run[p].home = s => \A q \in Own(s, c) : q <= p
      BY <1>1, <1>7, <2>1 DEF PlanOK
    <2>3. p \in Runs(s, c) /\ p \in Created /\ Own(s, c) \subseteq Runs(s, c)
      BY <1>1, <2>2 DEF Runs, Own, TypeOK
    <2>4. run[p].turn \in Nat \ {0} /\ run[p].turn < NextTurn(s, c)
      BY <1>1, <1>3, <2>3, RunFields
    <2>5. run'[n].parent = p /\ run'[n].turn = NextTurn(s, c)
      BY <1>2
    <2> HIDE DEF n, c, p
    <2>6. Follows(s, n, c)
      BY <1>3, <2>2, <2>3, <2>5 DEF Follows
    <2> QED
      BY <2>4, <2>6
  <1>8. run'[n].home = s /\ run'[n].conv = c /\ run'[n].turn = NextTurn(s, c)
    BY <1>2
  <1> HIDE DEF n, c, p
  <1>9. Joins(s, n, c)
    BY <1>2, <1>3, <1>4, <1>6, <1>7, <1>8 DEF Joins
  <1> QED
    BY <1>9

(* A step adds a run or leaves the runs as they are.                       *)
Adding(s) == StartRun(s) \/ CreateRun(s) \/ CreateFails(s)

LEMMA AddingJoins ==
  ASSUME Inv, NEW s \in Server, Adding(s)
  PROVE  /\ \E n, c : Joins(s, n, c)
         /\ UNCHANGED <<files, up, raced>>
         /\ \A t \in Server : t # s => caller'[t] = caller[t]
         /\ caller'[s].pc = "log" \/ caller'[s] = NoCall
         /\ \A t \in Run \ Created' : index'[t] \in {index[t], root'[s][t]}
  <1>1. Len(run) < MaxRuns
    <2>1. Len(run) \in Nat /\ MaxRuns \in Nat /\ Cardinality(Planning) \in Nat
      BY RunFields, RunNumbers, PlanningCounts DEF Inv, TypeInv
    <2>2. CASE StartRun(s)
      BY <2>1, <2>2 DEF StartRun, RunsLeft, Planning, Planned
    <2>3. CASE CreateRun(s) \/ CreateFails(s)
      <3>1. s \in Planning
        BY <2>3 DEF CreateRun, CreateFails, Calling, Planning, Planned
      <3>2. Cardinality(Planning) # 0
        BY <3>1, FS_EmptySet, PlanningCounts
      <3>3. Len(run) + Cardinality(Planning) <= MaxRuns
        BY DEF Inv, TypeInv, SlotsOK, Planning
      <3> QED
        BY <2>1, <3>2, <3>3
    <2> QED
      BY <2>2, <2>3 DEF Adding
  <1>2. AddRun(s) /\ caller[s].pc \in {"idle", "create"}
    BY DEF Adding, StartRun, CreateRun, CreateFails, Create, Calling
  <1>3. /\ UNCHANGED <<files, up, raced>>
        /\ index' \in {index, root'[s]}
        /\ \/ caller' = [caller EXCEPT ![s].pc = "log"]
           \/ caller' = [caller EXCEPT ![s] = NoCall]
    BY DEF Adding, StartRun, CreateRun, CreateFails, Create
  <1>4. /\ \A t \in Server : t # s => caller'[t] = caller[t]
        /\ caller'[s].pc = "log" \/ caller'[s] = NoCall
    <2>1. caller \in [Server -> CallRecord]
      BY DEF Inv, TypeInv, TypeOK
    <2> QED
      BY <1>3, <2>1 DEF CallRecord
  <1> QED
    BY <1>1, <1>2, <1>3, <1>4, RunJoins

LEMMA RunsStay ==
  ASSUME Inv, [Next]_vars, \A s \in Server : ~Adding(s)
  PROVE  UNCHANGED run /\ Created' = Created
  <1>1. UNCHANGED run
    BY Homes DEF Next, Call, Refresh, Work, Adding, PlanFollowUp, LockConversation, CheckPlan,
      LogRun, Load, Forget, Unlink, Boot, Crash, AskRemoval, Take, Enter, Finish, vars
  <1> QED
    BY <1>1 DEF Created

LEMMA RunsStable ==
  ASSUME Inv, [Next]_vars
  PROVE  Stable
  <1>1. CASE \E s \in Server : Adding(s)
    <2>1. PICK s \in Server : \E n, c : Joins(s, n, c)
      BY <1>1, AddingJoins
    <2>2. PICK n, c : Joins(s, n, c)
      BY <2>1
    <2> QED
      BY <2>2 DEF Joins, Stable
  <1>2. CASE \A s \in Server : ~Adding(s)
    BY <1>2, RunsStay DEF Stable
  <1> QED
    BY <1>1, <1>2

LEMMA RacedGrows ==
  ASSUME [Next]_vars
  PROVE  raced \subseteq raced'
  BY DEF Next, Call, Refresh, Work, PlanFollowUp, LockConversation, CheckPlan, StartRun, CreateRun,
    Create, CreateFails, LogRun, Load, Forget, Unlink, Boot, Crash, AskRemoval, Take, Enter,
    Finish, vars

-----------------------------------------------------------------------------
(* Where a conversation begins.                                            *)

LEMMA ConvCreated ==
  ASSUME TypeOK, FirstOK, NEW r \in Created
  PROVE  Conv(r) \in Created
  BY RunFields DEF FirstOK, Created, Run

LEMMA FirstStep ==
  ASSUME Inv, [Next]_vars
  PROVE  FirstOK'
  <1>1. FirstOK /\ TypeInv /\ raced \subseteq raced' /\ Stable
    BY RacedGrows, RunsStable DEF Inv
  <1>2. CASE \E s \in Server : Adding(s)
    <2>1. PICK s \in Server : Adding(s)
      BY <1>2
    <2>2. PICK n, c : Joins(s, n, c)
      BY <2>1, AddingJoins
    <2>3. n \in Nat
      BY <2>2, RunNumbers DEF Joins
    <2>4. ASSUME NEW r \in Created'
          PROVE  /\ run'[r].conv <= r /\ run'[r].turn <= r
                 /\ run'[r].turn = 1 /\ run'[r].conv \notin raced' => run'[r].conv = r
      <3>1. CASE r = n
        BY <1>1, <2>2, <2>3, <3>1 DEF Joins
      <3>2. CASE r # n
        <4>1. r \in Created /\ run'[r] = run[r]
          BY <2>2, <2>4, <3>2 DEF Joins
        <4> QED
          BY <1>1, <4>1 DEF FirstOK
      <3> QED
        BY <3>1, <3>2
    <2>5. \A t \in Server : caller'[t].pc \in {"wait", "check", "create"} => caller'[t] = caller[t]
      BY <2>1, AddingJoins
    <2>6. \A t \in Server :
            Planned(t)' /\ caller'[t].conv # None => caller'[t].conv \in Created'
      BY <1>1, <2>5 DEF FirstOK, Planned, Stable
    <2> QED
      BY <2>4, <2>6 DEF FirstOK
  <1>3. CASE \A s \in Server : ~Adding(s)
    <2>1. UNCHANGED run /\ Created' = Created
      BY <1>3, RunsStay
    <2>2. \A r \in Created : Conv(r) \in Created
      BY <1>1, ConvCreated DEF TypeInv
    <2>3. ASSUME NEW t \in Server, Planned(t)', caller'[t].conv # None
          PROVE  caller'[t].conv \in Created
      <3> DEFINE Old == Planned(t) /\ caller'[t].conv = caller[t].conv
                 New == \E p \in Created : caller'[t].conv = Conv(p)
      <3>1. caller \in [Server -> CallRecord]
        BY <1>1 DEF TypeInv, TypeOK
      <3>2. ASSUME NEW s \in Server, \E p \in Created : PlanFollowUp(s, p) PROVE Old \/ New
        <4>1. PICK p \in Created : PlanFollowUp(s, p)
          BY <3>2
        <4>2. PICK x : caller' = [caller EXCEPT ![s] = x] /\ x.conv \in {None, Conv(p)}
          BY <4>1 DEF PlanFollowUp
        <4> QED
          BY <2>3, <3>1, <4>2 DEF Planned
      <3>3. ASSUME NEW s \in Server, LockConversation(s) PROVE Old
        BY <2>3, <3>1, <3>3 DEF LockConversation, Calling, Planned, CallRecord
      <3>4. ASSUME NEW s \in Server, CheckPlan(s) PROVE Old \/ New
        <4>1. caller[s].parent \in Created /\ caller[s].pc = "check"
          BY <1>1, <3>4 DEF CheckPlan, Calling, TypeInv, CallOK, Planned
        <4> QED
          BY <2>3, <3>1, <3>4, <4>1 DEF CheckPlan, Planned, CallRecord
      <3>5. ASSUME NEW s \in Server, LogRun(s) \/ Crash(s) PROVE Old
        BY <2>3, <3>1, <3>5 DEF LogRun, Crash, Planned
      <3>6. ASSUME UNCHANGED caller PROVE Old
        BY <2>3, <3>6 DEF Planned
      <3>7. Old \/ New
        BY <1>3, <3>2, <3>3, <3>4, <3>5, <3>6, Homes DEF Next, Call, Refresh, Work, Adding, Load,
          Forget, Unlink, Boot, AskRemoval, Take, Enter, Finish, vars
      <3> QED
        BY <1>1, <2>2, <2>3, <3>7 DEF FirstOK
    <2> QED
      BY <1>1, <2>1, <2>3 DEF FirstOK
  <1> QED
    BY <1>2, <1>3

(* What a hub knows of where its conversations begin.                      *)
LEMMA LoadHub ==
  ASSUME Inv, NEW s \in Server, NEW r \in Run, Load(s, r)
  PROVE  HubOK'
  <1>1. TypeOK /\ FirstOK /\ HubOK
    BY DEF Inv, TypeInv
  <1>2. /\ r \in Created /\ Conv(r) \in Created /\ Created' = Created
        /\ UNCHANGED <<run, up, index, raced>>
    <2>1. r \in Created
      BY <1>1 DEF Load, TypeOK
    <2>2. Conv(r) \in Created
      BY <1>1, <2>1, ConvCreated
    <2> QED
      BY <2>1, <2>2 DEF Load, Created
  <1>3. /\ s \in up
        /\ known' = [known EXCEPT ![s] = @ \cup {r}]
        /\ root' = [root EXCEPT ![s][Conv(r)] = Rebuilt(s, r)]
    BY DEF Load
  <1>4. /\ \A t \in Server : t # s => known'[t] = known[t] /\ root'[t] = root[t]
        /\ known'[s] = known[s] \cup {r}
        /\ root'[s][Conv(r)] = Rebuilt(s, r)
        /\ \A c \in Run : c # Conv(r) => root'[s][c] = root[s][c]
    <2>1. Conv(r) \in Run
      BY <1>1, <1>2, RunFields
    <2> QED
      BY <1>1, <1>3, <2>1 DEF TypeOK
  <1>5. \A t \in Server : t \notin up => known'[t] = {}
    BY <1>1, <1>3, <1>4 DEF HubOK
  <1>6. \A t \in Server : \A c \in Run \ Created : root'[t][c] = Unknown /\ index[c] = Unknown
    BY <1>1, <1>2, <1>4 DEF HubOK
  <1>7. ASSUME NEW t \in Server, NEW q \in known'[t], Conv(q) \notin raced
        PROVE  /\ root'[t][Conv(q)] # Unknown
               /\ run[q].turn = 1 => root'[t][Conv(q)] = q
    <2>1. q \in Created /\ q \in Run /\ Conv(q) \in Run
      BY <1>1, <1>2, <1>4, <1>7, RunFields DEF TypeOK
    <2>2. CASE t # s \/ Conv(q) # Conv(r)
      BY <1>1, <1>4, <1>7, <2>1, <2>2 DEF HubOK
    <2>3. CASE t = s /\ Conv(q) = Conv(r)
      <3>1. root'[t][Conv(q)] = Rebuilt(s, r)
        BY <1>4, <2>3
      <3>2. run[r].turn = 1 /\ run[q].turn = 1 => q = r
        BY <1>1, <1>2, <1>7, <2>1, <2>3 DEF FirstOK
      <3>3. q # r => root[s][Conv(r)] # Unknown /\ (run[q].turn = 1 => root[s][Conv(r)] = q)
        BY <1>1, <1>4, <1>7, <2>3 DEF HubOK
      <3> QED
        BY <1>2, <2>1, <3>1, <3>2, <3>3, RunNumbers, RunFields, <1>1 DEF Rebuilt
    <2> QED
      BY <2>2, <2>3
  <1> QED
    BY <1>2, <1>5, <1>6, <1>7 DEF HubOK

LEMMA AddHub ==
  ASSUME Inv, NEW s \in Server, Adding(s)
  PROVE  HubOK'
  <1>1. TypeOK /\ FirstOK /\ HubOK
    BY DEF Inv, TypeInv
  <1>2. PICK n, c : Joins(s, n, c)
    BY AddingJoins
  <1>3. /\ s \in up /\ UNCHANGED <<files, up, raced>>
        /\ \A d \in Run \ Created' : index'[d] \in {index[d], root'[s][d]}
    BY AddingJoins DEF Adding, StartRun, CreateRun, CreateFails, Calling
  <1>4. n \in Run /\ c \in Run /\ n \notin Created /\ Created' = Created \cup {n}
    BY <1>1, <1>2, RunFields DEF Joins
  <1>5. /\ \A t \in Server : t # s => known'[t] = known[t] /\ root'[t] = root[t]
        /\ known'[s] = known[s] \cup {n}
        /\ root'[s][c] = IF root[s][c] \in {None, Unknown} THEN n ELSE root[s][c]
        /\ \A d \in Run : d # c => root'[s][d] = root[s][d]
    BY <1>1, <1>2, <1>4 DEF Joins, TypeOK
  <1>6. \A t \in Server : t \notin up => known'[t] = {}
    BY <1>1, <1>3, <1>5 DEF HubOK
  <1>7. ASSUME NEW t \in Server, NEW d \in Run \ Created'
        PROVE  root'[t][d] = Unknown /\ index'[d] = Unknown
    <2>1. d # c /\ d \in Run \ Created
      BY <1>2, <1>4, <1>7 DEF Joins
    <2>2. root'[t][d] = root[t][d] /\ root'[s][d] = root[s][d]
      BY <1>5, <2>1
    <2> QED
      BY <1>1, <1>3, <1>7, <2>1, <2>2 DEF HubOK
  <1>8. ASSUME NEW t \in Server, NEW q \in known'[t], run'[q].conv \notin raced
        PROVE  /\ root'[t][run'[q].conv] # Unknown
               /\ run'[q].turn = 1 => root'[t][run'[q].conv] = q
    <2>1. CASE q = n /\ t = s
      <3>1. root'[s][c] # Unknown
        BY <1>4, <1>5, RunNumbers
      <3>2. run'[n].turn = 1 => c = n
        BY <1>2, <1>8, <2>1 DEF Joins
      <3>3. c = n => root'[s][c] = n
        BY <1>1, <1>4, <1>5 DEF HubOK
      <3> QED
        BY <1>2, <2>1, <3>1, <3>2, <3>3 DEF Joins
    <2>2. CASE ~(q = n /\ t = s)
      <3>1. q \in known[t] /\ q \in Created
        BY <1>1, <1>5, <1>8, <1>4, <2>2 DEF TypeOK
      <3>2. run'[q] = run[q] /\ Conv(q) \in Run /\ q \in Run
        BY <1>1, <1>2, <3>1, RunFields DEF Joins
      <3>3. /\ root[t][Conv(q)] # Unknown
            /\ run[q].turn = 1 => root[t][Conv(q)] = q
        BY <1>1, <1>8, <3>1, <3>2 DEF HubOK
      <3>4. \/ root'[t][Conv(q)] = root[t][Conv(q)]
            \/ root[t][Conv(q)] = None /\ root'[t][Conv(q)] = n
        BY <1>5, <3>2, <3>3
      <3> QED
        BY <1>4, <3>2, <3>3, <3>4, RunNumbers
    <2> QED
      BY <2>1, <2>2
  <1> QED
    BY <1>3, <1>6, <1>7, <1>8 DEF HubOK

LEMMA HubStep ==
  ASSUME Inv, [Next]_vars
  PROVE  HubOK'
  <1>1. TypeOK /\ FirstOK /\ HubOK /\ CallOK
    BY DEF Inv, TypeInv
  <1>2. ASSUME NEW s \in Server, Forget(s) PROVE HubOK'
    <2> DEFINE c == removal[s].conv
    <2>1. c \in Run /\ UNCHANGED <<run, up>> /\ Created' = Created
      BY <1>1, <1>2 DEF Forget, Removing, CallOK, Created
    <2>2. \/ UNCHANGED <<memory, index, raced>>
          \/ /\ known' = [known EXCEPT ![s] = @ \ Runs(s, c)]
             /\ root' = [root EXCEPT ![s][c] = Unknown]
             /\ index' = root'[s] /\ raced \subseteq raced'
      BY <1>2 DEF Forget
    <2> HIDE DEF c
    <2>3. CASE UNCHANGED <<memory, index, raced>>
      BY <1>1, <2>1, <2>3 DEF HubOK
    <2>4. CASE /\ known' = [known EXCEPT ![s] = @ \ Runs(s, c)]
               /\ root' = [root EXCEPT ![s][c] = Unknown]
               /\ index' = root'[s] /\ raced \subseteq raced'
      <3>1. /\ \A t \in Server : t # s => known'[t] = known[t] /\ root'[t] = root[t]
            /\ known'[s] = known[s] \ Runs(s, c)
            /\ root'[s][c] = Unknown
            /\ \A d \in Run : d # c => root'[s][d] = root[s][d]
        BY <1>1, <2>1, <2>4 DEF TypeOK
      <3>2. \A t \in Server : \A d \in Run \ Created : root'[t][d] = Unknown /\ index'[d] = Unknown
        BY <1>1, <2>4, <3>1 DEF HubOK
      <3>3. \A t \in Server : t \notin up => known'[t] = {}
        BY <1>1, <3>1 DEF HubOK
      <3>4. ASSUME NEW t \in Server, NEW q \in known'[t], Conv(q) \notin raced'
            PROVE  root'[t][Conv(q)] = root[t][Conv(q)] /\ q \in known[t] /\ Conv(q) \notin raced
        <4>1. q \in known[t] /\ Conv(q) \in Run
          BY <1>1, <3>1, <3>4, RunFields DEF TypeOK
        <4>2. t = s => Conv(q) # c
          BY <3>1, <3>4, <4>1 DEF Runs
        <4> QED
          BY <2>4, <3>1, <3>4, <4>1, <4>2
      <3> QED
        BY <1>1, <2>1, <3>2, <3>3, <3>4 DEF HubOK
    <2> QED
      BY <2>2, <2>3, <2>4
  <1>3. ASSUME NEW s \in Server, Crash(s) PROVE HubOK'
    <2>1. /\ UNCHANGED <<run, index, raced>> /\ Created' = Created /\ up' = up \ {s}
          /\ \A t \in Server : t # s => known'[t] = known[t] /\ root'[t] = root[t]
          /\ known'[s] = {} /\ \A c \in Run : root'[s][c] = Unknown
      BY <1>1, <1>3 DEF Crash, TypeOK, NoConversations, Created
    <2> QED
      BY <1>1, <2>1 DEF HubOK
  <1>4. ASSUME NEW s \in Server, Boot(s) PROVE HubOK'
    <2>1. /\ UNCHANGED <<run, index, known, raced>> /\ Created' = Created /\ up' = up \cup {s}
          /\ s \notin up
          /\ \A t \in Server : t # s => root'[t] = root[t]
          /\ root'[s] \in {index, root[s]}
      BY <1>1, <1>4 DEF Boot, TypeOK, Created
    <2> QED
      BY <1>1, <2>1 DEF HubOK
  <1>5. ASSUME UNCHANGED <<run, known, root, index, up, raced>> PROVE HubOK'
    BY <1>1, <1>5 DEF HubOK, Created
  <1> QED
    BY <1>2, <1>3, <1>4, <1>5, LoadHub, AddHub, Homes DEF Next, Call, Refresh, Work, Adding,
      PlanFollowUp, LockConversation, CheckPlan, LogRun, Unlink, AskRemoval, Take, Enter, Finish,
      vars

-----------------------------------------------------------------------------
(* What a call that continues a conversation knows.                        *)

(* What PlanOK says of one call.                                           *)
Plan(s, c, p) ==
  /\ p \in known[s] /\ Conv(p) = c
  /\ Own(s, c) \subseteq known[s]
  /\ run[p].home = s => \A q \in Own(s, c) : q <= p

LEMMA PlanIs ==
  PlanOK <=> \A s \in Server :
    Planned(s) /\ caller[s].conv # None /\ caller[s].conv \notin raced
      => Plan(s, caller[s].conv, caller[s].parent)
  BY DEF PlanOK, Plan

(* The latest run of a conversation is such a parent.                      *)
LEMMA LatestPlans ==
  ASSUME TypeOK, TurnsOK, NEW s \in Server, NEW p \in known[s], Refreshed(s),
         MayBeLatest(s, p), Conv(p) \notin raced
  PROVE  Plan(s, Conv(p), p)
  <1> DEFINE c == Conv(p)
  <1>1. Own(s, c) \subseteq known[s] /\ Own(s, c) \subseteq Runs(s, c)
    BY DEF Own, Runs, Refreshed
  <1>2. p \in Created /\ Own(s, c) \subseteq Created
    BY <1>1 DEF TypeOK
  <1>3. ASSUME run[p].home = s, NEW q \in Own(s, c) PROVE q <= p
    <2>1. run[q].turn <= run[p].turn /\ q \in Created /\ run[q].home = s /\ Conv(q) = c
      BY <1>1, <1>2 DEF MayBeLatest, Own
    <2>2. p \in Own(s, c)
      BY <1>3 DEF Own
    <2>3. p < q => run[p].turn < run[q].turn
      BY <2>1, <2>2 DEF TurnsOK
    <2> QED
      BY <1>2, <2>1, <2>3, RunFields, RunNumbers
  <1> QED
    BY <1>1, <1>3 DEF Plan

(* A plan stands as long as the server forgets nothing of the conversation *)
(* and has no new run in it.                                               *)
LEMMA PlanKept ==
  ASSUME TypeOK, Stable, NEW s \in Server, NEW c, NEW p, Plan(s, c, p),
         \A q \in known[s] : Conv(q) = c => q \in known'[s],
         \A q \in Own(s, c)' : q \in Own(s, c)
  PROVE  Plan(s, c, p)'
  <1>1. p \in Created /\ run'[p] = run[p]
    BY DEF Plan, Stable, TypeOK
  <1>2. \A q \in Own(s, c) : q \in Created /\ Conv(q) = c
    BY DEF Own, TypeOK
  <1> QED
    BY <1>1, <1>2 DEF Plan

LEMMA PlansKept ==
  ASSUME TypeOK, PlanOK, Stable, raced \subseteq raced',
         \A s \in Server :
           Planned(s)' =>
             /\ Planned(s) /\ UNCHANGED <<caller[s].conv, caller[s].parent>>
             /\ \A q \in known[s] :
                  Conv(q) = caller[s].conv /\ caller[s].conv \notin raced' => q \in known'[s]
             /\ \A c : \A q \in Own(s, c)' : q \in Own(s, c)
  PROVE  PlanOK'
  <1> SUFFICES ASSUME NEW s \in Server, Planned(s)', caller'[s].conv # None,
                      caller'[s].conv \notin raced'
               PROVE  Plan(s, caller[s].conv, caller[s].parent)'
    BY DEF PlanOK, Plan
  <1> DEFINE c == caller[s].conv
             p == caller[s].parent
  <1>1. Plan(s, c, p)
    BY PlanIs
  <1>2. c' = c /\ p' = p
    OBVIOUS
  <1>3. ASSUME NEW d, NEW a, d = c, a = p PROVE Plan(s, d, a)'
    BY <1>1, <1>3, PlanKept
  <1> QED
    BY <1>2, <1>3 DEF Plan

LEMMA OwnKept ==
  ASSUME TypeOK, Stable, NEW s \in Server, known'[s] \subseteq known[s] \cup files,
         \A q \in files' : q \in files \/ (q \in Created /\ run[q].home # s)
  PROVE  \A c : \A q \in Own(s, c)' : q \in Own(s, c)
  <1>1. \A q \in known[s] \cup files : q \in Created
    BY DEF TypeOK
  <1> QED
    BY <1>1 DEF Own, Stable

LEMMA CallPlans ==
  ASSUME Inv, NEW s \in Server, Stable, UNCHANGED <<run, known, files, raced>>,
         \/ \E p \in Created : PlanFollowUp(s, p)
         \/ LockConversation(s) \/ CheckPlan(s)
  PROVE  PlanOK'
  <1>1. TypeOK /\ TypeInv /\ TurnsOK /\ PlanOK /\ caller \in [Server -> CallRecord]
    BY DEF Inv, TypeInv, TypeOK
  <1>2. \A t \in Server : \A c, p : Plan(t, c, p)' <=> Plan(t, c, p)
    BY DEF Plan, Own
  <1>3. \A t \in Server : t # s => caller'[t] = caller[t]
    BY <1>1 DEF PlanFollowUp, LockConversation, CheckPlan
  <1>4. Planned(s)' /\ caller'[s].conv # None /\ caller'[s].conv \notin raced
        => Plan(s, caller'[s].conv, caller'[s].parent)
    <2> SUFFICES ASSUME Planned(s)', caller'[s].conv # None, caller'[s].conv \notin raced
                 PROVE  Plan(s, caller'[s].conv, caller'[s].parent)
      OBVIOUS
    <2>1. CASE \E p \in Created : PlanFollowUp(s, p)
      <3>1. PICK p \in Created : PlanFollowUp(s, p)
        BY <2>1
      <3> DEFINE w == [NoCall EXCEPT !.pc = "wait", !.parent = p, !.conv = Conv(p)]
                 x == [NoCall EXCEPT !.pc = "check", !.parent = p]
      <3>2. w.conv = Conv(p) /\ w.parent = p /\ x.conv = None
        OBVIOUS
      <3>3. \/ MayBeLatest(s, p) /\ caller' = [caller EXCEPT ![s] = w]
            \/ caller' = [caller EXCEPT ![s] = x]
        BY <3>1 DEF PlanFollowUp
      <3> HIDE DEF w, x
      <3>4. MayBeLatest(s, p) /\ caller'[s].conv = Conv(p) /\ caller'[s].parent = p
        BY <1>1, <3>2, <3>3
      <3>5. Refreshed(s) /\ p \in known[s]
        BY <3>1 DEF PlanFollowUp
      <3> QED
        BY <1>1, <3>4, <3>5, LatestPlans
    <2>2. CASE LockConversation(s)
      <3>1. /\ Planned(s) /\ caller'[s].conv = caller[s].conv
            /\ caller'[s].parent = caller[s].parent
        BY <1>1, <2>2 DEF LockConversation, Calling, Planned, CallRecord
      <3> QED
        BY <1>1, <3>1, PlanIs
    <2>3. CASE CheckPlan(s)
      <3> DEFINE p == caller[s].parent
      <3>1. /\ Planned(s) /\ Refreshed(s) /\ p \in known[s] /\ caller'[s].parent = p
            /\ \/ MayBeLatest(s, p) /\ caller'[s].conv = Conv(p)
               \/ caller'[s].conv = caller[s].conv
        BY <1>1, <2>3 DEF CheckPlan, Calling, Planned, CallRecord
      <3>2. CASE MayBeLatest(s, p) /\ caller'[s].conv = Conv(p)
        BY <1>1, <3>1, <3>2, LatestPlans
      <3>3. CASE caller'[s].conv = caller[s].conv
        BY <1>1, <3>1, <3>3, PlanIs
      <3> QED
        BY <3>1, <3>2, <3>3
    <2> QED
      BY <2>1, <2>2, <2>3
  <1>5. ASSUME NEW t \in Server, Planned(t)', caller'[t].conv # None, caller'[t].conv \notin raced
        PROVE  Plan(t, caller'[t].conv, caller'[t].parent)
    <2>1. CASE t = s
      BY <1>4, <1>5, <2>1
    <2>2. CASE t # s
      BY <1>1, <1>3, <1>5, <2>2, PlanIs DEF Planned
    <2> QED
      BY <2>1, <2>2
  <1> QED
    BY <1>5 DEF PlanOK, Plan, Own, Planned

LEMMA PlanStep ==
  ASSUME Inv, [Next]_vars
  PROVE  PlanOK'
  <1>1. /\ TypeOK /\ PlanOK /\ Stable /\ raced \subseteq raced'
        /\ caller \in [Server -> CallRecord]
    BY RunsStable, RacedGrows DEF Inv, TypeInv, TypeOK
  <1>2. ASSUME NEW s \in Server, Adding(s) PROVE PlanOK'
    <2>1. PICK n, c : Joins(s, n, c)
      BY <1>2, AddingJoins
    <2>2. /\ \A t \in Server : t # s => known'[t] = known[t] /\ caller'[t] = caller[t]
          /\ files' = files /\ ~Planned(s)'
      BY <1>1, <1>2, <2>1, AddingJoins DEF Joins, TypeOK, Planned
    <2>3. \A t \in Server : t # s => \A d : \A q \in Own(t, d)' : q \in Own(t, d)
      BY <1>1, <2>2, OwnKept
    <2>4. \A t \in Server : Planned(t)' => t # s /\ Planned(t)
      BY <2>2 DEF Planned
    <2> QED
      BY <1>1, <2>2, <2>3, <2>4, PlansKept
  <1>3. ASSUME NEW s \in Server,
               \/ \E p \in Created : PlanFollowUp(s, p)
               \/ LockConversation(s) \/ CheckPlan(s)
        PROVE PlanOK'
    <2>1. UNCHANGED <<run, known, files, raced>>
      BY <1>3 DEF PlanFollowUp, LockConversation, CheckPlan
    <2> QED
      BY <1>1, <1>3, <2>1, CallPlans
  <1>4. ASSUME NEW s \in Server, LogRun(s) PROVE PlanOK'
    <2>1. /\ UNCHANGED <<run, known, raced>> /\ files' = files \cup {Newest(s)}
          /\ caller' = [caller EXCEPT ![s] = NoCall]
          /\ Newest(s) \in Created /\ run[Newest(s)].home = s
      BY <1>4, NewestIs DEF LogRun, Calling, Inv
    <2>2. \A t \in Server : Planned(t)' => t # s /\ Planned(t) /\ caller'[t] = caller[t]
      BY <1>1, <2>1 DEF Planned
    <2>3. \A t \in Server : t # s => \A d : \A q \in Own(t, d)' : q \in Own(t, d)
      BY <1>1, <2>1, OwnKept
    <2> QED
      BY <1>1, <2>1, <2>2, <2>3, PlansKept
  <1>5. ASSUME NEW s \in Server, NEW r \in Run, Load(s, r) PROVE PlanOK'
    <2>1. /\ UNCHANGED <<run, caller, files, raced>> /\ r \in files
          /\ known' = [known EXCEPT ![s] = @ \cup {r}]
      BY <1>5 DEF Load
    <2>2. \A t \in Server : known[t] \subseteq known'[t] /\ known'[t] \subseteq known[t] \cup files
      BY <1>1, <2>1 DEF TypeOK
    <2>3. \A t \in Server : \A d : \A q \in Own(t, d)' : q \in Own(t, d)
      BY <1>1, <2>1, <2>2, OwnKept
    <2> QED
      BY <1>1, <2>1, <2>2, <2>3, PlansKept DEF Planned
  <1>6. ASSUME NEW s \in Server, Forget(s) PROVE PlanOK'
    <2> DEFINE c == removal[s].conv
    <2>1. /\ UNCHANGED <<run, caller, files>>
          /\ \/ UNCHANGED <<known, raced>>
             \/ /\ known' = [known EXCEPT ![s] = @ \ Runs(s, c)]
                /\ caller[s].conv = c => c \in raced'
      BY <1>6 DEF Forget
    <2>2. \A t \in Server : /\ known'[t] \subseteq known[t]
                            /\ \A q \in known[t] :
                                 Conv(q) = caller[t].conv /\ caller[t].conv \notin raced'
                                   => q \in known'[t]
      BY <1>1, <2>1 DEF TypeOK, Runs
    <2>3. \A t \in Server : \A d : \A q \in Own(t, d)' : q \in Own(t, d)
      BY <1>1, <2>1, <2>2, OwnKept
    <2> QED
      BY <1>1, <2>1, <2>2, <2>3, PlansKept DEF Planned
  <1>7. ASSUME NEW s \in Server, Crash(s) PROVE PlanOK'
    <2>1. /\ UNCHANGED <<run, files, raced>>
          /\ caller' = [caller EXCEPT ![s] = NoCall]
          /\ known' = [known EXCEPT ![s] = {}]
      BY <1>7 DEF Crash
    <2>2. \A t \in Server : t # s => known'[t] = known[t] /\ caller'[t] = caller[t]
      BY <1>1, <2>1 DEF TypeOK
    <2>3. ~Planned(s)'
      BY <1>1, <2>1 DEF Planned
    <2>4. \A t \in Server : t # s => \A d : \A q \in Own(t, d)' : q \in Own(t, d)
      BY <1>1, <2>1, <2>2, OwnKept
    <2>5. \A t \in Server : Planned(t)' => t # s /\ Planned(t)
      BY <2>2, <2>3 DEF Planned
    <2> QED
      BY <1>1, <2>1, <2>2, <2>4, <2>5, PlansKept
  <1>8. ASSUME UNCHANGED <<run, caller, known, raced>>, files' \subseteq files PROVE PlanOK'
    <2>1. \A t \in Server : \A d : \A q \in Own(t, d)' : q \in Own(t, d)
      BY <1>1, <1>8, OwnKept
    <2> QED
      BY <1>1, <1>8, <2>1, PlansKept DEF Planned
  <1>9. ASSUME NEW s \in Server, Unlink(s) PROVE PlanOK'
    BY <1>8, <1>9 DEF Unlink
  <1> QED
    BY <1>2, <1>3, <1>4, <1>5, <1>6, <1>7, <1>8, <1>9, Homes DEF Next, Call, Refresh, Work, Adding,
      Boot, AskRemoval, Take, Enter, Finish, vars

-----------------------------------------------------------------------------
(* The newest run of a server, and turns.                                  *)

LEMMA NewestStep ==
  ASSUME Inv, [Next]_vars
  PROVE  NewestOK'
  <1>1. NewestOK /\ caller \in [Server -> CallRecord]
    BY DEF Inv, TypeInv, TypeOK
  <1>2. ASSUME NEW s \in Server, Adding(s) PROVE NewestOK'
    <2>1. PICK n, c : Joins(s, n, c)
      BY <1>2, AddingJoins
    <2>2. n \in Nat /\ \A r \in Created : r \in Nat
      BY <2>1, RunNumbers, RunFields DEF Joins, Inv, TypeInv
    <2>3. \A q \in Created' : run'[q].home = s => q <= n
      BY <2>1, <2>2 DEF Joins
    <2>4. ASSUME NEW t \in Server, caller'[t].pc = "log", t # s
          PROVE  \E r \in Created' : run'[r].home = t
                                     /\ \A q \in Created' : run'[q].home = t => q <= r
      <3>1. caller[t].pc = "log"
        BY <1>2, <2>4, AddingJoins
      <3>2. PICK r \in Created : run[r].home = t /\ \A q \in Created : run[q].home = t => q <= r
        BY <1>1, <3>1 DEF NewestOK
      <3> QED
        BY <2>1, <2>4, <3>2 DEF Joins
    <2>5. n \in Created' /\ run'[n].home = s
      BY <2>1 DEF Joins
    <2> QED
      BY <2>3, <2>4, <2>5 DEF NewestOK
  <1>3. ASSUME \A s \in Server : ~Adding(s) PROVE NewestOK'
    <2>1. UNCHANGED run /\ Created' = Created
      BY <1>3, RunsStay
    <2>2. ASSUME NEW t \in Server, caller'[t].pc = "log" PROVE caller[t].pc = "log"
      <3>1. ASSUME NEW s \in Server, NEW p \in Created, PlanFollowUp(s, p)
            PROVE  caller[t].pc = "log"
        <4>1. PICK x : caller' = [caller EXCEPT ![s] = x] /\ x.pc \in {"wait", "check"}
          <5>1. /\ [NoCall EXCEPT !.pc = "wait", !.parent = p, !.conv = Conv(p)].pc = "wait"
                /\ [NoCall EXCEPT !.pc = "check", !.parent = p].pc = "check"
            OBVIOUS
          <5> QED
            BY <3>1, <5>1 DEF PlanFollowUp
        <4> QED
          BY <1>1, <2>2, <4>1
      <3>2. ASSUME NEW s \in Server, LockConversation(s) PROVE caller[t].pc = "log"
        BY <1>1, <2>2, <3>2 DEF LockConversation, CallRecord
      <3>3. ASSUME NEW s \in Server, CheckPlan(s) PROVE caller[t].pc = "log"
        BY <1>1, <2>2, <3>3 DEF CheckPlan, CallRecord
      <3>4. ASSUME NEW s \in Server, LogRun(s) \/ Crash(s) PROVE caller[t].pc = "log"
        BY <1>1, <2>2, <3>4 DEF LogRun, Crash
      <3> QED
        BY <1>3, <2>2, <3>1, <3>2, <3>3, <3>4, Homes DEF Next, Call, Refresh, Work, Adding, Load,
          Forget, Unlink, Boot, AskRemoval, Take, Enter, Finish, vars
    <2> QED
      BY <1>1, <2>1, <2>2 DEF NewestOK
  <1> QED
    BY <1>2, <1>3

LEMMA TurnsKept ==
  ASSUME TypeOK, TurnsOK, UNCHANGED run, raced \subseteq raced', files' \subseteq files,
         \A s \in Server : known'[s] \subseteq known[s] \cup files
  PROVE  TurnsOK'
  <1>1. Stable /\ Created' = Created
    BY DEF Stable, Created
  <1>2. \A s \in Server : \A c : \A q \in Own(s, c)' : q \in Own(s, c)
    BY <1>1, OwnKept
  <1>3. \A r \in Created : run[r].home \in Server
    BY RunFields
  <1>4. ASSUME NEW r \in Created, Conv(r) \notin raced'
        PROVE  /\ \A q \in Own(run[r].home, Conv(r))' : q < r => run[q].turn < run[r].turn
               /\ (\A p \in Created : Conv(p) = Conv(r) => run[p].home = run[r].home)
                    => \A q \in files' : q < r /\ Conv(q) = Conv(r) => run[r].parent >= q
    BY <1>2, <1>3, <1>4 DEF TurnsOK, Own
  <1> QED
    BY <1>1, <1>4 DEF TurnsOK, Own

LEMMA AddTurns ==
  ASSUME Inv, NEW s \in Server, Adding(s)
  PROVE  TurnsOK'
  <1>1. TypeOK /\ TurnsOK /\ Stable
    <2>1. PICK n, c : Joins(s, n, c)
      BY AddingJoins
    <2> QED
      BY <2>1 DEF Joins, Stable, Inv, TypeInv
  <1>2. PICK n, c : Joins(s, n, c)
    BY AddingJoins
  <1>3. UNCHANGED <<files, raced>>
    BY AddingJoins
  <1>4. /\ \A t \in Server : t # s => known'[t] = known[t]
        /\ known'[s] = known[s] \cup {n}
        /\ files \subseteq Created /\ \A t \in Server : known[t] \subseteq Created
        /\ n \in Nat /\ n \notin Created /\ \A q \in Created : q \in Nat /\ q < n
    BY <1>1, <1>2, RunNumbers, RunFields DEF Joins, TypeOK
  <1>5. \A t \in Server : \A d : \A q \in Own(t, d)' : q # n => q \in Own(t, d)
    BY <1>1, <1>3, <1>4 DEF Own, Stable
  <1>6. ASSUME NEW r \in Created', run'[r].conv \notin raced
        PROVE  /\ \A q \in Own(run[r].home, Conv(r))' : q < r => run'[q].turn < run'[r].turn
               /\ (\A p \in Created' : run'[p].conv = run'[r].conv => run'[p].home = run'[r].home)
                    => \A q \in files : q < r /\ run'[q].conv = run'[r].conv
                                          => run'[r].parent >= q
    <2>1. CASE r = n
      <3>1. ASSUME NEW q \in Created, Conv(q) = c
            PROVE  Follows(s, n, c)
        BY <1>2, <1>3, <1>6, <2>1, <3>1 DEF Joins
      <3>2. ASSUME NEW q, q \in Own(s, c)', q < n PROVE run'[q].turn < run'[n].turn
        <4>1. q \in Own(s, c) /\ q \in Created /\ run'[q] = run[q] /\ Conv(q) = c
          BY <1>1, <1>4, <1>5, <3>2 DEF Own, Stable
        <4> QED
          BY <3>1, <4>1 DEF Follows
      <3>3. ASSUME \A p \in Created' : run'[p].conv = c => run'[p].home = s,
                   NEW q \in files, q < n, run'[q].conv = c
            PROVE  run'[n].parent >= q
        <4>1. /\ q \in Created /\ run'[q] = run[q] /\ Conv(q) = c /\ run[q].home = s
              /\ q \in Own(s, c)
          BY <1>1, <1>4, <3>3 DEF Own, Stable
        <4>2. run'[n].parent \in known[s] /\ Conv(run'[n].parent) = c
              /\ (run[run'[n].parent].home = s => q <= run'[n].parent)
          BY <3>1, <4>1 DEF Follows
        <4>3. run'[n].parent \in Created /\ run[run'[n].parent].home = s
          BY <1>1, <1>4, <3>3, <4>2 DEF Stable
        <4> QED
          BY <1>4, <4>1, <4>2, <4>3
      <3> QED
        BY <1>2, <2>1, <3>2, <3>3 DEF Joins, Own
    <2>2. CASE r # n
      <3>1. r \in Created /\ run'[r] = run[r] /\ run[r].home \in Server
        BY <1>1, <1>2, <1>6, <2>2, RunFields DEF Joins
      <3>2. ASSUME NEW q \in Own(run[r].home, Conv(r))', q < r
            PROVE  run'[q].turn < run'[r].turn
        <4>1. q # n
          BY <1>4, <3>1, <3>2
        <4>2. q \in Own(run[r].home, Conv(r))
          BY <1>5, <3>1, <3>2, <4>1 DEF Own
        <4>3. q \in Created /\ run'[q] = run[q]
          BY <1>1, <1>4, <3>1, <4>2 DEF Own, Stable
        <4> QED
          BY <1>1, <1>3, <1>6, <3>1, <3>2, <4>2, <4>3 DEF TurnsOK
      <3>3. ASSUME \A p \in Created' : run'[p].conv = run'[r].conv => run'[p].home = run'[r].home,
                   NEW q \in files, q < r, run'[q].conv = run'[r].conv
            PROVE  run'[r].parent >= q
        <4>1. \A p \in Created : Conv(p) = Conv(r) => run[p].home = run[r].home
          BY <1>1, <3>1, <3>3 DEF Stable
        <4>2. Conv(q) = Conv(r)
          BY <1>1, <1>4, <3>1, <3>3 DEF Stable
        <4> QED
          BY <1>1, <1>3, <1>6, <3>1, <3>3, <4>1, <4>2 DEF TurnsOK
      <3> QED
        BY <3>2, <3>3
    <2> QED
      BY <2>1, <2>2
  <1> QED
    BY <1>3, <1>6 DEF TurnsOK, Own

LEMMA TurnsStep ==
  ASSUME Inv, [Next]_vars
  PROVE  TurnsOK'
  <1>1. TypeOK /\ TurnsOK /\ raced \subseteq raced'
    BY RacedGrows DEF Inv, TypeInv
  <1>2. ASSUME NEW s \in Server, LogRun(s) PROVE TurnsOK'
    <2> DEFINE m == Newest(s)
    <2>1. /\ m \in Created /\ run[m].home = s
          /\ \A q \in Created : run[q].home = s => q <= m
      BY <1>2, NewestIs DEF LogRun, Calling, Inv
    <2>2. UNCHANGED <<run, known, raced>> /\ files' = files \cup {m} /\ Created' = Created
      BY <1>2 DEF LogRun, Created
    <2> HIDE DEF m
    <2>3. \A q \in Created : q \in Nat
      BY <1>1, RunFields
    <2>4. ASSUME NEW r \in Created, Conv(r) \notin raced
          PROVE  /\ \A q \in Own(run[r].home, Conv(r))' : q < r => run[q].turn < run[r].turn
                 /\ (\A p \in Created : Conv(p) = Conv(r) => run[p].home = run[r].home)
                      => \A q \in files' : q < r /\ Conv(q) = Conv(r) => run[r].parent >= q
      <3>1. run[r].home = s => ~(m < r)
        BY <2>1, <2>3
      <3>2. \A q \in Own(run[r].home, Conv(r))' :
              q \in Own(run[r].home, Conv(r)) \/ (q = m /\ run[r].home = s)
        BY <2>1, <2>2 DEF Own
      <3> QED
        BY <1>1, <2>1, <2>2, <2>4, <3>1, <3>2 DEF TurnsOK
    <2> QED
      BY <2>2, <2>4 DEF TurnsOK, Own
  <1>3. ASSUME NEW s \in Server, Forget(s) \/ Unlink(s) \/ Crash(s) \/ \E r \in Run : Load(s, r)
        PROVE TurnsOK'
    <2>1. UNCHANGED run /\ files' \subseteq files
      BY <1>3 DEF Forget, Unlink, Crash, Load
    <2>2. \A t \in Server : known'[t] \subseteq known[t] \cup files
      <3>1. known \in [Server -> SUBSET Created]
        BY <1>1 DEF TypeOK
      <3>2. \/ UNCHANGED known
            \/ \E r \in files : known' = [known EXCEPT ![s] = @ \cup {r}]
            \/ \E K \in SUBSET known[s] : known' = [known EXCEPT ![s] = K]
        BY <1>3 DEF Forget, Unlink, Crash, Load
      <3> QED
        BY <3>1, <3>2
    <2> QED
      BY <1>1, <2>1, <2>2, TurnsKept
  <1>4. ASSUME UNCHANGED <<run, files, known, raced>> PROVE TurnsOK'
    BY <1>1, <1>4, TurnsKept
  <1> QED
    BY <1>2, <1>3, <1>4, AddTurns, Homes DEF Next, Call, Refresh, Work, Adding, PlanFollowUp,
      LockConversation, CheckPlan, Boot, AskRemoval, Take, Enter, Finish, vars

-----------------------------------------------------------------------------
(* The invariant and the theorems.                                         *)

LEMMA InvInit == Init => Inv
  <1> SUFFICES ASSUME Init PROVE Inv
    OBVIOUS
  <1>1. Created = {} /\ \A s \in Server : caller[s] = NoCall /\ known[s] = {}
    BY DEF Init, Created
  <1>2. \A s, c : Continues(s, c) = {}
    BY DEF Init, Continues
  <1>3. FirstOK /\ PlanOK /\ NewestOK /\ TurnsOK
    BY <1>1 DEF FirstOK, PlanOK, NewestOK, TurnsOK, Planned
  <1>4. HubOK
    BY <1>1 DEF Init, HubOK, NoConversations
  <1>5. LockOK
    BY <1>1, <1>2 DEF LockOK
  <1> QED
    BY <1>3, <1>4, <1>5, TypeInit DEF Inv

LEMMA InvStep == Inv /\ [Next]_vars => Inv'
  <1> SUFFICES ASSUME Inv, [Next]_vars PROVE Inv'
    OBVIOUS
  <1>1. TypeInv'
    BY TypeStep DEF Inv
  <1>2. LockOK'
    BY LockStep, RunsStable DEF Inv
  <1> QED
    BY <1>1, <1>2, FirstStep, HubStep, PlanStep, NewestStep, TurnsStep DEF Inv

(* The invariant, for every number of servers, workers, runs and faults.   *)
THEOREM ConversationsKept == Spec => []Inv
  BY InvInit, InvStep, PTL DEF Spec

LEMMA HoldersAreOne ==
  ASSUME LockOK
  PROVE  OneAtATime
  <1>1. ASSUME NEW s \in Server, NEW c \in Run
        PROVE  Cardinality(Continues(s, c)) + (IF caller[s].lock = c THEN 1 ELSE 0) <= 1
    <2>1. CASE Continues(s, c) = {}
      BY <2>1, FS_EmptySet
    <2>2. CASE Continues(s, c) # {}
      <3>1. PICK w \in Continues(s, c) : TRUE
        BY <2>2
      <3>2. (\A v \in Continues(s, c) : v = w) /\ caller[s].lock # c
        BY <3>1 DEF LockOK
      <3>3. Cardinality(Continues(s, c)) = 1
        <4>1. Continues(s, c) = {w}
          BY <3>1, <3>2
        <4> QED
          BY <4>1, FS_Singleton
      <3> QED
        BY <3>2, <3>3
    <2> QED
      BY <2>1, <2>2
  <1> QED
    BY <1>1 DEF OneAtATime

(* One agy process continues a conversation, or one call adds a turn to it. *)
THEOREM ContinuedOneAtATime == Spec => []OneAtATime
  <1>1. Inv => OneAtATime
    BY HoldersAreOne DEF Inv
  <1> QED
    BY <1>1, ConversationsKept, PTL

(* Whatever index the last server wrote and in whatever order the files    *)
(* are read, a hub has the first run of a conversation as its root.        *)
THEOREM RootsAreFirst == Spec => []RootIsFirst
  <1>1. Inv => RootIsFirst
    BY DEF Inv, TypeInv, TypeOK, HubOK, RootIsFirst
  <1> QED
    BY <1>1, ConversationsKept, PTL

(* The turns of a conversation on disk count up, each continuing the one   *)
(* before it where one server made them.                                   *)
THEOREM TurnsAlwaysCountUp == Spec => []TurnsCountUp
  <1>1. Inv => TurnsCountUp
    <2> SUFFICES ASSUME Inv PROVE TurnsCountUp
      OBVIOUS
    <2>1. TurnsOK /\ files \subseteq Created
      BY DEF Inv, TypeInv, TypeOK
    <2> QED
      BY <2>1 DEF TurnsOK, TurnsCountUp, InOneConversation, Own
  <1> QED
    BY <1>1, ConversationsKept, PTL
=============================================================================
