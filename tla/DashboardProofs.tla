-------------------------- MODULE DashboardProofs --------------------------
(* Why overlapping requests of the page never leave it with a transcript   *)
(* that was not chosen or with an older one: the types of Dashboard, the   *)
(* invariant behind ShownIsSelected and NoOlderAnswer, and their proofs.   *)
EXTENDS Dashboard, WellFoundedInduction, TLAPS

-----------------------------------------------------------------------------
(* The newest of some sessions is one of them.                             *)
Less == {ss \in Nat \X Nat : ss[1] < ss[2]}

LEMMA LessWellFounded == IsWellFoundedOn(Less, Nat)
  BY NatLessThanWellFounded DEF OpToRel, Less

LEMMA NewestIn ==
  ASSUME NEW S \in SUBSET Session, S # {}
  PROVE  Newest(S) \in S
  <1> DEFINE T == {Sessions - s : s \in S}
  <1>1. Sessions \in Nat /\ \A s \in S : s \in Nat /\ s <= Sessions
    BY Sizes DEF Session
  <1>2. T \subseteq Nat /\ T # {}
    BY <1>1
  <1>3. PICK x \in T : \A y \in T : <<y, x>> \notin Less
    <2> HIDE DEF T
    <2> QED
      BY <1>2, LessWellFounded, WFMin
  <1>4. PICK s \in S : x = Sessions - s
    OBVIOUS
  <1>5. ASSUME NEW r \in S
        PROVE  r <= s
    <2>1. Sessions - r \in T
      OBVIOUS
    <2>2. ~(Sessions - r < Sessions - s)
      BY <1>2, <1>3, <1>4, <2>1 DEF Less
    <2> QED
      BY <1>1, <2>2
  <1> QED
    BY <1>5 DEF Newest

LEMMA PreferredIn ==
  ASSUME NEW all \in SUBSET Session, NEW act
  PROVE  Preferred(all, act) \in all \cup {None}
  <1>1. CASE all \cap act # {}
    <2>1. all \cap act \in SUBSET Session
      OBVIOUS
    <2> QED
      BY <1>1, <2>1, NewestIn DEF Preferred
  <1>2. CASE all \cap act = {}
    BY <1>2, NewestIn DEF Preferred
  <1> QED
    BY <1>1, <1>2

-----------------------------------------------------------------------------
(* Types, of what the server, the page and the calls have.                 *)
Pcs   == {"free", "list", "listed", "base", "bundle", "loaded", "refused",
          "delete", "deleted"}
TaskFields == [pc : Pcs, by : {"user", "poll", "open"},
               of : Session \cup {None}, raw : BOOLEAN,
               all : SUBSET Session, open : SUBSET Session,
               ver : 0 .. MaxEvents]
Tasks == {c \in TaskFields : c.pc = "loaded" => c.of \in Session}
Shown == [of : Session, raw : BOOLEAN, ver : 0 .. MaxEvents]

ServerTyped ==
  /\ exists \subseteq Session /\ open \subseteq exists
  /\ version \in [Session -> 0 .. MaxEvents]
  /\ events \in 0 .. MaxEvents
  /\ \A s \in Session : version[s] <= events
ChoiceTyped ==
  /\ live \in BOOLEAN /\ cur \in Session \cup {None}
  /\ requested \in Session \cup {None}
  /\ filter \in SpacesOf(Session) \cup {"all"} /\ raw \in BOOLEAN
PageTyped ==
  /\ listed \in Lists
  /\ shown \in Shown \cup {None}
  /\ pane \in {"empty", "loading", "error", "transcript"}
  /\ polling \in BOOLEAN /\ holding \in BOOLEAN
CallsTyped == latest \in Slot \cup {None} /\ task \in [Slot -> Tasks]

TypeInv == ServerTyped /\ ChoiceTyped /\ PageTyped /\ CallsTyped

LEMMA TypeInvTypes == TypeInv => TypeOK
  BY DEF TypeInv, ServerTyped, ChoiceTyped, PageTyped, CallsTyped, TypeOK,
    Tasks, TaskFields, Shown, Pcs

LEMMA FreeTyped == Free \in Tasks
  BY Bound DEF Free, Tasks, TaskFields, Pcs

LEMMA NewCallTyped ==
  ASSUME NEW pc \in Pcs \ {"loaded"}, NEW by \in {"user", "poll", "open"}
  PROVE  /\ Call(pc, by) \in Tasks
         /\ \A s \in Session : [Call(pc, by) EXCEPT !.of = s] \in Tasks
         /\ \A s \in Session, r \in BOOLEAN :
              [Call(pc, by) EXCEPT !.of = s, !.raw = r] \in Tasks
  BY FreeTyped DEF Call, Tasks, TaskFields

LEMMA CallMovesTyped ==
  ASSUME NEW c \in Tasks, NEW pc \in Pcs
  PROVE  /\ pc # "loaded" => [c EXCEPT !.pc = pc] \in Tasks
         /\ c.of \in Session => \A v \in 0 .. MaxEvents :
              [c EXCEPT !.pc = pc, !.ver = v] \in Tasks
         /\ pc # "loaded" => \A a, o \in SUBSET Session :
              [c EXCEPT !.pc = pc, !.all = a, !.open = o] \in Tasks
  BY DEF Tasks, TaskFields

LEMMA SetTyped ==
  ASSUME CallsTyped, NEW i \in Slot, NEW c \in Tasks, Set(i, c),
         latest' \in {latest, i, None}
  PROVE  CallsTyped'
  BY DEF CallsTyped, Set

LEMMA ReturnTyped ==
  ASSUME CallsTyped, NEW i \in Slot, Return(i)
  PROVE  CallsTyped' /\ (polling \in BOOLEAN => polling' \in BOOLEAN)
  <1>1. Free \in Tasks
    BY FreeTyped
  <1>2. Set(i, Free) /\ latest' \in {latest, None} /\ polling' \in BOOLEAN
    BY DEF Return
  <1> QED
    BY <1>1, <1>2, SetTyped

LEMMA LoadTyped ==
  ASSUME CallsTyped, NEW i \in Slot, NEW s \in Session, NEW by, NEW r \in BOOLEAN,
         by \in {"user", "poll", "open"},
         pane \in {"empty", "loading", "error", "transcript"},
         LoadTranscript(i, s, by, r)
  PROVE  CallsTyped' /\ pane' \in {"empty", "loading", "error", "transcript"}
  <1>1. [Call("base", by) EXCEPT !.of = s, !.raw = r] \in Tasks
    BY NewCallTyped DEF Pcs
  <1> QED
    BY <1>1, SetTyped DEF LoadTranscript

LEMMA TaskTyped ==
  ASSUME CallsTyped, NEW i \in Slot
  PROVE  /\ task[i] \in Tasks /\ task[i].of \in Session \cup {None}
         /\ task[i].by \in {"user", "poll", "open"} /\ task[i].raw \in BOOLEAN
         /\ task[i].all \in SUBSET Session /\ task[i].open \in SUBSET Session
         /\ task[i].ver \in 0 .. MaxEvents /\ task[i].pc \in Pcs
         /\ task[i].pc = "loaded" => task[i].of \in Session
  BY DEF CallsTyped, Tasks, TaskFields

LEMMA TypeKept ==
  ASSUME TypeInv
  PROVE  /\ UNCHANGED <<server, events>> => ServerTyped'
         /\ UNCHANGED server /\ Event => ServerTyped'
         /\ UNCHANGED choice => ChoiceTyped'
         /\ UNCHANGED <<listed, view, polling, holding>> => PageTyped'
         /\ UNCHANGED <<task, latest>> => CallsTyped'
  <1>1. UNCHANGED <<server, events>> => ServerTyped'
    BY DEF TypeInv, ServerTyped, server
  <1>2. UNCHANGED server /\ Event => ServerTyped'
    BY Bound DEF TypeInv, ServerTyped, server, Event
  <1>3. UNCHANGED choice => ChoiceTyped'
    BY DEF TypeInv, ChoiceTyped, choice
  <1>4. UNCHANGED <<listed, view, polling, holding>> => PageTyped'
    BY DEF TypeInv, PageTyped, view
  <1>5. UNCHANGED <<task, latest>> => CallsTyped'
    BY DEF TypeInv, CallsTyped
  <1> QED
    BY <1>1, <1>2, <1>3, <1>4, <1>5

LEMMA TypeServer ==
  ASSUME TypeInv, NEW s \in Session, Begin(s) \/ Continue(s) \/ Remove(s)
  PROVE  TypeInv'
  <1>1. ChoiceTyped' /\ PageTyped' /\ CallsTyped'
    BY TypeKept DEF Begin, Continue, Remove, calls
  <1>2. events' = events + 1 /\ events' \in 0 .. MaxEvents
    BY Bound DEF Begin, Continue, Remove, Event, TypeInv, ServerTyped
  <1>3. exists' \subseteq Session /\ open' \subseteq exists'
    BY DEF Begin, Continue, Remove, TypeInv, ServerTyped
  <1>4. version \in [Session -> 0 .. MaxEvents] /\ events \in 0 .. MaxEvents
        /\ \A r \in Session : version[r] <= events
    BY DEF TypeInv, ServerTyped
  <1>5. \/ version' = [version EXCEPT ![s] = 1]
        \/ version' = [version EXCEPT ![s] = version[s] + 1]
        \/ version' = version
    BY DEF Begin, Continue, Remove
  <1>6. \A r \in Session : version'[r] \in 0 .. MaxEvents /\ version'[r] <= events'
    BY <1>2, <1>4, <1>5, Bound
  <1>7. version' \in [Session -> 0 .. MaxEvents]
    BY <1>4, <1>5, <1>6
  <1> QED
    BY <1>1, <1>2, <1>3, <1>6, <1>7 DEF TypeInv, ServerTyped

LEMMA TypeAnswerList ==
  ASSUME TypeInv, NEW i \in Slot, AnswerList(i)
  PROVE  TypeInv'
  <1>1. ServerTyped' /\ ChoiceTyped' /\ PageTyped'
    BY TypeKept DEF AnswerList
  <1>2. [task[i] EXCEPT !.pc = "listed", !.all = exists, !.open = open] \in Tasks
    BY TaskTyped, CallMovesTyped DEF TypeInv, ServerTyped, Pcs
  <1>3. CallsTyped'
    BY <1>2, SetTyped DEF AnswerList, TypeInv
  <1> QED
    BY <1>1, <1>3 DEF TypeInv

LEMMA TypeAnswerTranscript ==
  ASSUME TypeInv, NEW i \in Slot, AnswerTranscript(i)
  PROVE  TypeInv'
  <1>1. ServerTyped' /\ ChoiceTyped' /\ PageTyped'
    BY TypeKept DEF AnswerTranscript
  <1> DEFINE s == task[i].of
  <1>2. s \in exists => s \in Session /\ version[s] \in 0 .. MaxEvents
    BY DEF TypeInv, ServerTyped
  <1>3. \E c \in Tasks : Set(i, c)
    <2>1. /\ [task[i] EXCEPT !.pc = "refused"] \in Tasks
          /\ [task[i] EXCEPT !.pc = "bundle"] \in Tasks
          /\ s \in exists =>
               [task[i] EXCEPT !.pc = "loaded", !.ver = version[s]] \in Tasks
      BY <1>2, TaskTyped, CallMovesTyped DEF TypeInv, Pcs
    <2> QED
      BY <2>1 DEF AnswerTranscript
  <1>4. CallsTyped'
    BY <1>3, SetTyped DEF AnswerTranscript, TypeInv
  <1> QED
    BY <1>1, <1>4 DEF TypeInv

LEMMA TypeAnswerDelete ==
  ASSUME TypeInv, NEW i \in Slot, AnswerDelete(i)
  PROVE  TypeInv'
  <1>1. ChoiceTyped'
    BY TypeKept DEF AnswerDelete
  <1>2. ServerTyped'
    BY DEF AnswerDelete, TypeInv, ServerTyped
  <1>3. [task[i] EXCEPT !.pc = "deleted"] \in Tasks
    BY TaskTyped, CallMovesTyped DEF TypeInv, Pcs
  <1>4. CallsTyped' /\ polling' \in BOOLEAN
    BY <1>3, SetTyped, ReturnTyped DEF AnswerDelete, TypeInv, PageTyped
  <1>5. PageTyped'
    BY <1>4 DEF AnswerDelete, TypeInv, PageTyped, view
  <1> QED
    BY <1>1, <1>2, <1>4, <1>5 DEF TypeInv

LEMMA TypeFails ==
  ASSUME TypeInv, NEW i \in Slot, Fails(i)
  PROVE  TypeInv'
  <1>1. ServerTyped' /\ ChoiceTyped' /\ PageTyped'
    BY TypeKept DEF Fails
  <1>2. Free \in Tasks /\ [task[i] EXCEPT !.pc = "refused"] \in Tasks
    BY FreeTyped, TaskTyped, CallMovesTyped DEF TypeInv, Pcs
  <1>3. CallsTyped'
    BY <1>2, SetTyped DEF Fails, TypeInv
  <1> QED
    BY <1>1, <1>3 DEF TypeInv

LEMMA TypeTakeList ==
  ASSUME TypeInv, NEW i \in Slot, TakeList(i)
  PROVE  TypeInv'
  <1> DEFINE all == task[i].all
             pick == cur'
  <1>1. all \in SUBSET Session /\ task[i].open \in SUBSET Session
        /\ task[i].by \in {"user", "poll", "open"}
    BY TaskTyped DEF TypeInv
  <1>2. pick \in Session \cup {None}
    <2>1. \A act : Preferred(all, act) \in Session \cup {None}
      BY <1>1, PreferredIn
    <2> HIDE DEF all
    <2>2. LiveChoice(all, task[i].open) \in Session \cup {None}
      BY <1>1, <2>1 DEF LiveChoice
    <2>3. cur' \in {LiveChoice(all, task[i].open), cur, Preferred(all, {}),
                    Preferred(all, task[i].open)}
      BY DEF TakeList, all
    <2> QED
      BY <2>1, <2>2, <2>3 DEF TypeInv, ChoiceTyped
  <1>3. ServerTyped'
    BY TypeKept DEF TakeList
  <1>4. filter' \in SpacesOf(Session) \cup {"all"}
    BY DEF TakeList, TypeInv, ChoiceTyped
  <1>5. live' \in BOOLEAN /\ requested' \in Session \cup {None} /\ raw' = raw
    BY DEF TakeList, TypeInv, ChoiceTyped
  <1>6. ChoiceTyped'
    BY <1>2, <1>4, <1>5 DEF TypeInv, ChoiceTyped
  <1>7. listed' \in Lists /\ holding' = holding
    BY <1>1 DEF TakeList, Lists
  <1>8. /\ CallsTyped' /\ shown' \in Shown \cup {None} /\ polling' \in BOOLEAN
        /\ pane' \in {"empty", "loading", "error", "transcript"}
    <2>1. CASE pick = None
      <3>1. shown' = None /\ pane' = "empty" /\ Return(i)
        BY <2>1 DEF TakeList
      <3> QED
        BY <3>1, ReturnTyped DEF TypeInv, PageTyped
    <2>2. CASE pick # None
      <3>1. LoadTranscript(i, pick, task[i].by, raw) /\ UNCHANGED <<shown, polling>>
        BY <2>2 DEF TakeList
      <3>2. pick \in Session /\ raw \in BOOLEAN
        BY <1>2, <2>2 DEF TypeInv, ChoiceTyped
      <3> HIDE DEF pick
      <3> QED
        BY <1>1, <3>1, <3>2, LoadTyped DEF TypeInv, PageTyped
    <2> QED
      BY <2>1, <2>2
  <1> QED
    BY <1>3, <1>6, <1>7, <1>8 DEF TypeInv, PageTyped

LEMMA TypeTakeTranscript ==
  ASSUME TypeInv, NEW i \in Slot, TakeTranscript(i)
  PROVE  TypeInv'
  <1>1. ServerTyped' /\ ChoiceTyped'
    BY TypeKept DEF TakeTranscript
  <1>2. CallsTyped' /\ polling' \in BOOLEAN
    BY ReturnTyped DEF TakeTranscript, TypeInv, PageTyped
  <1>3. shown' \in Shown \cup {None}
        /\ pane' \in {"empty", "loading", "error", "transcript"}
    <2>1. CASE IsCurrent(i)
      <3>1. shown' = [of |-> cur, raw |-> task[i].raw, ver |-> task[i].ver]
            /\ pane' = "transcript" /\ task[i].of = cur
            /\ task[i].pc = "loaded"
        BY <2>1 DEF TakeTranscript, IsCurrent, At
      <3> QED
        BY <3>1, TaskTyped DEF TypeInv, Shown
    <2>2. CASE ~IsCurrent(i)
      BY <2>2 DEF TakeTranscript, TypeInv, PageTyped, view
    <2> QED
      BY <2>1, <2>2
  <1>4. PageTyped'
    BY <1>2, <1>3 DEF TakeTranscript, TypeInv, PageTyped
  <1> QED
    BY <1>1, <1>2, <1>4 DEF TypeInv

LEMMA TypeTakeError ==
  ASSUME TypeInv, NEW i \in Slot, TakeError(i)
  PROVE  TypeInv'
  <1>1. ServerTyped' /\ ChoiceTyped'
    BY TypeKept DEF TakeError
  <1>2. CallsTyped' /\ polling' \in BOOLEAN
    BY ReturnTyped DEF TakeError, TypeInv, PageTyped
  <1>3. PageTyped'
    BY <1>2 DEF TakeError, TypeInv, PageTyped
  <1> QED
    BY <1>1, <1>2, <1>3 DEF TypeInv

LEMMA TypeTakeDeleted ==
  ASSUME TypeInv, NEW i \in Slot, TakeDeleted(i)
  PROVE  TypeInv'
  <1>1. ServerTyped'
    BY TypeKept DEF TakeDeleted
  <1>2. ChoiceTyped'
    BY DEF TakeDeleted, TypeInv, ChoiceTyped
  <1>3. Call("list", "user") \in Tasks
    BY NewCallTyped DEF Pcs
  <1>4. CallsTyped'
    BY <1>3, SetTyped DEF TakeDeleted, TypeInv
  <1>5. PageTyped'
    BY DEF TakeDeleted, TypeInv, PageTyped
  <1> QED
    BY <1>1, <1>2, <1>4, <1>5 DEF TypeInv

LEMMA TypeRequest ==
  ASSUME TypeInv, NEW i \in Slot, NEW s \in Session,
         Refresh(i) \/ ClickRefresh(i) \/ ClickDelete(i, s)
  PROVE  TypeInv'
  <1>1. ServerTyped' /\ ChoiceTyped' /\ PageTyped'
    BY TypeKept DEF Refresh, ClickRefresh, ClickDelete
  <1>2. /\ Call("list", "poll") \in Tasks /\ Call("list", "user") \in Tasks
        /\ [Call("delete", "user") EXCEPT !.of = s] \in Tasks
    BY NewCallTyped DEF Pcs
  <1>3. CallsTyped'
    BY <1>2, SetTyped DEF Refresh, ClickRefresh, ClickDelete, TypeInv
  <1> QED
    BY <1>1, <1>3 DEF TypeInv

LEMMA TypeSelectSession ==
  ASSUME TypeInv, NEW i \in Slot, NEW s \in Session, SelectSession(i, s)
  PROVE  TypeInv'
  <1>1. ServerTyped'
    BY TypeKept DEF SelectSession
  <1>2. ChoiceTyped'
    BY DEF SelectSession, TypeInv, ChoiceTyped
  <1>3. raw \in BOOLEAN /\ pane \in {"empty", "loading", "error", "transcript"}
    BY DEF TypeInv, ChoiceTyped, PageTyped
  <1>4. CallsTyped' /\ pane' \in {"empty", "loading", "error", "transcript"}
    BY <1>3, LoadTyped DEF SelectSession, TypeInv
  <1>5. PageTyped'
    BY <1>4 DEF SelectSession, TypeInv, PageTyped
  <1> QED
    BY <1>1, <1>2, <1>4, <1>5 DEF TypeInv

LEMMA TypeSetFilter ==
  ASSUME TypeInv, NEW i \in Slot, NEW f \in SpacesOf(Session) \cup {"all"},
         SetFilter(i, f)
  PROVE  TypeInv'
  <1> DEFINE visible == Visible(f, listed.all)
             pick == Preferred(visible, listed.open)
  <1>1. ServerTyped'
    BY TypeKept DEF SetFilter
  <1>2. pick \in Session \cup {None}
    <2>1. visible \in SUBSET Session
      BY DEF Visible, TypeInv, PageTyped, Lists
    <2> HIDE DEF visible
    <2> QED
      BY <2>1, PreferredIn
  <1>3. /\ raw \in BOOLEAN /\ pane \in {"empty", "loading", "error", "transcript"}
        /\ live \in BOOLEAN /\ cur \in Session \cup {None}
    BY DEF TypeInv, ChoiceTyped, PageTyped
  <1>4. /\ live' \in BOOLEAN /\ cur' \in Session \cup {None}
        /\ filter' = f /\ UNCHANGED <<requested, raw, listed, polling, holding>>
    BY <1>2, <1>3 DEF SetFilter
  <1>5. ChoiceTyped'
    BY <1>4 DEF TypeInv, ChoiceTyped
  <1>6. /\ CallsTyped' /\ shown' \in {shown, None}
        /\ pane' \in {"empty", "loading", "error", "transcript"}
    <2>1. CASE UNCHANGED <<view, task, latest>>
      BY <1>3, <2>1, TypeKept DEF view
    <2>2. CASE pick = None /\ shown' = None /\ pane' = "empty"
               /\ UNCHANGED <<task, latest>>
      BY <2>2, TypeKept
    <2>3. CASE pick # None /\ LoadTranscript(i, pick, "user", raw)
               /\ UNCHANGED shown
      <3> HIDE DEF pick
      <3> QED
        BY <1>2, <1>3, <2>3, LoadTyped DEF TypeInv
    <2> QED
      BY <2>1, <2>2, <2>3 DEF SetFilter
  <1>7. PageTyped'
    BY <1>4, <1>6 DEF TypeInv, PageTyped
  <1> QED
    BY <1>1, <1>5, <1>6, <1>7 DEF TypeInv

LEMMA TypeToggleRaw ==
  ASSUME TypeInv, NEW i \in Slot, ToggleRaw(i)
  PROVE  TypeInv'
  <1>1. ServerTyped'
    BY TypeKept DEF ToggleRaw
  <1>2. raw' \in BOOLEAN /\ pane \in {"empty", "loading", "error", "transcript"}
        /\ cur \in Session \cup {None}
    BY DEF ToggleRaw, TypeInv, ChoiceTyped, PageTyped
  <1>3. ChoiceTyped'
    BY <1>2 DEF ToggleRaw, TypeInv, ChoiceTyped
  <1>4. /\ CallsTyped' /\ UNCHANGED shown
        /\ pane' \in {"empty", "loading", "error", "transcript"}
    <2>1. CASE cur = None
      BY <1>2, <2>1, TypeKept DEF ToggleRaw, view
    <2>2. CASE cur # None
      BY <1>2, <2>2, LoadTyped DEF ToggleRaw, TypeInv
    <2> QED
      BY <2>1, <2>2
  <1>5. PageTyped'
    BY <1>4 DEF ToggleRaw, TypeInv, PageTyped
  <1> QED
    BY <1>1, <1>3, <1>4, <1>5 DEF TypeInv

LEMMA TypeMark ==
  ASSUME TypeInv, Mark
  PROVE  TypeInv'
  <1>1. ServerTyped' /\ ChoiceTyped' /\ CallsTyped'
    BY TypeKept DEF Mark, calls
  <1>2. PageTyped'
    BY DEF Mark, view, calls, TypeInv, PageTyped
  <1> QED
    BY <1>1, <1>2 DEF TypeInv

LEMMA TypeInit == Init => TypeInv
  <1> SUFFICES ASSUME Init PROVE TypeInv
    OBVIOUS
  <1>1. ServerTyped
    BY Bound DEF Init, ServerTyped
  <1>2. ChoiceTyped
    BY <1>1 DEF Init, ChoiceTyped, ServerTyped
  <1>3. PageTyped
    BY DEF Init, PageTyped, Lists
  <1>4. Call("list", "open") \in Tasks /\ Free \in Tasks
    BY FreeTyped, NewCallTyped DEF Pcs
  <1>5. CallsTyped
    BY <1>4 DEF Init, CallsTyped
  <1> QED
    BY <1>1, <1>2, <1>3, <1>5 DEF TypeInv

LEMMA TypeStutter ==
  ASSUME TypeInv, UNCHANGED vars
  PROVE  TypeInv'
  BY TypeKept DEF vars, calls, TypeInv

LEMMA TypeNext ==
  ASSUME TypeInv, [Next]_vars
  PROVE  TypeInv'
  <1>1. ASSUME NEW s \in Session, Begin(s) \/ Continue(s) \/ Remove(s)
        PROVE  TypeInv'
    BY <1>1, TypeServer
  <1>2. ASSUME NEW i \in Slot, Proceed(i) \/ Fails(i) \/ Refresh(i)
        PROVE  TypeInv'
    <2>1. 1 \in Session
      BY Sizes DEF Session
    <2> QED
      BY <1>2, <2>1, TypeAnswerList, TypeAnswerTranscript, TypeAnswerDelete,
        TypeTakeList, TypeTakeTranscript, TypeTakeError, TypeTakeDeleted,
        TypeFails, TypeRequest DEF Proceed
  <1>3. ASSUME NEW i \in Slot, User(i)
        PROVE  TypeInv'
    <2>1. 1 \in Session
      BY Sizes DEF Session
    <2> QED
      BY <1>3, <2>1, TypeRequest, TypeToggleRaw, TypeSelectSession, TypeSetFilter
        DEF User
  <1> QED
    BY <1>1, <1>2, <1>3, TypeMark, TypeStutter DEF Next

(* Every variable keeps the type of the field of the page, the server or   *)
(* the call it stands for, whatever the order of answers and clicks.       *)
THEOREM Typed == Spec => []TypeOK
  <1>1. Spec => []TypeInv
    BY TypeInit, TypeNext, PTL DEF Spec
  <1> QED
    BY <1>1, TypeInvTypes, PTL

-----------------------------------------------------------------------------
(* The call that has numbered itself last is a transcript's, of a session, *)
(* and asked for what the raw box says; an answer is not newer than the    *)
(* server's transcript, and what is shown is not newer than the answer     *)
(* that may replace it.                                                    *)
Loads == {"base", "bundle", "loaded", "refused"}

LatestLoads ==
  latest # None => task[latest].pc \in Loads /\ task[latest].of \in Session
AskedRaw ==
  (latest # None /\ cur # None /\ task[latest].of = cur)
    => task[latest].raw = raw
TakenVer ==
  \A i \in Slot : At(i, "loaded") => task[i].ver <= version[task[i].of]
ShownVer ==
  shown # None =>
    /\ shown.ver <= version[shown.of]
    /\ (latest # None /\ task[latest].pc = "loaded"
          /\ task[latest].of = shown.of) => shown.ver <= task[latest].ver

Chosen  == LatestLoads /\ AskedRaw /\ ShownIsSelected
Ordered == TakenVer /\ ShownVer
PageInv == Chosen /\ Ordered

(* What NoOlderAnswer says of a step.                                      *)
Newer ==
  (shown # None /\ shown' # None)
    => (shown'.of = shown.of => shown'.ver >= shown.ver)

Facts == TypeInv /\ PageInv

LEMMA Known ==
  ASSUME Facts
  PROVE  /\ version \in [Session -> Int]
         /\ shown # None => shown.of \in Session /\ shown.ver \in Int
         /\ latest # None => latest \in Slot
         /\ DOMAIN task = Slot
         /\ \A i \in Slot : task[i].ver \in Int
         /\ \A i \in Slot : At(i, "loaded") => task[i].of \in Session
         /\ None \notin Session /\ None \notin Slot
  <1>1. version \in [Session -> Int]
    BY Bound DEF Facts, TypeInv, ServerTyped
  <1>2. shown # None => shown.of \in Session /\ shown.ver \in Int
    BY Bound DEF Facts, TypeInv, PageTyped, Shown
  <1>3. (latest # None => latest \in Slot) /\ DOMAIN task = Slot
    BY DEF Facts, TypeInv, CallsTyped
  <1>4. \A i \in Slot : task[i].ver \in Int
                        /\ (At(i, "loaded") => task[i].of \in Session)
    BY Bound, TaskTyped DEF Facts, TypeInv, At
  <1> QED
    BY <1>1, <1>2, <1>3, <1>4, Spaces

(* A slot that is not at one of the loads is not the last numbered one.    *)
LEMMA NotLatest ==
  ASSUME Facts, NEW i \in Slot, task[i].pc \notin Loads
  PROVE  latest # i
  BY Spaces DEF Facts, PageInv, Chosen, LatestLoads

-----------------------------------------------------------------------------
(* Kinds of step.  The server's: transcripts only grow.                    *)
LEMMA ServerStep ==
  ASSUME Facts, UNCHANGED <<choice, view, task, latest>>,
         DOMAIN version' = Session,
         \A s \in Session : version'[s] \in Int /\ version[s] <= version'[s]
  PROVE  PageInv' /\ Newer
  <1>1. /\ cur' = cur /\ raw' = raw /\ shown' = shown /\ pane' = pane
        /\ latest' = latest /\ task' = task
    BY DEF choice, view
  <1>2. Chosen'
    BY <1>1 DEF Facts, PageInv, Chosen, LatestLoads, AskedRaw, ShownIsSelected,
      Replacing
  <1>3. TakenVer'
    <2> SUFFICES ASSUME NEW i \in Slot, At(i, "loaded")
                 PROVE  task[i].ver <= version'[task[i].of]
      BY <1>1 DEF TakenVer, At
    <2>1. task[i].of \in Session /\ task[i].ver \in Int
      BY Known
    <2>2. task[i].ver <= version[task[i].of] /\ version[task[i].of] \in Int
      BY <2>1, Known DEF Facts, PageInv, Ordered, TakenVer
    <2> QED
      BY <2>1, <2>2
  <1>4. ShownVer'
    <2>1. CASE shown = None
      BY <1>1, <2>1 DEF ShownVer
    <2>2. CASE shown # None
      <3>1. shown.of \in Session /\ shown.ver \in Int
            /\ version[shown.of] \in Int /\ shown.ver <= version[shown.of]
        BY <2>2, Known DEF Facts, PageInv, Ordered, ShownVer
      <3>2. shown.ver <= version'[shown.of]
        BY <3>1
      <3> QED
        BY <1>1, <2>2, <3>2 DEF Facts, PageInv, Ordered, ShownVer
    <2> QED
      BY <2>1, <2>2
  <1>5. Newer
    BY <1>1, Known DEF Newer
  <1> QED
    BY <1>2, <1>3, <1>4, <1>5 DEF PageInv, Ordered

(* A call that is not the last numbered one takes a new value; the page    *)
(* stays as it is.                                                         *)
LEMMA OtherCallStep ==
  ASSUME Facts, NEW i \in Slot, NEW c, latest # i, Set(i, c), c.pc # "loaded",
         latest' = latest, UNCHANGED <<cur, raw, view, version>>
  PROVE  PageInv' /\ Newer
  <1>1. /\ cur' = cur /\ raw' = raw /\ shown' = shown /\ pane' = pane
        /\ version' = version /\ latest' = latest
    BY DEF view
  <1>2. /\ \A j \in Slot : j # i => task'[j] = task[j]
        /\ task'[i] = c
    BY Known DEF Set
  <1>3. latest # None => latest \in Slot /\ task'[latest] = task[latest]
    BY <1>2, Known
  <1>4. Chosen'
    BY <1>1, <1>3 DEF Facts, PageInv, Chosen, LatestLoads, AskedRaw,
      ShownIsSelected, Replacing
  <1>5. TakenVer'
    BY <1>1, <1>2 DEF Facts, PageInv, Ordered, TakenVer, At
  <1>6. ShownVer'
    BY <1>1, <1>3 DEF Facts, PageInv, Ordered, ShownVer
  <1>7. Newer
    BY <1>1, Known DEF Newer
  <1> QED
    BY <1>4, <1>5, <1>6, <1>7 DEF PageInv, Ordered

(* An answer to a transcript's request arrives or fails to: what it has    *)
(* read is the transcript as it is now.                                    *)
LEMMA AnswerStep ==
  ASSUME Facts, NEW i \in Slot, NEW c, Set(i, c), task[i].pc \in Loads,
         c.pc \in Loads, c.of = task[i].of, c.raw = task[i].raw,
         c.pc = "loaded" => c.of \in Session /\ c.ver = version[c.of],
         latest' = latest, UNCHANGED <<cur, raw, view, version>>
  PROVE  PageInv' /\ Newer
  <1>1. /\ cur' = cur /\ raw' = raw /\ shown' = shown /\ pane' = pane
        /\ version' = version /\ latest' = latest
    BY DEF view
  <1>2. /\ \A j \in Slot : j # i => task'[j] = task[j]
        /\ task'[i] = c
    BY Known DEF Set
  <1>3. latest # None =>
          /\ latest \in Slot
          /\ task'[latest].of = task[latest].of
          /\ task'[latest].raw = task[latest].raw
          /\ (task[latest].pc \in Loads => task'[latest].pc \in Loads)
    BY <1>2, Known
  <1>4. Chosen'
    BY <1>1, <1>3 DEF Facts, PageInv, Chosen, LatestLoads, AskedRaw,
      ShownIsSelected, Replacing
  <1>5. TakenVer'
    <2> SUFFICES ASSUME NEW j \in Slot, task'[j].pc = "loaded"
                 PROVE  task'[j].ver <= version[task'[j].of]
      BY <1>1 DEF TakenVer, At
    <2>1. CASE j = i
      BY <1>2, <2>1, Known
    <2>2. CASE j # i
      BY <1>2, <2>2 DEF Facts, PageInv, Ordered, TakenVer, At
    <2> QED
      BY <2>1, <2>2
  <1>6. ShownVer'
    <2> SUFFICES ASSUME shown # None
                 PROVE  /\ shown.ver <= version[shown.of]
                        /\ (latest # None /\ task'[latest].pc = "loaded"
                              /\ task'[latest].of = shown.of)
                             => shown.ver <= task'[latest].ver
      BY <1>1 DEF ShownVer
    <2>1. shown.ver <= version[shown.of]
      BY DEF Facts, PageInv, Ordered, ShownVer
    <2>2. ASSUME latest # None, task'[latest].pc = "loaded",
                 task'[latest].of = shown.of
          PROVE  shown.ver <= task'[latest].ver
      <3>1. CASE latest = i
        BY <1>2, <2>1, <2>2, <3>1
      <3>2. CASE latest # i
        BY <1>2, <1>3, <2>2, <3>2 DEF Facts, PageInv, Ordered, ShownVer
      <3> QED
        BY <3>1, <3>2
    <2> QED
      BY <2>1, <2>2
  <1>7. Newer
    BY <1>1, Known DEF Newer
  <1> QED
    BY <1>4, <1>5, <1>6, <1>7 DEF PageInv, Ordered

(* loadTranscript is called for the session that is, or is now, selected,  *)
(* with what the raw box says.                                             *)
LEMMA LoadStep ==
  ASSUME Facts, NEW i \in Slot, NEW s \in Session, NEW by,
         LoadTranscript(i, s, by, raw'), cur' = s,
         UNCHANGED <<shown, version>>
  PROVE  PageInv' /\ Newer
  <1> DEFINE c == [Call("base", by) EXCEPT !.of = s, !.raw = raw']
  <1>1. c.pc = "base" /\ c.of = s /\ c.raw = raw'
    BY DEF Call, Free
  <1>2. task' = [task EXCEPT ![i] = c] /\ latest' = i
    BY DEF LoadTranscript, Set
  <1> HIDE DEF c
  <1>3. /\ \A j \in Slot : j # i => task'[j] = task[j]
        /\ task'[latest'] = c /\ task'[i] = c
    BY <1>2, Known
  <1>4. Chosen'
    BY <1>1, <1>2, <1>3, Known DEF Chosen, LatestLoads, Loads, AskedRaw, ShownIsSelected,
      Replacing
  <1>5. TakenVer'
    BY <1>1, <1>3 DEF Facts, PageInv, Ordered, TakenVer, At
  <1>6. ShownVer'
    BY <1>1, <1>3 DEF Facts, PageInv, Ordered, ShownVer
  <1>7. Newer
    BY Known DEF Newer
  <1> QED
    BY <1>4, <1>5, <1>6, <1>7 DEF PageInv, Ordered

(* The page, the choice and the calls stay as they are.                    *)
LEMMA IdleStep ==
  ASSUME Facts, UNCHANGED <<cur, raw, view, task, latest, version>>
  PROVE  PageInv' /\ Newer
  <1>1. /\ cur' = cur /\ raw' = raw /\ shown' = shown /\ pane' = pane
        /\ latest' = latest /\ task' = task /\ version' = version
    BY DEF view
  <1>2. Chosen' /\ Ordered'
    BY <1>1 DEF Facts, PageInv, Chosen, LatestLoads, AskedRaw, ShownIsSelected,
      Replacing, Ordered, TakenVer, ShownVer, At
  <1>3. Newer
    BY <1>1, Known DEF Newer
  <1> QED
    BY <1>2, <1>3 DEF PageInv

-----------------------------------------------------------------------------
(* Steps that are of no such kind, one by one.                             *)

(* Nothing is selected any more, nothing is shown, and the calls are as    *)
(* they were or one of them has ended.                                     *)
LEMMA EmptiedStep ==
  ASSUME Facts, cur' = None, shown' = None, version' = version,
         \/ UNCHANGED <<task, latest>>
         \/ \E i \in Slot, c \in Tasks :
              Set(i, c) /\ latest # i /\ latest' = latest /\ c.pc # "loaded"
  PROVE  PageInv' /\ Newer
  <1>1. ShownIsSelected' /\ AskedRaw' /\ ShownVer' /\ Newer
    BY DEF ShownIsSelected, AskedRaw, ShownVer, Newer
  <1>2. CASE UNCHANGED <<task, latest>>
    <2>1. LatestLoads' /\ TakenVer'
      BY <1>2 DEF Facts, PageInv, Chosen, Ordered, LatestLoads, TakenVer, At
    <2> QED
      BY <1>1, <2>1 DEF PageInv, Chosen, Ordered
  <1>3. ASSUME NEW i \in Slot, NEW c \in Tasks,
               Set(i, c), latest # i, latest' = latest, c.pc # "loaded"
        PROVE  PageInv' /\ Newer
    <2>1. /\ \A j \in Slot : j # i => task'[j] = task[j]
          /\ task'[i] = c
          /\ latest # None => latest \in Slot
      BY <1>3, Known DEF Set
    <2>2. LatestLoads' /\ TakenVer'
      BY <1>3, <2>1 DEF Facts, PageInv, Chosen, Ordered, LatestLoads, TakenVer, At
    <2> QED
      BY <1>1, <2>2 DEF PageInv, Chosen, Ordered
  <1> QED
    BY <1>2, <1>3

(* A call that was at a transcript's request, or at none, returns.         *)
LEMMA ReturnedCalls ==
  ASSUME Facts, NEW i \in Slot, Return(i)
  PROVE  /\ Set(i, Free) /\ Free.pc = "free" /\ Free \in Tasks
         /\ \A j \in Slot : j # i => task'[j] = task[j]
         /\ task'[i] = Free
         /\ latest' # None => latest' = latest /\ latest # i /\ latest \in Slot
         /\ latest # i => latest' = latest
  <1>1. Set(i, Free) /\ latest' = IF latest = i THEN None ELSE latest
    BY DEF Return
  <1> QED
    BY <1>1, FreeTyped, Known DEF Set, Free

(* A transcript that is taken, or is not the current one's.                *)
LEMMA TakeTranscriptStep ==
  ASSUME Facts, NEW i \in Slot, TakeTranscript(i)
  PROVE  PageInv' /\ Newer
  <1>1. At(i, "loaded") /\ Return(i) /\ UNCHANGED <<cur, raw, version>>
    BY DEF TakeTranscript, server, choice
  <1>2. task[i].of \in Session /\ task[i].ver \in Int
        /\ version[task[i].of] \in Int /\ task[i].ver <= version[task[i].of]
    BY <1>1, Known DEF Facts, PageInv, Ordered, TakenVer
  <1>3. LatestLoads' /\ TakenVer'
    BY <1>1, ReturnedCalls DEF Facts, PageInv, Chosen, Ordered, LatestLoads,
      TakenVer, At
  <1>4. CASE IsCurrent(i)
    <2>1. /\ shown' = [of |-> cur, raw |-> task[i].raw, ver |-> task[i].ver]
          /\ latest = i /\ task[i].of = cur /\ latest' = None
      BY <1>4 DEF TakeTranscript, IsCurrent, Return
    <2>2. task[i].raw = raw
      BY <1>2, <2>1, Known DEF Facts, PageInv, Chosen, AskedRaw
    <2>3. ShownIsSelected' /\ AskedRaw'
      BY <1>1, <2>1, <2>2 DEF ShownIsSelected, AskedRaw
    <2>4. ShownVer'
      BY <1>1, <1>2, <2>1 DEF ShownVer
    <2>5. Newer
      BY <1>1, <2>1, Known DEF Facts, PageInv, Ordered, ShownVer, Newer, At
    <2> QED
      BY <1>3, <2>3, <2>4, <2>5 DEF PageInv, Chosen, Ordered
  <1>5. CASE ~IsCurrent(i)
    <2>1. shown' = shown /\ pane' = pane
      BY <1>5 DEF TakeTranscript, view
    <2>2. latest = i => task[i].of # cur
      BY <1>5 DEF IsCurrent
    <2>3. AskedRaw'
      BY <1>1, ReturnedCalls DEF Facts, PageInv, Chosen, AskedRaw
    <2>4. ShownIsSelected'
      BY <1>1, <2>1, <2>2, ReturnedCalls DEF Facts, PageInv, Chosen,
        ShownIsSelected, Replacing
    <2>5. ShownVer'
      BY <1>1, <2>1, ReturnedCalls DEF Facts, PageInv, Ordered, ShownVer
    <2>6. Newer
      BY <2>1, Known DEF Newer
    <2> QED
      BY <1>3, <2>3, <2>4, <2>5, <2>6 DEF PageInv, Chosen, Ordered
  <1> QED
    BY <1>4, <1>5

LEMMA TakeErrorStep ==
  ASSUME Facts, NEW i \in Slot, TakeError(i)
  PROVE  PageInv' /\ Newer
  <1>1. Return(i) /\ UNCHANGED <<cur, raw, version, shown>>
    BY DEF TakeError, server, choice
  <1>2. pane' = IF IsCurrent(i) THEN "error" ELSE pane
    BY DEF TakeError
  <1>3. LatestLoads' /\ TakenVer'
    BY <1>1, ReturnedCalls DEF Facts, PageInv, Chosen, Ordered, LatestLoads,
      TakenVer, At
  <1>4. AskedRaw'
    BY <1>1, ReturnedCalls DEF Facts, PageInv, Chosen, AskedRaw
  <1>5. ShownIsSelected'
    <2>1. CASE IsCurrent(i)
      BY <1>2, <2>1 DEF ShownIsSelected
    <2>2. CASE ~IsCurrent(i)
      BY <1>1, <1>2, <2>2, ReturnedCalls DEF Facts, PageInv, Chosen,
        ShownIsSelected, Replacing, IsCurrent
    <2> QED
      BY <2>1, <2>2
  <1>6. ShownVer'
    BY <1>1, ReturnedCalls DEF Facts, PageInv, Ordered, ShownVer
  <1>7. Newer
    BY <1>1, Known DEF Newer
  <1> QED
    BY <1>3, <1>4, <1>5, <1>6, <1>7 DEF PageInv, Chosen, Ordered

LEMMA TakeDeletedStep ==
  ASSUME Facts, NEW i \in Slot, TakeDeleted(i)
  PROVE  PageInv' /\ Newer
  <1> DEFINE c == Call("list", "user")
  <1>1. /\ Set(i, c) /\ c.pc = "list" /\ c \in Tasks /\ latest' = latest
        /\ version' = version /\ raw' = raw /\ pane' = pane
    BY NewCallTyped DEF TakeDeleted, server, Call, Free, Pcs
  <1>2. latest # i
    BY NotLatest DEF TakeDeleted, At, Loads
  <1> HIDE DEF c
  <1>3. CASE shown # None /\ shown.of = task[i].of
    BY <1>1, <1>2, <1>3, EmptiedStep DEF TakeDeleted
  <1>4. CASE ~(shown # None /\ shown.of = task[i].of)
    <2>1. UNCHANGED <<cur, raw, view, version>>
      BY <1>1, <1>4 DEF TakeDeleted, view
    <2> QED
      BY <1>1, <1>2, <2>1, OtherCallStep
  <1> QED
    BY <1>3, <1>4

LEMMA TakeListStep ==
  ASSUME Facts, NEW i \in Slot, TakeList(i), cur' \in Session \cup {None}
  PROVE  PageInv' /\ Newer
  <1>1. latest # i
    BY NotLatest DEF TakeList, At, Loads
  <1>2. version' = version /\ raw' = raw
    BY DEF TakeList, server
  <1>3. CASE cur' = None
    <2>1. shown' = None /\ Return(i)
      BY <1>3 DEF TakeList
    <2>2. Set(i, Free) /\ Free \in Tasks /\ latest' = latest /\ Free.pc # "loaded"
      BY <1>1, <2>1, ReturnedCalls
    <2> QED
      BY <1>1, <1>2, <1>3, <2>1, <2>2, EmptiedStep
  <1>4. CASE cur' # None
    <2>1. LoadTranscript(i, cur', task[i].by, raw) /\ shown' = shown
      BY <1>4 DEF TakeList
    <2>2. cur' \in Session
      BY <1>4
    <2> QED
      BY <1>2, <2>1, <2>2, LoadStep
  <1> QED
    BY <1>3, <1>4

LEMMA SetFilterStep ==
  ASSUME Facts, NEW i \in Slot, NEW f, SetFilter(i, f),
         cur' \in Session \cup {None}
  PROVE  PageInv' /\ Newer
  <1>1. version' = version /\ raw' = raw
    BY DEF SetFilter, server
  <1>2. CASE UNCHANGED <<live, cur, view, task, latest>>
    BY <1>1, <1>2, IdleStep
  <1>3. CASE cur' = None /\ shown' = None /\ UNCHANGED <<task, latest>>
    BY <1>1, <1>3, EmptiedStep
  <1>4. CASE cur' # None /\ LoadTranscript(i, cur', "user", raw)
             /\ shown' = shown
    <2>1. cur' \in Session
      BY <1>4
    <2> QED
      BY <1>1, <1>4, <2>1, LoadStep
  <1> QED
    BY <1>2, <1>3, <1>4 DEF SetFilter

LEMMA ToggleRawStep ==
  ASSUME Facts, NEW i \in Slot, ToggleRaw(i)
  PROVE  PageInv' /\ Newer
  <1>1. cur' = cur /\ version' = version
    BY DEF ToggleRaw, server
  <1>2. CASE cur = None
    <2>1. UNCHANGED <<task, latest, shown, pane>>
      BY <1>2 DEF ToggleRaw, view
    <2>2. Chosen'
      BY <1>1, <1>2, <2>1 DEF Facts, PageInv, Chosen, LatestLoads, AskedRaw,
        ShownIsSelected
    <2>3. Ordered'
      BY <1>1, <2>1 DEF Facts, PageInv, Ordered, TakenVer, ShownVer, At
    <2>4. Newer
      BY <2>1, Known DEF Newer
    <2> QED
      BY <2>2, <2>3, <2>4 DEF PageInv
  <1>3. CASE cur # None
    <2>1. LoadTranscript(i, cur, "user", raw') /\ shown' = shown
      BY <1>3 DEF ToggleRaw
    <2>2. cur \in Session
      BY <1>3 DEF Facts, TypeInv, ChoiceTyped
    <2> QED
      BY <1>1, <2>1, <2>2, LoadStep
  <1> QED
    BY <1>2, <1>3

-----------------------------------------------------------------------------
(* The steps of Next, each by the kind it is of.                           *)
LEMMA StepServer ==
  ASSUME Facts, TypeInv', NEW s \in Session, Begin(s) \/ Continue(s) \/ Remove(s)
  PROVE  PageInv' /\ Newer
  <1>1. UNCHANGED <<choice, view, task, latest>>
    BY DEF Begin, Continue, Remove, calls
  <1>2. /\ version \in [Session -> Int]
        /\ version' \in [Session -> Int]
    BY Known, Bound DEF TypeInv, ServerTyped
  <1>3. \/ version[s] = 0 /\ version' = [version EXCEPT ![s] = 1]
        \/ version' = [version EXCEPT ![s] = version[s] + 1]
        \/ version' = version
    BY DEF Begin, Continue, Remove
  <1>4. \A r \in Session : version'[r] \in Int /\ version[r] <= version'[r]
    BY <1>2, <1>3
  <1> QED
    BY <1>1, <1>2, <1>4, ServerStep

LEMMA StepAnswers ==
  ASSUME Facts, NEW i \in Slot,
         AnswerList(i) \/ AnswerTranscript(i) \/ AnswerDelete(i) \/ Fails(i)
  PROVE  PageInv' /\ Newer
  <1>1. UNCHANGED <<cur, raw, view, version>>
    BY DEF AnswerList, AnswerTranscript, AnswerDelete, Fails, server, choice
  <1>2. CASE AnswerList(i)
    <2> DEFINE c == [task[i] EXCEPT !.pc = "listed", !.all = exists, !.open = open]
    <2>1. latest # i
      BY <1>2, NotLatest DEF AnswerList, At, Loads
    <2>2. c.pc # "loaded"
      BY TaskTyped DEF Facts, TypeInv, Tasks, TaskFields
    <2>3. Set(i, c) /\ latest' = latest
      BY <1>2 DEF AnswerList
    <2> HIDE DEF c
    <2> QED
      BY <1>1, <2>1, <2>2, <2>3, OtherCallStep
  <1>3. CASE AnswerTranscript(i)
    <2>1. \E c : /\ Set(i, c) /\ c.pc \in Loads
                 /\ c.of = task[i].of /\ c.raw = task[i].raw
                 /\ c.pc = "loaded" => c.of \in Session /\ c.ver = version[c.of]
      <3> DEFINE s == task[i].of
                 c1 == [task[i] EXCEPT !.pc = "refused"]
                 c2 == [task[i] EXCEPT !.pc = "bundle"]
                 c3 == [task[i] EXCEPT !.pc = "loaded", !.ver = version[s]]
      <3>1. /\ c1.pc = "refused" /\ c1.of = s /\ c1.raw = task[i].raw
            /\ c2.pc = "bundle" /\ c2.of = s /\ c2.raw = task[i].raw
            /\ c3.pc = "loaded" /\ c3.of = s /\ c3.raw = task[i].raw
            /\ c3.ver = version[s]
        BY TaskTyped DEF Facts, TypeInv, Tasks, TaskFields
      <3>2. \/ Set(i, c1) \/ Set(i, c2)
            \/ Set(i, c3) /\ s \in Session
        BY <1>3 DEF AnswerTranscript, Facts, TypeInv, ServerTyped
      <3> HIDE DEF c1, c2, c3
      <3> QED
        BY <3>1, <3>2 DEF Loads
    <2>2. task[i].pc \in Loads /\ latest' = latest
      BY <1>3 DEF AnswerTranscript, At, Loads
    <2> QED
      BY <1>1, <2>1, <2>2, AnswerStep
  <1>4. CASE AnswerDelete(i)
    <2>1. latest # i
      BY <1>4, NotLatest DEF AnswerDelete, At, Loads
    <2>2. CASE Return(i)
      BY <1>1, <2>1, <2>2, ReturnedCalls, OtherCallStep
    <2>3. CASE Set(i, [task[i] EXCEPT !.pc = "deleted"]) /\ latest' = latest
      <3> DEFINE c == [task[i] EXCEPT !.pc = "deleted"]
      <3>1. c.pc # "loaded"
        BY TaskTyped DEF Facts, TypeInv, Tasks, TaskFields
      <3> HIDE DEF c
      <3> QED
        BY <1>1, <2>1, <2>3, <3>1, OtherCallStep DEF c
    <2> QED
      BY <1>4, <2>2, <2>3 DEF AnswerDelete
  <1>5. CASE Fails(i)
    <2>1. latest' = latest
      BY <1>5 DEF Fails
    <2>2. CASE (At(i, "base") \/ At(i, "bundle"))
               /\ Set(i, [task[i] EXCEPT !.pc = "refused"])
      <3> DEFINE c == [task[i] EXCEPT !.pc = "refused"]
      <3>1. c.pc = "refused" /\ c.of = task[i].of /\ c.raw = task[i].raw
        BY TaskTyped DEF Facts, TypeInv, Tasks, TaskFields
      <3>2. Set(i, c) /\ task[i].pc \in Loads
        BY <2>2 DEF At, Loads
      <3> HIDE DEF c
      <3> QED
        BY <1>1, <2>1, <3>1, <3>2, AnswerStep DEF Loads
    <2>3. CASE (At(i, "list") \/ At(i, "delete") \/ At(i, "deleted"))
               /\ Set(i, Free)
      <3>1. latest # i
        BY <2>3, NotLatest DEF At, Loads
      <3>2. Free.pc # "loaded"
        BY DEF Free
      <3> QED
        BY <1>1, <2>1, <2>3, <3>1, <3>2, OtherCallStep
    <2> QED
      BY <1>5, <2>2, <2>3 DEF Fails
  <1> QED
    BY <1>2, <1>3, <1>4, <1>5

LEMMA StepRequest ==
  ASSUME Facts, NEW i \in Slot, NEW s \in Session,
         Refresh(i) \/ ClickRefresh(i) \/ ClickDelete(i, s)
  PROVE  PageInv' /\ Newer
  <1>1. UNCHANGED <<cur, raw, view, version>> /\ latest' = latest
    BY DEF Refresh, ClickRefresh, ClickDelete, server, choice
  <1>2. latest # i
    BY NotLatest DEF Refresh, ClickRefresh, ClickDelete, Vacant, At, Loads
  <1>3. \E c : Set(i, c) /\ c.pc # "loaded"
    <2>1. /\ Call("list", "poll").pc # "loaded"
          /\ Call("list", "user").pc # "loaded"
          /\ [Call("delete", "user") EXCEPT !.of = s].pc # "loaded"
      BY DEF Call, Free
    <2> QED
      BY <2>1 DEF Refresh, ClickRefresh, ClickDelete
  <1> QED
    BY <1>1, <1>2, <1>3, OtherCallStep

LEMMA StepSelect ==
  ASSUME Facts, NEW i \in Slot, NEW s \in Session, SelectSession(i, s)
  PROVE  PageInv' /\ Newer
  <1>1. LoadTranscript(i, s, "user", raw') /\ cur' = s
        /\ UNCHANGED <<shown, version>>
    BY DEF SelectSession, server
  <1> QED
    BY <1>1, LoadStep

LEMMA StepIdle ==
  ASSUME Facts, Mark \/ UNCHANGED vars
  PROVE  PageInv' /\ Newer
  <1>1. UNCHANGED <<cur, raw, view, task, latest, version>>
    BY DEF Mark, vars, server, choice, calls
  <1> QED
    BY <1>1, IdleStep

(* Every step keeps the invariant and shows nothing older.                 *)
LEMMA PageNext ==
  ASSUME Facts, TypeInv', [Next]_vars
  PROVE  PageInv' /\ Newer
  <1>1. cur' \in Session \cup {None} /\ 1 \in Session
    BY Sizes DEF TypeInv, ChoiceTyped, Session
  <1>2. ASSUME NEW s \in Session, Begin(s) \/ Continue(s) \/ Remove(s)
        PROVE  PageInv' /\ Newer
    BY <1>2, StepServer
  <1>3. ASSUME NEW i \in Slot, Proceed(i) \/ Fails(i) \/ Refresh(i)
        PROVE  PageInv' /\ Newer
    BY <1>1, <1>3, StepAnswers, TakeListStep, TakeTranscriptStep, TakeErrorStep,
      TakeDeletedStep, StepRequest DEF Proceed
  <1>4. ASSUME NEW i \in Slot, User(i)
        PROVE  PageInv' /\ Newer
    BY <1>1, <1>4, StepRequest, StepSelect, ToggleRawStep, SetFilterStep DEF User
  <1> QED
    BY <1>2, <1>3, <1>4, StepIdle DEF Next

LEMMA PageInit == Init => PageInv
  <1> SUFFICES ASSUME Init PROVE PageInv
    OBVIOUS
  <1>1. shown = None /\ latest = None
    BY DEF Init
  <1>2. \A i \in Slot : task[i].pc # "loaded"
    BY DEF Init, Call, Free
  <1> QED
    BY <1>1, <1>2 DEF PageInv, Chosen, Ordered, LatestLoads, AskedRaw,
      ShownIsSelected, TakenVer, ShownVer, At

LEMMA FactsAlways == Spec => []Facts
  <1>1. Init => Facts
    BY TypeInit, PageInit DEF Facts
  <1>2. ASSUME Facts, [Next]_vars PROVE Facts'
    BY <1>2, TypeNext, PageNext DEF Facts
  <1> QED
    BY <1>1, <1>2, PTL DEF Spec

(* No answer to an earlier selection or raw setting is left on the page:   *)
(* isCurrentTranscriptRequest, and the number every loadTranscript takes,  *)
(* are enough for any number of sessions and of overlapping calls.         *)
THEOREM SelectionShown == Spec => []ShownIsSelected
  <1>1. Facts => ShownIsSelected
    BY DEF Facts, PageInv, Chosen
  <1> QED
    BY <1>1, FactsAlways, PTL

(* Whatever the order in which requests are answered, a session's          *)
(* transcript is never replaced on the page by an earlier version of it.   *)
THEOREM AnswersInOrder == Spec => NoOlderAnswer
  <1>1. ASSUME Facts, [Next]_vars
        PROVE  (shown # None /\ shown' # None) =>
                 (shown'.of = shown.of => shown'.ver >= shown.ver)
    BY <1>1, TypeNext, PageNext DEF Facts, Newer
  <1>2. Facts /\ [Next]_vars =>
          [(shown # None /\ shown' # None) =>
             (shown'.of = shown.of => shown'.ver >= shown.ver)]_vars
    BY <1>1
  <1> QED
    BY <1>2, FactsAlways, PTL DEF Spec, NoOlderAnswer
=============================================================================
