----------------------------- MODULE Dashboard -----------------------------
(***************************************************************************)
(* The Observer's dashboard (the script of web.py): a page that shows the  *)
(* list of sessions and the transcript of one of them, in live mode of the *)
(* one it prefers.  Requests overlap: a poll every 1.5 s and every event   *)
(* refresh the page, and each click issues requests of its own.            *)
(*                                                                         *)
(* The script runs one handler at a time and lets go at each await, so a   *)
(* step is a request that the server answers, or the part of a function    *)
(* between two awaits.  A call occupies a slot until it returns.  Sessions *)
(* are numbered in the order they start, each of a conversation of its     *)
(* own; of a transcript its version, the number of its events, is kept.    *)
(***************************************************************************)
EXTENDS Integers, FiniteSets

CONSTANTS
  Sessions,    \* bound on the number of sessions
  Workspace,   \* the workspace a session belongs to
  Slots,       \* bound on the calls under way
  MaxEvents,   \* bound on what happens on the server, what the user does
               \* and lost answers, taken together
  None

Session == 1 .. Sessions
Slot    == 1 .. Slots

ASSUME Sizes == Sessions \in Nat \ {0} /\ Slots \in Nat \ {0}
ASSUME Spaces == None \notin Session \cup Slot /\ DOMAIN Workspace = Session
ASSUME Bound == MaxEvents \in Nat

VARIABLES
  exists, open, version, \* on the server: sessions, those not terminal,
                         \* and the length of their transcripts
  listed,     \* sessions: the list the page shows, [all, open]
  live,       \* liveMode
  cur,        \* currentSessionId
  requested,  \* requestedSessionId or ...ConversationId: that of the URL
  filter,     \* workspaceFilter
  raw,        \* the "raw" box is checked
  shown,      \* transcript
  pane,       \* what the page shows of it: "empty", "loading", "error" or
              \* "transcript"
  latest,     \* the slot of the call that has set transcriptRequestSeq last
  task,       \* what each slot's call waits for
  polling,    \* openEvents has been called
  holding,    \* the user holds a text selection
  events      \* (bound) events so far

server == <<exists, open, version>>
choice == <<live, cur, requested, filter, raw>>
view   == <<shown, pane>>
calls  == <<task, latest, polling>>
vars == <<server, listed, choice, view, calls, holding, events>>

Free == [pc |-> "free", by |-> "user", of |-> None, raw |-> FALSE,
         all |-> {}, open |-> {}, ver |-> 0]
Call(pc, by) == [Free EXCEPT !.pc = pc, !.by = by]

(* A page is opened on "/", "/sessions/<id>" or "/conversation/<id>". *)
Init ==
  /\ exists \in SUBSET Session /\ open \in SUBSET exists
  /\ version = [s \in Session |-> 0]
  /\ listed = [all |-> {}, open |-> {}]
  /\ live = TRUE
  /\ requested \in exists \cup {None} /\ cur \in {requested, None}
  /\ filter = "all" /\ raw = FALSE
  /\ shown = None /\ pane = "empty"
  /\ latest = None
  /\ task = [i \in Slot |-> IF i = 1 THEN Call("list", "open") ELSE Free]
  /\ polling = FALSE /\ holding = FALSE
  /\ events = 0

(***************************************************************************)
(* The server: other programs start, continue, end and delete sessions.    *)
(***************************************************************************)
Event == events < MaxEvents /\ events' = events + 1

Begin(s) ==
  /\ Event /\ s \notin exists /\ version[s] = 0
  /\ \A r \in exists : r < s
  /\ exists' = exists \cup {s} /\ open' = open \cup {s}
  /\ version' = [version EXCEPT ![s] = 1]
  /\ UNCHANGED <<listed, choice, view, calls, holding>>

Continue(s) ==
  /\ Event /\ s \in open
  /\ version' = [version EXCEPT ![s] = @ + 1]
  /\ open' \in {open, open \ {s}}
  /\ UNCHANGED <<exists, listed, choice, view, calls, holding>>

Remove(s) ==
  /\ Event /\ s \in exists \ open
  /\ exists' = exists \ {s}
  /\ UNCHANGED <<open, version, listed, choice, view, calls, holding>>

(***************************************************************************)
(* Choosing a session.                                                     *)
(***************************************************************************)
Newest(S) == CHOOSE s \in S : \A r \in S : r <= s

(* preferredLiveSession, of a list sorted newest first *)
Preferred(all, act) ==
  IF all \cap act # {} THEN Newest(all \cap act)
  ELSE IF all # {} THEN Newest(all) ELSE None

(* shouldHonorRequestedSession *)
LiveChoice(all, act) ==
  IF requested \in all /\ all \cap act = {} THEN requested
  ELSE Preferred(all, act)

SpacesOf(all) == {Workspace[s] : s \in all}
Visible(f, all) == {s \in all : f \in {"all", Workspace[s]}}

(***************************************************************************)
(* Calls.                                                                  *)
(***************************************************************************)
At(i, pc) == task[i].pc = pc
Vacant(i) == At(i, "free") /\ \A j \in 1 .. i - 1 : ~At(j, "free")
Refreshing == \E i \in Slot : ~At(i, "free") /\ task[i].by = "poll"

Set(i, call) == task' = [task EXCEPT ![i] = call]

(* The call returns; the first one of the page has openEvents called then. *)
Return(i) ==
  /\ Set(i, Free)
  /\ latest' = IF latest = i THEN None ELSE latest
  /\ polling' = (polling \/ task[i].by = "open")

(* Mutant: an automatic refresh takes no request number. *)
LoadTranscriptUnnumbered(i, s, by, r) ==
  /\ Set(i, [Call("base", by) EXCEPT !.of = s, !.raw = r])
  /\ latest' = IF by = "poll" THEN latest ELSE i
  /\ pane' = IF by = "poll" THEN pane ELSE "loading"

(* loadTranscript up to its first await *)
LoadTranscript(i, s, by, r) ==
  /\ Set(i, [Call("base", by) EXCEPT !.of = s, !.raw = r])
  /\ latest' = i
  /\ pane' = IF by = "poll" THEN pane ELSE "loading"

(* The server answers: GET /api/sessions, *)
AnswerList(i) ==
  /\ At(i, "list")
  /\ Set(i, [task[i] EXCEPT !.pc = "listed", !.all = exists, !.open = open])
  /\ UNCHANGED <<server, listed, choice, view, latest, polling, holding,
                 events>>

(* ... GET /api/sessions/<id> and, next, the GET of its conversation, *)
AnswerTranscript(i) ==
  LET s == task[i].of IN
  /\ At(i, "base") \/ At(i, "bundle")
  /\ Set(i, IF s \notin exists THEN [task[i] EXCEPT !.pc = "refused"]
            ELSE IF At(i, "base") THEN [task[i] EXCEPT !.pc = "bundle"]
            ELSE [task[i] EXCEPT !.pc = "loaded", !.ver = version[s]])
  /\ UNCHANGED <<server, listed, choice, view, latest, polling, holding,
                 events>>

(* ... DELETE: refused, and the handler ended, for an open session. *)
AnswerDelete(i) ==
  LET s == task[i].of IN
  /\ At(i, "delete")
  /\ IF s \in exists \ open
       THEN /\ exists' = exists \ {s}
            /\ Set(i, [task[i] EXCEPT !.pc = "deleted"])
            /\ UNCHANGED <<latest, polling>>
       ELSE Return(i) /\ UNCHANGED exists
  /\ UNCHANGED <<open, version, listed, choice, view, holding, events>>

(* No answer comes: the fetch throws.  A refresh that fails is forgotten;  *)
(* when it was the page's first, openEvents is not called.                 *)
Fails(i) ==
  /\ Event
  /\ \/ /\ At(i, "base") \/ At(i, "bundle")
        /\ Set(i, [task[i] EXCEPT !.pc = "refused"])
     \/ /\ At(i, "list") \/ At(i, "delete") \/ At(i, "deleted")
        /\ Set(i, Free)
  /\ UNCHANGED <<server, listed, choice, view, latest, polling, holding>>

(* loadSessions, from the answer to the next await *)
TakeList(i) ==
  LET all == task[i].all
      pick == IF live THEN LiveChoice(all, task[i].open)
              ELSE IF cur \in all THEN cur
              ELSE IF cur = None THEN Preferred(all, {})
              ELSE Preferred(all, task[i].open) IN
  /\ At(i, "listed")
  /\ listed' = [all |-> all, open |-> task[i].open]
  /\ live' = (live \/ (cur # None /\ cur \notin all))
  /\ requested' = IF live /\ all # {} THEN None ELSE requested
  /\ cur' = pick
  /\ filter' = IF filter \in SpacesOf(all) THEN filter ELSE "all"
  /\ IF pick = None
       THEN shown' = None /\ pane' = "empty" /\ Return(i)
       ELSE /\ LoadTranscript(i, pick, task[i].by, raw)
            /\ UNCHANGED <<shown, polling>>
  /\ UNCHANGED <<server, raw, holding, events>>

(* Mutant: only the session of the answer is compared. *)
IsCurrentById(i) == task[i].of = cur

(* isCurrentTranscriptRequest *)
IsCurrent(i) == latest = i /\ task[i].of = cur

(* loadTranscript, from the second answer on *)
TakeTranscript(i) ==
  /\ At(i, "loaded")
  /\ IF IsCurrent(i)
       THEN /\ shown' = [of |-> cur, raw |-> task[i].raw, ver |-> task[i].ver]
            /\ pane' = "transcript"
       ELSE UNCHANGED view
  /\ Return(i)
  /\ UNCHANGED <<server, listed, choice, holding, events>>

TakeError(i) ==
  /\ At(i, "refused")
  /\ pane' = IF IsCurrent(i) THEN "error" ELSE pane
  /\ Return(i)
  /\ UNCHANGED <<server, listed, choice, shown, holding, events>>

(* deleteSessionListItem, from the answer on *)
TakeDeleted(i) ==
  /\ At(i, "deleted")
  /\ IF shown # None /\ shown.of = task[i].of
       THEN cur' = None /\ live' = TRUE /\ shown' = None
       ELSE UNCHANGED <<cur, live, shown>>
  /\ Set(i, Call("list", "user"))
  /\ UNCHANGED <<server, listed, requested, filter, raw, pane, latest, polling,
                 holding, events>>

(***************************************************************************)
(* The timer, events, and the user.                                        *)
(***************************************************************************)
(* refreshDashboard({automatic: true}) *)
Refresh(i) ==
  /\ polling /\ ~holding /\ ~Refreshing /\ Vacant(i)
  /\ Set(i, Call("list", "poll"))
  /\ UNCHANGED <<server, listed, choice, view, latest, polling, holding,
                 events>>

(* The refresh button; renaming ends in the same call. *)
ClickRefresh(i) ==
  /\ Event /\ Vacant(i)
  /\ Set(i, Call("list", "user"))
  /\ UNCHANGED <<server, listed, choice, view, latest, polling, holding>>

(* selectSession *)
SelectSession(i, s) ==
  /\ Event /\ Vacant(i) /\ s \in Visible(filter, listed.all)
  /\ live' = FALSE /\ cur' = s
  /\ LoadTranscript(i, s, "user", raw)
  /\ UNCHANGED <<server, listed, requested, filter, raw, shown, polling,
                 holding>>

ClickDelete(i, s) ==
  /\ Event /\ Vacant(i) /\ s \in Visible(filter, listed.all)
  /\ Set(i, [Call("delete", "user") EXCEPT !.of = s])
  /\ UNCHANGED <<server, listed, choice, view, latest, polling, holding>>

(* workspaceFilter.onchange *)
SetFilter(i, f) ==
  LET visible == Visible(f, listed.all)
      pick == Preferred(visible, listed.open) IN
  /\ Event /\ Vacant(i) /\ f # filter /\ f \in SpacesOf(listed.all) \cup {"all"}
  /\ filter' = f
  /\ IF cur = None \/ cur \in visible
       THEN UNCHANGED <<live, cur, view, task, latest>>
       ELSE /\ live' = TRUE /\ cur' = pick
            /\ IF pick = None
                 THEN /\ shown' = None /\ pane' = "empty"
                      /\ UNCHANGED <<task, latest>>
                 ELSE LoadTranscript(i, pick, "user", raw) /\ UNCHANGED shown
  /\ UNCHANGED <<server, listed, requested, raw, polling, holding>>

(* Mutant: the change goes with the refresh that is under way. *)
ToggleRawJoins(i) ==
  /\ Event /\ Vacant(i)
  /\ raw' \in {FALSE, ~raw}
  /\ polling' = TRUE
  /\ IF cur = None \/ Refreshing
       THEN UNCHANGED <<task, latest, view>>
       ELSE LoadTranscript(i, cur, "user", raw') /\ UNCHANGED shown
  /\ UNCHANGED <<server, listed, live, cur, requested, filter, holding>>

(* raw.onchange; the box stays unchecked when the user does not confirm. *)
ToggleRaw(i) ==
  /\ Event /\ Vacant(i)
  /\ raw' \in {FALSE, ~raw}
  /\ polling' = TRUE
  /\ IF cur = None
       THEN UNCHANGED <<task, latest, view>>
       ELSE LoadTranscript(i, cur, "user", raw') /\ UNCHANGED shown
  /\ UNCHANGED <<server, listed, live, cur, requested, filter, holding>>

Mark ==
  /\ Event /\ holding' = ~holding
  /\ UNCHANGED <<server, listed, choice, view, calls>>

Proceed(i) ==
  \/ AnswerList(i) \/ AnswerTranscript(i) \/ AnswerDelete(i)
  \/ TakeList(i) \/ TakeTranscript(i) \/ TakeError(i) \/ TakeDeleted(i)

User(i) ==
  \/ ClickRefresh(i) \/ ToggleRaw(i)
  \/ \E s \in Session : SelectSession(i, s) \/ ClickDelete(i, s)
  \/ \E f \in SpacesOf(Session) \cup {"all"} : SetFilter(i, f)

Next ==
  \/ \E s \in Session : Begin(s) \/ Continue(s) \/ Remove(s)
  \/ \E i \in Slot : Proceed(i) \/ Fails(i) \/ Refresh(i) \/ User(i)
  \/ Mark

Spec == Init /\ [][Next]_vars

(* The browser runs what is ready and calls the timer's function; every    *)
(* request is answered or fails.                                           *)
Fairness ==
  \A i \in Slot : WF_vars(Proceed(i) \/ Fails(i)) /\ WF_vars(Refresh(i))

FairSpec == Spec /\ Fairness

-----------------------------------------------------------------------------
Lists == [all : SUBSET Session, open : SUBSET Session]

(* The variables have the types of the fields they stand for. *)
TypeOK ==
  /\ exists \subseteq Session /\ open \subseteq exists
  /\ version \in [Session -> 0 .. MaxEvents]
  /\ listed \in Lists
  /\ live \in BOOLEAN /\ cur \in Session \cup {None}
  /\ requested \in Session \cup {None}
  /\ filter \in SpacesOf(Session) \cup {"all"} /\ raw \in BOOLEAN
  /\ shown \in [of : Session, raw : BOOLEAN, ver : 0 .. MaxEvents] \cup {None}
  /\ pane \in {"empty", "loading", "error", "transcript"}
  /\ latest \in Slot \cup {None}
  /\ task \in [Slot -> [pc : {"free", "list", "listed", "base", "bundle",
                              "loaded", "refused", "delete", "deleted"},
                        by : {"user", "poll", "open"},
                        of : Session \cup {None}, raw : BOOLEAN,
                        all : SUBSET Session, open : SUBSET Session,
                        ver : 0 .. MaxEvents]]
  /\ polling \in BOOLEAN /\ holding \in BOOLEAN
  /\ events \in 0 .. MaxEvents

(* A transcript on the page is the selected session's under the setting of *)
(* the raw box, or the request that will replace it is under way and will  *)
(* be taken: no answer to an earlier selection or setting overwrites it.   *)
Replacing ==
  latest # None /\ task[latest].of = cur /\ task[latest].raw = raw
ShownIsSelected ==
  (pane = "transcript" /\ shown # None /\ cur # None
     /\ <<shown.of, shown.raw>> # <<cur, raw>>) => Replacing

(* A session's transcript never goes back to an earlier version, although  *)
(* requests for it overlap and are answered in any order.                  *)
NoOlderAnswer ==
  [][(shown # None /\ shown' # None) =>
       (shown'.of = shown.of => shown'.ver >= shown.ver)]_vars

(* What is on the page is up to date. *)
UpToDate ==
  /\ listed = [all |-> exists, open |-> open]
  /\ IF exists = {} THEN cur = None /\ pane = "empty"
     ELSE /\ cur \in exists
          /\ live => cur = Preferred(exists, open)
          /\ pane = "transcript"
          /\ shown = [of |-> cur, raw |-> raw, ver |-> version[cur]]

(* When all is quiet the page comes to show the session the user selected, *)
(* or the preferred one, as it is: whatever the order of the answers, and  *)
(* unless a text selection is held or the page's first request failed.     *)
ComesUpToDate == <>[](polling /\ ~holding) => <>[]UpToDate
=============================================================================
