--------------------------- MODULE JsonRunProofs ---------------------------
(***************************************************************************)
(* Proofs about JsonRun for any number of cancellers.                      *)
(***************************************************************************)
EXTENDS JsonRun, TLAPS

(* Where the worker is tells what it knows of the end of the process.      *)
WorkerOK ==
  /\ (answer = None) = (step # "ended")
  /\ step \in {"start", "register", "announce", "poll"} => outcome = "open"
  /\ step \in {"signal", "kill"} => outcome \in {"cancelled", "timed out"}
  /\ step = "classify" => outcome \in {"open", "cancelled", "timed out"}
  /\ step = "judge" => outcome \in {"cancelled", "error", "completed"}
  /\ outcome = "cancelled" => cancelEvent

(* The repair begins when the first process has left a faulty answer of    *)
(* its own; a process runs from its start to the end of the run loop.      *)
PhaseOK ==
  /\ alive \subseteq {phase}
  /\ phase \in alive => step \in {"register", "announce", "poll", "signal", "kill"}
  /\ phase = "repair" => reply["initial"] \in {"schema", "text"} /\ "initial" \notin killed
  /\ phase = "initial" => reply["repair"] = None /\ "repair" \notin killed
  /\ step = "start" => reply[phase] = None /\ phase \notin killed
  /\ step # "start" /\ answer = None => phase \in alive \/ reply[phase] # None

(* A process is known to cancellers from its registration on, never before *)
(* it is started.                                                          *)
HeldOK ==
  /\ phase = "initial" =>
       process # "repair" /\ \A c \in Canceller : held[c] # "repair"
  /\ step \in {"start", "register"} =>
       process # phase /\ \A c \in Canceller : held[c] # phase
  /\ \A c \in Canceller :
       /\ pc[c] # "idle" => cancelEvent
       /\ pc[c] \in {"signal", "kill"} => held[c] \in Phase

(* A process about to be killed has been marked, so a killed one whose end *)
(* the run loop did not bring about is recognized as cancelled.            *)
MarkOK ==
  /\ \A c \in Canceller :
       pc[c] = "kill" /\ held[c] \in alive => held[c] \in termReq
  /\ step = "kill" /\ phase \in alive => phase \in termReq
  /\ killed \cap alive = {}
  /\ step # "ended" /\ outcome = "open" /\ phase \in killed =>
       cancelEvent /\ phase \in termReq
  /\ step = "judge" /\ outcome = "completed" =>
       phase \notin killed /\ reply[phase] \in Reply \ {"failure"}

AnswerOK ==
  /\ AnswerIsEarned
  /\ answer # None /\ answer.status \in {"valid", "invalid"} => killed = {}

JsonInv == TypeOK /\ WorkerOK /\ PhaseOK /\ HeldOK /\ MarkOK /\ AnswerOK

-----------------------------------------------------------------------------
LEMMA EndsWithReply ==
  ASSUME NEW p \in Phase, AgyTypeOK, Ended(p)
  PROVE  /\ reply' \in [Phase -> Reply \cup {None}] /\ reply'[p] \in Reply
         /\ \A q \in Phase : q # p => reply'[q] = reply[q]
         /\ alive' = alive \ {p}
  BY DEF AgyTypeOK, Ended

LEMMA TerminateEnds ==
  ASSUME NEW p \in Phase, AgyTypeOK, Terminate(p)
  PROVE  /\ reply' \in [Phase -> Reply \cup {None}]
         /\ p \in alive => reply'[p] \in Reply
         /\ \A q \in Phase : q # p \/ q \notin alive => reply'[q] = reply[q]
         /\ alive' = alive \ {p}
         /\ killed' = killed \cup ({p} \cap alive)
         /\ p \notin alive => UNCHANGED <<alive, reply, killed>>
  <1>1. CASE p \in alive
    BY <1>1, EndsWithReply DEF Terminate
  <1>2. CASE p \notin alive
    BY <1>2 DEF Terminate, AgyTypeOK
  <1> QED
    BY <1>1, <1>2

LEMMA PayloadType ==
  ASSUME NEW s \in {"valid", "invalid", "error", "cancelled"},
         NEW a \in BOOLEAN, NEW r \in BOOLEAN, NEW t \in BOOLEAN
  PROVE  /\ Payload(s, a, r, t) \in Answer
         /\ Payload(s, a, r, t).status = s
         /\ Payload(s, a, r, t).attempted <=> a
         /\ Payload(s, a, r, t).repaired <=> r
         /\ Payload(s, a, r, t).succeeded <=> t
  BY DEF Payload, Answer

LEMMA FailureType ==
  ASSUME NEW s \in {"error", "cancelled"}
  PROVE  Failure(s) \in Answer /\ Failure(s).status = s
  BY PayloadType DEF Failure

LEMMA Concluded ==
  ASSUME NEW a \in Answer, TypeOK, WorkerOK, PhaseOK, HeldOK, MarkOK,
         step \in {"start", "judge"}, Conclude(a)
  PROVE  /\ TypeOK' /\ WorkerOK' /\ PhaseOK' /\ HeldOK' /\ MarkOK'
         /\ answer' = a /\ answer # answer'
         /\ UNCHANGED <<review, phase, reply, killed, cancelEvent>>
  <1> USE Fresh DEF Conclude, Status
  <1>1. WorkerTypeOK'
    BY DEF TypeOK, WorkerTypeOK, Answer
  <1>2. AgyTypeOK' /\ CancelTypeOK'
    BY DEF TypeOK, AgyTypeOK, CancelTypeOK, agyVars, cancelVars
  <1>3. WorkerOK'
    BY DEF WorkerOK, cancelVars
  <1>4. PhaseOK'
    BY DEF PhaseOK, agyVars
  <1>5. HeldOK' /\ MarkOK'
    BY DEF HeldOK, MarkOK, agyVars, cancelVars
  <1> QED
    BY <1>1, <1>2, <1>3, <1>4, <1>5 DEF TypeOK, WorkerOK, agyVars, cancelVars

-----------------------------------------------------------------------------
(* Steps that conclude nothing.                                            *)

LEMMA TypeKept ==
  ASSUME TypeOK
  PROVE  /\ UNCHANGED <<review, workerVars>> => WorkerTypeOK'
         /\ UNCHANGED <<process, agyVars>> => AgyTypeOK'
         /\ UNCHANGED cancelVars => CancelTypeOK'
  BY DEF TypeOK, WorkerTypeOK, AgyTypeOK, CancelTypeOK, workerVars, agyVars, cancelVars

LEMMA AnswerKept ==
  ASSUME JsonInv, UNCHANGED <<review, answer>>, cancelEvent => cancelEvent',
         answer # None => UNCHANGED <<reply, killed>>
  PROVE  AnswerOK'
  BY DEF JsonInv, AnswerOK, AnswerIsEarned, Fits, InScope

LEMMA StartAgyStep ==
  ASSUME JsonInv, StartAgy
  PROVE  JsonInv'
  <1> USE Fresh DEF Phase, JsonInv, workerVars, agyVars, cancelVars, StartAgy
  <1>1. CancelTypeOK'
    BY TypeKept
  <1>2. WorkerTypeOK'
    BY DEF TypeOK, WorkerTypeOK
  <1>3. AgyTypeOK'
    BY DEF TypeOK, AgyTypeOK, WorkerTypeOK
  <1>4. WorkerOK'
    BY DEF WorkerOK
  <1>5. PhaseOK'
    BY DEF PhaseOK
  <1>6. HeldOK'
    BY DEF HeldOK
  <1>7. MarkOK'
    BY DEF MarkOK, PhaseOK, HeldOK
  <1>8. AnswerOK'
    BY AnswerKept
  <1> QED
    BY <1>1, <1>2, <1>3, <1>4, <1>5, <1>6, <1>7, <1>8 DEF TypeOK

LEMMA RegisterProcessStep ==
  ASSUME JsonInv, RegisterProcess
  PROVE  JsonInv'
  <1> USE Fresh DEF Phase, JsonInv, workerVars, agyVars, cancelVars, RegisterProcess
  <1>1. CancelTypeOK'
    BY TypeKept
  <1>2. WorkerTypeOK'
    BY DEF TypeOK, WorkerTypeOK
  <1>3. AgyTypeOK'
    BY DEF TypeOK, AgyTypeOK, WorkerTypeOK
  <1>4. WorkerOK'
    BY DEF WorkerOK
  <1>5. PhaseOK'
    BY DEF PhaseOK
  <1>6. HeldOK'
    BY DEF HeldOK
  <1>7. MarkOK'
    BY DEF MarkOK
  <1>8. AnswerOK'
    BY AnswerKept
  <1> QED
    BY <1>1, <1>2, <1>3, <1>4, <1>5, <1>6, <1>7, <1>8 DEF TypeOK

LEMMA SetRunningStep ==
  ASSUME JsonInv, SetRunning
  PROVE  JsonInv'
  <1> USE Fresh DEF Phase, JsonInv, workerVars, agyVars, cancelVars, SetRunning
  <1>1. AgyTypeOK' /\ CancelTypeOK'
    BY TypeKept
  <1>2. WorkerTypeOK'
    BY DEF TypeOK, WorkerTypeOK, WorkerOK, Status
  <1>3. WorkerOK'
    BY DEF WorkerOK
  <1>4. PhaseOK'
    BY DEF PhaseOK
  <1>5. HeldOK'
    BY DEF HeldOK
  <1>6. MarkOK'
    BY DEF MarkOK
  <1>7. AnswerOK'
    BY AnswerKept
  <1> QED
    BY <1>1, <1>2, <1>3, <1>4, <1>5, <1>6, <1>7 DEF TypeOK

LEMMA PollExitedStep ==
  ASSUME JsonInv, PollExited
  PROVE  JsonInv'
  <1> USE Fresh DEF Phase, JsonInv, workerVars, agyVars, cancelVars, PollExited
  <1>1. AgyTypeOK' /\ CancelTypeOK'
    BY TypeKept
  <1>2. WorkerTypeOK'
    BY DEF TypeOK, WorkerTypeOK
  <1>3. WorkerOK'
    BY DEF WorkerOK
  <1>4. PhaseOK'
    BY DEF PhaseOK
  <1>5. HeldOK'
    BY DEF HeldOK
  <1>6. MarkOK'
    BY DEF MarkOK
  <1>7. AnswerOK'
    BY AnswerKept
  <1> QED
    BY <1>1, <1>2, <1>3, <1>4, <1>5, <1>6, <1>7 DEF TypeOK

LEMMA PollCancelledStep ==
  ASSUME JsonInv, PollCancelled
  PROVE  JsonInv'
  <1> USE Fresh DEF Phase, JsonInv, workerVars, agyVars, cancelVars, PollCancelled, PollStop
  <1>1. AgyTypeOK' /\ CancelTypeOK'
    BY TypeKept
  <1>2. WorkerTypeOK'
    BY DEF TypeOK, WorkerTypeOK
  <1>3. WorkerOK'
    BY DEF WorkerOK
  <1>4. PhaseOK'
    BY DEF PhaseOK
  <1>5. HeldOK'
    BY DEF HeldOK
  <1>6. MarkOK'
    BY DEF MarkOK
  <1>7. AnswerOK'
    BY AnswerKept
  <1> QED
    BY <1>1, <1>2, <1>3, <1>4, <1>5, <1>6, <1>7 DEF TypeOK

LEMMA PollTimeoutStep ==
  ASSUME JsonInv, PollTimeout
  PROVE  JsonInv'
  <1> USE Fresh DEF Phase, JsonInv, workerVars, agyVars, cancelVars, PollTimeout, PollStop
  <1>1. AgyTypeOK' /\ CancelTypeOK'
    BY TypeKept
  <1>2. WorkerTypeOK'
    BY DEF TypeOK, WorkerTypeOK
  <1>3. WorkerOK'
    BY DEF WorkerOK
  <1>4. PhaseOK'
    BY DEF PhaseOK
  <1>5. HeldOK'
    BY DEF HeldOK
  <1>6. MarkOK'
    BY DEF MarkOK
  <1>7. AnswerOK'
    BY AnswerKept
  <1> QED
    BY <1>1, <1>2, <1>3, <1>4, <1>5, <1>6, <1>7 DEF TypeOK

LEMMA WorkerSignalStep ==
  ASSUME JsonInv, WorkerSignal
  PROVE  JsonInv'
  <1> USE Fresh DEF Phase, JsonInv, workerVars, agyVars, cancelVars, WorkerSignal, Request
  <1>1. CancelTypeOK'
    BY TypeKept
  <1>2. WorkerTypeOK'
    BY DEF TypeOK, WorkerTypeOK
  <1>3. AgyTypeOK'
    BY DEF TypeOK, AgyTypeOK
  <1>4. WorkerOK'
    BY DEF WorkerOK
  <1>5. PhaseOK'
    BY DEF PhaseOK
  <1>6. HeldOK'
    BY DEF HeldOK
  <1>7. MarkOK'
    BY DEF MarkOK
  <1>8. AnswerOK'
    BY AnswerKept
  <1> QED
    BY <1>1, <1>2, <1>3, <1>4, <1>5, <1>6, <1>7, <1>8 DEF TypeOK

LEMMA WorkerKillStep ==
  ASSUME JsonInv, WorkerKill
  PROVE  JsonInv'
  <1> USE Fresh DEF Phase, JsonInv, workerVars, agyVars, cancelVars, WorkerKill
  <1>a. phase \in Phase /\ AgyTypeOK
    BY DEF TypeOK, WorkerTypeOK
  <1>b. /\ reply' \in [Phase -> Reply \cup {None}]
        /\ phase \in alive => reply'[phase] \in Reply
        /\ \A q \in Phase : q # phase \/ q \notin alive => reply'[q] = reply[q]
        /\ alive' = alive \ {phase} /\ killed' = killed \cup ({phase} \cap alive)
        /\ phase \notin alive => UNCHANGED <<alive, reply, killed>>
    BY <1>a, TerminateEnds
  <1>1. CancelTypeOK'
    BY TypeKept
  <1>2. WorkerTypeOK'
    BY DEF TypeOK, WorkerTypeOK
  <1>3. AgyTypeOK'
    BY <1>b DEF TypeOK, AgyTypeOK
  <1>4. WorkerOK'
    BY DEF WorkerOK
  <1>5. PhaseOK'
    BY <1>b DEF PhaseOK
  <1>6. HeldOK'
    BY DEF HeldOK
  <1>7. MarkOK'
    BY <1>b DEF MarkOK, WorkerOK
  <1>8. AnswerOK'
    BY AnswerKept DEF WorkerOK
  <1> QED
    BY <1>1, <1>2, <1>3, <1>4, <1>5, <1>6, <1>7, <1>8 DEF TypeOK

LEMMA ClassifyStep ==
  ASSUME JsonInv, Classify
  PROVE  JsonInv'
  <1> USE Fresh DEF Phase, JsonInv, workerVars, agyVars, cancelVars, Classify
  <1>1. AgyTypeOK' /\ CancelTypeOK'
    BY TypeKept
  <1>2. WorkerTypeOK'
    BY DEF TypeOK, WorkerTypeOK
  <1>3. WorkerOK'
    BY DEF WorkerOK
  <1>4. PhaseOK'
    BY DEF PhaseOK
  <1>5. HeldOK'
    BY DEF HeldOK
  <1>6. MarkOK'
    <2>a. phase \notin alive /\ reply[phase] # None
      BY DEF PhaseOK, WorkerOK
    <2>b. phase \in Phase /\ reply \in [Phase -> Reply \cup {None}]
      BY DEF TypeOK, WorkerTypeOK, AgyTypeOK
    <2>1. phase \notin alive /\ reply[phase] \in Reply
      BY <2>a, <2>b
    <2>2. outcome' = "completed" => phase \notin killed /\ reply[phase] # "failure"
      BY DEF MarkOK, WorkerOK
    <2> QED
      BY <2>1, <2>2 DEF MarkOK, WorkerOK
  <1>7. AnswerOK'
    BY AnswerKept
  <1> QED
    BY <1>1, <1>2, <1>3, <1>4, <1>5, <1>6, <1>7 DEF TypeOK

LEMMA RepairStep ==
  ASSUME JsonInv, Repair
  PROVE  JsonInv'
  <1> USE Fresh DEF Phase, JsonInv, workerVars, agyVars, cancelVars, Repair, Fits
  <1>1. AgyTypeOK' /\ CancelTypeOK'
    BY TypeKept
  <1>2. WorkerTypeOK'
    BY DEF TypeOK, WorkerTypeOK, WorkerOK, Status
  <1>3. WorkerOK'
    BY DEF WorkerOK
  <1>4. PhaseOK'
    BY DEF PhaseOK, MarkOK, Reply
  <1>5. HeldOK'
    BY DEF HeldOK
  <1>6. MarkOK'
    BY DEF MarkOK, PhaseOK
  <1>7. AnswerOK'
    BY AnswerKept
  <1> QED
    BY <1>1, <1>2, <1>3, <1>4, <1>5, <1>6, <1>7 DEF TypeOK

LEMMA CancelFlagStep ==
  ASSUME JsonInv, NEW c \in Canceller, CancelFlag(c)
  PROVE  JsonInv'
  <1> USE Fresh DEF Phase, JsonInv, workerVars, agyVars, cancelVars, CancelFlag
  <1>c. /\ pc'[c] = "read"
        /\ \A d \in Canceller : d # c => pc'[d] = pc[d] /\ held'[d] = held[d]
    BY DEF TypeOK, CancelTypeOK
  <1>1. WorkerTypeOK' /\ AgyTypeOK'
    BY TypeKept
  <1>2. CancelTypeOK'
    BY DEF TypeOK, CancelTypeOK
  <1>3. WorkerOK'
    BY DEF WorkerOK
  <1>4. PhaseOK'
    BY DEF PhaseOK
  <1>5. HeldOK'
    BY DEF HeldOK
  <1>6. MarkOK'
    BY DEF MarkOK
  <1>7. AnswerOK'
    BY AnswerKept
  <1> QED
    BY <1>1, <1>2, <1>3, <1>4, <1>5, <1>6, <1>7 DEF TypeOK

LEMMA ReadProcessStep ==
  ASSUME JsonInv, NEW c \in Canceller, ReadProcess(c)
  PROVE  JsonInv'
  <1> USE Fresh DEF Phase, JsonInv, workerVars, agyVars, cancelVars, ReadProcess
  <1>c. /\ pc'[c] = (IF process = None THEN "idle" ELSE "signal")
        /\ held'[c] = process
        /\ \A d \in Canceller : d # c => pc'[d] = pc[d] /\ held'[d] = held[d]
    BY DEF TypeOK, CancelTypeOK
  <1>1. WorkerTypeOK' /\ AgyTypeOK'
    BY TypeKept
  <1>2. CancelTypeOK'
    BY DEF TypeOK, CancelTypeOK, AgyTypeOK
  <1>3. WorkerOK'
    BY DEF WorkerOK
  <1>4. PhaseOK'
    BY DEF PhaseOK
  <1>5. HeldOK'
    BY <1>c DEF HeldOK, TypeOK, AgyTypeOK
  <1>6. MarkOK'
    BY DEF MarkOK
  <1>7. AnswerOK'
    BY AnswerKept
  <1> QED
    BY <1>1, <1>2, <1>3, <1>4, <1>5, <1>6, <1>7 DEF TypeOK

LEMMA CancelSignalStep ==
  ASSUME JsonInv, NEW c \in Canceller, CancelSignal(c)
  PROVE  JsonInv'
  <1> USE Fresh DEF Phase, JsonInv, workerVars, agyVars, cancelVars, CancelSignal, Request
  <1>1. WorkerTypeOK'
    BY TypeKept
  <1>2. AgyTypeOK'
    BY DEF TypeOK, AgyTypeOK
  <1>3. CancelTypeOK'
    BY DEF TypeOK, CancelTypeOK
  <1>4. WorkerOK'
    BY DEF WorkerOK
  <1>5. PhaseOK'
    BY DEF PhaseOK
  <1>6. HeldOK'
    BY DEF HeldOK
  <1>7. MarkOK'
    BY DEF MarkOK
  <1>8. AnswerOK'
    BY AnswerKept
  <1> QED
    BY <1>1, <1>2, <1>3, <1>4, <1>5, <1>6, <1>7, <1>8 DEF TypeOK

LEMMA CancelKillStep ==
  ASSUME JsonInv, NEW c \in Canceller, CancelKill(c)
  PROVE  JsonInv'
  <1> USE Fresh DEF Phase, JsonInv, workerVars, agyVars, cancelVars, CancelKill
  <1>a. held[c] \in Phase /\ AgyTypeOK
    BY DEF TypeOK, HeldOK
  <1>b. /\ reply' \in [Phase -> Reply \cup {None}]
        /\ held[c] \in alive => reply'[held[c]] \in Reply
        /\ \A q \in Phase : q # held[c] \/ q \notin alive => reply'[q] = reply[q]
        /\ alive' = alive \ {held[c]} /\ killed' = killed \cup ({held[c]} \cap alive)
        /\ held[c] \notin alive => UNCHANGED <<alive, reply, killed>>
    BY <1>a, TerminateEnds
  <1>c. /\ pc'[c] = "idle"
        /\ held'[c] = None
        /\ \A d \in Canceller : d # c => pc'[d] = pc[d] /\ held'[d] = held[d]
    BY DEF TypeOK, CancelTypeOK
  <1>1. WorkerTypeOK'
    BY TypeKept
  <1>2. AgyTypeOK'
    BY <1>b DEF TypeOK, AgyTypeOK
  <1>3. CancelTypeOK'
    BY DEF TypeOK, CancelTypeOK
  <1>4. WorkerOK'
    BY DEF WorkerOK
  <1>5. PhaseOK'
    BY <1>b DEF PhaseOK
  <1>6. HeldOK'
    BY <1>c DEF HeldOK, TypeOK, WorkerTypeOK
  <1>7. MarkOK'
    <2>1. CASE held[c] \notin alive
      BY <1>b, <1>c, <2>1 DEF MarkOK
    <2>2. CASE held[c] \in alive
      <3>1. held[c] = phase /\ phase \in termReq /\ cancelEvent
        BY <2>2 DEF PhaseOK, HeldOK, MarkOK
      <3>2. alive' = {} /\ step \notin {"judge", "ended"}
        BY <1>b, <2>2, <3>1 DEF PhaseOK
      <3> QED
        BY <1>b, <3>1, <3>2 DEF MarkOK
    <2> QED
      BY <2>1, <2>2
  <1>8. AnswerOK'
    BY <1>b, AnswerKept DEF WorkerOK, PhaseOK
  <1> QED
    BY <1>1, <1>2, <1>3, <1>4, <1>5, <1>6, <1>7, <1>8 DEF TypeOK

LEMMA AgyExitsStep ==
  ASSUME JsonInv, NEW p \in Phase, AgyExits(p)
  PROVE  JsonInv'
  <1> USE Fresh DEF Phase, JsonInv, workerVars, agyVars, cancelVars, AgyExits
  <1>a. p \in Phase /\ AgyTypeOK
    BY DEF TypeOK
  <1>b. /\ reply' \in [Phase -> Reply \cup {None}] /\ reply'[p] \in Reply
        /\ \A q \in Phase : q # p => reply'[q] = reply[q]
        /\ alive' = alive \ {p}
    BY <1>a, EndsWithReply
  <1>1. WorkerTypeOK' /\ CancelTypeOK'
    BY TypeKept
  <1>2. AgyTypeOK'
    BY <1>b DEF TypeOK, AgyTypeOK
  <1>3. WorkerOK'
    BY DEF WorkerOK
  <1>4. PhaseOK'
    BY <1>b DEF PhaseOK
  <1>5. HeldOK'
    BY DEF HeldOK
  <1>6. MarkOK'
    BY <1>b DEF MarkOK, PhaseOK
  <1>7. AnswerOK'
    BY AnswerKept DEF WorkerOK, PhaseOK
  <1> QED
    BY <1>1, <1>2, <1>3, <1>4, <1>5, <1>6, <1>7 DEF TypeOK

-----------------------------------------------------------------------------
(* Steps that conclude the run.                                            *)

LEMMA StartFailsStep ==
  ASSUME JsonInv, StartFails
  PROVE  JsonInv'
  <1>1. Failure("error") \in Answer /\ Failure("error").status = "error"
    BY FailureType
  <1>2. /\ TypeOK' /\ WorkerOK' /\ PhaseOK' /\ HeldOK' /\ MarkOK'
        /\ answer' = Failure("error")
    BY <1>1, Concluded DEF StartFails, JsonInv
  <1>3. AnswerOK'
    BY <1>1, <1>2 DEF AnswerOK, AnswerIsEarned
  <1> QED
    BY <1>2, <1>3 DEF JsonInv

LEMMA FailStep ==
  ASSUME JsonInv, Fail
  PROVE  JsonInv'
  <1>1. /\ outcome \in {"cancelled", "error"} /\ step = "judge"
        /\ Failure(outcome) \in Answer /\ Failure(outcome).status = outcome
    BY FailureType DEF Fail
  <1>2. /\ TypeOK' /\ WorkerOK' /\ PhaseOK' /\ HeldOK' /\ MarkOK'
        /\ answer' = Failure(outcome) /\ cancelEvent' = cancelEvent
    BY <1>1, Concluded DEF Fail, JsonInv
  <1>3. outcome = "cancelled" => cancelEvent
    BY DEF JsonInv, WorkerOK
  <1>4. AnswerOK'
    BY <1>1, <1>2, <1>3 DEF AnswerOK, AnswerIsEarned
  <1> QED
    BY <1>2, <1>4 DEF JsonInv

(* What the worker knows when it judges a completed answer: nobody was     *)
(* killed, and in the second phase the first answer was at fault.          *)
LEMMA Judged ==
  ASSUME JsonInv, step = "judge", outcome = "completed"
  PROVE  /\ phase \in Phase /\ killed = {}
         /\ reply[phase] \in Reply \ {"failure"}
         /\ phase = "repair" <=> phase # "initial"
         /\ phase = "repair" => ~Fits("initial")
  <1>1. /\ phase \in {"initial", "repair"} /\ killed \subseteq {"initial", "repair"}
        /\ phase \notin killed /\ reply[phase] \in Reply \ {"failure"}
    BY DEF JsonInv, TypeOK, WorkerTypeOK, AgyTypeOK, MarkOK, Phase
  <1>2. phase = "repair" => "initial" \notin killed /\ ~Fits("initial")
    BY DEF JsonInv, PhaseOK, Fits
  <1>3. phase = "initial" => "repair" \notin killed
    BY DEF JsonInv, PhaseOK
  <1> QED
    BY <1>1, <1>2, <1>3 DEF Phase

LEMMA AcceptStep ==
  ASSUME JsonInv, Accept
  PROVE  JsonInv'
  <1> DEFINE repair == phase = "repair"
             a == Payload("valid", repair, repair, repair)
  <1>1. /\ a \in Answer /\ a.status = "valid"
        /\ (a.attempted <=> repair) /\ (a.repaired <=> repair)
    BY PayloadType
  <1>2. /\ TypeOK' /\ WorkerOK' /\ PhaseOK' /\ HeldOK' /\ MarkOK'
        /\ answer' = a /\ UNCHANGED <<review, phase, reply, killed, cancelEvent>>
    BY <1>1, Concluded DEF Accept, JsonInv
  <1>3. /\ phase = (IF repair THEN "repair" ELSE "initial") /\ killed = {}
        /\ (repair <=> ~Fits("initial"))
    BY Judged DEF Accept
  <1>4. Fits(phase) /\ InScope(phase)
    BY DEF Accept
  <1>5. AnswerOK'
    BY <1>1, <1>2, <1>3, <1>4 DEF AnswerOK, AnswerIsEarned, Fits, InScope
  <1> QED
    BY <1>2, <1>5 DEF JsonInv

LEMMA RejectScopeStep ==
  ASSUME JsonInv, RejectScope
  PROVE  JsonInv'
  <1> DEFINE repair == phase = "repair"
             a == Payload("invalid", repair, FALSE, repair)
  <1>1. /\ a \in Answer /\ a.status = "invalid"
        /\ (a.attempted <=> repair) /\ (a.succeeded <=> repair)
    BY PayloadType
  <1>2. /\ TypeOK' /\ WorkerOK' /\ PhaseOK' /\ HeldOK' /\ MarkOK'
        /\ answer' = a /\ UNCHANGED <<review, phase, reply, killed, cancelEvent>>
    BY <1>1, Concluded DEF RejectScope, JsonInv
  <1>3. /\ phase = (IF repair THEN "repair" ELSE "initial") /\ killed = {}
        /\ (repair <=> ~Fits("initial")) /\ reply[phase] \notin {"failure", None}
    BY Judged, Fresh DEF RejectScope
  <1>4. /\ Fits(phase) /\ ~InScope(phase)
        /\ ~repair => ~Fits("repair")
    BY Fresh, Judged DEF RejectScope, JsonInv, PhaseOK, Fits, Reply
  <1> HIDE DEF a
  <1>5. repair => AnswerOK'
    BY <1>1, <1>2, <1>3, <1>4 DEF AnswerOK, AnswerIsEarned, Fits, InScope
  <1>6. ~repair => AnswerOK'
    BY <1>1, <1>2, <1>3, <1>4 DEF AnswerOK, AnswerIsEarned, Fits, InScope
  <1> QED
    BY <1>2, <1>5, <1>6 DEF JsonInv

LEMMA GiveUpStep ==
  ASSUME JsonInv, GiveUp
  PROVE  JsonInv'
  <1> DEFINE a == Payload("invalid", TRUE, FALSE, FALSE)
  <1>1. /\ a \in Answer /\ a.status = "invalid"
        /\ a.attempted /\ ~a.succeeded
    BY PayloadType
  <1>2. /\ TypeOK' /\ WorkerOK' /\ PhaseOK' /\ HeldOK' /\ MarkOK'
        /\ answer' = a /\ UNCHANGED <<review, phase, reply, killed, cancelEvent>>
    BY <1>1, Concluded DEF GiveUp, JsonInv
  <1>3. /\ ~Fits("initial") /\ ~Fits("repair") /\ killed = {}
        /\ reply["repair"] \notin {"failure", None}
    BY Judged, Fresh DEF GiveUp
  <1> HIDE DEF a
  <1>4. AnswerOK'
    BY <1>1, <1>2, <1>3 DEF AnswerOK, AnswerIsEarned, Fits
  <1> QED
    BY <1>2, <1>4 DEF JsonInv

-----------------------------------------------------------------------------
LEMMA JsonInvInit == Init => JsonInv
  BY Fresh DEF Init, JsonInv, TypeOK, WorkerTypeOK, AgyTypeOK, CancelTypeOK, WorkerOK,
     PhaseOK, HeldOK, MarkOK, AnswerOK, AnswerIsEarned, Phase, Status

LEMMA JsonInvStutter == JsonInv /\ UNCHANGED vars => JsonInv'
  <1> SUFFICES ASSUME JsonInv, UNCHANGED vars
               PROVE  JsonInv'
    OBVIOUS
  <1>1. TypeOK'
    BY TypeKept DEF JsonInv, TypeOK, vars
  <1>2. WorkerOK' /\ PhaseOK' /\ HeldOK' /\ MarkOK'
    <2>1. WorkerOK'
      BY DEF JsonInv, WorkerOK, vars, workerVars, agyVars, cancelVars
    <2>2. PhaseOK'
      BY DEF JsonInv, PhaseOK, vars, workerVars, agyVars, cancelVars
    <2>3. HeldOK'
      BY DEF JsonInv, HeldOK, vars, workerVars, agyVars, cancelVars
    <2>4. MarkOK'
      BY DEF JsonInv, MarkOK, vars, workerVars, agyVars, cancelVars
    <2> QED
      BY <2>1, <2>2, <2>3, <2>4
  <1>3. AnswerOK'
    BY AnswerKept DEF vars, workerVars, agyVars, cancelVars
  <1> QED
    BY <1>1, <1>2, <1>3 DEF JsonInv

LEMMA JsonInvNext == JsonInv /\ [Next]_vars => JsonInv'
  <1> SUFFICES ASSUME JsonInv, Next
               PROVE  JsonInv'
    BY JsonInvStutter
  <1>1. CASE WorkerStep
    BY <1>1, StartAgyStep, RegisterProcessStep, SetRunningStep, PollExitedStep,
       PollCancelledStep, WorkerSignalStep, WorkerKillStep, ClassifyStep,
       FailStep, AcceptStep, RejectScopeStep, RepairStep, GiveUpStep DEF WorkerStep
  <1>2. CASE StartFails \/ PollTimeout \/ Done
    BY <1>2, StartFailsStep, PollTimeoutStep, JsonInvStutter DEF Done
  <1>3. ASSUME NEW c \in Canceller, CancelFlag(c) \/ CancellerGoesOn(c)
        PROVE  JsonInv'
    BY <1>3, CancelFlagStep, ReadProcessStep, CancelSignalStep, CancelKillStep
       DEF CancellerGoesOn
  <1>4. ASSUME NEW p \in Phase, AgyExits(p)
        PROVE  JsonInv'
    BY <1>4, AgyExitsStep
  <1> QED
    BY <1>1, <1>2, <1>3, <1>4 DEF Next

LEMMA JsonInvariant == Spec => []JsonInv
  BY JsonInvInit, JsonInvNext, PTL DEF Spec

(* Every variable keeps its type, and the session the status of the        *)
(* answer, for any number of cancellers.                                   *)
THEOREM JsonTyped == Spec => []TypeOK
  <1>1. JsonInv => TypeOK
    BY DEF JsonInv
  <1> QED
    BY <1>1, JsonInvariant, PTL

(* valid, invalid, repaired and cancelled say what was found, whatever     *)
(* cancellers and the clock do to the two processes.                       *)
THEOREM AnswersAreEarned == Spec => []AnswerIsEarned
  <1>1. JsonInv => AnswerIsEarned
    BY DEF JsonInv, AnswerOK
  <1> QED
    BY <1>1, JsonInvariant, PTL

(* What a killed agy had written is neither an answer nor repaired.        *)
THEOREM KilledAreNotUsed == Spec => []KilledIsNotUsed
  <1>1. JsonInv => KilledIsNotUsed
    BY DEF JsonInv, AnswerOK, PhaseOK, TypeOK, WorkerTypeOK, Phase, KilledIsNotUsed
  <1> QED
    BY <1>1, JsonInvariant, PTL

(* The two processes of a run do not overlap, and none outlives the run.   *)
THEOREM OneAgy == Spec => []OneAgyAtATime
  <1>1. JsonInv => OneAgyAtATime
    BY DEF JsonInv, WorkerOK, PhaseOK, OneAgyAtATime
  <1> QED
    BY <1>1, JsonInvariant, PTL
=============================================================================
