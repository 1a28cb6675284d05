------------------------------ MODULE JsonRun ------------------------------
(***************************************************************************)
(* One run of a JSON tool or of a review (GemnessService._run_json_session *)
(* and _repair_or_invalid, tools.py), from the prepared prompt to the      *)
(* answer: agy is asked, its answer is parsed, checked against the schema  *)
(* and, in a review, against the review scope; an answer that does not     *)
(* parse or match is sent to a second agy process for repair.              *)
(*                                                                         *)
(* The worker that executes the run meets RunManager.cancel, called by     *)
(* other threads.  Both processes of the run share one cancel event and    *)
(* one place in the manager for "the" process, where the ended first one   *)
(* stays until the second one registers.                                   *)
(***************************************************************************)
CONSTANTS
  Canceller,   \* threads that call cancel, or the sweep of shutdown
  None

Phase == {"initial", "repair"}

(* What an agy process leaves behind: data that passes every check, data   *)
(* with another review_scope than the one asked for, data against the      *)
(* schema, text that does not parse; or a failure: exit code, sign-in      *)
(* request, no output, error envelope.                                     *)
Reply == {"good", "outside", "schema", "text", "failure"}

Status == {"sending", "running", "repairing",
           "valid", "invalid", "error", "cancelled"}

(* The payload a run returns, as far as it tells what happened: status,    *)
(* repair_attempted, repaired, repair_succeeded.                           *)
Answer == [status : {"valid", "invalid", "error", "cancelled"},
           attempted : BOOLEAN, repaired : BOOLEAN, succeeded : BOOLEAN]

ASSUME Fresh ==
  None \notin Canceller \cup Phase \cup Reply \cup Status \cup Answer

VARIABLES
  review,       \* whether the run is a review, which checks the scope
  step,         \* where the worker is
  phase,        \* which agy process it deals with
  outcome,      \* what the run loop knows of the end of the current process
  status,       \* status of the session
  answer,       \* the payload of the tool, None until there is one
  cancelEvent,  \* managed.cancel_event
  process,      \* managed.process: the phase whose process is registered
  alive,        \* phases whose agy is running
  reply,        \* reply[p]: what the agy of phase p left, None before its end
  termReq,      \* phases with terminate_requested
  pc, held,     \* the cancellers, and the process each has read
  killed        \* history: phases whose agy was ended by a signal

workerVars == <<step, phase, outcome, status, answer>>
agyVars    == <<alive, reply, termReq, killed>>
cancelVars == <<cancelEvent, pc, held>>
vars == <<review, workerVars, process, agyVars, cancelVars>>

Init ==
  /\ review \in BOOLEAN
  /\ step = "start" /\ phase = "initial" /\ outcome = "open"
  /\ status = "sending" /\ answer = None
  /\ cancelEvent = FALSE /\ process = None
  /\ alive = {} /\ reply = [p \in Phase |-> None] /\ termReq = {} /\ killed = {}
  /\ pc = [c \in Canceller |-> "idle"] /\ held = [c \in Canceller |-> None]

-----------------------------------------------------------------------------
(* agy and the signals it gets.                                            *)

Ended(p) ==
  /\ alive' = alive \ {p}
  /\ \E what \in Reply : reply' = [reply EXCEPT ![p] = what]

AgyExits(p) ==
  /\ p \in alive
  /\ Ended(p)
  /\ UNCHANGED <<review, workerVars, process, termReq, killed, cancelVars>>

(* _RunningAgyCommand.terminate: first the request, if the process still   *)
(* runs, then the signal and the wait for its end.  A process that gets    *)
(* SIGTERM may still finish its answer and exit 0.                         *)
Request(p) == termReq' = termReq \cup ({p} \cap alive)

Terminate(p) ==
  IF p \in alive THEN Ended(p) /\ killed' = killed \cup {p}
                 ELSE UNCHANGED <<alive, reply, killed>>

-----------------------------------------------------------------------------
(* RunManager.cancel: the event, then the process registered by then.      *)
CancelFlag(c) ==
  /\ pc[c] = "idle" /\ answer = None
  /\ cancelEvent' = TRUE
  /\ pc' = [pc EXCEPT ![c] = "read"]
  /\ UNCHANGED <<review, workerVars, process, agyVars, held>>

ReadProcess(c) ==
  /\ pc[c] = "read"
  /\ held' = [held EXCEPT ![c] = process]
  /\ pc' = [pc EXCEPT ![c] = IF process = None THEN "idle" ELSE "signal"]
  /\ UNCHANGED <<review, workerVars, process, agyVars, cancelEvent>>

CancelSignal(c) ==
  /\ pc[c] = "signal"
  /\ Request(held[c])
  /\ pc' = [pc EXCEPT ![c] = "kill"]
  /\ UNCHANGED <<review, workerVars, process, alive, reply, killed,
                 cancelEvent, held>>

CancelKill(c) ==
  /\ pc[c] = "kill"
  /\ Terminate(held[c])
  /\ pc' = [pc EXCEPT ![c] = "idle"]
  /\ held' = [held EXCEPT ![c] = None]
  /\ UNCHANGED <<review, workerVars, process, termReq, cancelEvent>>

-----------------------------------------------------------------------------
(* The worker in AgyCliRunner.run, once per phase.                         *)

Payload(s, attempted, repaired, succeeded) ==
  [status |-> s, attempted |-> attempted, repaired |-> repaired,
   succeeded |-> succeeded]

(* Mutant: the session is not told the end.                                *)
ConcludeUnmarked(payload) ==
  /\ answer' = payload
  /\ step' = "ended"
  /\ UNCHANGED <<review, phase, outcome, status, process, agyVars, cancelVars>>

(* Every end of the run sets the status of the session and returns the     *)
(* payload.                                                                *)
Conclude(payload) ==
  /\ answer' = payload
  /\ status' = payload.status
  /\ step' = "ended"
  /\ UNCHANGED <<review, phase, outcome, process, agyVars, cancelVars>>

(* The payload of an error or a cancellation: only a cancelled repair says *)
(* that it was attempted.                                                  *)
Failure(s) == Payload(s, s = "cancelled" /\ phase = "repair", FALSE, FALSE)

StartAgy ==
  /\ step = "start"
  /\ alive' = alive \cup {phase}
  /\ step' = "register"
  /\ UNCHANGED <<review, phase, outcome, status, answer, process, reply,
                 termReq, killed, cancelVars>>

(* agy is missing, cannot print or cannot be started.                      *)
StartFails == step = "start" /\ Conclude(Failure("error"))

(* process_callback, RunManager.register_process.                          *)
RegisterProcess ==
  /\ step = "register"
  /\ process' = phase
  /\ step' = "announce"
  /\ UNCHANGED <<review, phase, outcome, status, answer, agyVars, cancelVars>>

SetRunning ==
  /\ step = "announce"
  /\ status' = "running"
  /\ step' = "poll"
  /\ UNCHANGED <<review, phase, outcome, answer, process, agyVars, cancelVars>>

PollExited ==
  /\ step = "poll" /\ phase \notin alive
  /\ step' = "classify"
  /\ UNCHANGED <<review, phase, outcome, status, answer, process, agyVars,
                 cancelVars>>

PollStop(why) ==
  /\ step = "poll" /\ phase \in alive
  /\ outcome' = why
  /\ step' = "signal"
  /\ UNCHANGED <<review, phase, status, answer, process, agyVars, cancelVars>>

(* Mutants: the repair is not given the cancel event; a process whose time *)
(* is over is left to itself.                                              *)
PollCancelledFirst == phase = "initial" /\ cancelEvent /\ PollStop("cancelled")
PollAbandon ==
  /\ step = "poll" /\ phase \in alive /\ ~cancelEvent
  /\ outcome' = "timed out"
  /\ step' = "classify"
  /\ UNCHANGED <<review, phase, status, answer, process, agyVars, cancelVars>>

PollCancelled == cancelEvent /\ PollStop("cancelled")

(* The loop looks at the cancel event first, then at the clock; the event  *)
(* may be set in between.                                                  *)
PollTimeout == PollStop("timed out")

WorkerSignal ==
  /\ step = "signal"
  /\ Request(phase)
  /\ step' = "kill"
  /\ UNCHANGED <<review, phase, outcome, status, answer, process, alive, reply,
                 killed, cancelVars>>

WorkerKill ==
  /\ step = "kill"
  /\ Terminate(phase)
  /\ step' = "classify"
  /\ UNCHANGED <<review, phase, outcome, status, answer, process, termReq,
                 cancelVars>>

(* Mutant: a process ended by a canceller passes for one that exited.      *)
ClassifyByLoop ==
  /\ step = "classify"
  /\ outcome' = IF outcome = "cancelled" THEN "cancelled"
                ELSE IF outcome = "timed out" \/ reply[phase] = "failure"
                THEN "error" ELSE "completed"
  /\ step' = "judge"
  /\ UNCHANGED <<review, phase, status, answer, process, agyVars, cancelVars>>

(* After the loop: a process that somebody else terminated for a cancel    *)
(* counts as cancelled; then the time limit, then what agy left.           *)
Classify ==
  /\ step = "classify"
  /\ outcome' = IF \/ outcome = "cancelled"
                   \/ outcome = "open" /\ cancelEvent /\ phase \in termReq
                THEN "cancelled"
                ELSE IF outcome = "timed out" \/ reply[phase] = "failure"
                THEN "error" ELSE "completed"
  /\ step' = "judge"
  /\ UNCHANGED <<review, phase, status, answer, process, agyVars, cancelVars>>

-----------------------------------------------------------------------------
(* The worker in _run_json_session and _repair_or_invalid, with the result *)
(* of a phase at hand.                                                     *)

Fits(p)    == reply[p] \in {"good", "outside"}
InScope(p) == review => reply[p] = "good"

Fail ==
  /\ step = "judge" /\ outcome \in {"cancelled", "error"}
  /\ Conclude(Failure(outcome))

(* Mutant: the scope is checked on the first answer only.                  *)
AcceptRepaired ==
  /\ step = "judge" /\ outcome = "completed"
  /\ Fits(phase) /\ (phase = "initial" => InScope(phase))
  /\ LET repair == phase = "repair"
     IN Conclude(Payload("valid", repair, repair, repair))

Accept ==
  /\ step = "judge" /\ outcome = "completed"
  /\ Fits(phase) /\ InScope(phase)
  /\ LET repair == phase = "repair"
     IN Conclude(Payload("valid", repair, repair, repair))

(* _review_scope_invalid_result: an answer with another scope is invalid    *)
(* and not repaired.                                                       *)
RejectScope ==
  /\ step = "judge" /\ outcome = "completed"
  /\ Fits(phase) /\ ~InScope(phase)
  /\ LET repair == phase = "repair"
     IN Conclude(Payload("invalid", repair, FALSE, repair))

(* Mutant: a repaired answer that does not match is repaired again.        *)
RepairAgain ==
  /\ step = "judge" /\ outcome = "completed" /\ ~Fits(phase)
  /\ phase' = "repair" /\ status' = "repairing"
  /\ outcome' = "open" /\ step' = "start"
  /\ UNCHANGED <<review, answer, process, agyVars, cancelVars>>

Repair ==
  /\ step = "judge" /\ outcome = "completed" /\ ~Fits(phase)
  /\ phase = "initial"
  /\ phase' = "repair" /\ status' = "repairing"
  /\ outcome' = "open" /\ step' = "start"
  /\ UNCHANGED <<review, answer, process, agyVars, cancelVars>>

GiveUp ==
  /\ step = "judge" /\ outcome = "completed" /\ ~Fits(phase)
  /\ phase = "repair"
  /\ Conclude(Payload("invalid", TRUE, FALSE, FALSE))

-----------------------------------------------------------------------------
CancellerGoesOn(c) == ReadProcess(c) \/ CancelSignal(c) \/ CancelKill(c)

WorkerStep ==
  \/ StartAgy \/ RegisterProcess \/ SetRunning
  \/ PollExited \/ PollCancelled \/ WorkerSignal \/ WorkerKill \/ Classify
  \/ Fail \/ Accept \/ RejectScope \/ Repair \/ GiveUp

Done == step = "ended" /\ UNCHANGED vars

Next ==
  \/ WorkerStep \/ StartFails \/ PollTimeout \/ Done
  \/ \E c \in Canceller : CancelFlag(c) \/ CancellerGoesOn(c)
  \/ \E p \in Phase : AgyExits(p)

Spec == Init /\ [][Next]_vars

(* Threads are scheduled.  Nothing is assumed of agy, of the clock or of   *)
(* cancellers making calls.                                                *)
Scheduling == /\ WF_vars(WorkerStep)
              /\ \A c \in Canceller : WF_vars(CancellerGoesOn(c))

SchedSpec == Spec /\ Scheduling

-----------------------------------------------------------------------------
(* Types of the variables; the session has the status of the answer.       *)
WorkerTypeOK ==
  /\ review \in BOOLEAN
  /\ step \in {"start", "register", "announce", "poll", "signal", "kill",
               "classify", "judge", "ended"}
  /\ phase \in Phase
  /\ outcome \in {"open", "timed out", "cancelled", "error", "completed"}
  /\ status \in Status
  /\ answer \in Answer \cup {None}
  /\ answer # None => status = answer.status

AgyTypeOK ==
  /\ process \in Phase \cup {None}
  /\ alive \subseteq Phase /\ termReq \subseteq Phase /\ killed \subseteq Phase
  /\ reply \in [Phase -> Reply \cup {None}]

CancelTypeOK ==
  /\ cancelEvent \in BOOLEAN
  /\ pc \in [Canceller -> {"idle", "read", "signal", "kill"}]
  /\ held \in [Canceller -> Phase \cup {None}]

TypeOK == WorkerTypeOK /\ AgyTypeOK /\ CancelTypeOK

(* An answer says what was found: valid data comes from the agy whose      *)
(* answer parsed, matched the schema and, in a review, the scope, and is   *)
(* marked repaired exactly when that was the second one; an answer is      *)
(* invalid only if its last agy left such a fault, and no repair is        *)
(* attempted of an answer that merely left the scope.                      *)
AnswerIsEarned ==
  answer # None =>
    /\ answer.status \in {"valid", "invalid"} =>
         (answer.attempted <=> ~Fits("initial"))
    /\ answer.status = "valid" =>
         LET p == IF answer.repaired THEN "repair" ELSE "initial"
         IN Fits(p) /\ InScope(p) /\ (answer.repaired <=> ~Fits("initial"))
    /\ answer.status = "invalid" =>
         LET p == IF answer.attempted THEN "repair" ELSE "initial"
         IN /\ ~(Fits(p) /\ InScope(p)) /\ reply[p] \notin {"failure", None}
            /\ (answer.succeeded <=> Fits("repair"))
    /\ answer.status = "cancelled" => cancelEvent

(* What a killed agy had written is never used: not as an answer, not as   *)
(* the subject of a repair, whoever killed it and whichever of the two     *)
(* processes was registered then.                                          *)
KilledIsNotUsed ==
  /\ answer # None /\ answer.status \in {"valid", "invalid"} => killed = {}
  /\ "initial" \in killed => phase = "initial"

(* A run occupies one place of the pool: its two agy processes do not      *)
(* overlap, and none is left when there is an answer.                      *)
OneAgyAtATime ==
  /\ alive \subseteq {phase}
  /\ answer # None => alive = {}

(* A requested cancellation ends the run in either phase and in between,   *)
(* when the registered process is the ended first one; without the help of *)
(* the time limit.                                                         *)
CancelEnds == cancelEvent ~> answer # None

(* With the time limit a run ends, for an agy that never does: there is    *)
(* one repair.                                                             *)
Settles == WF_vars(PollTimeout) => <>(answer # None)
=============================================================================
