------------------------------ MODULE RunLedger ------------------------------
(***************************************************************************)
(* What a client of RunManager (run_manager.py) may rely on, without its   *)
(* threads: a table of runs.  A run is opened, gets one outcome, and leaves *)
(* the table after that.  A key is held by one run from the moment the run *)
(* is opened until it leaves; a run that left may be recalled by its key,  *)
(* from its transcript, when nobody holds the key.                         *)
(***************************************************************************)
CONSTANTS Run, Key, OldRun, None, Outcome

VARIABLES
  phase,     \* "new", "open", "settled" or "gone"
  outcome,   \* the one outcome of a run
  boundTo,   \* the key of a run
  holder     \* the run that answers for a key

vars == <<phase, outcome, boundTo, holder>>

Init ==
  /\ phase = [r \in Run |-> IF r \in OldRun THEN "gone" ELSE "new"]
  /\ outcome = [r \in Run |-> None]
  /\ boundTo \in [Run -> Key \cup {None}]
  /\ holder = [k \in Key |-> None]

Open(r, k) ==
  /\ phase[r] = "new"
  /\ k # None => holder[k] = None
  /\ phase' = [phase EXCEPT ![r] = "open"]
  /\ boundTo' = [boundTo EXCEPT ![r] = k]
  /\ holder' = [l \in Key |-> IF l = k THEN r ELSE holder[l]]
  /\ UNCHANGED outcome

Settle(r, o) ==
  /\ phase[r] = "open"
  /\ phase' = [phase EXCEPT ![r] = "settled"]
  /\ outcome' = [outcome EXCEPT ![r] = o]
  /\ UNCHANGED <<boundTo, holder>>

Forget(r) ==
  /\ phase[r] = "settled"
  /\ phase' = [phase EXCEPT ![r] = "gone"]
  /\ holder' = [k \in Key |-> IF k = boundTo[r] THEN None ELSE holder[k]]
  /\ UNCHANGED <<outcome, boundTo>>

Recall(r, k) ==
  /\ phase[r] = "gone" /\ boundTo[r] = k
  /\ holder[k] = None
  /\ holder' = [holder EXCEPT ![k] = r]
  /\ UNCHANGED <<phase, outcome, boundTo>>

Next ==
  \E r \in Run :
    \/ \E k \in Key \cup {None} : Open(r, k)
    \/ \E o \in Outcome : Settle(r, o)
    \/ Forget(r)
    \/ \E k \in Key : Recall(r, k)

Spec == Init /\ [][Next]_vars
=============================================================================
