---------------------------- MODULE MCTranscript ----------------------------
(* Instances of Transcript for TLC: who runs what, and whose the readers   *)
(* are.                                                                    *)
EXTENDS Transcript, TLC

CONSTANTS hA, hB, s1, a1, a2, b1, b2

(* Hub hA executes the run; hB is the server of another workspace. *)
AllOfA == [s \in Session |-> hA]
ByLetter == [t \in Reader |-> IF t \in {a1, a2} THEN hA ELSE hB]
=============================================================================
