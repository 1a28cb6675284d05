-------------------------- MODULE MCObserverOwner --------------------------
(* Instances of ObserverOwner for TLC: two servers, the second with two    *)
(* threads, and a program that is given the pid of the first.              *)
EXTENDS ObserverOwner, TLC

CONSTANTS hA, hB, x, a1, b1, b2

ByLetter == [t \in Thread |-> IF t = a1 THEN hA ELSE hB]
Pids == [p \in Process |-> IF p = hB THEN 2 ELSE 1]
=============================================================================
