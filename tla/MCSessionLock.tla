---------------------------- MODULE MCSessionLock ----------------------------
(* SessionLock with processes on one host, or with one of them on another. *)
EXTENDS SessionLock, TLC

CONSTANTS p1, p2, p3

MCSameHost  == [p \in Process |-> "mac"]
MCOtherHost == [p \in Process |-> IF p = p3 THEN "server" ELSE "mac"]

LocalSymmetry == Permutations({p1, p2})
=============================================================================
