---------------------------- MODULE MCMessaging -----------------------------
(* Model-checking instance of Messaging.                                   *)
EXTENDS Messaging, TLC

CONSTANTS p1, p2, w1, w2

ManagerSymmetry == Permutations({p1, p2})
WorkerSymmetry == Permutations({w1, w2})
=============================================================================
