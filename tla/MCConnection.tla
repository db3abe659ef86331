---------------------------- MODULE MCConnection ----------------------------
(* Model-checking instance of Connection.                                  *)
EXTENDS Connection, TLC

CONSTANTS p1, p2, t1, t2, t3, k1, k2

ManagerSymmetry == Permutations({p1, p2})
IdSymmetry == Permutations({t1, t2}) \cup Permutations({k1, k2})
LinkingSymmetry == ManagerSymmetry \cup IdSymmetry
=============================================================================
