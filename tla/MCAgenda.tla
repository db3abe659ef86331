------------------------------ MODULE MCAgenda ------------------------------
(* Model-checking instance of Agenda. *)
EXTENDS Agenda, TLC

NameSymmetry == Permutations(Names)
=============================================================================
