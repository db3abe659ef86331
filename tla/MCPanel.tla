------------------------------ MODULE MCPanel ------------------------------
(***************************************************************************)
(* Model-checking instance of Panel, Accounts and Throttle: the panel, and *)
(* what decides in the database who may enter it.  They share no state of  *)
(* these models, and a behaviour is one of the three.                      *)
(***************************************************************************)
EXTENDS Panel, Accounts, Throttle, TLC

CONSTANTS j1, j2, j3

VARIABLE part

AccessInit ==
  /\ part \in {"panel", "accounts", "throttle"} /\ Init /\ AccountsInit /\ ThrottleInit
  /\ part # "panel" => mode = "profile" /\ stored = 0 /\ tenant = [s \in Sessions |-> NULL]
Shows == part = "panel" /\ Next /\ UNCHANGED <<part, accounts, throttle>>
Decides == part = "accounts" /\ AccountsNext /\ UNCHANGED <<part, vars, throttle>>
Admission == part = "throttle" /\ ThrottleNext /\ UNCHANGED <<part, vars, accounts>>
AccessSpec ==
  AccessInit /\ [][Shows \/ Decides \/ Admission]_<<part, vars, accounts, throttle>>

(* Places of jobs are interchangeable. *)
JobSymmetry == Permutations(Jobs)
=============================================================================
