---------------------------- MODULE MCOperations ----------------------------
(***************************************************************************)
(* Model-checking instance of Operations and of Clients: the two screens   *)
(* of the panel that keep evidence of an undecided write in the browser's  *)
(* storage. They share neither storage nor requests, and a behaviour is    *)
(* one of either screen.                                                   *)
(***************************************************************************)
EXTENDS Operations, Clients, TLC

VARIABLE screen

ScreenInit == screen \in {"turnos", "clients"} /\ Init /\ ClientsInit
Turnos == screen = "turnos" /\ Next /\ UNCHANGED <<screen, clients>>
Clientes == screen = "clients" /\ ClientsNext /\ UNCHANGED <<screen, vars>>
ScreenSpec == ScreenInit /\ [][Turnos \/ Clientes]_<<screen, vars, clients>>

(* The values of Keys serve as tabs and those of Servers as names: only one screen is open. *)
KeySymmetry == Permutations(Keys) \cup Permutations(Servers)
=============================================================================
