--------------------------- MODULE MCAppointments ---------------------------
(* Model-checking instance of Appointments: a day of four units.  Hours, *)
(* closures and durations are chosen so that they can conflict. *)
EXTENDS Appointments, TLC

DayHours == {{1, 2, 3}, {2, 3}}
DayClosures == {{2}}
ServiceDurations == {1, 2}
RequestSymmetry == Permutations(Requests) \cup Permutations(Ids) \cup Permutations(Resources)
=============================================================================
