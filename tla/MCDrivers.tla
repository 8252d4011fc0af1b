------------------------------ MODULE MCDrivers ------------------------------
(***************************************************************************)
(* The main program and one interrupt handler, and programs that use one   *)
(* group of drivers each; and the board's start-up.                        *)
(***************************************************************************)
EXTENDS Drivers

MCPrograms == {{"handles"}, {"dcp"}, {"clock"}, {"rng"}, {"board"}}

(* For the run with the numbers of the source. *)
MCClockPrograms == {{"clock"}}

=============================================================================
