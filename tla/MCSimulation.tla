---------------------------- MODULE MCSimulation ----------------------------
(***************************************************************************)
(* A small instance of the simulation runner for TLC.                      *)
(***************************************************************************)
EXTENDS Simulation
CONSTANTS c1, w1, w2
=============================================================================
