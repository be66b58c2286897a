----------------------------- MODULE MCMaintenance -----------------------------
(***************************************************************************)
(* Two requests of administrators, one of an end user at one API instance, *)
(* one backup from before and two more to make.                            *)
(***************************************************************************)
EXTENDS Maintenance, TLC

CONSTANTS w1, w2, i1, g1

WorkerSymmetry == Permutations(Workers)
===============================================================================
