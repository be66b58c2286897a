---------------------------- MODULE MCAuthSessions ----------------------------
(***************************************************************************)
(* One user, two devices, two requests at a time, and an account whose     *)
(* password changes once.                                                  *)
(***************************************************************************)
EXTENDS AuthSessions, TLC

CONSTANTS r1, r2, d1, d2

AuthSymmetry == Permutations(Requests) \cup Permutations(Devices)
===============================================================================
