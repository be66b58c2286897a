--------------------------- MODULE MCAttachmentStore ---------------------------
(***************************************************************************)
(* Two requests on one ticket, and the clean-up of one instance.           *)
(***************************************************************************)
EXTENDS AttachmentStore, TLC

CONSTANTS r1, r2, t1, c1
===============================================================================
