--------------------------- MODULE MCTicketLifecycle ---------------------------
(***************************************************************************)
(* One ticket, two concurrent requests, an administrator, and a user whose *)
(* account the administrator edits: promoted to support and back,          *)
(* deactivated, deleted.                                                   *)
(***************************************************************************)
EXTENDS TicketLifecycle, TLC

CONSTANTS t1, r1, r2, adam, sue, high

MCUserTable ==
  [u \in Users |-> [exists |-> TRUE, active |-> TRUE,
                    role |-> IF u = adam THEN "Admin" ELSE "EndUser"]]

MCSlaTable == [p \in Priorities |-> [response |-> 1, resolution |-> 2, active |-> TRUE]]

MCMaxFieldRows == [status |-> 5, assignedTo |-> 2, priority |-> 1]

RequestSymmetry == Permutations(Requests)
===============================================================================
