------------------------------ MODULE MCSlaEngine ------------------------------
(***************************************************************************)
(* A ticket, one HTTP request at a time on it, and two workers: two cron   *)
(* runs, or a cron run beside a configuration request.  A deadline of five *)
(* minutes is at risk when one is left.                                    *)
(***************************************************************************)
EXTENDS SlaEngine, TLC

CONSTANTS r1, w1, w2, adam, high, low

MCUserTable == [u \in Users |-> [exists |-> TRUE, active |-> TRUE, role |-> "Admin"]]
MCSlaTable  ==
  [p \in Priorities |-> IF p = high THEN [response |-> 1, resolution |-> 5, active |-> TRUE]
                                    ELSE None]
MCMaxFieldRows == [status |-> 3, assignedTo |-> 0, priority |-> 1]
\* Open, in progress, resolved, closed, reopened: a fifth row, for the reopening.
MCReopenRows == [status |-> 5, assignedTo |-> 0, priority |-> 0]

MCPatches ==
  {[response |-> None, resolution |-> 3, active |-> None],
   [response |-> 2, resolution |-> None, active |-> None],
   [response |-> None, resolution |-> None, active |-> FALSE],
   [response |-> None, resolution |-> 3, active |-> FALSE]}

MCOnePatch == {[response |-> None, resolution |-> 3, active |-> None]}

MCNewConfigs == {[response |-> 1, resolution |-> 3, active |-> TRUE]}

WorkerSymmetry == Permutations(Workers)
===============================================================================
