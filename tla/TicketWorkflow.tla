---------------------------- MODULE TicketWorkflow ----------------------------
(***************************************************************************)
(* What the ticket handlers promise about the status of a ticket, with no  *)
(* request in sight: a ticket is opened once, moves along the permitted    *)
(* transitions one atomic move at a time, each move enters exactly one     *)
(* line in the ticket's journal, and it may be removed together with its   *)
(* journal.  Lines may be struck out (the author's account was deleted),   *)
(* never altered.                                                          *)
(***************************************************************************)
EXTENDS Naturals

CONSTANTS Tickets, Statuses, Transitions, None

VARIABLES
  status,   \* status[t]: a status, or None while t is not there
  moves,    \* moves[t]: the number of lines ever entered for t
  journal   \* journal[t]: the lines still there

workflowVars == <<status, moves, journal>>

Line(t, from, to) == [seq |-> moves[t] + 1, from |-> from, to |-> to]

Enter(t, from, to) ==
  /\ moves'   = [moves EXCEPT ![t] = @ + 1]
  /\ journal' = [journal EXCEPT ![t] = @ \cup {Line(t, from, to)}]

WorkflowInit ==
  /\ status  = [t \in Tickets |-> None]
  /\ moves   = [t \in Tickets |-> 0]
  /\ journal = [t \in Tickets |-> {}]

Open(t) ==
  /\ status[t] = None
  /\ status' = [status EXCEPT ![t] = "Open"]
  /\ Enter(t, None, "Open")

Move(t) ==
  /\ status[t] # None
  /\ \E to \in Statuses :
       /\ <<status[t], to>> \in Transitions
       /\ status' = [status EXCEPT ![t] = to]
       /\ Enter(t, status[t], to)

Remove(t) ==
  /\ status[t] # None
  /\ status'  = [status EXCEPT ![t] = None]
  /\ moves'   = [moves EXCEPT ![t] = 0]
  /\ journal' = [journal EXCEPT ![t] = {}]

StrikeOut ==
  /\ \A t \in Tickets : journal'[t] \subseteq journal[t]
  /\ DOMAIN journal' = Tickets
  /\ UNCHANGED <<status, moves>>

WorkflowNext ==
  \/ \E t \in Tickets : Open(t) \/ Move(t) \/ Remove(t)
  \/ StrikeOut

WorkflowSpec == WorkflowInit /\ [][WorkflowNext]_workflowVars
===============================================================================
