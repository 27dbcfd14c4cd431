------------------------ MODULE OrchestrationPromise ------------------------
(***************************************************************************)
(* What one task owes its user, however many provider requests, tool       *)
(* calls, redrafts and web look-ups it takes: each request of the user is  *)
(* answered exactly once, by a question, a command or an end, and a        *)
(* command that is offered is one of the valid ones.                       *)
(***************************************************************************)
CONSTANTS
  Valid,   \* the commands a user may be shown
  Nothing  \* "no command is offered"

VARIABLES
  told,  \* what the user was last told; "waiting" while a request is open
  offer  \* the command that is offered

Take ==
  /\ told \in {"new", "asked", "proposed"}
  /\ told' = "waiting"
  /\ offer' = Nothing

\* The user refuses the command, gives up on the question, or is done.
GiveUp ==
  /\ told \in {"asked", "proposed"}
  /\ told' = "complete"
  /\ offer' = Nothing

Answer ==
  /\ told = "waiting"
  /\ \/ /\ told' \in {"asked", "complete"}
        /\ UNCHANGED offer
     \/ /\ told' = "proposed"
        /\ offer' \in Valid

Init == told = "new" /\ offer = Nothing
Next == Take \/ GiveUp \/ Answer

\* At most one answer to a request, a valid one; and one at all.
Safe == Init /\ [][Next]_<<told, offer>>
Spec == Safe /\ WF_<<told, offer>>(Answer)
=============================================================================
