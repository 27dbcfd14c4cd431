---------------------------- MODULE TaskProtocol ----------------------------
(***************************************************************************)
(* What the daemon promises a shell about a task, with nothing of how it   *)
(* keeps the promise: no table, no queue, no handler.  A request is        *)
(* answered once; what the user holds (a question, a command to approve or *)
(* to run) stays until the user acts on it; the approval mode and the      *)
(* approvals given so far say which commands need an approval.             *)
(***************************************************************************)
CONSTANTS
  Task, Shell, ShellOf,
  ApprovalMode,             \* approval.mode
  ApproveAllResetsPerTask   \* approval.approve_all_resets_per_task

VARIABLES
  view,       \* per task: what its shell was last told
  connected,  \* per shell: is it still there?
  granted     \* the tasks in which approve-all was accepted

vars == <<view, connected, granted>>

Questions == {"asked"}
Offers == {"offered", "offered_critical"}
Runnable == {"auto", "auto_critical"}

Moves(t, from, to) ==
  /\ view[t] \in from
  /\ \E v \in to : view' = [view EXCEPT ![t] = v]
  /\ UNCHANGED <<connected, granted>>
-----------------------------------------------------------------------------
(* The shell *)

Act(t, from, to) == connected[ShellOf[t]] /\ Moves(t, from, to)

Start(t)  == Act(t, {"new"}, {"waiting"})
Decide(t) == Act(t, Offers, {"running", "done", "waiting"})
Reply(t)  == Act(t, Questions, {"waiting"})
GiveUp(t) == Act(t, Questions \cup Offers \cup {"waiting"}, {"done"})
Ack(t)    == Act(t, Runnable \cup {"running"}, {"waiting"})

Leave(s) ==
  /\ connected[s]
  /\ connected' = [connected EXCEPT ![s] = FALSE]
  /\ view' = [t \in Task |-> IF ShellOf[t] = s THEN "done" ELSE view[t]]
  /\ UNCHANGED granted
-----------------------------------------------------------------------------
(* The daemon *)

\* The task whose approve-all, or whose shell's, covers t.
Covered(t) ==
  IF ApproveAllResetsPerTask
  THEN t \in granted
  ELSE \E u \in granted : ShellOf[u] = ShellOf[t]

\* The user asked for it by a decision on an offer.
Grant(t) ==
  /\ view[t] \in {"running", "waiting", "done"}
  /\ granted' = granted \cup {t}
  /\ UNCHANGED <<view, connected>>

\* It ends a task it was asked to work on, or whose approved command it
\* refuses or finds too late.
Finish(t) == Moves(t, {"waiting", "running"}, {"done"})

Ask(t) == Moves(t, {"waiting"}, Questions)

Offer(t) ==
  /\ ApprovalMode # "auto"
  /\ Moves(t, {"waiting"}, IF ApprovalMode = "manual_critical"
                           THEN {"offered_critical"}
                           ELSE Offers)

Run(t) ==
  \/ /\ ApprovalMode = "manual" => Covered(t)
     /\ Moves(t, {"waiting"}, {"auto"})
  \/ /\ ApprovalMode = "auto"
     /\ Moves(t, {"waiting"}, {"auto_critical"})

Answer(t) == Finish(t) \/ Ask(t) \/ Offer(t) \/ Run(t)
-----------------------------------------------------------------------------
Init ==
  /\ view = [t \in Task |-> "new"]
  /\ connected = [s \in Shell |-> TRUE]
  /\ granted = {}

Next ==
  \/ \E t \in Task : \/ Start(t) \/ Decide(t) \/ Reply(t) \/ GiveUp(t) \/ Ack(t)
                     \/ Grant(t) \/ Answer(t)
  \/ \E s \in Shell : Leave(s)

\* No answer but to a request, and none that the policy forbids.
Safe == Init /\ [][Next]_vars

\* Whoever waits is answered; a command that runs may run for ever.
AnswerWaiting(t) == view[t] = "waiting" /\ Answer(t)

Spec == Safe /\ \A t \in Task : WF_vars(AnswerWaiting(t))
=============================================================================
