------------------------------ MODULE MCAdapter ------------------------------
(***************************************************************************)
(* Two tasks of an adapter.  Which of three concerns a behaviour is about  *)
(* is chosen at the start, so that the state spaces add up.                *)
(***************************************************************************)
EXTENDS Adapter

CONSTANTS t1, t2

VARIABLE focus   \* "dialogue", "trouble" or "link"

Tasks == {t1, t2}

MCInit == Init /\ focus \in {"dialogue", "trouble", "link"}

\* What a behaviour of each kind leaves out.  The dialogue of two tasks has no fault,
\* trouble is one fault among tasks without questions, the link is about one task.  The
\* second task never has a second command.  A session is entered first of all or by
\* giving up a task, and ordinary commands are run when there is something to disturb.
Focused ==
  /\ fresh' # {t1}   \* ids are alike: t1 is drawn first
  /\ entry'[t2] = None \/ entry'[t2].round <= 1
  /\ focus = "link" => fresh' # {}
  /\ focus = "dialogue" =>
       /\ deaths' = 0 /\ expiries' = 0
       /\ sh'.session => sh.session \/ sh.waiting \/ fresh = Task
  /\ focus # "dialogue" =>
       /\ ~sh'.session
       /\ entry'[t1] = None \/ entry'[t1].round <= 1
  /\ focus = "trouble" =>
       /\ deaths' + expiries' <= 1
       /\ \A t \in Task : entry'[t] = None \/ entry'[t].state # "question"
  /\ focus # "link" /\ sh'.busy /\ sh'.pending = None =>
       sh'.waiting \/ sh'.approval # None \/ sh'.clarification # None

\* But for the link, the helper forwards what it is sent before anything else happens.
MCNext ==
  /\ IF focus # "link" /\ inPipe # <<>> THEN Forward ELSE Next
  /\ UNCHANGED focus
  /\ Focused

MCSpec == /\ MCInit /\ [][MCNext]_<<vars, focus>>
          /\ SF_vars(HandleLine /\ MCNext) /\ WF_vars((Acknowledge \/ FinishCommand) /\ MCNext)
          /\ WF_vars((Forward \/ Serve) /\ MCNext)
==============================================================================
