-------------------------- MODULE MCTaskLifecycle --------------------------
(* Instances of TaskLifecycle for TLC. *)
EXTENDS TaskLifecycle, TLC

CONSTANTS t1, t2, t3, s1, s2

OneShell == [t \in Task |-> s1]
TwoShells == (t1 :> s1) @@ (t2 :> s1) @@ (t3 :> s2)

\* Besides t1 one other task is open: the next one of its shell, or the other shell's.
OneOther ==
  /\ view[t3] # "new" => view'[t2] = view[t2] \/ view'[t2] = "done"
  /\ view[t2] # "new" /\ view[t3] = "new" => view'[t3] = "new"
=============================================================================
