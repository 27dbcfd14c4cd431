SPECIFICATION Spec

CONSTANTS
  t1 = t1
  t2 = t2
  t3 = t3
  s1 = s1
  s2 = s2
  Absent = Absent
  Nobody = Nobody
  Task = {t1}
  Shell = {s1}
  ShellOf <- OneShell
  MaxToolRounds = 2
  MaxPending = 2
  Clocked = {t1}
  Leaving = {s1}
  ApprovalMode = "manual"
  ApproveAllResetsPerTask = TRUE
  AllowClarifications = TRUE
  ReasonedRejections = FALSE

INVARIANTS
  LiveTaskIsNotTimedOut

\* Every task may be over and every client gone.
CHECK_DEADLOCK FALSE
