SPECIFICATION FairSpec

CONSTANTS
  t1 = t1
  t2 = t2
  t3 = t3
  s1 = s1
  s2 = s2
  Absent = Absent
  Nobody = Nobody
  Task = {t1}
  Shell = {s1}
  ShellOf <- OneShell
  MaxToolRounds = 2
  MaxPending = 2
  Clocked = {}
  Leaving = {}
  ApprovalMode = "manual"
  ApproveAllResetsPerTask = TRUE
  AllowClarifications = TRUE
  ReasonedRejections = TRUE

PROPERTIES
  Answered

\* Every task may be over and every client gone.
CHECK_DEADLOCK FALSE
