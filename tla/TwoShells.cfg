SPECIFICATION Spec

CONSTANTS
  t1 = t1
  t2 = t2
  t3 = t3
  s1 = s1
  s2 = s2
  Absent = Absent
  Nobody = Nobody
  Task = {t1, t2, t3}
  Shell = {s1, s2}
  ShellOf <- TwoShells
  MaxToolRounds = 1
  MaxPending = 1
  Clocked = {}
  Leaving = {s1}
  ApprovalMode = "manual"
  ApproveAllResetsPerTask = FALSE
  AllowClarifications = TRUE
  ReasonedRejections = TRUE

ACTION_CONSTRAINT OneOther

INVARIANTS
  OpenTaskIsKnown
  ApprovalIsEarned
  ApproveAllIsHonoured

\* Every task may be over and every client gone.
CHECK_DEADLOCK FALSE
