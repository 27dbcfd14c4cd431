\* Two tasks of up to two commands, one death of the helper, one timeout.
SPECIFICATION MCSpec
CONSTANTS
  t1 = t1
  t2 = t2
  Task <- Tasks
  None = None
  MaxRounds = 2
  MaxDeaths = 1
  MaxExpiries = 1
INVARIANTS
  AdapterTypeOK
  DismissedStaysDismissed
  BoxIsBacked
  AckIsExpected
PROPERTY
  WaitingEnds
CHECK_DEADLOCK FALSE
