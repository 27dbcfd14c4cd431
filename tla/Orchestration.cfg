SPECIFICATION FairSpec

CONSTANTS
  Absent = Absent
  Drafts <- ThreeDrafts
  Classes = {"referential", "documentation", "web"}
  MaxToolRounds = 2
  MaxPlanningRounds = 2
  Configs <- TwoConfigs
  MaxRequests = 2
  MaxRetries = 1

INVARIANTS
  ConversationEnds
  FindingReachesRedraft
  ReadonlyRoundsBounded

PROPERTIES
  KeepsPromise

\* A task ends.
CHECK_DEADLOCK FALSE
