CONSTANTS
  grep = grep
  awk = awk
  echo = echo
  bge = bge
  nomic = nomic
  Absent = Absent
  Path = {awk, grep}
  Changing = {grep}
  Virtual = {echo}
  Orders <- OneOrder
  MaxChunks = 2
  MaxVersion = 2
  MaxCrashes = 1
  MaxRequests = 1
  Models = {bge, nomic}
  EmbedOutcomes = {"provider"}
SPECIFICATION Spec
INVARIANTS
  TypeOK
  MemoryIsCurrent
  PositionsAgree
  ReuseIsSound
PROPERTIES
  KeepsPromise
  CatchesUp
CHECK_DEADLOCK FALSE
