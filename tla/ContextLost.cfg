SPECIFICATION ObserverSpec
CONSTANTS
  Zsh = {z1}
  Absent = Absent
  MaxEntries = 1
  MaxCommands = 1
  MaxRegistrations = 2
  MaxDeaths = 1
  MaxEdits = 0
PROPERTY
  ContextFollowsRegistration
\* Every command may have been run.
CHECK_DEADLOCK FALSE
