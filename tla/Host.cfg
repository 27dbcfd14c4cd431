\* Two processes, two assets of which the model is required and pinned, one crash,
\* one SIGHUP or two, two edits of the configuration, two upgrades.
SPECIFICATION MCSpec
CONSTANTS
  p1 = p1
  p2 = p2
  model = model
  embed = embed
  Proc <- Procs
  Starter <- Procs
  Daemon <- Procs
  Boot = Boot
  Absent = Absent
  MaxCrashes = 1
  MaxHups = 2
  Asset <- AssetOrder
  Required = {model}
  Pinned = {model}
  Downloadable = {model}
  NoFile = NoFile
  Broken = Broken
  Unread = Unread
  MaxEdits = 2
  MaxUpgrades = 2
  AllowUnchecked = FALSE
INVARIANTS
  HostTypeOK
  OneDaemon
  ServingIsNamed
  BootedOnWholeAssets
  ReloadCatchesUp
  ReceiptIsTrue
  UpgradeRetiresDaemon
PROPERTY
  StartServes
CHECK_DEADLOCK FALSE
