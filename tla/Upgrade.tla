------------------------------ MODULE Upgrade ------------------------------
(***************************************************************************)
(* termlm upgrade: a release is downloaded and checked, the daemon is      *)
(* asked to stop, the installed files are replaced one after another, and  *)
(* a receipt is written.  The upgrade may die at any step, and may be run  *)
(* again.                                                                  *)
(***************************************************************************)
EXTENDS Naturals

CONSTANTS MaxUpgrades,     \* bound on upgrades that are begun
          AllowUnchecked   \* TERMLM_UPGRADE_ALLOW_MISSING_CHECKSUMS

ASSUME UpgradeAssumption == MaxUpgrades \in Nat /\ AllowUnchecked \in BOOLEAN

VARIABLES
  ustep,      \* the next step of the upgrade
  archive,    \* what was downloaded: the release, another bundle, or damaged bytes
  installed,  \* the version of each installed part
  receipt,    \* the version the install receipt names
  half,       \* history: the last upgrade that touched the files did not finish
  upgrades

upgradeVars == <<ustep, archive, installed, receipt, half, upgrades>>

Part == {"termlm", "termlm-core", "termlm-client", "plugins"}
Version == {"old", "new"}
UpgradeSteps == {"idle", "fetch", "check", "unpack", "stop", "termlm", "termlm-core",
                 "termlm-client", "plugins", "place", "smoke", "receipt"}

UpgradeTypeOK ==
  /\ ustep \in UpgradeSteps
  /\ archive \in {"new", "models", "damaged"}
  /\ installed \in [Part -> Version \cup {"none", "damaged"}]
  /\ receipt \in Version
  /\ half \in BOOLEAN
  /\ upgrades \in 0..MaxUpgrades

UpgradeInit ==
  /\ ustep = "idle" /\ archive = "new"
  /\ installed = [part \in Part |-> "old"]
  /\ receipt = "old" /\ half = FALSE /\ upgrades = 0

\* A release is looked up and its bundle for this platform chosen.
BeginUpgrade ==
  /\ ustep = "idle" /\ upgrades < MaxUpgrades
  /\ ustep' \in {"idle", "fetch"}
  /\ upgrades' = upgrades + 1
  /\ UNCHANGED <<archive, installed, receipt, half>>

FetchBundle ==
  /\ ustep = "fetch"
  /\ \/ ustep' = "idle" /\ UNCHANGED archive
     \/ ustep' = "check" /\ archive' \in {"new", "models", "damaged"}
  /\ UNCHANGED <<installed, receipt, half, upgrades>>

\* The published sums list the bundle, or do not, or there are none.
CheckSums ==
  /\ ustep = "check"
  /\ \E sums \in {"listed", "unlisted", "absent"} :
       ustep' = IF \/ sums = "listed" /\ archive # "damaged"
                   \/ sums = "absent" /\ AllowUnchecked
                THEN "unpack" ELSE "idle"
  /\ UNCHANGED <<archive, installed, receipt, half, upgrades>>

\* The bundle is unpacked, its layout and manifest are checked.
UnpackBundle ==
  /\ ustep = "unpack"
  /\ \/ ustep' = "idle"
     \/ archive # "models" /\ ustep' = "stop"
  /\ UNCHANGED <<archive, installed, receipt, half, upgrades>>

\* Asked or not, the daemon is not waited for.
StopDaemon ==
  /\ ustep = "stop"
  /\ ustep' = "termlm"
  /\ UNCHANGED <<archive, installed, receipt, half, upgrades>>

\* Mutant: the daemon's binary is forgotten.
AfterSkipping(part) == IF part = "termlm" THEN "termlm-client" ELSE "plugins"

\* The order of the parts.
After(part) == CASE part = "termlm" -> "termlm-core"
                 [] part = "termlm-core" -> "termlm-client"
                 [] part = "termlm-client" -> "plugins"

\* install_binary: the copy is renamed over the old binary, or the upgrade ends.
InstallBinary(part) ==
  /\ ustep = part /\ part \in Part \ {"plugins"}
  /\ \/ /\ ustep' = After(part)
        /\ installed' = [installed EXCEPT ![part] = archive]
        /\ half' = TRUE
     \/ ustep' = "idle" /\ UNCHANGED <<installed, half>>
  /\ UNCHANGED <<archive, receipt, upgrades>>

\* install_dir_replace copies, removes the old directory, ...
RemovePlugins ==
  /\ ustep = "plugins"
  /\ \/ ustep' = "place" /\ installed' = [installed EXCEPT !["plugins"] = "none"]
     \/ ustep' = "idle" /\ UNCHANGED installed
  /\ UNCHANGED <<archive, receipt, half, upgrades>>

\* ... and renames the copy to its place.
PlacePlugins ==
  /\ ustep = "place"
  /\ \/ ustep' = "smoke" /\ installed' = [installed EXCEPT !["plugins"] = archive]
     \/ ustep' = "idle" /\ UNCHANGED installed
  /\ UNCHANGED <<archive, receipt, half, upgrades>>

\* The installed files exist and the binaries answer --help.
SmokeTest ==
  /\ ustep = "smoke"
  /\ \/ ustep' = "idle"
     \/ /\ \A part \in Part : installed[part] # "none"
        /\ ustep' = "receipt"
  /\ UNCHANGED <<archive, installed, receipt, half, upgrades>>

WriteReceipt ==
  /\ ustep = "receipt"
  /\ \/ receipt' = "new" /\ half' = FALSE
     \/ UNCHANGED <<receipt, half>>
  /\ ustep' = "idle"
  /\ UNCHANGED <<archive, installed, upgrades>>

\* The upgrade is interrupted; its temporary files do not matter to the next.
AbandonUpgrade ==
  /\ ustep # "idle"
  /\ ustep' = "idle"
  /\ UNCHANGED <<archive, installed, receipt, half, upgrades>>

UpgradeStep ==
  \/ FetchBundle \/ CheckSums \/ UnpackBundle
  \/ \E part \in Part : InstallBinary(part)
  \/ RemovePlugins \/ PlacePlugins \/ SmokeTest \/ WriteReceipt \/ AbandonUpgrade
=============================================================================
