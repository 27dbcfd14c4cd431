-------------------------------- MODULE Host --------------------------------
(***************************************************************************)
(* A user's machine: the processes that start as the daemon, each from the *)
(* binary and the configuration it finds and with the model files it makes *)
(* sure of, the reload of the daemon that serves, and an upgrade that      *)
(* stops the daemon and replaces the binaries under it.                    *)
(***************************************************************************)
EXTENDS DaemonProcess, ModelAssets, ConfigReload, Upgrade

ASSUME SameProcesses == Starter = Proc /\ Daemon = Proc

VARIABLES
  version,   \* the version of the binary each process runs
  late       \* history: the processes an upgrade did not reach with its request to stop

hostVars == <<procVars, assetVars, configVars, upgradeVars, version, late>>

HostTypeOK ==
  /\ ProcTypeOK /\ AssetTypeOK /\ ConfigTypeOK /\ UpgradeTypeOK
  /\ version \in [Proc -> Version \cup {"none", "damaged"}]
  /\ late \subseteq Proc

HostInit ==
  /\ ProcInit /\ AssetInit /\ ConfigInit /\ UpgradeInit
  /\ version = [p \in Proc |-> "none"]
  /\ late = {}

\* The installed binary runs, and reads the configuration.  While an upgrade is
\* between its request to stop and the new core, what starts is the old one.
HostStart(p) ==
  /\ Start(p) /\ BootConfig(p)
  /\ version' = [version EXCEPT ![p] = installed["termlm-core"]]
  /\ late' = IF ustep \in {"termlm", "termlm-core"} THEN late \cup {p} ELSE late
  /\ UNCHANGED <<assetVars, upgradeVars>>

HostAssets(p) ==
  /\ phase[p] = "loading" /\ running[p] # Unread
  /\ BeginAssets(p) \/ AssetStep(p)
  /\ UNCHANGED <<procVars, configVars, upgradeVars, version, late>>

\* With its assets in place the process goes on to the probes, unless the
\* provider does not load; without configuration or assets it ends.
HostLoad(p) ==
  /\ running[p] = Unread \/ astep[p] \in {"done", "failed"}
  /\ Load(p)
  /\ phase'[p] = "single" => astep[p] = "done" /\ running[p] # Unread
  /\ UNCHANGED <<assetVars, configVars, upgradeVars, version, late>>

HostProbe(p) ==
  /\ \/ ReadPid(p) \/ ProbeOwner(p) \/ EvictSocket(p) \/ RemoveStalePid(p)
     \/ ProbeSocket(p) \/ UnlinkSocket(p) \/ Bind(p) \/ CreatePid(p) \/ WritePid(p)
     \/ Subscribe(p) \/ RemovePid(p) \/ RemoveSocket(p)
  /\ UNCHANGED <<assetVars, configVars, upgradeVars, version, late>>

HostShutdown(p) ==
  /\ Shutdown(p)
  /\ UNCHANGED <<assetVars, configVars, upgradeVars, version, late>>

HostCrash(p) ==
  /\ Crash(p)
  /\ IF phase[p] = "loading" THEN AbandonAssets(p) ELSE UNCHANGED assetVars
  /\ UNCHANGED <<configVars, upgradeVars, version, late>>

HostReadHupTarget ==
  /\ ReadHupTarget
  /\ UNCHANGED <<assetVars, configVars, upgradeVars, version, late>>

HostSendHup ==
  /\ SendHup
  /\ IF hup \in hupped' THEN NoteSignal(hup) ELSE UNCHANGED configVars
  /\ IF hup \in Proc /\ phase[hup] = "loading" THEN AbandonAssets(hup) ELSE UNCHANGED assetVars
  /\ UNCHANGED <<upgradeVars, version, late>>

\* Mutant: a signal that comes during a reload is taken and forgotten.
HostTakeHupAnyTime(p) ==
  /\ TakeHup(p)
  /\ IF rstep[p] = "idle" THEN BeginReload(p) ELSE UNCHANGED configVars
  /\ UNCHANGED <<assetVars, upgradeVars, version, late>>

HostTakeHup(p) ==
  /\ TakeHup(p) /\ BeginReload(p)
  /\ UNCHANGED <<assetVars, upgradeVars, version, late>>

\* A daemon that is stopping can still be reloading.
HostReload(p) ==
  /\ phase[p] \in {"serving"} \cup Stopping
  /\ ReloadStep(p)
  /\ UNCHANGED <<procVars, assetVars, upgradeVars, version, late>>

HostEditConfig ==
  /\ EditConfig
  /\ UNCHANGED <<procVars, assetVars, upgradeVars, version, late>>

\* Mutant: the upgrade replaces the files under the daemon.
HostStopNothing ==
  /\ StopDaemon
  /\ late' = {p \in Proc : phase[p] \in {"loading"} \cup Probing \cup Naming}
  /\ UNCHANGED <<procVars, assetVars, configVars, version>>

\* shutdown_daemon_best_effort asks whom it finds at default_socket_path and waits
\* 300 ms for the answer.  Where the configuration names another socket, or the
\* answer takes longer, the upgrade goes on past a daemon that runs; one that takes
\* the request later does so in a step of its own, HostShutdown.
HostStopDaemon ==
  /\ StopDaemon
  /\ \/ /\ IF \E p \in Proc : sock = p /\ phase[p] \in Serving THEN Shutdown(sock) ELSE UNCHANGED procVars
        /\ late' = {p \in Proc : phase[p] \in {"loading"} \cup Probing \cup Naming}
     \/ /\ late' = {p \in Proc : phase[p] \in Live}
        /\ UNCHANGED procVars
  /\ UNCHANGED <<assetVars, configVars, version>>

HostUpgrade ==
  /\ BeginUpgrade \/ UpgradeStep
  /\ UNCHANGED <<procVars, assetVars, configVars, version, late>>

HostNext ==
  \/ \E p \in Proc : \/ HostStart(p) \/ HostAssets(p) \/ HostLoad(p) \/ HostProbe(p)
                     \/ HostShutdown(p) \/ HostCrash(p) \/ HostTakeHup(p) \/ HostReload(p)
  \/ HostReadHupTarget \/ HostSendHup \/ HostEditConfig
  \/ HostStopDaemon \/ HostUpgrade

HostSpec == HostInit /\ [][HostNext]_hostVars

-----------------------------------------------------------------------------
\* A model file is never left truncated or half written at its own path by a
\* broken download, a crash or a bad server, and a process that goes on from its
\* assets has every required one, with the pinned content where it is pinned, as
\* long as no two processes downloaded an asset at a time.
BootedOnWholeAssets ==
  ~shared =>
    /\ \A a \in Assets : dest[a] # NoFile => data[dest[a]] \in {Good, Bad}
    /\ \A p \in Proc : phase[p] \in Probing \cup Listening =>
         \A a \in Required : dest[a] # NoFile /\ (a \in Pinned => data[dest[a]] = Good)

\* FR-45: when a daemon has taken every signal, no reload failed to build the
\* provider's client and the file was not edited since the last signal, the configuration it serves from, its
\* provider and its caches are all those of the file, but for the settings that
\* wait for a restart: no signal sent during a reload is lost.
ReloadCatchesUp ==
  \A d \in Proc :
    phase[d] = "serving" /\ d \notin hupped \cup aborted /\ rstep[d] = "idle"
      /\ signalled[d] = edits /\ Valid(file)
      => running[d] = Merge(booted[d], file) /\ provider[d] = running[d] /\ caches[d] = running[d]

\* The receipt never names a version that is not what is installed, unless an
\* upgrade is under way or was cut off, and no upgrade installs bytes that the
\* published sums do not vouch for.
ReceiptIsTrue ==
  /\ ustep = "idle" /\ ~half => \A part \in Part : installed[part] \in {receipt, "damaged"}
  /\ ~AllowUnchecked => \A part \in Part : installed[part] # "damaged"

\* Once no upgrade is under way, be it that it ended or was cut off, every daemon that
\* serves runs the installed binary, but one that was launched while the upgrade ran,
\* was not up yet when it asked for the shutdown, or that the request did not reach
\* within 300 ms at the default path (shutdown_daemon_best_effort).
UpgradeRetiresDaemon ==
  ustep = "idle" /\ ~bindRace =>
    \A p \in Proc \ late : phase[p] \in Serving => version[p] = installed["termlm-core"]
=============================================================================
