---------------------------- MODULE ConfigReload ----------------------------
(***************************************************************************)
(* The configuration of a running daemon: the file it was read from, the   *)
(* reload a SIGHUP starts, the settings that wait for a restart, and the   *)
(* provider and the caches that are rebuilt from the new settings before   *)
(* the new configuration is stored.                                        *)
(***************************************************************************)
EXTENDS Naturals

CONSTANTS Daemon,     \* the processes that may run as the daemon
          Broken,     \* a file that is no configuration
          Unread,     \* a process that has read no configuration
          MaxEdits    \* bound on edits of the file

VARIABLES
  file,       \* the configuration file
  running,    \* the configuration each daemon serves from
  booted,     \* the configuration it started with
  provider,   \* the configuration its provider's settings were taken from
  caches,     \* the configuration its caches were built from
  rstep,      \* the next step of its reload
  next,       \* the configuration that reload is applying
  aborted,    \* the daemons whose provider has settings of a failed reload
  signalled,  \* history: the edits made when a daemon was last signalled
  edits

configVars == <<file, running, booted, provider, caches, rstep, next, aborted, signalled, edits>>

\* web.provider waits for a restart; its endpoint and the lifetimes of the
\* caches do not.
Config == [engine : {"custom_json", "none"}, endpoint : {"set", "empty"}, ttl : {1, 2}]

ASSUME ReloadAssumption ==
  Broken \notin Config /\ Unread \notin Config /\ MaxEdits \in Nat

\* validate, as far as one key depends on another.
Valid(c) == c # Broken /\ (c.engine = "custom_json" => c.endpoint = "set")

\* preserve_restart_required_fields: the settings that wait keep their value.
Merge(old, new) == [new EXCEPT !.engine = old.engine]

ConfigTypeOK ==
  /\ file \in Config \cup {Broken}
  /\ running \in [Daemon -> Config \cup {Unread}]
  /\ booted \in [Daemon -> Config \cup {Unread}]
  /\ provider \in [Daemon -> Config \cup {Unread}]
  /\ caches \in [Daemon -> Config \cup {Unread}]
  /\ rstep \in [Daemon -> {"idle", "load", "provider", "caches", "store"}]
  /\ next \in [Daemon -> Config \cup {Unread}]
  /\ aborted \subseteq Daemon
  /\ signalled \in [Daemon -> 0..MaxEdits]
  /\ edits \in 0..MaxEdits

ConfigInit ==
  /\ file \in {c \in Config : Valid(c) /\ c.ttl = 1}
  /\ running = [d \in Daemon |-> Unread] /\ booted = running
  /\ provider = running /\ caches = running /\ next = running
  /\ rstep = [d \in Daemon |-> "idle"]
  /\ aborted = {}
  /\ signalled = [d \in Daemon |-> 0]
  /\ edits = 0

\* A starting process reads the file, and goes no further when it is not valid.
BootConfig(d) ==
  /\ running' = [running EXCEPT ![d] = IF Valid(file) THEN file ELSE Unread]
  /\ booted' = [booted EXCEPT ![d] = running'[d]]
  /\ provider' = [provider EXCEPT ![d] = running'[d]]
  /\ caches' = [caches EXCEPT ![d] = running'[d]]
  /\ signalled' = [signalled EXCEPT ![d] = edits]
  /\ UNCHANGED <<file, rstep, next, aborted, edits>>

\* The user saves the file, complete or not.
EditConfig ==
  /\ edits < MaxEdits
  /\ file' \in (Config \cup {Broken}) \ {file}
  /\ edits' = edits + 1
  /\ UNCHANGED <<running, booted, provider, caches, rstep, next, aborted, signalled>>

\* A SIGHUP was delivered to d.
NoteSignal(d) ==
  /\ signalled' = [signalled EXCEPT ![d] = edits]
  /\ UNCHANGED <<file, running, booted, provider, caches, rstep, next, aborted, edits>>

BeginReload(d) ==
  /\ rstep[d] = "idle"
  /\ rstep' = [rstep EXCEPT ![d] = "load"]
  /\ UNCHANGED <<file, running, booted, provider, caches, next, aborted, signalled, edits>>

\* The file is read and compared with the running configuration.
ReloadFile(d) ==
  /\ rstep[d] = "load"
  /\ \/ /\ ~Valid(file) \/ file = running[d]
        /\ rstep' = [rstep EXCEPT ![d] = "idle"] /\ UNCHANGED next
     \/ /\ Valid(file) /\ file # running[d]
        /\ next' = [next EXCEPT ![d] = Merge(running[d], file)]
        /\ rstep' = [rstep EXCEPT ![d] = "provider"]
  /\ UNCHANGED <<file, running, booted, provider, caches, aborted, signalled, edits>>

\* apply_runtime_config assigns the provider's settings, then builds its
\* client, and a failure of that ends the reload with the settings assigned.
ApplyProvider(d) ==
  /\ rstep[d] = "provider"
  /\ provider' = [provider EXCEPT ![d] = next[d]]
  /\ \/ rstep' = [rstep EXCEPT ![d] = "caches"] /\ UNCHANGED aborted
     \/ rstep' = [rstep EXCEPT ![d] = "idle"] /\ aborted' = aborted \cup {d}
  /\ UNCHANGED <<file, running, booted, caches, next, signalled, edits>>

ReplaceCaches(d) ==
  /\ rstep[d] = "caches"
  /\ caches' = [caches EXCEPT ![d] = next[d]]
  /\ rstep' = [rstep EXCEPT ![d] = "store"]
  /\ UNCHANGED <<file, running, booted, provider, next, aborted, signalled, edits>>

StoreConfig(d) ==
  /\ rstep[d] = "store"
  /\ running' = [running EXCEPT ![d] = next[d]]
  /\ rstep' = [rstep EXCEPT ![d] = "idle"]
  /\ aborted' = aborted \ {d}
  /\ UNCHANGED <<file, booted, provider, caches, next, signalled, edits>>

ReloadStep(d) == ReloadFile(d) \/ ApplyProvider(d) \/ ReplaceCaches(d) \/ StoreConfig(d)
=============================================================================
