--------------------------- MODULE DaemonProcess ---------------------------
(***************************************************************************)
(* How a termlm-core process becomes the daemon of its user, and how it    *)
(* stops being it: the probes of the pid file and of the socket path, the  *)
(* removal of stale files, the bind, the write of the pid file, the        *)
(* shutdown, a crash at any step, and the SIGHUP a client sends to the     *)
(* process the pid file names.  Nothing but the two files is shared by the *)
(* processes, and every probe and every removal is a system call of its    *)
(* own, so the calls of two processes interleave.                          *)
(***************************************************************************)
EXTENDS Naturals

CONSTANTS Proc,         \* the processes that core may be started as
          Boot,         \* names what an earlier life of the machine left behind
          Absent,       \* no file at a path
          MaxCrashes,   \* bound on kills of a process
          MaxHups       \* bound on SIGHUPs sent

ASSUME ProcAssumption == Boot \notin Proc /\ Absent \notin Proc /\ Boot # Absent
ASSUME BoundAssumption == MaxCrashes \in Nat /\ MaxHups \in Nat

VARIABLES
  phase,     \* what each process does next
  seen,      \* the process whose pid ensure_single_daemon read
  fd,        \* the file write_pid_file has open
  sock,      \* who bound the socket that the path names
  pidFile,   \* the pid file: the file itself, and the pid written in it
  hup,       \* the pid reload-config has read and will signal
  hupped,    \* the processes whose reload loop has a SIGHUP to handle
  ended,     \* history: the processes that were stopped or killed
  bindRace,  \* history: a start probed while another was between probe and bind
  nameRace,  \* history: as bindRace, up to the write of the pid file
  crashes, hups

procVars == <<phase, seen, fd, sock, pidFile, hup, hupped, ended,
              bindRace, nameRace, crashes, hups>>

\* From the first probe to the bind; from the bind to the pid file written.
Probing == {"single", "probe", "evict", "unpid", "cleanup", "unlink", "bind"}
Naming  == {"create", "write"}
Serving == {"up", "serving"}
Stopping == {"stopping", "unnamed"}
Listening == Naming \cup Serving \cup Stopping
Live  == {"loading"} \cup Probing \cup Listening
Phase == {"off", "gone"} \cup Live

PidFiles == [file : Proc \cup {Boot}, text : Proc \cup {Boot, Absent}]

ASSUME AbsentAssumption == Absent \notin PidFiles

ProcTypeOK ==
  /\ phase \in [Proc -> Phase]
  /\ seen \in [Proc -> Proc \cup {Boot, Absent}]
  /\ fd \in [Proc -> Proc \cup {Boot, Absent}]
  /\ sock \in Proc \cup {Boot, Absent}
  /\ pidFile \in PidFiles \cup {Absent}
  /\ hup \in Proc \cup {Boot, Absent}
  /\ hupped \subseteq Proc
  /\ ended \subseteq Proc
  /\ bindRace \in BOOLEAN /\ nameRace \in BOOLEAN
  /\ crashes \in 0..MaxCrashes /\ hups \in 0..MaxHups

Go(p, next) == phase' = [phase EXCEPT ![p] = next]

\* connect(2) on the socket path reaches a listener.
Answers == sock \in Proc /\ phase[sock] \in Listening

\* kill(pid, 0): the process runs, or its pid was given to another program.
Alive(q) == IF q \in Proc /\ phase[q] \in Live THEN {TRUE} ELSE {TRUE, FALSE}

-----------------------------------------------------------------------------
\* The files an earlier life left: none, a stale socket, a stale or an
\* unreadable pid file.
ProcInit ==
  /\ phase = [p \in Proc |-> "off"]
  /\ seen = [p \in Proc |-> Absent]
  /\ fd = [p \in Proc |-> Absent]
  /\ sock \in {Boot, Absent}
  /\ pidFile \in {Absent} \cup [file : {Boot}, text : {Boot, Absent}]
  /\ hup = Absent /\ hupped = {} /\ ended = {}
  /\ bindRace = FALSE /\ nameRace = FALSE
  /\ crashes = 0 /\ hups = 0

\* maybe_detach: a shell, an upgrade or the user launches the process.
Start(p) ==
  /\ phase[p] = "off"
  /\ Go(p, "loading")
  /\ UNCHANGED <<seen, fd, sock, pidFile, hup, hupped, ended, bindRace, nameRace, crashes, hups>>

\* Configuration, model assets and provider are loaded, or the start fails.
Load(p) ==
  /\ phase[p] = "loading"
  /\ \/ /\ Go(p, "single")
        /\ bindRace' = (bindRace \/ \E q \in Proc : phase[q] \in Probing)
        /\ nameRace' = (nameRace \/ \E q \in Proc : phase[q] \in Probing \cup Naming)
     \/ Go(p, "gone") /\ UNCHANGED <<bindRace, nameRace>>
  /\ UNCHANGED <<seen, fd, sock, pidFile, hup, hupped, ended, crashes, hups>>

\* ensure_single_daemon reads the pid file: absent, without a pid, or naming one.
ReadPid(p) ==
  /\ phase[p] = "single"
  /\ \/ pidFile = Absent /\ Go(p, "cleanup") /\ UNCHANGED seen
     \/ pidFile # Absent /\ pidFile.text = Absent /\ Go(p, "unpid") /\ UNCHANGED seen
     \/ /\ pidFile # Absent /\ pidFile.text # Absent
        /\ Go(p, "probe")
        /\ seen' = [seen EXCEPT ![p] = pidFile.text]
  /\ UNCHANGED <<fd, sock, pidFile, hup, hupped, ended, bindRace, nameRace, crashes, hups>>

\* Mutant: a process that lives is taken for the daemon.
ProbeOwnerOnly(p) ==
  /\ phase[p] = "probe"
  /\ \E alive \in Alive(seen[p]) : Go(p, IF alive THEN "gone" ELSE "unpid")
  /\ UNCHANGED <<seen, fd, sock, pidFile, hup, hupped, ended, bindRace, nameRace, crashes, hups>>

\* The named process is probed, and if it lives the socket is.
ProbeOwner(p) ==
  /\ phase[p] = "probe"
  /\ \E alive \in Alive(seen[p]) :
       Go(p, IF ~alive \/ sock = Absent THEN "unpid" ELSE IF Answers THEN "gone" ELSE "evict")
  /\ UNCHANGED <<seen, fd, sock, pidFile, hup, hupped, ended, bindRace, nameRace, crashes, hups>>

\* The socket of a process that does not answer is removed.
EvictSocket(p) ==
  /\ phase[p] = "evict"
  /\ Go(p, "unpid")
  /\ sock' = Absent
  /\ UNCHANGED <<seen, fd, pidFile, hup, hupped, ended, bindRace, nameRace, crashes, hups>>

RemoveStalePid(p) ==
  /\ phase[p] = "unpid"
  /\ Go(p, "cleanup")
  /\ pidFile' = Absent
  /\ UNCHANGED <<seen, fd, sock, hup, hupped, ended, bindRace, nameRace, crashes, hups>>

\* Mutant: any socket is taken for a stale one.
ProbeNoSocket(p) ==
  /\ phase[p] = "cleanup"
  /\ Go(p, IF sock = Absent THEN "bind" ELSE "unlink")
  /\ UNCHANGED <<seen, fd, sock, pidFile, hup, hupped, ended, bindRace, nameRace, crashes, hups>>

\* cleanup_stale_socket: a socket that answers ends the start.
ProbeSocket(p) ==
  /\ phase[p] = "cleanup"
  /\ Go(p, IF sock = Absent THEN "bind" ELSE IF Answers THEN "gone" ELSE "unlink")
  /\ UNCHANGED <<seen, fd, sock, pidFile, hup, hupped, ended, bindRace, nameRace, crashes, hups>>

UnlinkSocket(p) ==
  /\ phase[p] = "unlink"
  /\ Go(p, "bind")
  /\ sock' = Absent
  /\ UNCHANGED <<seen, fd, pidFile, hup, hupped, ended, bindRace, nameRace, crashes, hups>>

\* bind(2) fails when the path exists; clients queue from here on.
Bind(p) ==
  /\ phase[p] = "bind"
  /\ \/ sock # Absent /\ Go(p, "gone") /\ UNCHANGED sock
     \/ sock = Absent /\ Go(p, "create") /\ sock' = p
  /\ UNCHANGED <<seen, fd, pidFile, hup, hupped, ended, bindRace, nameRace, crashes, hups>>

\* write_pid_file: the file is created or truncated, then the pid is written.
CreatePid(p) ==
  /\ phase[p] = "create"
  /\ Go(p, "write")
  /\ pidFile' = [file |-> IF pidFile = Absent THEN p ELSE pidFile.file, text |-> Absent]
  /\ fd' = [fd EXCEPT ![p] = pidFile'.file]
  /\ UNCHANGED <<seen, sock, hup, hupped, ended, bindRace, nameRace, crashes, hups>>

\* A file removed in between takes the pid with it.
WritePid(p) ==
  /\ phase[p] = "write"
  /\ Go(p, "up")
  /\ pidFile' = IF pidFile # Absent /\ pidFile.file = fd[p]
                THEN [pidFile EXCEPT !.text = p] ELSE pidFile
  /\ UNCHANGED <<seen, fd, sock, hup, hupped, ended, bindRace, nameRace, crashes, hups>>

\* The spawned reload loop subscribes to SIGHUP, which would kill the process before.
Subscribe(p) ==
  /\ phase[p] = "up"
  /\ Go(p, "serving")
  /\ UNCHANGED <<seen, fd, sock, pidFile, hup, hupped, ended, bindRace, nameRace, crashes, hups>>

\* A client that reached the socket asks for shutdown: the select loop ends.
Shutdown(p) ==
  /\ sock = p /\ phase[p] \in Serving
  /\ Go(p, "stopping")
  /\ ended' = ended \cup {p}
  /\ UNCHANGED <<seen, fd, sock, pidFile, hup, hupped, bindRace, nameRace, crashes, hups>>

\* Mutant: the socket goes first, and then again.
RemoveSocketTwice(p) ==
  /\ phase[p] = "stopping"
  /\ Go(p, "unnamed")
  /\ sock' = Absent
  /\ UNCHANGED <<seen, fd, pidFile, hup, hupped, ended, bindRace, nameRace, crashes, hups>>

\* The provider is shut down, then whatever the two paths name is removed.
RemovePid(p) ==
  /\ phase[p] = "stopping"
  /\ Go(p, "unnamed")
  /\ pidFile' = Absent
  /\ UNCHANGED <<seen, fd, sock, hup, hupped, ended, bindRace, nameRace, crashes, hups>>

RemoveSocket(p) ==
  /\ phase[p] = "unnamed"
  /\ Go(p, "gone")
  /\ sock' = Absent
  /\ hupped' = hupped \ {p}
  /\ UNCHANGED <<seen, fd, pidFile, hup, ended, bindRace, nameRace, crashes, hups>>

-----------------------------------------------------------------------------
\* A process dies at any step and leaves its files.
Crash(p) ==
  /\ phase[p] \in Live /\ crashes < MaxCrashes
  /\ Go(p, "gone")
  /\ crashes' = crashes + 1
  /\ ended' = ended \cup {p}
  /\ hupped' = hupped \ {p}
  /\ UNCHANGED <<seen, fd, sock, pidFile, hup, bindRace, nameRace, hups>>

\* signal_config_reload reads a pid, and only then signals it.
ReadHupTarget ==
  /\ hup = Absent /\ hups < MaxHups
  /\ pidFile # Absent /\ pidFile.text # Absent
  /\ hup' = pidFile.text
  /\ hups' = hups + 1
  /\ UNCHANGED <<phase, seen, fd, sock, pidFile, hupped, ended, bindRace, nameRace, crashes>>

SendHup ==
  /\ hup # Absent
  /\ hup' = Absent
  /\ \/ /\ hup \in Proc /\ phase[hup] \in {"serving"} \cup Stopping
        /\ hupped' = hupped \cup {hup}
        /\ UNCHANGED <<phase, ended>>
     \/ /\ hup \in Proc /\ phase[hup] \in Live \ ({"serving"} \cup Stopping)
        /\ Go(hup, "gone")
        /\ ended' = ended \cup {hup}
        /\ UNCHANGED hupped
     \/ /\ hup \in Proc => phase[hup] \notin Live
        /\ UNCHANGED <<phase, hupped, ended>>
  /\ UNCHANGED <<seen, fd, sock, pidFile, bindRace, nameRace, crashes, hups>>

\* watch_config_reload_signals receives the signal and reloads.
TakeHup(p) ==
  /\ p \in hupped /\ phase[p] = "serving"
  /\ hupped' = hupped \ {p}
  /\ UNCHANGED <<phase, seen, fd, sock, pidFile, hup, ended, bindRace, nameRace, crashes, hups>>

ProcStep(p) ==
  \/ Load(p) \/ ReadPid(p) \/ ProbeOwner(p) \/ EvictSocket(p) \/ RemoveStalePid(p)
  \/ ProbeSocket(p) \/ UnlinkSocket(p) \/ Bind(p) \/ CreatePid(p) \/ WritePid(p)
  \/ Subscribe(p) \/ RemovePid(p) \/ RemoveSocket(p) \/ TakeHup(p)

ProcNext ==
  \/ \E p \in Proc : Start(p) \/ ProcStep(p) \/ Shutdown(p) \/ Crash(p)
  \/ ReadHupTarget \/ SendHup

ProcSpec == ProcInit /\ [][ProcNext]_procVars

-----------------------------------------------------------------------------
\* FR-50: as long as no two starts were ever between their first probe and their
\* bind at a time, at most one process accepts clients, whatever files a crash,
\* a shutdown in progress or a reused pid left in the way.
OneDaemon ==
  ~bindRace => \A p, q \in Proc : phase[p] \in Listening /\ phase[q] \in Listening => p = q

\* A daemon that serves is the one the socket path and the pid file name: clients,
\* reload-config and the next start find it.  The write of the pid file is part of
\* what may not overlap: a start that reads it half written removes it.
ServingIsNamed ==
  ~nameRace => \A p \in Proc :
    phase[p] \in Serving => sock = p /\ pidFile # Absent /\ pidFile.text = p
=============================================================================
