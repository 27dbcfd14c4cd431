---------------------------- MODULE Host_proofs ----------------------------
(***************************************************************************)
(* The processes of a machine and the files they find one another by, for  *)
(* any number of processes, crashes and signals: first of DaemonProcess    *)
(* alone, then of the whole Host, its model files, its configuration and   *)
(* the upgrade of its binaries included.                                   *)
(***************************************************************************)
EXTENDS Host, TLAPS

(***************************************************************************)
(* At most one process accepts clients, and the files name the daemon that *)
(* serves, as long as no two starts overlapped.                            *)
(***************************************************************************)

\* While no two starts overlapped: one process probes at a time; the socket path
\* names whoever listens; and a process removes a socket only when nobody listens.
BindSafe ==
  ~bindRace =>
    /\ \A p, q \in Proc : phase[p] \in Probing /\ phase[q] \in Probing => p = q
    /\ \A q \in Proc : phase[q] \in Listening => sock = q
    /\ \A p, q \in Proc : phase[p] \in {"evict", "unlink"} => phase[q] \notin Listening

\* While none overlapped another up to its pid file either: nobody probes while a
\* pid is being written; the file that is written is the one at the path; the pid
\* file names the daemon that serves, so that a probe which has read a pid has
\* read that one, and a process removes a pid file only when nobody serves.
NameSafe ==
  ~nameRace =>
    /\ \A p, q \in Proc : phase[p] \in Probing => phase[q] \notin Naming
    /\ \A q \in Proc : phase[q] = "write" => pidFile # Absent /\ pidFile.file = fd[q]
    /\ \A q \in Proc : phase[q] \in Serving => pidFile # Absent /\ pidFile.text = q
    /\ \A p, q \in Proc : phase[p] = "probe" /\ phase[q] \in Serving => seen[p] = q
    /\ \A p, q \in Proc : phase[p] \in {"evict", "unpid"} => phase[q] \notin Serving

StartInv == ProcTypeOK /\ (bindRace => nameRace) /\ BindSafe /\ NameSafe

USE ProcAssumption, BoundAssumption

\* The type invariant is inductive.
LEMMA TypeInit == ProcInit => ProcTypeOK
<1> SUFFICES ASSUME ProcInit PROVE ProcTypeOK
  OBVIOUS
<1>1. phase \in [Proc -> Phase]
  BY DEF ProcInit, Phase
<1>2. pidFile \in PidFiles \cup {Absent}
  BY DEF ProcInit, PidFiles
<1>3. crashes \in 0..MaxCrashes /\ hups \in 0..MaxHups
  BY DEF ProcInit
<1> QED
  BY <1>1, <1>2, <1>3 DEF ProcInit, ProcTypeOK

LEMMA TypeStep == ProcTypeOK /\ [ProcNext]_procVars => ProcTypeOK'
<1> SUFFICES ASSUME ProcTypeOK, [ProcNext]_procVars PROVE ProcTypeOK'
  OBVIOUS
<1> USE DEF ProcTypeOK, Phase, Live, Probing, Naming, Serving, Stopping, Listening, PidFiles, Go
<1>1. ASSUME NEW p \in Proc, Start(p) PROVE ProcTypeOK'
  BY <1>1 DEF Start
<1>2. ASSUME NEW p \in Proc, Load(p) PROVE ProcTypeOK'
  BY <1>2 DEF Load
<1>3. ASSUME NEW p \in Proc, ReadPid(p) PROVE ProcTypeOK'
  BY <1>3 DEF ReadPid
<1>4. ASSUME NEW p \in Proc, ProbeOwner(p) PROVE ProcTypeOK'
  BY <1>4 DEF ProbeOwner
<1>5. ASSUME NEW p \in Proc, EvictSocket(p) PROVE ProcTypeOK'
  BY <1>5 DEF EvictSocket
<1>6. ASSUME NEW p \in Proc, RemoveStalePid(p) PROVE ProcTypeOK'
  BY <1>6 DEF RemoveStalePid
<1>7. ASSUME NEW p \in Proc, ProbeSocket(p) PROVE ProcTypeOK'
  BY <1>7 DEF ProbeSocket
<1>8. ASSUME NEW p \in Proc, UnlinkSocket(p) PROVE ProcTypeOK'
  BY <1>8 DEF UnlinkSocket
<1>9. ASSUME NEW p \in Proc, Bind(p) PROVE ProcTypeOK'
  BY <1>9 DEF Bind
<1>10. ASSUME NEW p \in Proc, CreatePid(p) PROVE ProcTypeOK'
  BY <1>10 DEF CreatePid
<1>11. ASSUME NEW p \in Proc, WritePid(p) PROVE ProcTypeOK'
  BY <1>11 DEF WritePid
<1>12. ASSUME NEW p \in Proc, Subscribe(p) PROVE ProcTypeOK'
  BY <1>12 DEF Subscribe
<1>13. ASSUME NEW p \in Proc, Shutdown(p) PROVE ProcTypeOK'
  BY <1>13 DEF Shutdown
<1>14. ASSUME NEW p \in Proc, RemovePid(p) PROVE ProcTypeOK'
  BY <1>14 DEF RemovePid
<1>15. ASSUME NEW p \in Proc, RemoveSocket(p) PROVE ProcTypeOK'
  BY <1>15 DEF RemoveSocket
<1>16. ASSUME NEW p \in Proc, Crash(p) PROVE ProcTypeOK'
  BY <1>16 DEF Crash
<1>17. ASSUME ReadHupTarget PROVE ProcTypeOK'
  BY <1>17 DEF ReadHupTarget
<1>18. ASSUME SendHup PROVE ProcTypeOK'
  BY <1>18 DEF SendHup
<1>19. ASSUME NEW p \in Proc, TakeHup(p) PROVE ProcTypeOK'
  BY <1>19 DEF TakeHup
<1>20. CASE UNCHANGED procVars
  BY <1>20 DEF procVars
<1> QED
  BY <1>1, <1>2, <1>3, <1>4, <1>5, <1>6, <1>7, <1>8, <1>9, <1>10, <1>11, <1>12, <1>13,
     <1>14, <1>15, <1>16, <1>17, <1>18, <1>19, <1>20 DEF ProcNext, ProcStep

-----------------------------------------------------------------------------
\* No process runs at first.
LEMMA StartInvInit == ProcInit => StartInv
<1> SUFFICES ASSUME ProcInit PROVE StartInv
  OBVIOUS
<1>1. \A p \in Proc : phase[p] = "off"
  BY DEF ProcInit
<1>2. BindSafe /\ NameSafe
  BY <1>1 DEF BindSafe, NameSafe, Probing, Listening, Naming, Serving, Stopping
<1> QED
  BY <1>2, TypeInit DEF StartInv, ProcInit

\* The strengthened invariant is inductive.  The steps that matter are Load, which
\* notes the overlap it begins, the probes, which remove a file only after they saw
\* that its owner does not listen, and Bind and WritePid, which name the process.
LEMMA StartInvStep == StartInv /\ [ProcNext]_procVars => StartInv'
<1> SUFFICES ASSUME StartInv, [ProcNext]_procVars PROVE StartInv'
  OBVIOUS
<1> USE DEF StartInv, Probing, Naming, Serving, Stopping, Listening, Live, Go
<1>t. ProcTypeOK /\ ProcTypeOK'
  BY TypeStep
<1>p. phase \in [Proc -> Phase] /\ seen \in [Proc -> Proc \cup {Boot, Absent}] /\ fd \in [Proc -> Proc \cup {Boot, Absent}]
  BY <1>t DEF ProcTypeOK
<1> USE <1>p
<1>1. ASSUME NEW p \in Proc, Start(p) PROVE (bindRace' => nameRace') /\ BindSafe' /\ NameSafe'
  <2>1. (bindRace' => nameRace') /\ BindSafe'
    BY <1>1 DEF Start, BindSafe
  <2>2. NameSafe'
    BY <1>1 DEF Start, BindSafe, NameSafe
  <2> QED
    BY <2>1, <2>2
<1>2. ASSUME NEW p \in Proc, Load(p) PROVE (bindRace' => nameRace') /\ BindSafe' /\ NameSafe'
  <2>1. CASE phase'[p] = "gone"
    <3>1. bindRace' = bindRace /\ nameRace' = nameRace
      BY <1>2, <2>1 DEF Load
    <3>2. \A q \in Proc : phase'[q] = phase[q] \/ phase'[q] = "gone"
      BY <1>2, <2>1 DEF Load
    <3> QED
      BY <1>2, <3>1, <3>2 DEF Load, BindSafe, NameSafe
  <2>2. CASE phase'[p] = "single"
    <3>1. bindRace' <=> bindRace \/ \E q \in Proc : phase[q] \in Probing
      BY <1>2, <1>t, <2>2 DEF Load, ProcTypeOK
    <3>2. nameRace' <=> nameRace \/ \E q \in Proc : phase[q] \in Probing \cup Naming
      BY <1>2, <1>t, <2>2 DEF Load, ProcTypeOK
    <3>3. phase' = [phase EXCEPT ![p] = "single"] /\ UNCHANGED <<seen, fd, sock, pidFile>>
      BY <1>2, <2>2 DEF Load
    <3>4. BindSafe'
      BY <3>1, <3>3 DEF BindSafe
    <3>5. NameSafe'
      BY <3>2, <3>3 DEF NameSafe
    <3> QED
      BY <3>1, <3>2, <3>4, <3>5
  <2> QED
    BY <1>2, <2>1, <2>2 DEF Load
<1>3. ASSUME NEW p \in Proc, ReadPid(p) PROVE (bindRace' => nameRace') /\ BindSafe' /\ NameSafe'
  <2>1. (bindRace' => nameRace') /\ BindSafe'
    BY <1>3 DEF ReadPid, BindSafe
  <2>2. NameSafe'
    BY <1>3 DEF ReadPid, BindSafe, NameSafe
  <2> QED
    BY <2>1, <2>2
<1>4. ASSUME NEW p \in Proc, ProbeOwner(p) PROVE (bindRace' => nameRace') /\ BindSafe' /\ NameSafe'
  <2>1. (bindRace' => nameRace') /\ BindSafe'
    BY <1>4 DEF ProbeOwner, BindSafe, Answers
  <2>2. NameSafe'
    <3>1. \A q \in Proc : bindRace \/ phase[q] \notin Listening \/ sock = q
      BY DEF BindSafe
    <3>2. ~nameRace => phase'[p] \notin {"evict", "unpid"} \/ \A q \in Proc : phase[q] \notin Serving
      <4> SUFFICES ASSUME ~nameRace, NEW q \in Proc, phase[q] \in Serving
                   PROVE phase'[p] \notin {"evict", "unpid"}
        OBVIOUS
      <4>1. seen[p] = q /\ sock = q /\ sock # Absent
        BY <1>4, <3>1 DEF ProbeOwner, NameSafe
      <4>2. Answers /\ Alive(seen[p]) = {TRUE}
        BY <4>1 DEF Answers, Alive
      <4> QED
        BY <1>4, <4>1, <4>2 DEF ProbeOwner
    <3>3. phase'[p] \in {"unpid", "gone", "evict"}
      BY <1>4 DEF ProbeOwner
    <3>4. /\ \A q \in Proc \ {p} : phase'[q] = phase[q]
          /\ phase[p] = "probe"
          /\ UNCHANGED <<seen, fd, sock, pidFile, bindRace, nameRace>>
      BY <1>4 DEF ProbeOwner
    <3> QED
      BY <3>2, <3>3, <3>4 DEF NameSafe
  <2> QED
    BY <2>1, <2>2
<1>5. ASSUME NEW p \in Proc, EvictSocket(p) PROVE (bindRace' => nameRace') /\ BindSafe' /\ NameSafe'
  <2>1. (bindRace' => nameRace') /\ BindSafe'
    BY <1>5 DEF EvictSocket, BindSafe
  <2>2. NameSafe'
    BY <1>5 DEF EvictSocket, BindSafe, NameSafe
  <2> QED
    BY <2>1, <2>2
<1>6. ASSUME NEW p \in Proc, RemoveStalePid(p) PROVE (bindRace' => nameRace') /\ BindSafe' /\ NameSafe'
  <2>1. (bindRace' => nameRace') /\ BindSafe'
    BY <1>6 DEF RemoveStalePid, BindSafe
  <2>2. NameSafe'
    BY <1>6 DEF RemoveStalePid, BindSafe, NameSafe
  <2> QED
    BY <2>1, <2>2
<1>7. ASSUME NEW p \in Proc, ProbeSocket(p) PROVE (bindRace' => nameRace') /\ BindSafe' /\ NameSafe'
  <2>1. (bindRace' => nameRace') /\ BindSafe'
    BY <1>7 DEF ProbeSocket, BindSafe, Answers
  <2>2. NameSafe'
    BY <1>7 DEF ProbeSocket, BindSafe, NameSafe, Answers, Alive
  <2> QED
    BY <2>1, <2>2
<1>8. ASSUME NEW p \in Proc, UnlinkSocket(p) PROVE (bindRace' => nameRace') /\ BindSafe' /\ NameSafe'
  <2>1. (bindRace' => nameRace') /\ BindSafe'
    BY <1>8 DEF UnlinkSocket, BindSafe
  <2>2. NameSafe'
    BY <1>8 DEF UnlinkSocket, BindSafe, NameSafe
  <2> QED
    BY <2>1, <2>2
<1>9. ASSUME NEW p \in Proc, Bind(p) PROVE (bindRace' => nameRace') /\ BindSafe' /\ NameSafe'
  <2>1. (bindRace' => nameRace') /\ BindSafe'
    BY <1>9 DEF Bind, BindSafe
  <2>2. NameSafe'
    BY <1>9 DEF Bind, BindSafe, NameSafe
  <2> QED
    BY <2>1, <2>2
<1>10. ASSUME NEW p \in Proc, CreatePid(p) PROVE (bindRace' => nameRace') /\ BindSafe' /\ NameSafe'
  <2>1. (bindRace' => nameRace') /\ BindSafe'
    BY <1>10 DEF CreatePid, BindSafe
  <2>2. NameSafe'
    <3>1. /\ phase[p] = "create" /\ phase' = [phase EXCEPT ![p] = "write"]
          /\ pidFile'.file = fd'[p]
          /\ UNCHANGED <<seen, sock, bindRace, nameRace>>
      BY <1>10 DEF CreatePid
    <3>2. pidFile' # Absent
      <4>1. pidFile' \in PidFiles
        BY <1>10, <1>t DEF CreatePid, ProcTypeOK, PidFiles
      <4> QED
        BY <4>1, AbsentAssumption
    <3>3. ~nameRace => \A q \in Proc \ {p} : phase[q] \notin Listening
      BY <3>1 DEF BindSafe
    <3> QED
      BY <3>1, <3>2, <3>3 DEF NameSafe
  <2> QED
    BY <2>1, <2>2
<1>11. ASSUME NEW p \in Proc, WritePid(p) PROVE (bindRace' => nameRace') /\ BindSafe' /\ NameSafe'
  <2>1. (bindRace' => nameRace') /\ BindSafe'
    BY <1>11 DEF WritePid, BindSafe
  <2>2. NameSafe'
    <3>1. /\ phase[p] = "write" /\ phase' = [phase EXCEPT ![p] = "up"]
          /\ UNCHANGED <<seen, fd, sock, bindRace, nameRace>>
      BY <1>11 DEF WritePid
    <3>2. ~nameRace => pidFile' # Absent /\ pidFile'.text = p
      <4>1. ~nameRace => pidFile \in PidFiles /\ pidFile.file = fd[p] /\ pidFile # Absent
        BY <1>t, <3>1 DEF NameSafe, ProcTypeOK
      <4>2. ~nameRace => pidFile' = [pidFile EXCEPT !.text = p]
        BY <1>11, <4>1 DEF WritePid
      <4>3. ~nameRace => pidFile' \in PidFiles /\ pidFile'.text = p
        BY <4>1, <4>2 DEF PidFiles
      <4> QED
        BY <4>3, AbsentAssumption
    <3>3. ~nameRace => \A q \in Proc \ {p} : phase[q] \notin Listening \cup Probing
      BY <3>1 DEF BindSafe, NameSafe
    <3> QED
      BY <3>1, <3>2, <3>3 DEF NameSafe
  <2> QED
    BY <2>1, <2>2
<1>12. ASSUME NEW p \in Proc, Subscribe(p) PROVE (bindRace' => nameRace') /\ BindSafe' /\ NameSafe'
  <2>1. (bindRace' => nameRace') /\ BindSafe'
    BY <1>12 DEF Subscribe, BindSafe
  <2>2. NameSafe'
    BY <1>12 DEF Subscribe, BindSafe, NameSafe
  <2> QED
    BY <2>1, <2>2
<1>13. ASSUME NEW p \in Proc, Shutdown(p) PROVE (bindRace' => nameRace') /\ BindSafe' /\ NameSafe'
  <2>1. (bindRace' => nameRace') /\ BindSafe'
    BY <1>13 DEF Shutdown, BindSafe
  <2>2. NameSafe'
    BY <1>13 DEF Shutdown, BindSafe, NameSafe
  <2> QED
    BY <2>1, <2>2
<1>14. ASSUME NEW p \in Proc, RemovePid(p) PROVE (bindRace' => nameRace') /\ BindSafe' /\ NameSafe'
  <2>1. (bindRace' => nameRace') /\ BindSafe'
    BY <1>14 DEF RemovePid, BindSafe
  <2>2. NameSafe'
    BY <1>14 DEF RemovePid, BindSafe, NameSafe
  <2> QED
    BY <2>1, <2>2
<1>15. ASSUME NEW p \in Proc, RemoveSocket(p) PROVE (bindRace' => nameRace') /\ BindSafe' /\ NameSafe'
  <2>1. (bindRace' => nameRace') /\ BindSafe'
    BY <1>15 DEF RemoveSocket, BindSafe
  <2>2. NameSafe'
    BY <1>15 DEF RemoveSocket, BindSafe, NameSafe
  <2> QED
    BY <2>1, <2>2
<1>16. ASSUME NEW p \in Proc, Crash(p) PROVE (bindRace' => nameRace') /\ BindSafe' /\ NameSafe'
  <2>1. (bindRace' => nameRace') /\ BindSafe'
    BY <1>16 DEF Crash, BindSafe
  <2>2. NameSafe'
    BY <1>16 DEF Crash, BindSafe, NameSafe
  <2> QED
    BY <2>1, <2>2
<1>17. ASSUME ReadHupTarget PROVE (bindRace' => nameRace') /\ BindSafe' /\ NameSafe'
  <2>1. (bindRace' => nameRace') /\ BindSafe'
    BY <1>17 DEF ReadHupTarget, BindSafe
  <2>2. NameSafe'
    BY <1>17 DEF ReadHupTarget, BindSafe, NameSafe
  <2> QED
    BY <2>1, <2>2
<1>18. ASSUME SendHup PROVE (bindRace' => nameRace') /\ BindSafe' /\ NameSafe'
  <2>1. (bindRace' => nameRace') /\ BindSafe'
    BY <1>18 DEF SendHup, BindSafe
  <2>2. NameSafe'
    BY <1>18 DEF SendHup, BindSafe, NameSafe
  <2> QED
    BY <2>1, <2>2
<1>19. ASSUME NEW p \in Proc, TakeHup(p) PROVE (bindRace' => nameRace') /\ BindSafe' /\ NameSafe'
  <2>1. (bindRace' => nameRace') /\ BindSafe'
    BY <1>19 DEF TakeHup, BindSafe
  <2>2. NameSafe'
    BY <1>19 DEF TakeHup, BindSafe, NameSafe
  <2> QED
    BY <2>1, <2>2
<1>20. ASSUME UNCHANGED procVars PROVE (bindRace' => nameRace') /\ BindSafe' /\ NameSafe'
  BY <1>20 DEF procVars, BindSafe, NameSafe
<1> QED
  BY <1>t, <1>1, <1>2, <1>3, <1>4, <1>5, <1>6, <1>7, <1>8, <1>9, <1>10, <1>11, <1>12, <1>13, <1>14, <1>15, <1>16, <1>17, <1>18, <1>19, <1>20 DEF ProcNext, ProcStep

\* Every variable keeps its type, whatever the processes do.
THEOREM ProcTypeCorrect == ProcSpec => []ProcTypeOK
  BY TypeInit, TypeStep, PTL DEF ProcSpec

LEMMA StartInvariant == ProcSpec => []StartInv
  BY StartInvInit, StartInvStep, PTL DEF ProcSpec

\* FR-50: unless two starts overlapped between probe and bind, at most one process
\* accepts clients.
THEOREM OneDaemonCorrect == ProcSpec => []OneDaemon
<1>1. StartInv => OneDaemon
  <2> SUFFICES ASSUME StartInv, ~bindRace, NEW p \in Proc, NEW q \in Proc,
                      phase[p] \in Listening, phase[q] \in Listening
               PROVE p = q
    BY DEF OneDaemon
  <2> QED
    BY DEF StartInv, BindSafe
<1> QED
  BY <1>1, StartInvariant, PTL

\* Unless two starts overlapped up to the pid file, the daemon that serves is the
\* one the socket path and the pid file name.
THEOREM ServingIsNamedCorrect == ProcSpec => []ServingIsNamed
<1>1. StartInv => ServingIsNamed
  <2> SUFFICES ASSUME StartInv, ~nameRace, NEW p \in Proc, phase[p] \in Serving
               PROVE sock = p /\ pidFile # Absent /\ pidFile.text = p
    BY DEF ServingIsNamed
  <2> QED
    BY DEF StartInv, BindSafe, NameSafe, Listening
<1> QED
  BY <1>1, StartInvariant, PTL
-----------------------------------------------------------------------------
(***************************************************************************)
(* The host does to the daemon's files only what DaemonProcess allows: what *)
(* is proved of the processes holds while they download their model files, *)
(* reload their configuration and are stopped by an upgrade.               *)
(***************************************************************************)

\* An upgrade stops whom the socket path names, or nobody.
LEMMA AsksOrNot == HostStopDaemon => (sock \in Proc /\ Shutdown(sock)) \/ UNCHANGED procVars
<1> SUFFICES ASSUME HostStopDaemon PROVE (sock \in Proc /\ Shutdown(sock)) \/ UNCHANGED procVars
  OBVIOUS
<1>1. CASE \E p \in Proc : sock = p /\ phase[p] \in Serving
  BY <1>1 DEF HostStopDaemon
<1>2. CASE ~\E p \in Proc : sock = p /\ phase[p] \in Serving
  BY <1>2 DEF HostStopDaemon
<1> QED
  BY <1>1, <1>2

\* Each action of the host is a step of one process, or leaves them all alone.
LEMMA HostStepIsProcStep == [HostNext]_hostVars => [ProcNext]_procVars
<1> SUFFICES ASSUME [HostNext]_hostVars PROVE ProcNext \/ UNCHANGED procVars
  OBVIOUS
<1>1. ASSUME NEW p \in Proc, HostStart(p) PROVE ProcNext
  BY <1>1 DEF HostStart, ProcNext
<1>2. ASSUME NEW p \in Proc, HostAssets(p) PROVE UNCHANGED procVars
  BY <1>2 DEF HostAssets
<1>3. ASSUME NEW p \in Proc, HostLoad(p) PROVE ProcNext
  BY <1>3 DEF HostLoad, ProcNext, ProcStep
<1>4. ASSUME NEW p \in Proc, HostProbe(p) PROVE ProcNext
  BY <1>4 DEF HostProbe, ProcNext, ProcStep
<1>5. ASSUME NEW p \in Proc, HostShutdown(p) PROVE ProcNext
  BY <1>5 DEF HostShutdown, ProcNext
<1>6. ASSUME NEW p \in Proc, HostCrash(p) PROVE ProcNext
  BY <1>6 DEF HostCrash, ProcNext
<1>7. ASSUME NEW p \in Proc, HostTakeHup(p) PROVE ProcNext
  BY <1>7 DEF HostTakeHup, ProcNext, ProcStep
<1>8. ASSUME NEW p \in Proc, HostReload(p) PROVE UNCHANGED procVars
  BY <1>8 DEF HostReload
<1>9. HostReadHupTarget \/ HostSendHup => ProcNext
  BY DEF HostReadHupTarget, HostSendHup, ProcNext
<1>10. HostEditConfig \/ HostUpgrade => UNCHANGED procVars
  BY DEF HostEditConfig, HostUpgrade
<1>11. ASSUME HostStopDaemon PROVE ProcNext \/ UNCHANGED procVars
  BY <1>11, AsksOrNot DEF ProcNext
<1>12. UNCHANGED hostVars => UNCHANGED procVars
  BY DEF hostVars
<1> QED
  BY <1>1, <1>2, <1>3, <1>4, <1>5, <1>6, <1>7, <1>8, <1>9, <1>10, <1>11, <1>12 DEF HostNext

\* FR-50 on the whole machine: downloads, reloads, upgrades and signals included, the
\* processes behave as DaemonProcess says.
THEOREM HostRefinesProcesses == HostSpec => ProcSpec
<1>1. HostInit => ProcInit
  BY DEF HostInit
<1> QED
  BY <1>1, HostStepIsProcStep, PTL DEF HostSpec, ProcSpec

\* So at most one daemon accepts clients, and a daemon that serves is the one its
\* files name, unless two starts overlapped.
THEOREM HostDaemonIsOneAndNamed == HostSpec => [](OneDaemon /\ ServingIsNamed)
  BY HostRefinesProcesses, OneDaemonCorrect, ServingIsNamedCorrect, PTL
-----------------------------------------------------------------------------
(***************************************************************************)
(* The model files, the configuration and the upgrade: one invariant each, *)
(* inductive whatever the other parts do, and two that link them.          *)
(***************************************************************************)

\* The file of a is there, with the pinned content where one is pinned.
Ready(a) == dest[a] # NoFile /\ (a \in Pinned => data[dest[a]] = Good)

\* p is done with the asset at position i, and not at its end.
Passed(p, i) ==
  /\ astep[p] # "failed"
  /\ \/ i < current[p]
     \/ i = current[p] /\ astep[p] = "next"

\* The position of a starter fits what it does there.
Placed ==
  \A p \in Starter :
    /\ astep[p] \in {"ensure", "next"} \cup Downloading => current[p] \in DOMAIN Asset
    /\ astep[p] = "idle" => current[p] = 1
    /\ astep[p] \in {"save", "done"} => current[p] = Len(Asset) + 1

\* A partial file and an asset's own file are two files, both of that asset, ...
Apart ==
  \A a \in Assets :
    /\ partial[a] # NoFile => partial[a] \in File /\ partial[a][2] = a /\ partial[a] # dest[a]
    /\ dest[a] # NoFile => dest[a][2] = a

\* ... and neither is one that a process creates in a download it has not opened:
\* this is why a file at a path is never opened again under another name.
Unmade ==
  \A p \in Starter : \A i \in DOMAIN Asset :
    \/ i > current[p]
    \/ i = current[p] /\ astep[p] \in {"idle", "ensure", "open"}
    =>
      <<p, Asset[i]>> \notin {partial[Asset[i]], dest[Asset[i]]}

\* While no asset was downloaded twice at a time: one download of an asset; ...
Alone ==
  \A p, q \in Starter :
    astep[p] \in Downloading /\ astep[q] \in Downloading /\ Cur(p) = Cur(q) => p = q

\* ... it finds in its partial file what it wrote, and verifies what the server sent;
\* and it only downloads what is missing or wrong.
Writes(p) ==
  LET a == Cur(p) IN
  /\ astep[p] \in {"first", "second", "rename"} =>
       /\ partial[a] # NoFile /\ handle[p] = partial[a]
       /\ data[handle[p]] = CASE astep[p] = "first" -> <<"hole", "hole">>
                              [] astep[p] = "second" -> <<served[p][1], "hole">>
                              [] OTHER -> served[p]
  /\ astep[p] = "verify" => dest[a] # NoFile /\ data[dest[a]] = served[p]
  /\ astep[p] \in {"open", "first", "second", "rename"} => ~Ready(a)

\* So the files are whole, and those a process has passed stay ready.
Sound ==
  /\ Alone
  /\ \A p \in Starter : Writes(p)
  /\ \A a \in Assets : dest[a] # NoFile => data[dest[a]] \in {Good, Bad}
  /\ \A p \in Starter : \A i \in DOMAIN Asset : Passed(p, i) /\ Asset[i] \in Required => Ready(Asset[i])

\* The pinned hash is recorded, on disk or in a copy, only of a file that is there: a
\* size and a recorded hash may be trusted.
Vouched ==
  \A a \in Assets \cap Pinned :
    (manifest[a] = Good \/ \E p \in Starter : notes[p][a] = Good) => Ready(a)

\* Two processes that download an asset at a time write into one another's file:
\* what is said of the contents is said of the runs without that.
AssetInv == AssetTypeOK /\ Placed /\ Apart /\ Unmade /\ (~shared => Sound /\ Vouched)

\* What the provider, the caches and the configuration of d were taken from, step by
\* step of its reload.
Settings(d) ==
  /\ signalled[d] <= edits
  /\ running[d] = Unread => rstep[d] = "idle"
  /\ running[d] # Unread => booted[d] # Unread /\ running[d].engine = booted[d].engine
  /\ rstep[d] \in {"provider", "caches", "store"} =>
       next[d] # Unread /\ next[d].engine = booted[d].engine
  /\ caches[d] = IF rstep[d] = "store" THEN next[d] ELSE running[d]
  /\ rstep[d] \in {"caches", "store"} => provider[d] = next[d]
  /\ rstep[d] \in {"idle", "load", "provider"} /\ d \notin aborted => provider[d] = running[d]

\* The last edit reached d, once its last signal did; what a reload took from the file
\* is what the file says as long as no later edit waits for its signal.
CaughtUp(d) ==
  signalled[d] = edits /\ d \notin hupped /\ phase[d] # "gone" /\ running[d] # Unread /\ Valid(file) =>
    /\ rstep[d] = "idle" => d \in aborted \/ running[d] = Merge(booted[d], file)
    /\ rstep[d] \in {"provider", "caches", "store"} => next[d] = Merge(running[d], file)

\* The configurations of all the daemons.
ReloadInv == ConfigTypeOK /\ \A d \in Proc : Settings(d) /\ CaughtUp(d)

\* A process that probes or listens has its assets and its configuration.
Linked ==
  \A p \in Proc :
    /\ phase[p] = "off" => astep[p] = "idle" /\ running[p] = Unread
    /\ phase[p] \in Probing \cup Listening => astep[p] = "done" /\ running[p] # Unread

\* What is installed is what was downloaded and checked, part by part, and the files
\* are half replaced from the first part to the receipt.
Checked ==
  /\ ~AllowUnchecked => /\ \A part \in Part : installed[part] # "damaged"
                        /\ ustep \in UpgradeSteps \ {"idle", "fetch", "check"} => archive # "damaged"
  /\ ustep \in {"stop", "place", "smoke", "receipt"} \cup Part => archive # "models"
  /\ ustep \in {"place", "smoke", "receipt"} \cup (Part \ {"termlm"}) => half
  /\ ~half => \A part \in Part : installed[part] \in {receipt, "damaged"}
  /\ ustep \in {"termlm-core", "termlm-client", "plugins", "place", "smoke", "receipt"} => installed["termlm"] = archive
  /\ ustep \in {"termlm-client", "plugins", "place", "smoke", "receipt"} => installed["termlm-core"] = archive
  /\ ustep \in {"plugins", "place", "smoke", "receipt"} => installed["termlm-client"] = archive
  /\ ustep \in {"smoke", "receipt"} => installed["plugins"] = archive

\* A process an upgrade asked to stop, or had no need to, runs the installed binary, and
\* there is none while the binary is about to be replaced.
Retired ==
  ~bindRace => \A p \in Proc \ late : phase[p] \in Live \ Stopping =>
    ustep \notin {"termlm", "termlm-core"} /\ version[p] = installed["termlm-core"]

\* Retired is inductive only together with BindSafe: the shutdown reaches the daemon
\* the socket path names.
HostInv == HostTypeOK /\ AssetInv /\ ReloadInv /\ Linked /\ Checked /\ Retired

\* A chunk of a content is replaced, ...
LEMMA ChunkPut ==
  ASSUME NEW t \in Chunk \X Chunk, NEW c \in Chunk
  PROVE  /\ [t EXCEPT ![1] = c] = <<c, t[2]>>
         /\ [t EXCEPT ![2] = c] = <<t[1], c>>
  OBVIOUS

\* ... and so is one of the content of a file.
LEMMA PutData ==
  ASSUME data \in [File -> Chunk \X Chunk], NEW f \in File, NEW c \in Chunk
  PROVE  /\ [data EXCEPT ![f][1] = c] = [data EXCEPT ![f] = <<c, data[f][2]>>]
         /\ [data EXCEPT ![f][2] = c] = [data EXCEPT ![f] = <<data[f][1], c>>]
<1>1. data[f] \in Chunk \X Chunk
  OBVIOUS
<1>2. /\ [data[f] EXCEPT ![1] = c] = <<c, data[f][2]>>
      /\ [data[f] EXCEPT ![2] = c] = <<data[f][1], c>>
  BY <1>1, ChunkPut
<1>3. /\ [data EXCEPT ![f][1] = c] = [data EXCEPT ![f] = [data[f] EXCEPT ![1] = c]]
      /\ [data EXCEPT ![f][2] = c] = [data EXCEPT ![f] = [data[f] EXCEPT ![2] = c]]
  BY Zenon
<1> QED
  BY <1>2, <1>3

\* What a server sends is a content, and the right one is not the wrong one.
LEMMA IsGood == Good \in Chunk \X Chunk /\ Bad \in Chunk \X Chunk /\ Good # Bad
<1>1. Good \in Chunk \X Chunk /\ Bad \in Chunk \X Chunk
  BY DEF Good, Bad, Chunk
<1>2. Good[1] = "good" /\ Bad[1] = "bad"
  BY DEF Good, Bad
<1> QED
  BY <1>1, <1>2

\* A file is named by who created it and for what.
LEMMA FileIs == ASSUME NEW f \in File PROVE f[1] \in Starter \cup {"old"} /\ f[2] \in Assets /\ f = <<f[1], f[2]>>
  BY DEF File

\* A function takes a value of its range.
LEMMA PutTyped ==
  ASSUME NEW S, NEW T, NEW f \in [S -> T], NEW x, NEW v \in T
  PROVE  [f EXCEPT ![x] = v] \in [S -> T]
  OBVIOUS

\* A recorded hash is a content.
LEMMA RecordTyped ==
  ASSUME AssetTypeOK, NEW p \in Starter, Cur(p) \in Assets, NEW hash \in Chunk \X Chunk, Record(p, hash)
  PROVE  /\ notes' \in [Starter -> [Assets -> (Chunk \X Chunk) \cup {NoFile}]]
         /\ changed' \subseteq Starter
<1>1. PICK T : T = (Chunk \X Chunk) \cup {NoFile}
  OBVIOUS
<1>2. notes \in [Starter -> [Assets -> T]] /\ changed \subseteq Starter /\ hash \in T
  BY <1>1 DEF AssetTypeOK
<1>3. notes' = [notes EXCEPT ![p] = [notes[p] EXCEPT ![Cur(p)] = hash]]
  BY <1>2 DEF Record
<1>4. [notes[p] EXCEPT ![Cur(p)] = hash] \in [Assets -> T]
  BY <1>2
<1>5. notes' \in [Starter -> [Assets -> T]]
  BY <1>2, <1>3, <1>4
<1> QED
  BY <1>1, <1>2, <1>5 DEF Record

\* The assets stand at the positions of a list.
LEMMA AssetOrder ==
  /\ Len(Asset) \in Nat /\ DOMAIN Asset = 1..Len(Asset)
  /\ \A i \in DOMAIN Asset : Asset[i] \in Assets
  /\ Asset = <<>> <=> Len(Asset) = 0
  BY AssetAssumption DEF Assets

\* At first every process is before its first asset, ...
LEMMA AssetInitTyped == AssetInit => AssetTypeOK /\ Placed
<1> SUFFICES ASSUME AssetInit PROVE AssetTypeOK /\ Placed
  OBVIOUS
<1>1. PICK present \in SUBSET Assets, content \in {Good, Bad} :
        /\ dest = [a \in Assets |-> IF a \in present THEN <<"old", a>> ELSE NoFile]
        /\ data = [f \in File |-> IF f[1] = "old" THEN content ELSE <<"hole", "hole">>]
  BY DEF AssetInit
<1>2. dest \in [Assets -> File \cup {NoFile}]
  BY <1>1 DEF File
<1>3. data \in [File -> Chunk \X Chunk]
  <2>1. content \in Chunk \X Chunk /\ <<"hole", "hole">> \in Chunk \X Chunk
    BY IsGood DEF Chunk
  <2> QED
    BY <1>1, <2>1
<1>4. current \in [Starter -> 1..Len(Asset) + 1]
  BY AssetOrder DEF AssetInit
<1>5. Placed
  BY DEF AssetInit, Placed, Downloading
<1> QED
  BY <1>2, <1>3, <1>4, <1>5 DEF AssetInit, AssetTypeOK

\* ... and no step leaves the types or the list.
LEMMA AssetTypes ==
  ASSUME AssetTypeOK, Placed, NEW p \in Starter,
         BeginAssets(p) \/ AssetStep(p) \/ AbandonAssets(p)
  PROVE  AssetTypeOK' /\ Placed'
<1> USE AssetOrder
<1> DEFINE Steps == {"idle", "ensure", "next", "save", "done", "failed"} \cup Downloading
<1>1. /\ astep \in [Starter -> Steps] /\ current \in [Starter -> 1..Len(Asset) + 1]
      /\ notes \in [Starter -> [Assets -> (Chunk \X Chunk) \cup {NoFile}]]
      /\ changed \subseteq Starter /\ served \in [Starter -> {Good, Bad}]
      /\ handle \in [Starter -> File \cup {NoFile}]
      /\ manifest \in [Assets -> (Chunk \X Chunk) \cup {NoFile}]
      /\ partial \in [Assets -> File \cup {NoFile}] /\ dest \in [Assets -> File \cup {NoFile}]
      /\ data \in [File -> Chunk \X Chunk] /\ shared \in BOOLEAN
  BY DEF AssetTypeOK
<1>2. astep[p] \in {"ensure", "next"} \cup Downloading => current[p] \in DOMAIN Asset /\ Cur(p) \in Assets
  BY DEF Placed, Cur
<1>3. CASE BeginAssets(p)
  BY <1>1, <1>3 DEF BeginAssets, Step, AssetTypeOK, Placed, Downloading
<1>4. CASE EnsureMissing(p)
  BY <1>1, <1>2, <1>4 DEF EnsureMissing, Download, AssetError, Step, AssetTypeOK, Placed, Downloading
<1>5. CASE EnsurePresent(p)
  <2>1. /\ astep[p] = "ensure" /\ Cur(p) \in Assets /\ dest[Cur(p)] \in File
        /\ UNCHANGED <<current, served, handle, manifest, partial, dest, data>>
    BY <1>1, <1>2, <1>5 DEF EnsurePresent
  <2>2. data[dest[Cur(p)]] \in Chunk \X Chunk
    BY <1>1, <2>1
  <2>3. \/ AssetError(p) /\ UNCHANGED <<notes, changed, shared>>
        \/ Step(p, "next") /\ UNCHANGED <<notes, changed, shared>>
        \/ Download(p)
        \/ Step(p, "next") /\ Record(p, data[dest[Cur(p)]]) /\ UNCHANGED shared
    BY <1>5 DEF EnsurePresent
  <2>4. \E to \in {"next", "failed", "open"} : Step(p, to)
    BY <2>3 DEF AssetError, Download
  <2>5. Placed' /\ astep' \in [Starter -> Steps]
    BY <1>1, <1>2, <2>1, <2>4 DEF Step, Placed, Downloading
  <2>6. /\ notes' \in [Starter -> [Assets -> (Chunk \X Chunk) \cup {NoFile}]]
        /\ changed' \subseteq Starter /\ shared' \in BOOLEAN
    <3>1. CASE \E h \in Chunk \X Chunk : Record(p, h) /\ UNCHANGED shared
      BY <1>1, <2>1, <3>1, RecordTyped
    <3>2. CASE UNCHANGED <<notes, changed>>
      BY <1>1, <2>3, <3>2 DEF Download
    <3> QED
      BY <2>2, <2>3, <3>1, <3>2 DEF Download
  <2> QED
    BY <1>1, <2>1, <2>5, <2>6 DEF AssetTypeOK
<1>6. CASE OpenPartial(p)
  <2>1. /\ astep[p] = "open" /\ Cur(p) \in Assets
        /\ UNCHANGED <<current, notes, changed, manifest, dest, shared>>
    BY <1>2, <1>6 DEF OpenPartial, Downloading
  <2>2. PICK f : f = IF partial[Cur(p)] = NoFile THEN <<p, Cur(p)>> ELSE partial[Cur(p)]
    OBVIOUS
  <2>3. f \in File
    BY <1>1, <2>1, <2>2 DEF File
  <2>4. \/ AssetError(p) /\ UNCHANGED <<served, handle, partial, data>>
        \/ /\ Step(p, "first")
           /\ \E sent \in {Good, Bad} : served' = [served EXCEPT ![p] = sent]
           /\ partial' = [partial EXCEPT ![Cur(p)] = f]
           /\ handle' = [handle EXCEPT ![p] = f]
           /\ data' = [data EXCEPT ![f] = <<"hole", "hole">>]
    BY <1>6, <2>2 DEF OpenPartial
  <2>5. \E to \in {"next", "failed", "first"} : Step(p, to)
    BY <2>4 DEF AssetError
  <2>6. Placed' /\ astep' \in [Starter -> Steps]
    BY <1>1, <1>2, <2>1, <2>5 DEF Step, Placed, Downloading
  <2>7. data' \in [File -> Chunk \X Chunk]
    <3>1. <<"hole", "hole">> \in Chunk \X Chunk
      BY DEF Chunk
    <3>2. CASE data' = data
      BY <1>1, <3>2
    <3>3. CASE data' = [data EXCEPT ![f] = <<"hole", "hole">>]
      <4>1. data \in [File -> Chunk \X Chunk]
        BY <1>1
      <4> QED
        BY <3>1, <3>3, <4>1, PutTyped, Zenon
    <3> QED
      BY <2>4, <3>2, <3>3
  <2>8. /\ served' \in [Starter -> {Good, Bad}] /\ handle' \in [Starter -> File \cup {NoFile}]
        /\ partial' \in [Assets -> File \cup {NoFile}]
    <3>1. CASE UNCHANGED <<served, handle, partial>>
      BY <1>1, <3>1
    <3>2. ASSUME \E sent \in {Good, Bad} : served' = [served EXCEPT ![p] = sent]
          PROVE  served' \in [Starter -> {Good, Bad}]
      <4>1. PICK sent \in {Good, Bad} : served' = [served EXCEPT ![p] = sent]
        BY <3>2
      <4> QED
        BY <1>1, <4>1, PutTyped
    <3>3. ASSUME partial' = [partial EXCEPT ![Cur(p)] = f], handle' = [handle EXCEPT ![p] = f]
          PROVE  handle' \in [Starter -> File \cup {NoFile}] /\ partial' \in [Assets -> File \cup {NoFile}]
      <4>1. f \in File \cup {NoFile}
        BY <2>3
      <4>2. partial' \in [Assets -> File \cup {NoFile}]
        BY <1>1, <3>3, <4>1, PutTyped
      <4>3. handle' \in [Starter -> File \cup {NoFile}]
        BY <1>1, <3>3, <4>1, PutTyped
      <4> QED
        BY <4>2, <4>3
    <3>4. \/ UNCHANGED <<served, handle, partial>>
          \/ /\ \E sent \in {Good, Bad} : served' = [served EXCEPT ![p] = sent]
             /\ partial' = [partial EXCEPT ![Cur(p)] = f]
             /\ handle' = [handle EXCEPT ![p] = f]
      BY <2>4
    <3> QED
      BY <3>1, <3>2, <3>3, <3>4
  <2> QED
    BY <1>1, <2>1, <2>6, <2>7, <2>8 DEF AssetTypeOK
<1>7. CASE WriteChunk(p)
  <2>1. /\ astep[p] \in {"first", "second"} /\ Cur(p) \in Assets
        /\ UNCHANGED <<current, notes, changed, served, handle, manifest, partial, dest, shared>>
    BY <1>2, <1>7 DEF WriteChunk, Downloading
  <2>2. \E to \in {"next", "failed", "second", "rename"} : Step(p, to)
    BY <1>7 DEF WriteChunk, AssetError
  <2>3. Placed' /\ astep' \in [Starter -> Steps]
    BY <1>1, <1>2, <2>1, <2>2 DEF Step, Placed, Downloading
  <2>4. \/ data' = data
        \/ data' = [data EXCEPT ![handle[p]][1] = served[p][1]]
        \/ data' = [data EXCEPT ![handle[p]][2] = served[p][2]]
    BY <1>7 DEF WriteChunk
  <2>5. served[p][1] \in Chunk /\ served[p][2] \in Chunk
    BY <1>1, IsGood
  <2>6. data' \in [File -> Chunk \X Chunk]
    <3>1. CASE handle[p] \in File
      <4>1. data[handle[p]][1] \in Chunk /\ data[handle[p]][2] \in Chunk
        BY <1>1, <3>1
      <4>2. \/ data' = data
            \/ data' = [data EXCEPT ![handle[p]] = <<served[p][1], data[handle[p]][2]>>]
            \/ data' = [data EXCEPT ![handle[p]] = <<data[handle[p]][1], served[p][2]>>]
        BY <1>1, <2>4, <2>5, <3>1, PutData
      <4>3. PICK x \in Chunk \X Chunk : data' = data \/ data' = [data EXCEPT ![handle[p]] = x]
        <5>1. /\ <<served[p][1], data[handle[p]][2]>> \in Chunk \X Chunk
              /\ <<data[handle[p]][1], served[p][2]>> \in Chunk \X Chunk
          BY <2>5, <4>1
        <5> QED
          BY <4>2, <5>1
      <4> QED
        BY <1>1, <4>3, PutTyped
    <3>2. CASE handle[p] = NoFile
      <4>1. NoFile \notin File
        BY AssetAssumption
      <4> QED
        BY <1>1, <2>4, <3>2, <4>1
    <3> QED
      BY <1>1, <3>1, <3>2
  <2> QED
    BY <1>1, <2>1, <2>3, <2>6 DEF AssetTypeOK
<1>8. CASE RenamePartial(p)
  <2>1. /\ astep[p] = "rename" /\ Cur(p) \in Assets
        /\ UNCHANGED <<current, notes, changed, served, manifest, data, shared>>
    BY <1>2, <1>8 DEF RenamePartial, Downloading
  <2>2. \E to \in {"next", "failed", "verify"} : Step(p, to)
    BY <1>8 DEF RenamePartial, AssetError
  <2>3. Placed' /\ astep' \in [Starter -> Steps]
    BY <1>1, <1>2, <2>1, <2>2 DEF Step, Placed, Downloading
  <2>4. /\ handle' \in [Starter -> File \cup {NoFile}] /\ partial' \in [Assets -> File \cup {NoFile}]
        /\ dest' \in [Assets -> File \cup {NoFile}]
    BY <1>1, <1>8, <2>1 DEF RenamePartial
  <2> QED
    BY <1>1, <2>1, <2>3, <2>4 DEF AssetTypeOK
<1>9. CASE VerifyDownload(p)
  <2>1. /\ astep[p] = "verify" /\ Cur(p) \in Assets
        /\ UNCHANGED <<current, served, handle, manifest, partial, data, shared>>
    BY <1>2, <1>9 DEF VerifyDownload, Downloading
  <2>2. \E to \in {"next", "failed"} : Step(p, to)
    BY <1>9 DEF VerifyDownload, AssetError
  <2>3. Placed' /\ astep' \in [Starter -> Steps]
    BY <1>1, <1>2, <2>1, <2>2 DEF Step, Placed, Downloading
  <2>4. served[p] \in Chunk \X Chunk
    BY <1>1, IsGood
  <2>5. /\ notes' \in [Starter -> [Assets -> (Chunk \X Chunk) \cup {NoFile}]]
        /\ changed' \subseteq Starter /\ dest' \in [Assets -> File \cup {NoFile}]
    <3>1. CASE UNCHANGED <<notes, changed>> /\ dest' = [dest EXCEPT ![Cur(p)] = NoFile]
      BY <1>1, <3>1
    <3>2. CASE Record(p, served[p]) /\ UNCHANGED dest
      BY <1>1, <2>1, <2>4, <3>2, RecordTyped
    <3> QED
      BY <1>9, <3>1, <3>2 DEF VerifyDownload
  <2> QED
    BY <1>1, <2>1, <2>3, <2>5 DEF AssetTypeOK
<1>10. CASE NextAsset(p)
  <2>1. /\ astep[p] = "next" /\ current[p] \in DOMAIN Asset
        /\ UNCHANGED <<notes, changed, served, handle, manifest, partial, dest, data, shared>>
    BY <1>2, <1>10 DEF NextAsset
  <2>2. /\ current' = [current EXCEPT ![p] = current[p] + 1]
        /\ astep' = [astep EXCEPT ![p] = IF current[p] = Len(Asset) THEN "save" ELSE "ensure"]
    BY <1>10 DEF NextAsset, Step
  <2>3. current' \in [Starter -> 1..Len(Asset) + 1] /\ astep' \in [Starter -> Steps]
    BY <1>1, <2>1, <2>2
  <2>4. Placed'
    BY <1>1, <2>1, <2>2 DEF Placed, Downloading
  <2> QED
    BY <1>1, <2>1, <2>3, <2>4 DEF AssetTypeOK
<1>11. CASE SaveManifest(p)
  <2>1. /\ astep[p] = "save" /\ astep' = [astep EXCEPT ![p] = "done"]
        /\ UNCHANGED <<current, notes, changed, served, handle, partial, dest, data, shared>>
    BY <1>11 DEF SaveManifest, Step
  <2>2. Placed' /\ astep' \in [Starter -> Steps]
    BY <1>1, <2>1 DEF Placed, Downloading
  <2>3. manifest' \in [Assets -> (Chunk \X Chunk) \cup {NoFile}]
    BY <1>1, <1>11 DEF SaveManifest
  <2> QED
    BY <1>1, <2>1, <2>2, <2>3 DEF AssetTypeOK
<1>12. CASE AbandonAssets(p)
  BY <1>1, <1>12 DEF AbandonAssets, Step, AssetTypeOK, Placed, Downloading
<1> QED
  BY <1>3, <1>4, <1>5, <1>6, <1>7, <1>8, <1>9, <1>10, <1>11, <1>12 DEF AssetStep

\* At first there is no partial file, and what is there is old.
LEMMA FilesInit == AssetInit => Apart /\ Unmade
<1> SUFFICES ASSUME AssetInit PROVE Apart /\ Unmade
  OBVIOUS
<1>1. /\ \A a \in Assets : partial[a] = NoFile /\ dest[a] \in {<<"old", a>>, NoFile}
  BY DEF AssetInit
<1>2. NoFile \notin File /\ "old" \notin Starter
  BY AssetAssumption
<1>3. Apart
  BY <1>1, <1>2 DEF Apart
<1>4. ASSUME NEW p \in Starter, NEW i \in DOMAIN Asset
      PROVE  <<p, Asset[i]>> \notin {partial[Asset[i]], dest[Asset[i]]}
  <2>1. Asset[i] \in Assets /\ <<p, Asset[i]>> \in File /\ <<p, Asset[i]>> # <<"old", Asset[i]>>
    BY <1>2, AssetOrder DEF File
  <2> QED
    BY <1>1, <1>2, <2>1
<1> QED
  BY <1>3, <1>4 DEF Unmade

\* What is before a process in the list was before it already.
Moves ==
  \A q \in Starter : \A i \in DOMAIN Asset :
    (i > current'[q] \/ (i = current'[q] /\ astep'[q] \in {"idle", "ensure", "open"})) =>
    (i > current[q] \/ (i = current[q] /\ astep[q] \in {"idle", "ensure", "open"}))

\* No process goes back in the list, or from an opened download to one before it.
LEMMA MovesOn ==
  ASSUME AssetTypeOK, Placed, NEW p \in Starter,
         BeginAssets(p) \/ AssetStep(p) \/ AbandonAssets(p)
  PROVE  Moves
<1> USE AssetOrder
<1>1. astep \in [Starter -> {"idle", "ensure", "next", "save", "done", "failed"} \cup Downloading]
      /\ current \in [Starter -> 1..Len(Asset) + 1]
  BY DEF AssetTypeOK
<1>2. CASE NextAsset(p)
  <2>1. /\ current' = [current EXCEPT ![p] = current[p] + 1] /\ current[p] \in Nat
        /\ \A q \in Starter : q # p => astep'[q] = astep[q]
    BY <1>1, <1>2 DEF NextAsset, Step
  <2> QED
    BY <1>1, <2>1 DEF Moves
<1>3. CASE ~NextAsset(p)
  <2>1. UNCHANGED current
    BY <1>3 DEF BeginAssets, AssetStep, AbandonAssets, EnsureMissing, EnsurePresent, OpenPartial,
                WriteChunk, RenamePartial, VerifyDownload, SaveManifest
  <2>2. \A q \in Starter : q # p => astep'[q] = astep[q]
    BY <1>1, <1>3 DEF BeginAssets, AssetStep, AbandonAssets, EnsureMissing, EnsurePresent, OpenPartial,
                WriteChunk, RenamePartial, VerifyDownload, SaveManifest, Step, AssetError, Download
  <2>3. astep'[p] \in {"idle", "ensure", "open"} => astep[p] \in {"idle", "ensure", "open"}
    BY <1>1, <1>3 DEF BeginAssets, AssetStep, AbandonAssets, EnsureMissing, EnsurePresent, OpenPartial,
                WriteChunk, RenamePartial, VerifyDownload, SaveManifest, Step, AssetError, Download
  <2> QED
    BY <2>1, <2>2, <2>3 DEF Moves
<1> QED
  BY <1>2, <1>3

\* Only OpenPartial creates a file, and RenamePartial moves one.
LEMMA FilesKept ==
  ASSUME AssetTypeOK, Placed, Apart, Unmade, NEW p \in Starter,
         BeginAssets(p) \/ AssetStep(p) \/ AbandonAssets(p)
  PROVE  Apart' /\ Unmade'
<1> USE AssetOrder
<1>1. /\ astep \in [Starter -> {"idle", "ensure", "next", "save", "done", "failed"} \cup Downloading]
      /\ current \in [Starter -> 1..Len(Asset) + 1]
      /\ partial \in [Assets -> File \cup {NoFile}] /\ dest \in [Assets -> File \cup {NoFile}]
  BY DEF AssetTypeOK
<1>2. astep[p] \in Downloading => current[p] \in DOMAIN Asset /\ Cur(p) = Asset[current[p]] /\ Cur(p) \in Assets
  BY DEF Placed, Cur
<1>3. NoFile \notin File
  BY AssetAssumption
<1>4. Moves
  BY MovesOn
<1>5. \A q \in Starter : \A i \in DOMAIN Asset : <<q, Asset[i]>> \in File
  BY DEF File
<1>6. CASE OpenPartial(p)
  <2>1. /\ astep[p] = "open" /\ astep'[p] # "open" /\ UNCHANGED <<current, dest>>
        /\ \A q \in Starter : q # p => astep'[q] = astep[q]
    BY <1>1, <1>6 DEF OpenPartial, Step, AssetError
  <2>2. PICK f : f = IF partial[Cur(p)] = NoFile THEN <<p, Cur(p)>> ELSE partial[Cur(p)]
    OBVIOUS
  <2>3. partial' = partial \/ partial' = [partial EXCEPT ![Cur(p)] = f]
    BY <1>6, <2>2 DEF OpenPartial
  <2>4. current[p] \in DOMAIN Asset /\ Cur(p) = Asset[current[p]] /\ Cur(p) \in Assets
    BY <1>2, <2>1 DEF Downloading
  <2>5. <<p, Cur(p)>> # partial[Cur(p)] /\ <<p, Cur(p)>> # dest[Cur(p)]
    BY <2>1, <2>4 DEF Unmade
  <2>6. <<p, Cur(p)>> \in File /\ <<p, Cur(p)>>[2] = Cur(p)
    BY <2>4 DEF File
  <2>7. f \in File /\ f[2] = Cur(p) /\ f # dest[Cur(p)]
    BY <1>1, <2>2, <2>4, <2>5, <2>6 DEF Apart
  <2>8. Apart'
    BY <1>1, <2>1, <2>3, <2>4, <2>7 DEF Apart
  <2>9. ASSUME NEW q \in Starter, NEW i \in DOMAIN Asset,
               i > current'[q] \/ (i = current'[q] /\ astep'[q] \in {"idle", "ensure", "open"})
        PROVE  <<q, Asset[i]>> \notin {partial'[Asset[i]], dest'[Asset[i]]}
    <3>1. i > current[q] \/ (i = current[q] /\ astep[q] \in {"idle", "ensure", "open"})
      BY <1>4, <2>9 DEF Moves
    <3>2. <<q, Asset[i]>> \notin {partial[Asset[i]], dest[Asset[i]]}
      BY <3>1 DEF Unmade
    <3>3. CASE Asset[i] # Cur(p)
      BY <1>1, <2>1, <2>3, <3>2, <3>3
    <3>4. CASE Asset[i] = Cur(p)
      <4>1. i = current[p]
        BY <2>4, <3>4, AssetAssumption
      <4>2. q # p
        <5>1. ASSUME q = p PROVE FALSE
          <6>1. i > current[p] \/ astep'[p] \in {"idle", "ensure", "open"}
            BY <2>1, <2>9, <5>1
          <6>2. astep'[p] \in {"idle", "ensure", "open"}
            BY <1>1, <4>1, <6>1
          <6> QED
            BY <1>1, <1>6, <6>2 DEF OpenPartial, Step, AssetError
        <5> QED
          BY <5>1
      <4>3. <<q, Cur(p)>> # <<p, Cur(p)>>
        BY <4>2
      <4>4. <<q, Cur(p)>> # f
        BY <2>2, <3>2, <3>4, <4>3
      <4> QED
        BY <1>1, <2>1, <2>3, <2>4, <3>2, <3>4, <4>4
    <3> QED
      BY <3>3, <3>4
  <2> QED
    BY <2>8, <2>9 DEF Unmade
<1>7. CASE RenamePartial(p) \/ VerifyDownload(p)
  <2>1. Cur(p) \in Assets
    BY <1>2, <1>7 DEF RenamePartial, VerifyDownload, Downloading
  <2>2. \/ UNCHANGED <<partial, dest>>
        \/ partial' = partial /\ dest' = [dest EXCEPT ![Cur(p)] = NoFile]
        \/ /\ partial[Cur(p)] # NoFile
           /\ partial' = [partial EXCEPT ![Cur(p)] = NoFile]
           /\ dest' = [dest EXCEPT ![Cur(p)] = partial[Cur(p)]]
    BY <1>7 DEF RenamePartial, VerifyDownload
  <2>3. Apart'
    BY <1>1, <2>1, <2>2 DEF Apart
  <2>4. \A a \in Assets : {partial'[a], dest'[a]} \subseteq {partial[a], dest[a], NoFile}
    BY <1>1, <2>1, <2>2
  <2>5. Unmade'
    <3> SUFFICES ASSUME NEW q \in Starter, NEW i \in DOMAIN Asset,
                        i > current'[q] \/ (i = current'[q] /\ astep'[q] \in {"idle", "ensure", "open"})
                 PROVE  <<q, Asset[i]>> \notin {partial'[Asset[i]], dest'[Asset[i]]}
      BY DEF Unmade
    <3>1. i > current[q] \/ (i = current[q] /\ astep[q] \in {"idle", "ensure", "open"})
      BY <1>4 DEF Moves
    <3>2. <<q, Asset[i]>> \notin {partial[Asset[i]], dest[Asset[i]]}
      BY <3>1 DEF Unmade
    <3>3. <<q, Asset[i]>> # NoFile
      BY <1>3, <1>5
    <3>4. {partial'[Asset[i]], dest'[Asset[i]]} \subseteq {partial[Asset[i]], dest[Asset[i]], NoFile}
      BY <2>4
    <3> QED
      BY <3>2, <3>3, <3>4
  <2> QED
    BY <2>3, <2>5
<1>8. CASE ~OpenPartial(p) /\ ~RenamePartial(p) /\ ~VerifyDownload(p)
  <2>1. UNCHANGED <<partial, dest>>
    BY <1>8 DEF BeginAssets, AssetStep, AbandonAssets, EnsureMissing, EnsurePresent, WriteChunk,
                NextAsset, SaveManifest
  <2>2. Apart'
    BY <2>1 DEF Apart
  <2>3. Unmade'
    BY <1>4, <2>1 DEF Unmade, Moves
  <2> QED
    BY <2>2, <2>3
<1> QED
  BY <1>6, <1>7, <1>8

\* What p does leaves the others' place, download and file alone.
LEMMA OthersStay ==
  ASSUME AssetTypeOK, Placed, NEW p \in Starter,
         BeginAssets(p) \/ AssetStep(p) \/ AbandonAssets(p)
  PROVE  /\ \A q \in Starter \ {p} :
              /\ astep'[q] = astep[q] /\ current'[q] = current[q] /\ Cur(q)' = Cur(q)
              /\ served'[q] = served[q] /\ handle'[q] = handle[q]
         /\ current'[p] # current[p] => NextAsset(p)
         /\ shared => shared'
<1>1. /\ astep \in [Starter -> {"idle", "ensure", "next", "save", "done", "failed"} \cup Downloading]
      /\ current \in [Starter -> 1..Len(Asset) + 1]
      /\ served \in [Starter -> {Good, Bad}] /\ handle \in [Starter -> File \cup {NoFile}]
  BY DEF AssetTypeOK
<1>2. CASE NextAsset(p)
  BY <1>1, <1>2 DEF NextAsset, Step, Cur
<1>3. CASE ~NextAsset(p)
  <2>1. UNCHANGED current
    BY <1>3 DEF BeginAssets, AssetStep, AbandonAssets, EnsureMissing, EnsurePresent, OpenPartial,
                WriteChunk, RenamePartial, VerifyDownload, SaveManifest
  <2>2. \A q \in Starter \ {p} : astep'[q] = astep[q]
    BY <1>1, <1>3 DEF BeginAssets, AssetStep, AbandonAssets, EnsureMissing, EnsurePresent, OpenPartial,
                WriteChunk, RenamePartial, VerifyDownload, SaveManifest, Step, AssetError, Download
  <2>3. \A q \in Starter \ {p} : served'[q] = served[q] /\ handle'[q] = handle[q]
    BY <1>1, <1>3 DEF BeginAssets, AssetStep, AbandonAssets, EnsureMissing, EnsurePresent, OpenPartial,
                WriteChunk, RenamePartial, VerifyDownload, SaveManifest
  <2>4. shared => shared'
    BY <1>3 DEF BeginAssets, AssetStep, AbandonAssets, EnsureMissing, EnsurePresent, OpenPartial,
                WriteChunk, RenamePartial, VerifyDownload, SaveManifest, Download
  <2> QED
    BY <2>1, <2>2, <2>3, <2>4 DEF Cur
<1> QED
  BY <1>2, <1>3

\* What one process does to the assets while no two download the same one.
AssetMove(p) ==
  /\ AssetTypeOK /\ Placed /\ Apart /\ Unmade /\ Sound /\ Vouched
  /\ AssetTypeOK' /\ Placed'
  /\ BeginAssets(p) \/ AssetStep(p) \/ AbandonAssets(p)
  /\ ~shared /\ ~shared'

\* No file changes, and nothing is begun or reached that was not wanted or ready.
LEMMA NoFileMoves ==
  ASSUME NEW p \in Starter, AssetMove(p), UNCHANGED <<handle, partial, dest, data, served>>,
         astep'[p] \notin Downloading \ {"open"},
         astep'[p] = "open" =>
           /\ UNCHANGED current /\ ~Ready(Cur(p))
           /\ \A q \in Starter \ {p} : ~(astep[q] \in Downloading /\ Cur(q) = Cur(p)),
         \A i \in DOMAIN Asset :
           Passed(p, i)' /\ Asset[i] \in Required => Passed(p, i) \/ Ready(Asset[i])
  PROVE  Sound'
<1>1. /\ \A q \in Starter \ {p} :
           /\ astep'[q] = astep[q] /\ current'[q] = current[q] /\ Cur(q)' = Cur(q)
           /\ served'[q] = served[q] /\ handle'[q] = handle[q]
  BY OthersStay DEF AssetMove
<1>2. \A a \in Assets : Ready(a)' <=> Ready(a)
  BY DEF Ready
<1>3. Alone'
  <2> SUFFICES ASSUME NEW q \in Starter, NEW r \in Starter, q # r,
                      astep'[q] \in Downloading, astep'[r] \in Downloading, Cur(q)' = Cur(r)'
               PROVE  FALSE
    BY DEF Alone
  <2>1. CASE q # p /\ r # p
    BY <1>1, <2>1 DEF AssetMove, Sound, Alone
  <2>2. CASE q = p
    <3>1. Cur(p)' = Cur(p)
      BY <2>2 DEF Cur
    <3> QED
      BY <1>1, <2>2, <3>1
  <2>3. CASE r = p
    <3>1. Cur(p)' = Cur(p)
      BY <2>3 DEF Cur
    <3> QED
      BY <1>1, <2>3, <3>1
  <2> QED
    BY <2>1, <2>2, <2>3
<1>4. ASSUME NEW q \in Starter PROVE Writes(q)'
  <2>1. CASE q # p
    <3>1. Writes(q)
      BY DEF AssetMove, Sound
    <3>2. PICK a : a = Cur(q) /\ a = Cur(q)'
      BY <1>1, <2>1
    <3>3. Ready(a)' <=> Ready(a)
      BY DEF Ready
    <3> QED
      BY <1>1, <2>1, <3>1, <3>2, <3>3 DEF Writes
  <2>2. CASE q = p
    <3>1. CASE astep'[p] = "open"
      <4>1. PICK a : a = Cur(p) /\ a = Cur(p)'
        BY <3>1 DEF Cur
      <4>2. ~Ready(a)'
        BY <3>1, <4>1 DEF Ready
      <4> QED
        BY <2>2, <3>1, <4>1, <4>2 DEF Writes
    <3>2. CASE astep'[p] \notin Downloading
      BY <2>2, <3>2 DEF Writes, Downloading
    <3> QED
      BY <3>1, <3>2 DEF Downloading
  <2> QED
    BY <2>1, <2>2
<1>5. \A a \in Assets : dest'[a] # NoFile => data'[dest'[a]] \in {Good, Bad}
  BY DEF AssetMove, Sound
<1>6. ASSUME NEW q \in Starter, NEW i \in DOMAIN Asset, Passed(q, i)', Asset[i] \in Required
      PROVE  Ready(Asset[i])'
  <2>1. Passed(q, i) \/ Ready(Asset[i])
    BY <1>1, <1>6 DEF Passed
  <2>2. Ready(Asset[i])
    BY <1>6, <2>1 DEF AssetMove, Sound
  <2> QED
    BY <2>2 DEF Ready
<1> QED
  BY <1>3, <1>4, <1>5, <1>6 DEF Sound

\* A beginning, an end, the next asset and the manifest touch no file.
LEMMA StartsSoundly ==
  ASSUME NEW p \in Starter, AssetMove(p),
         BeginAssets(p) \/ AbandonAssets(p) \/ NextAsset(p) \/ SaveManifest(p)
  PROVE  Sound'
<1> USE AssetOrder
<1>1. /\ astep \in [Starter -> {"idle", "ensure", "next", "save", "done", "failed"} \cup Downloading]
      /\ current \in [Starter -> 1..Len(Asset) + 1]
  BY DEF AssetMove, AssetTypeOK
<1>2. UNCHANGED <<handle, partial, dest, data, served>>
  BY DEF BeginAssets, AbandonAssets, NextAsset, SaveManifest
<1>3. astep'[p] \in {"save", "ensure", "failed", "done"}
  BY <1>1 DEF BeginAssets, AbandonAssets, NextAsset, SaveManifest, Step
<1>4. ASSUME NEW i \in DOMAIN Asset, Passed(p, i)' PROVE Passed(p, i)
  <2>1. CASE BeginAssets(p)
    BY <1>1, <1>3, <1>4, <2>1 DEF Passed, BeginAssets, Step
  <2>2. CASE AbandonAssets(p)
    BY <1>1, <1>3, <1>4, <2>2 DEF Passed, AbandonAssets, Step
  <2>3. CASE NextAsset(p)
    BY <1>1, <1>3, <1>4, <2>3 DEF Passed, NextAsset, Step
  <2>4. CASE SaveManifest(p)
    BY <1>1, <1>3, <1>4, <2>4 DEF Passed, SaveManifest, Step
  <2> QED
    BY <2>1, <2>2, <2>3, <2>4
<1> QED
  BY <1>2, <1>3, <1>4, NoFileMoves DEF Downloading

\* A decision about a file: what passes as it is was ready, since a recorded hash
\* vouches for it.
LEMMA EnsuresSoundly ==
  ASSUME NEW p \in Starter, AssetMove(p), EnsureMissing(p) \/ EnsurePresent(p)
  PROVE  Sound'
<1> USE AssetOrder
<1>1. /\ astep \in [Starter -> {"idle", "ensure", "next", "save", "done", "failed"} \cup Downloading]
      /\ current \in [Starter -> 1..Len(Asset) + 1]
      /\ notes \in [Starter -> [Assets -> (Chunk \X Chunk) \cup {NoFile}]]
  BY DEF AssetMove, AssetTypeOK
<1>2. /\ UNCHANGED <<current, handle, partial, dest, data, served>> /\ astep[p] = "ensure"
  BY DEF EnsureMissing, EnsurePresent
<1>3. PICK a : a = Cur(p)
  OBVIOUS
<1>4. a \in Assets /\ current[p] \in DOMAIN Asset /\ a = Asset[current[p]]
  BY <1>2, <1>3 DEF AssetMove, Placed, Cur
<1>5. dest[a] # NoFile => data[dest[a]] \in {Good, Bad}
  BY <1>4 DEF AssetMove, Sound
<1>6. \/ AssetError(p)
      \/ Download(p) /\ ~Ready(a)
      \/ Step(p, "next") /\ (a \in Required => Ready(a))
  <2>1. CASE EnsureMissing(p)
    BY <1>3, <2>1 DEF EnsureMissing, Ready
  <2>2. CASE EnsurePresent(p)
    <3>1. PICK content : content = data[dest[a]]
      OBVIOUS
    <3>2. dest[a] # NoFile /\ content \in {Good, Bad}
      BY <1>3, <1>5, <2>2, <3>1 DEF EnsurePresent
    <3>3. Trusted(p, a, content) => Ready(a)
      <4> SUFFICES ASSUME Trusted(p, a, content), a \in Pinned PROVE Ready(a)
        BY <3>2 DEF Ready
      <4>1. notes[p][a] = Good
        BY DEF Trusted
      <4> QED
        BY <1>4, <4>1 DEF AssetMove, Vouched
    <3>4. \/ AssetError(p)
          \/ Trusted(p, a, content) /\ Step(p, "next")
          \/ a \in Pinned /\ content # Good /\ Download(p)
          \/ (a \in Pinned /\ content # Good => a \notin Required \cup Downloadable) /\ Step(p, "next")
      BY <1>3, <2>2, <3>1 DEF EnsurePresent
    <3> QED
      BY <3>1, <3>2, <3>3, <3>4 DEF Ready
  <2> QED
    BY <2>1, <2>2
<1>7. CASE AssetError(p)
  <2>1. astep'[p] = IF a \in Required THEN "failed" ELSE "next"
    BY <1>1, <1>3, <1>7 DEF AssetError, Step
  <2>2. ASSUME NEW i \in DOMAIN Asset, Passed(p, i)', Asset[i] \in Required PROVE Passed(p, i)
    BY <1>1, <1>2, <1>4, <2>1, <2>2 DEF Passed
  <2> QED
    BY <1>2, <2>1, <2>2, NoFileMoves DEF Downloading
<1>8. CASE Download(p) /\ ~Ready(a)
  <2>1. astep'[p] = "open"
    BY <1>1, <1>8 DEF Download, Step
  <2>2. \A q \in Starter \ {p} : ~(astep[q] \in Downloading /\ Cur(q) = Cur(p))
    BY <1>8 DEF AssetMove, Download
  <2>3. ASSUME NEW i \in DOMAIN Asset, Passed(p, i)' PROVE Passed(p, i)
    BY <1>2, <2>1, <2>3 DEF Passed
  <2> QED
    BY <1>2, <1>3, <1>8, <2>1, <2>2, <2>3, NoFileMoves DEF Downloading
<1>9. CASE Step(p, "next") /\ (a \in Required => Ready(a))
  <2>1. astep'[p] = "next"
    BY <1>1, <1>9 DEF Step
  <2>2. ASSUME NEW i \in DOMAIN Asset, Passed(p, i)', Asset[i] \in Required
        PROVE  Passed(p, i) \/ Ready(Asset[i])
    BY <1>2, <1>4, <1>9, <2>2 DEF Passed
  <2> QED
    BY <1>2, <2>1, <2>2, NoFileMoves DEF Downloading
<1> QED
  BY <1>6, <1>7, <1>8, <1>9

\* A download that fails leaves its partial file.
LEMMA FailsSoundly ==
  ASSUME NEW p \in Starter, AssetMove(p), astep[p] \in Downloading, AssetError(p),
         UNCHANGED <<current, partial, dest, data>>
  PROVE  Sound'
<1> USE AssetOrder
<1>1. /\ astep \in [Starter -> {"idle", "ensure", "next", "save", "done", "failed"} \cup Downloading]
      /\ current \in [Starter -> 1..Len(Asset) + 1]
  BY DEF AssetMove, AssetTypeOK
<1>2. PICK a : a = Cur(p)
  OBVIOUS
<1>3. a \in Assets /\ current[p] \in DOMAIN Asset /\ a = Asset[current[p]]
  BY <1>2 DEF AssetMove, Placed, Cur
<1>4. astep'[p] = IF a \in Required THEN "failed" ELSE "next"
  BY <1>1, <1>2 DEF AssetError, Step
<1>5. /\ \A q \in Starter \ {p} :
           /\ astep'[q] = astep[q] /\ current'[q] = current[q] /\ Cur(q)' = Cur(q)
           /\ served'[q] = served[q] /\ handle'[q] = handle[q]
  BY OthersStay DEF AssetMove
<1>6. Alone'
  BY <1>4, <1>5 DEF AssetMove, Sound, Alone, Downloading
<1>7. ASSUME NEW q \in Starter PROVE Writes(q)'
  <2>1. CASE q # p
    <3>1. Writes(q)
      BY DEF AssetMove, Sound
    <3>2. PICK b : b = Cur(q) /\ b = Cur(q)'
      BY <1>5, <2>1
    <3>3. Ready(b)' <=> Ready(b)
      BY DEF Ready
    <3> QED
      BY <1>5, <2>1, <3>1, <3>2, <3>3 DEF Writes
  <2>2. CASE q = p
    BY <1>4, <2>2 DEF Writes
  <2> QED
    BY <2>1, <2>2
<1>8. \A b \in Assets : dest'[b] # NoFile => data'[dest'[b]] \in {Good, Bad}
  BY DEF AssetMove, Sound
<1>9. ASSUME NEW q \in Starter, NEW i \in DOMAIN Asset, Passed(q, i)', Asset[i] \in Required
      PROVE  Ready(Asset[i])'
  <2>1. Passed(q, i)
    <3>1. CASE q # p
      BY <1>5, <1>9, <3>1 DEF Passed
    <3>2. CASE q = p
      <4>1. i < current[p]
        BY <1>3, <1>4, <1>9, <3>2 DEF Passed
      <4> QED
        BY <3>2, <4>1 DEF Passed, Downloading
    <3> QED
      BY <3>1, <3>2
  <2>2. Ready(Asset[i])
    BY <1>9, <2>1 DEF AssetMove, Sound
  <2> QED
    BY <2>2 DEF Ready
<1> QED
  BY <1>6, <1>7, <1>8, <1>9 DEF Sound

\* A download goes on in its partial file, which is no asset's file.
LEMMA WritesOn ==
  ASSUME NEW p \in Starter, AssetMove(p), astep[p] \in Downloading, NEW a \in Assets, a = Cur(p),
         NEW f \in File, f[2] = a, f # dest[a], NEW x,
         data' = [data EXCEPT ![f] = x], UNCHANGED <<current, dest>>,
         \A b \in Assets \ {a} : partial'[b] = partial[b],
         astep'[p] \in {"first", "second", "rename"}, Writes(p)'
  PROVE  Sound'
<1>1. /\ \A q \in Starter \ {p} :
           /\ astep'[q] = astep[q] /\ current'[q] = current[q] /\ Cur(q)' = Cur(q)
           /\ served'[q] = served[q] /\ handle'[q] = handle[q]
  BY OthersStay DEF AssetMove
<1>2. /\ data \in [File -> Chunk \X Chunk] /\ dest \in [Assets -> File \cup {NoFile}]
      /\ partial \in [Assets -> File \cup {NoFile}]
  BY DEF AssetMove, AssetTypeOK
<1>3. ASSUME NEW g \in File, g # f PROVE data'[g] = data[g]
  BY <1>2, <1>3
<1>4. ASSUME NEW b \in Assets, dest[b] # NoFile PROVE data'[dest'[b]] = data[dest[b]]
  <2>1. dest[b] \in File /\ dest[b][2] = b
    BY <1>2, <1>4 DEF AssetMove, Apart
  <2>2. dest[b] # f
    BY <2>1
  <2> QED
    BY <1>3, <2>1, <2>2
<1>5. \A b \in Assets : Ready(b)' <=> Ready(b)
  BY <1>4 DEF Ready
<1>6. Alone'
  BY <1>1 DEF AssetMove, Sound, Alone, Downloading, Cur
<1>7. ASSUME NEW q \in Starter, q # p PROVE Writes(q)'
  <2>1. CASE astep[q] \in Downloading
    <3>1. PICK b : b = Cur(q) /\ b = Cur(q)'
      BY <1>1, <1>7
    <3>2. b \in Assets /\ b # a
      BY <1>7, <2>1, <3>1, AssetOrder DEF AssetMove, Placed, Cur, Sound, Alone
    <3>3. partial'[b] = partial[b]
      BY <3>2
    <3>4. Writes(q) /\ Apart
      BY DEF AssetMove, Sound
    <3>5. astep[q] \in {"first", "second", "rename"} =>
            partial[b] # NoFile /\ handle[q] = partial[b] /\ handle[q] \in File /\ handle[q][2] = b
      BY <3>1, <3>2, <3>4 DEF Writes, Apart
    <3>6. astep[q] \in {"first", "second", "rename"} => data'[handle[q]] = data[handle[q]]
      BY <1>3, <3>2, <3>5
    <3>7. (Ready(b)' <=> Ready(b)) /\ (dest[b] # NoFile => data'[dest'[b]] = data[dest[b]])
      BY <1>4, <1>5, <3>2
    <3> QED
      BY <1>1, <1>7, <3>1, <3>3, <3>4, <3>5, <3>6, <3>7 DEF Writes
  <2>2. CASE astep[q] \notin Downloading
    BY <1>1, <1>7, <2>2 DEF Writes, Downloading
  <2> QED
    BY <2>1, <2>2
<1>8. \A b \in Assets : dest'[b] # NoFile => data'[dest'[b]] \in {Good, Bad}
  BY <1>4 DEF AssetMove, Sound
<1>9. ASSUME NEW q \in Starter, NEW i \in DOMAIN Asset, Passed(q, i)', Asset[i] \in Required
      PROVE  Ready(Asset[i])'
  <2>1. Passed(q, i)
    <3>1. CASE q # p
      BY <1>1, <1>9, <3>1 DEF Passed
    <3>2. CASE q = p
      <4>1. i < current[p]
        BY <1>9, <3>2 DEF Passed
      <4> QED
        BY <3>2, <4>1 DEF Passed, Downloading
    <3> QED
      BY <3>1, <3>2
  <2>2. Ready(Asset[i])
    BY <1>9, <2>1 DEF AssetMove, Sound
  <2> QED
    BY <1>5, <2>2, AssetOrder
<1> QED
  BY <1>6, <1>7, <1>8, <1>9 DEF Sound

\* The partial file is opened and truncated: it is nobody else's, ...
LEMMA OpensSoundly ==
  ASSUME NEW p \in Starter, AssetMove(p), OpenPartial(p)
  PROVE  Sound'
<1>1. /\ astep \in [Starter -> {"idle", "ensure", "next", "save", "done", "failed"} \cup Downloading]
      /\ current \in [Starter -> 1..Len(Asset) + 1]
      /\ partial \in [Assets -> File \cup {NoFile}] /\ dest \in [Assets -> File \cup {NoFile}]
      /\ handle \in [Starter -> File \cup {NoFile}] /\ data \in [File -> Chunk \X Chunk]
  BY DEF AssetMove, AssetTypeOK
<1>2. astep[p] = "open" /\ UNCHANGED <<current, dest>>
  BY DEF OpenPartial
<1>3. PICK a : a = Cur(p)
  OBVIOUS
<1>4. a \in Assets /\ current[p] \in DOMAIN Asset /\ a = Asset[current[p]]
  BY <1>2, <1>3, AssetOrder DEF AssetMove, Placed, Cur, Downloading
<1>5. PICK f : f = IF partial[a] = NoFile THEN <<p, a>> ELSE partial[a]
  OBVIOUS
<1>6. \/ AssetError(p) /\ UNCHANGED <<served, handle, partial, data>>
      \/ /\ Step(p, "first")
         /\ partial' = [partial EXCEPT ![a] = f]
         /\ handle' = [handle EXCEPT ![p] = f]
         /\ data' = [data EXCEPT ![f] = <<"hole", "hole">>]
  BY <1>3, <1>5 DEF OpenPartial
<1>7. CASE AssetError(p) /\ UNCHANGED <<served, handle, partial, data>>
  BY <1>2, <1>7, FailsSoundly DEF Downloading
<1>8. CASE /\ Step(p, "first")
           /\ partial' = [partial EXCEPT ![a] = f]
           /\ handle' = [handle EXCEPT ![p] = f]
           /\ data' = [data EXCEPT ![f] = <<"hole", "hole">>]
  <2>1. <<p, a>> # partial[a] /\ <<p, a>> # dest[a]
    BY <1>2, <1>4 DEF AssetMove, Unmade
  <2>2. <<p, a>> \in File /\ <<p, a>>[2] = a
    BY <1>4 DEF File
  <2>3. f \in File /\ f[2] = a /\ f # dest[a] /\ f # NoFile
    BY <1>1, <1>4, <1>5, <2>1, <2>2, AssetAssumption DEF AssetMove, Apart
  <2>4. astep'[p] = "first" /\ partial'[a] = f /\ handle'[p] = f /\ data'[f] = <<"hole", "hole">>
    BY <1>1, <1>4, <1>8, <2>3 DEF Step
  <2>5. \A b \in Assets \ {a} : partial'[b] = partial[b]
    BY <1>1, <1>8
  <2>6. ~Ready(a)'
    <3>1. ~Ready(a)
      BY <1>2, <1>3 DEF AssetMove, Sound, Writes
    <3>2. dest[a] # NoFile => data'[dest[a]] = data[dest[a]]
      BY <1>1, <1>4, <1>8, <2>3
    <3> QED
      BY <1>2, <3>1, <3>2 DEF Ready
  <2>7. Cur(p)' = a
    BY <1>2, <1>3 DEF Cur
  <2>8. Writes(p)'
    BY <2>3, <2>4, <2>6, <2>7 DEF Writes
  <2> QED
    BY <1>2, <1>3, <1>4, <1>8, <2>3, <2>4, <2>5, <2>8, WritesOn DEF Downloading
<1> QED
  BY <1>6, <1>7, <1>8

\* ... a chunk is written behind the other, ...
LEMMA WritesSoundly ==
  ASSUME NEW p \in Starter, AssetMove(p), WriteChunk(p)
  PROVE  Sound'
<1>1. /\ astep \in [Starter -> {"idle", "ensure", "next", "save", "done", "failed"} \cup Downloading]
      /\ partial \in [Assets -> File \cup {NoFile}] /\ dest \in [Assets -> File \cup {NoFile}]
      /\ data \in [File -> Chunk \X Chunk] /\ served \in [Starter -> {Good, Bad}]
  BY DEF AssetMove, AssetTypeOK
<1>2. /\ astep[p] \in {"first", "second"}
      /\ UNCHANGED <<current, served, handle, partial, dest>>
  BY DEF WriteChunk
<1>3. PICK a : a = Cur(p)
  OBVIOUS
<1>4. a \in Assets /\ Cur(p)' = a
  BY <1>2, <1>3, AssetOrder DEF AssetMove, Placed, Cur, Downloading
<1>5. PICK f : f = partial[a]
  OBVIOUS
<1>6. /\ f # NoFile /\ handle[p] = f
      /\ data[f] = IF astep[p] = "first" THEN <<"hole", "hole">> ELSE <<served[p][1], "hole">>
      /\ ~Ready(a)
  BY <1>2, <1>3, <1>5 DEF AssetMove, Sound, Writes
<1>7. f \in File /\ f[2] = a /\ f # dest[a]
  BY <1>1, <1>4, <1>5, <1>6 DEF AssetMove, Apart
<1>8. served[p] \in Chunk \X Chunk /\ served[p][1] \in Chunk /\ served[p][2] \in Chunk
      /\ served[p] = <<served[p][1], served[p][2]>>
  BY <1>1, IsGood
<1>9. \/ AssetError(p) /\ UNCHANGED data
      \/ astep[p] = "first" /\ Step(p, "second") /\ data' = [data EXCEPT ![f][1] = served[p][1]]
      \/ astep[p] = "second" /\ Step(p, "rename") /\ data' = [data EXCEPT ![f][2] = served[p][2]]
  BY <1>2, <1>6 DEF WriteChunk
<1>10. CASE AssetError(p) /\ UNCHANGED data
  BY <1>2, <1>10, FailsSoundly DEF Downloading
<1>11. ASSUME NEW x, data' = [data EXCEPT ![f] = x], astep'[p] \in {"second", "rename"},
              x = IF astep'[p] = "second" THEN <<served[p][1], "hole">> ELSE served[p]
       PROVE  Sound'
  <2>1. ~Ready(a)'
    <3>1. dest[a] # NoFile => data'[dest[a]] = data[dest[a]]
      BY <1>1, <1>4, <1>7, <1>11
    <3> QED
      BY <1>2, <1>6, <3>1 DEF Ready
  <2>2. data'[f] = x
    BY <1>1, <1>7, <1>11
  <2>3. Writes(p)'
    BY <1>2, <1>4, <1>5, <1>6, <1>11, <2>1, <2>2 DEF Writes
  <2> QED
    BY <1>2, <1>3, <1>4, <1>7, <1>11, <2>3, WritesOn DEF Downloading
<1>12. CASE astep[p] = "first" /\ Step(p, "second") /\ data' = [data EXCEPT ![f][1] = served[p][1]]
  <2>1. data' = [data EXCEPT ![f] = <<served[p][1], data[f][2]>>]
    BY <1>1, <1>7, <1>8, <1>12, PutData
  <2>2. data[f][2] = "hole"
    BY <1>6, <1>12
  <2>3. astep'[p] = "second"
    BY <1>1, <1>12 DEF Step
  <2> QED
    BY <1>11, <2>1, <2>2, <2>3
<1>13. CASE astep[p] = "second" /\ Step(p, "rename") /\ data' = [data EXCEPT ![f][2] = served[p][2]]
  <2>1. data' = [data EXCEPT ![f] = <<data[f][1], served[p][2]>>]
    BY <1>1, <1>7, <1>8, <1>13, PutData
  <2>2. data[f][1] = served[p][1]
    BY <1>6, <1>13
  <2>3. astep'[p] = "rename"
    BY <1>1, <1>13 DEF Step
  <2>4. <<data[f][1], served[p][2]>> = served[p]
    BY <1>8, <2>2
  <2> QED
    BY <1>11, <2>1, <2>3, <2>4
<1> QED
  BY <1>9, <1>10, <1>12, <1>13

\* The only file that a rename or a verdict puts in place or removes is that of the
\* asset that p downloads.
LEMMA Replaces ==
  ASSUME NEW p \in Starter, AssetMove(p), NEW a \in Assets, a = Cur(p), astep[p] \in {"rename", "verify"},
         UNCHANGED <<current, data, served>>,
         \A b \in Assets \ {a} : partial'[b] = partial[b] /\ dest'[b] = dest[b],
         dest'[a] # NoFile => data'[dest'[a]] \in {Good, Bad},
         astep'[p] \in {"verify", "next", "failed"}, Writes(p)',
         \A q \in Starter : \A i \in DOMAIN Asset :
           Passed(q, i)' /\ Asset[i] = a /\ a \in Required => Ready(a)'
  PROVE  Sound'
<1>1. /\ \A q \in Starter \ {p} :
           /\ astep'[q] = astep[q] /\ current'[q] = current[q] /\ Cur(q)' = Cur(q)
           /\ served'[q] = served[q] /\ handle'[q] = handle[q]
  BY OthersStay DEF AssetMove
<1>2. \A b \in Assets \ {a} : Ready(b)' <=> Ready(b)
  BY DEF Ready
<1>3. Alone'
  BY <1>1 DEF AssetMove, Sound, Alone, Downloading, Cur
<1>4. ASSUME NEW q \in Starter, q # p PROVE Writes(q)'
  <2>1. CASE astep[q] \in Downloading
    <3>1. PICK b : b = Cur(q) /\ b = Cur(q)'
      BY <1>1, <1>4
    <3>2. b \in Assets /\ b # a
      BY <1>4, <2>1, <3>1, AssetOrder DEF AssetMove, Placed, Cur, Sound, Alone, Downloading
    <3>3. Writes(q)
      BY DEF AssetMove, Sound
    <3>4. Ready(b)' <=> Ready(b)
      BY <1>2, <3>2
    <3>5. partial'[b] = partial[b] /\ dest'[b] = dest[b]
      BY <3>2
    <3> QED
      BY <1>1, <1>4, <3>1, <3>3, <3>4, <3>5 DEF Writes
  <2>2. CASE astep[q] \notin Downloading
    BY <1>1, <1>4, <2>2 DEF Writes, Downloading
  <2> QED
    BY <2>1, <2>2
<1>5. \A b \in Assets : dest'[b] # NoFile => data'[dest'[b]] \in {Good, Bad}
  BY DEF AssetMove, Sound
<1>6. ASSUME NEW q \in Starter, NEW i \in DOMAIN Asset, Passed(q, i)', Asset[i] \in Required
      PROVE  Ready(Asset[i])'
  <2>1. CASE Asset[i] = a
    BY <1>6, <2>1
  <2>2. CASE Asset[i] # a
    <3>1. Passed(q, i)
      <4>1. CASE q # p
        BY <1>1, <1>6, <4>1 DEF Passed
      <4>2. CASE q = p
        <5>1. i < current[p]
          BY <1>6, <2>2, <4>2 DEF Passed, Cur
        <5> QED
          BY <4>2, <5>1 DEF Passed
      <4> QED
        BY <4>1, <4>2
    <3>2. Ready(Asset[i])
      BY <1>6, <3>1 DEF AssetMove, Sound
    <3> QED
      BY <1>2, <2>2, <3>2, AssetOrder
  <2> QED
    BY <2>1, <2>2
<1> QED
  BY <1>3, <1>4, <1>5, <1>6 DEF Sound

\* ... the two make the file that takes the path, ...
LEMMA RenamesSoundly ==
  ASSUME NEW p \in Starter, AssetMove(p), RenamePartial(p)
  PROVE  Sound'
<1>1. /\ astep \in [Starter -> {"idle", "ensure", "next", "save", "done", "failed"} \cup Downloading]
      /\ current \in [Starter -> 1..Len(Asset) + 1] /\ served \in [Starter -> {Good, Bad}]
      /\ partial \in [Assets -> File \cup {NoFile}] /\ dest \in [Assets -> File \cup {NoFile}]
  BY DEF AssetMove, AssetTypeOK
<1>2. astep[p] = "rename" /\ UNCHANGED <<current, served, data>>
  BY DEF RenamePartial
<1>3. PICK a : a = Cur(p)
  OBVIOUS
<1>4. a \in Assets /\ Cur(p)' = a /\ current[p] \in DOMAIN Asset /\ a = Asset[current[p]]
  BY <1>2, <1>3, AssetOrder DEF AssetMove, Placed, Cur, Downloading
<1>5. partial[a] # NoFile /\ data[partial[a]] = served[p] /\ ~Ready(a)
  BY <1>2, <1>3 DEF AssetMove, Sound, Writes
<1>6. /\ Step(p, "verify") /\ partial' = [partial EXCEPT ![a] = NoFile]
      /\ dest' = [dest EXCEPT ![a] = partial[a]]
  BY <1>3, <1>5 DEF RenamePartial
<1>7. /\ astep'[p] = "verify" /\ dest'[a] = partial[a]
      /\ \A b \in Assets \ {a} : partial'[b] = partial[b] /\ dest'[b] = dest[b]
  BY <1>1, <1>4, <1>6 DEF Step
<1>8. dest'[a] # NoFile /\ data'[dest'[a]] = served[p] /\ served[p] \in {Good, Bad}
  BY <1>1, <1>2, <1>5, <1>7
<1>9. Writes(p)'
  BY <1>2, <1>4, <1>7, <1>8 DEF Writes
<1>10. ASSUME NEW q \in Starter, NEW i \in DOMAIN Asset, Passed(q, i)', Asset[i] = a, a \in Required
       PROVE  FALSE
  <2>1. CASE q # p
    <3>1. Passed(q, i)
      BY <1>10, <2>1, OthersStay DEF Passed, AssetMove, AssetStep
    <3> QED
      BY <1>5, <1>10, <3>1 DEF AssetMove, Sound
  <2>2. CASE q = p
    <3>1. i = current[p]
      BY <1>4, <1>10, AssetAssumption
    <3>2. current[p] \in Nat
      BY <1>1, AssetOrder
    <3> QED
      BY <1>2, <1>7, <1>10, <2>2, <3>1, <3>2 DEF Passed
  <2> QED
    BY <2>1, <2>2
<1> QED
  BY <1>2, <1>3, <1>4, <1>7, <1>8, <1>9, <1>10, Replaces

\* ... and a wrong one is removed.
LEMMA VerifiesSoundly ==
  ASSUME NEW p \in Starter, AssetMove(p), VerifyDownload(p)
  PROVE  Sound'
<1>1. /\ astep \in [Starter -> {"idle", "ensure", "next", "save", "done", "failed"} \cup Downloading]
      /\ current \in [Starter -> 1..Len(Asset) + 1] /\ served \in [Starter -> {Good, Bad}]
      /\ partial \in [Assets -> File \cup {NoFile}] /\ dest \in [Assets -> File \cup {NoFile}]
  BY DEF AssetMove, AssetTypeOK
<1>2. astep[p] = "verify" /\ UNCHANGED <<current, served, partial, data>>
  BY DEF VerifyDownload
<1>3. PICK a : a = Cur(p)
  OBVIOUS
<1>4. a \in Assets /\ Cur(p)' = a /\ current[p] \in DOMAIN Asset /\ a = Asset[current[p]]
  BY <1>2, <1>3, AssetOrder DEF AssetMove, Placed, Cur, Downloading
<1>5. dest[a] # NoFile /\ data[dest[a]] = served[p] /\ served[p] \in {Good, Bad}
  BY <1>1, <1>2, <1>3 DEF AssetMove, Sound, Writes
<1>6. astep'[p] \in {"next", "failed"}
  BY <1>1 DEF VerifyDownload, AssetError, Step
<1>7. Writes(p)'
  BY <1>6 DEF Writes
<1>8. ASSUME NEW q \in Starter, NEW i \in DOMAIN Asset, Passed(q, i)', Asset[i] = a, a \in Required, q # p
      PROVE  Ready(a)
  <2>1. Passed(q, i)
    BY <1>8, OthersStay DEF Passed, AssetMove, AssetStep
  <2> QED
    BY <1>8, <2>1 DEF AssetMove, Sound
<1>9. CASE a \in Pinned /\ served[p] # Good
  <2>1. AssetError(p) /\ dest' = [dest EXCEPT ![a] = NoFile] /\ ~Ready(a)
    BY <1>3, <1>5, <1>9 DEF VerifyDownload, Ready
  <2>2. dest'[a] = NoFile /\ \A b \in Assets \ {a} : dest'[b] = dest[b]
    BY <1>1, <1>4, <2>1
  <2>3. ASSUME NEW q \in Starter, NEW i \in DOMAIN Asset, Passed(q, i)', Asset[i] = a, a \in Required
        PROVE  FALSE
    <3>1. q = p
      BY <1>8, <2>1, <2>3
    <3>2. astep'[p] = "failed"
      BY <1>1, <1>3, <2>1, <2>3 DEF AssetError, Step
    <3> QED
      BY <2>3, <3>1, <3>2 DEF Passed
  <2> QED
    BY <1>2, <1>3, <1>4, <1>6, <1>7, <2>2, <2>3, Replaces
<1>10. CASE ~(a \in Pinned /\ served[p] # Good)
  <2>1. UNCHANGED dest
    BY <1>3, <1>10 DEF VerifyDownload
  <2>2. Ready(a)'
    BY <1>2, <1>5, <1>10, <2>1 DEF Ready
  <2> QED
    BY <1>2, <1>3, <1>4, <1>5, <1>6, <1>7, <2>1, <2>2, Replaces
<1> QED
  BY <1>9, <1>10

\* What an earlier life left is whole, right or wrong.
LEMMA SoundAtFirst == AssetInit => Sound /\ Vouched
<1> SUFFICES ASSUME AssetInit PROVE Sound /\ Vouched
  OBVIOUS
<1>1. PICK present \in SUBSET Assets, content \in {Good, Bad} :
        /\ dest = [a \in Assets |-> IF a \in present THEN <<"old", a>> ELSE NoFile]
        /\ data = [f \in File |-> IF f[1] = "old" THEN content ELSE <<"hole", "hole">>]
  BY DEF AssetInit
<1>2. \A p \in Starter : astep[p] = "idle" /\ current[p] = 1
  BY DEF AssetInit
<1>3. ASSUME NEW a \in Assets, dest[a] # NoFile PROVE data[dest[a]] \in {Good, Bad}
  <2>1. dest[a] = <<"old", a>> /\ <<"old", a>> \in File /\ <<"old", a>>[1] = "old"
    BY <1>1, <1>3 DEF File
  <2> QED
    BY <1>1, <2>1
<1>4. Alone /\ \A p \in Starter : Writes(p)
  BY <1>2 DEF Alone, Writes, Downloading
<1>5. \A p \in Starter : \A i \in DOMAIN Asset : ~Passed(p, i)
  BY <1>2, AssetOrder DEF Passed
<1>6. Vouched
  <2>1. Good # NoFile
    BY IsGood, AssetAssumption
  <2>2. /\ \A a \in Assets : manifest[a] = NoFile
        /\ \A q \in Starter : \A a \in Assets : notes[q][a] = NoFile
    BY DEF AssetInit
  <2> QED
    BY <2>1, <2>2 DEF Vouched
<1> QED
  BY <1>3, <1>4, <1>5, <1>6 DEF Sound

\* Only a download replaces a file, and it replaces none that is ready.
LEMMA ReadyStays ==
  ASSUME NEW p \in Starter, AssetMove(p), NEW b \in Assets, Ready(b)
  PROVE  Ready(b)'
<1> USE AssetOrder
<1>1. /\ data \in [File -> Chunk \X Chunk] /\ dest \in [Assets -> File \cup {NoFile}]
      /\ partial \in [Assets -> File \cup {NoFile}]
  BY DEF AssetMove, AssetTypeOK
<1>2. astep[p] \in Downloading => Cur(p) \in Assets /\ current[p] \in DOMAIN Asset
  BY DEF AssetMove, Placed, Cur, Downloading
<1>3. dest[b] \in File /\ dest[b][2] = b
  BY <1>1 DEF Ready, AssetMove, Apart
<1>4. CASE UNCHANGED <<dest, data>>
  BY <1>4 DEF Ready
<1>5. ASSUME NEW f, f # dest[b], UNCHANGED dest, NEW x, data' = [data EXCEPT ![f] = x] PROVE Ready(b)'
  BY <1>1, <1>3, <1>5 DEF Ready
<1>6. CASE OpenPartial(p)
  <2>1. PICK a, f : a = Cur(p) /\ f = IF partial[a] = NoFile THEN <<p, a>> ELSE partial[a]
    OBVIOUS
  <2>2. astep[p] = "open" /\ a \in Assets /\ UNCHANGED dest
    BY <1>2, <1>6, <2>1 DEF OpenPartial, Downloading
  <2>3. UNCHANGED data \/ data' = [data EXCEPT ![f] = <<"hole", "hole">>]
    BY <1>6, <2>1 DEF OpenPartial
  <2>4. f # dest[a] /\ f[2] = a
    <3>1. CASE partial[a] = NoFile
      <4>1. f = <<p, a>> /\ a = Asset[current[p]] /\ current[p] \in DOMAIN Asset
        BY <1>2, <2>1, <2>2, <3>1 DEF Cur, Downloading
      <4>2. <<p, a>> # dest[a]
        BY <2>2, <4>1 DEF AssetMove, Unmade
      <4> QED
        BY <4>1, <4>2
    <3>2. CASE partial[a] # NoFile
      BY <2>1, <2>2, <3>2 DEF AssetMove, Apart
    <3> QED
      BY <3>1, <3>2
  <2>5. f # dest[b]
    BY <1>3, <2>4
  <2> QED
    BY <1>4, <1>5, <2>2, <2>3, <2>5
<1>7. CASE WriteChunk(p)
  <2>1. PICK a : a = Cur(p)
    OBVIOUS
  <2>2. /\ astep[p] \in {"first", "second"} /\ a \in Assets /\ UNCHANGED dest
        /\ handle[p] = partial[a] /\ partial[a] # NoFile
    BY <1>2, <1>7, <2>1 DEF WriteChunk, Downloading, AssetMove, Sound, Writes
  <2>3. handle[p] \in File /\ handle[p] # dest[a] /\ handle[p][2] = a
    BY <1>1, <2>2 DEF AssetMove, Apart
  <2>4. served[p] \in {Good, Bad}
    BY DEF AssetMove, AssetTypeOK
  <2>5. served[p][1] \in Chunk /\ served[p][2] \in Chunk
    BY <2>4, IsGood
  <2>6. UNCHANGED data \/ \E x : data' = [data EXCEPT ![handle[p]] = x]
    BY <1>1, <1>7, <2>3, <2>5, PutData DEF WriteChunk
  <2>7. handle[p] # dest[b]
    BY <1>3, <2>3
  <2> QED
    BY <1>4, <1>5, <2>2, <2>6, <2>7
<1>8. CASE RenamePartial(p)
  <2>1. PICK a : a = Cur(p)
    OBVIOUS
  <2>2. astep[p] = "rename" /\ a \in Assets /\ UNCHANGED data /\ ~Ready(a)
    BY <1>2, <1>8, <2>1 DEF RenamePartial, Downloading, AssetMove, Sound, Writes
  <2>3. dest'[b] = dest[b]
    BY <1>1, <1>8, <2>1, <2>2 DEF RenamePartial
  <2> QED
    BY <2>2, <2>3 DEF Ready
<1>9. CASE VerifyDownload(p)
  <2>1. PICK a : a = Cur(p)
    OBVIOUS
  <2>2. astep[p] = "verify" /\ a \in Assets /\ UNCHANGED data /\ data[dest[a]] = served[p]
    BY <1>2, <1>9, <2>1 DEF VerifyDownload, Downloading, AssetMove, Sound, Writes
  <2>3. dest'[b] = dest[b]
    <3>1. CASE a \in Pinned /\ served[p] # Good
      BY <1>1, <1>9, <2>1, <2>2, <3>1 DEF VerifyDownload, Ready
    <3>2. CASE ~(a \in Pinned /\ served[p] # Good)
      BY <1>9, <2>1, <3>2 DEF VerifyDownload
    <3> QED
      BY <3>1, <3>2
  <2> QED
    BY <2>2, <2>3 DEF Ready
<1>10. CASE BeginAssets(p) \/ AbandonAssets(p) \/ EnsureMissing(p) \/ EnsurePresent(p) \/ NextAsset(p) \/ SaveManifest(p)
  BY <1>4, <1>10 DEF BeginAssets, AbandonAssets, EnsureMissing, EnsurePresent, NextAsset, SaveManifest
<1> QED
  BY <1>6, <1>7, <1>8, <1>9, <1>10 DEF AssetMove, AssetStep

\* What is recorded is the hash of a file that is there.
LEMMA VouchesSoundly ==
  ASSUME NEW p \in Starter, AssetMove(p)
  PROVE  Vouched'
<1> USE AssetOrder
<1>1. /\ notes \in [Starter -> [Assets -> (Chunk \X Chunk) \cup {NoFile}]]
      /\ manifest \in [Assets -> (Chunk \X Chunk) \cup {NoFile}]
  BY DEF AssetMove, AssetTypeOK
<1> SUFFICES ASSUME NEW a \in Assets \cap Pinned,
                    manifest'[a] = Good \/ \E q \in Starter : notes'[q][a] = Good
             PROVE  Ready(a)'
  BY DEF Vouched
<1>2. CASE manifest[a] = Good \/ \E q \in Starter : notes[q][a] = Good
  <2>1. Ready(a)
    BY <1>2 DEF AssetMove, Vouched
  <2> QED
    BY <2>1, ReadyStays
<1>3. CASE manifest[a] # Good /\ \A q \in Starter : notes[q][a] # Good
  <2>1. ASSUME UNCHANGED <<notes, manifest>> PROVE FALSE
    BY <1>3, <2>1
  <2>2. ASSUME NEW hash \in Chunk \X Chunk, Record(p, hash), UNCHANGED manifest, Cur(p) \in Assets
        PROVE  Cur(p) = a /\ hash = Good
    <3>1. notes' = [notes EXCEPT ![p] = [notes[p] EXCEPT ![Cur(p)] = hash]]
      BY <1>1, <2>2 DEF Record
    <3>2. \A q \in Starter : notes'[q] = IF q = p THEN [notes[p] EXCEPT ![Cur(p)] = hash] ELSE notes[q]
      BY <1>1, <3>1
    <3>3. notes'[p][a] = Good
      BY <1>3, <2>2, <3>2
    <3>4. notes'[p][a] = IF a = Cur(p) THEN hash ELSE notes[p][a]
      BY <1>1, <3>2
    <3> QED
      BY <1>3, <3>3, <3>4
  <2>3. CASE BeginAssets(p)
    BY <1>1, <1>3, <2>3 DEF BeginAssets
  <2>4. CASE SaveManifest(p)
    BY <1>3, <2>4 DEF SaveManifest
  <2>5. CASE EnsureMissing(p) \/ OpenPartial(p) \/ WriteChunk(p) \/ RenamePartial(p) \/ NextAsset(p) \/ AbandonAssets(p)
    BY <2>1, <2>5 DEF EnsureMissing, OpenPartial, WriteChunk, RenamePartial, NextAsset, AbandonAssets, Download
  <2>6. CASE EnsurePresent(p)
    <3>1. /\ Cur(p) \in Assets /\ dest[Cur(p)] # NoFile /\ UNCHANGED <<manifest, dest, data>>
          /\ dest[Cur(p)] \in File
      BY <2>6 DEF EnsurePresent, AssetMove, Placed, Cur, AssetTypeOK
    <3>2. data[dest[Cur(p)]] \in Chunk \X Chunk
      BY <3>1 DEF AssetMove, AssetTypeOK
    <3>3. Record(p, data[dest[Cur(p)]])
      BY <2>1, <2>6, <3>1 DEF EnsurePresent, Download
    <3>4. Cur(p) = a /\ data[dest[a]] = Good
      BY <2>2, <3>1, <3>2, <3>3
    <3> QED
      BY <3>1, <3>4 DEF Ready
  <2>7. CASE VerifyDownload(p)
    <3>1. /\ Cur(p) \in Assets /\ astep[p] = "verify" /\ UNCHANGED <<manifest, data>>
          /\ dest[Cur(p)] # NoFile /\ data[dest[Cur(p)]] = served[p]
      BY <2>7 DEF VerifyDownload, AssetMove, Placed, Cur, Downloading, Sound, Writes
    <3>2. served[p] \in Chunk \X Chunk
      BY IsGood DEF AssetMove, AssetTypeOK
    <3>3. Record(p, served[p]) /\ UNCHANGED dest
      BY <2>1, <2>7, <3>1 DEF VerifyDownload
    <3>4. Cur(p) = a /\ served[p] = Good
      BY <2>2, <3>1, <3>2, <3>3
    <3> QED
      BY <3>1, <3>3, <3>4 DEF Ready
  <2> QED
    BY <2>3, <2>4, <2>5, <2>6, <2>7 DEF AssetMove, AssetStep
<1> QED
  BY <1>2, <1>3

\* Whatever the processes do about their assets, apart or at a time.
LEMMA AssetsKept ==
  ASSUME AssetInv, NEW p \in Starter, BeginAssets(p) \/ AssetStep(p) \/ AbandonAssets(p)
  PROVE  AssetInv'
<1>1. AssetTypeOK' /\ Placed'
  BY AssetTypes DEF AssetInv
<1>2. Apart' /\ Unmade'
  BY FilesKept DEF AssetInv
<1>3. ASSUME ~shared' PROVE Sound' /\ Vouched'
  <2>1. AssetMove(p)
    BY <1>1, <1>3, OthersStay DEF AssetInv, AssetMove
  <2> QED
    BY <2>1, StartsSoundly, EnsuresSoundly, OpensSoundly, WritesSoundly, RenamesSoundly, VerifiesSoundly, VouchesSoundly
    DEF AssetStep
<1> QED
  BY <1>1, <1>2, <1>3 DEF AssetInv

\* A step of another part leaves the assets alone.
LEMMA AssetsUnchanged == AssetInv /\ UNCHANGED assetVars => AssetInv'
  BY DEF AssetInv, assetVars, AssetTypeOK, Placed, Apart, Unmade, Sound, Vouched, Alone, Writes, Passed, Ready, Cur

-----------------------------------------------------------------------------

\* A merge is a configuration, with the engine of the old one, ...
LEMMA MergeTyped ==
  ASSUME NEW c \in Config, NEW n \in Config
  PROVE  Merge(c, n) \in Config /\ Merge(c, n).engine = c.engine
  BY DEF Merge, Config

\* ... which is all it takes from it, ...
LEMMA SameEngine ==
  ASSUME NEW c \in Config, NEW d \in Config, NEW n \in Config, c.engine = d.engine
  PROVE  Merge(c, n) = Merge(d, n)
  BY DEF Merge

\* ... so that merging what is merged changes nothing.
LEMMA MergeSame ==
  ASSUME NEW c \in Config, NEW d \in Config, c.engine = d.engine
  PROVE  Merge(d, c) = c
  BY DEF Merge, Config

\* At first nobody has read the file.
LEMMA ReloadAtFirst == HostInit => ReloadInv
<1> SUFFICES ASSUME HostInit PROVE ReloadInv
  OBVIOUS
<1>1. /\ file \in Config /\ edits = 0 /\ aborted = {}
      /\ running = [d \in Daemon |-> Unread] /\ booted = running /\ provider = running
      /\ caches = running /\ next = running
      /\ rstep = [d \in Daemon |-> "idle"] /\ signalled = [d \in Daemon |-> 0]
  BY DEF HostInit, ConfigInit
<1>2. ConfigTypeOK
  BY <1>1, ReloadAssumption DEF ConfigTypeOK
<1>3. ASSUME NEW d \in Proc PROVE Settings(d) /\ CaughtUp(d)
  <2>1. /\ running[d] = Unread /\ booted[d] = Unread /\ provider[d] = Unread /\ caches[d] = Unread
        /\ rstep[d] = "idle" /\ signalled[d] = 0
    BY <1>1, SameProcesses
  <2>2. signalled[d] <= edits
    BY <1>1, <2>1
  <2> QED
    BY <2>1, <2>2 DEF Settings, CaughtUp
<1> QED
  BY <1>2, <1>3 DEF ReloadInv

\* A step that leaves the configuration alone, and takes no signal without ending the
\* process.
LEMMA ReloadStays ==
  ASSUME ReloadInv, UNCHANGED configVars,
         \A d \in Proc : d \notin hupped' /\ phase'[d] # "gone" => d \notin hupped /\ phase[d] # "gone"
  PROVE  ReloadInv'
<1>1. ConfigTypeOK'
  BY DEF ReloadInv, ConfigTypeOK, configVars
<1>2. ASSUME NEW d \in Proc PROVE Settings(d)' /\ CaughtUp(d)'
  <2>1. Settings(d)'
    BY DEF ReloadInv, Settings, configVars
  <2>2. CaughtUp(d)'
    BY DEF ReloadInv, CaughtUp, configVars
  <2> QED
    BY <2>1, <2>2
<1> QED
  BY <1>1, <1>2 DEF ReloadInv

\* The configuration of one process changes, and it takes no signal.
LEMMA ReloadOfOne ==
  ASSUME ReloadInv, NEW p \in Proc, ConfigTypeOK', UNCHANGED <<file, edits, hupped>>,
         \A d \in Proc \ {p} :
           /\ running'[d] = running[d] /\ booted'[d] = booted[d] /\ provider'[d] = provider[d]
           /\ caches'[d] = caches[d] /\ rstep'[d] = rstep[d] /\ next'[d] = next[d]
           /\ signalled'[d] = signalled[d] /\ phase'[d] = phase[d]
           /\ d \in aborted' <=> d \in aborted,
         Settings(p)', CaughtUp(p)'
  PROVE  ReloadInv'
<1>1. ASSUME NEW d \in Proc PROVE Settings(d)' /\ CaughtUp(d)'
  <2>1. CASE d # p
    <3>1. Settings(d) /\ CaughtUp(d)
      BY DEF ReloadInv
    <3>2. Settings(d)'
      BY <2>1, <3>1 DEF Settings
    <3>3. CaughtUp(d)'
      BY <2>1, <3>1 DEF CaughtUp
    <3> QED
      BY <3>2, <3>3
  <2>2. CASE d = p
    BY <2>2
  <2> QED
    BY <2>1, <2>2
<1> QED
  BY <1>1 DEF ReloadInv

\* A process that starts reads what the file says now.
LEMMA BootsCurrent ==
  ASSUME ReloadInv, Linked, NEW p \in Proc, ProcTypeOK, Start(p), BootConfig(p)
  PROVE  ReloadInv'
<1> USE SameProcesses, ReloadAssumption
<1>1. /\ file \in Config \cup {Broken} /\ edits \in 0..MaxEdits /\ aborted \subseteq Daemon
      /\ running \in [Daemon -> Config \cup {Unread}] /\ booted \in [Daemon -> Config \cup {Unread}]
      /\ provider \in [Daemon -> Config \cup {Unread}] /\ caches \in [Daemon -> Config \cup {Unread}]
      /\ next \in [Daemon -> Config \cup {Unread}] /\ signalled \in [Daemon -> 0..MaxEdits]
      /\ rstep \in [Daemon -> {"idle", "load", "provider", "caches", "store"}]
  BY DEF ReloadInv, ConfigTypeOK
<1>2. PICK c : c = IF Valid(file) THEN file ELSE Unread
  OBVIOUS
<1>3. c \in Config \cup {Unread}
  BY <1>1, <1>2 DEF Valid
<1>4. /\ running' = [running EXCEPT ![p] = c] /\ booted' = [booted EXCEPT ![p] = c]
      /\ provider' = [provider EXCEPT ![p] = c] /\ caches' = [caches EXCEPT ![p] = c]
      /\ signalled' = [signalled EXCEPT ![p] = edits]
      /\ UNCHANGED <<file, rstep, next, aborted, edits>>
  BY <1>1, <1>2 DEF BootConfig
<1>5. phase[p] = "off" /\ phase' = [phase EXCEPT ![p] = "loading"] /\ UNCHANGED hupped
      /\ phase \in [Proc -> Phase]
  BY DEF Start, Go, ProcTypeOK
<1>6. rstep[p] = "idle"
  <2>1. running[p] = Unread
    BY <1>5 DEF Linked
  <2> QED
    BY <2>1 DEF ReloadInv, Settings
<1>7. ConfigTypeOK'
  BY <1>1, <1>3, <1>4 DEF ConfigTypeOK
<1>8. /\ running'[p] = c /\ booted'[p] = c /\ provider'[p] = c /\ caches'[p] = c /\ rstep'[p] = "idle"
      /\ signalled'[p] = edits /\ edits' = edits
  BY <1>1, <1>4, <1>6
<1>9. Settings(p)'
  BY <1>1, <1>8 DEF Settings
<1>10. CaughtUp(p)'
  <2>1. Valid(file) => c = file /\ file \in Config
    BY <1>1, <1>2 DEF Valid
  <2>2. Valid(file) => Merge(c, file) = c
    BY <2>1, MergeSame
  <2>3. Valid(file)' <=> Valid(file)
    BY <1>4 DEF Valid
  <2> QED
    BY <1>4, <1>8, <2>1, <2>2, <2>3 DEF CaughtUp
<1>11. \A d \in Proc \ {p} :
         /\ running'[d] = running[d] /\ booted'[d] = booted[d] /\ provider'[d] = provider[d]
         /\ caches'[d] = caches[d] /\ rstep'[d] = rstep[d] /\ next'[d] = next[d]
         /\ signalled'[d] = signalled[d] /\ phase'[d] = phase[d]
         /\ d \in aborted' <=> d \in aborted
  BY <1>1, <1>4, <1>5
<1> QED
  BY <1>4, <1>5, <1>7, <1>9, <1>10, <1>11, ReloadOfOne

\* After an edit nobody has been signalled.
LEMMA EditsNoted ==
  ASSUME ReloadInv, EditConfig, UNCHANGED <<hupped, phase>>
  PROVE  ReloadInv'
<1> USE SameProcesses
<1>1. /\ file' \in Config \cup {Broken} /\ edits' = edits + 1 /\ edits \in 0..MaxEdits /\ edits < MaxEdits
      /\ signalled \in [Daemon -> 0..MaxEdits]
      /\ UNCHANGED <<running, booted, provider, caches, rstep, next, aborted, signalled>>
  BY DEF EditConfig, ReloadInv, ConfigTypeOK
<1>2. ConfigTypeOK'
  BY <1>1, ReloadAssumption DEF ReloadInv, ConfigTypeOK
<1>3. ASSUME NEW d \in Proc PROVE Settings(d)' /\ CaughtUp(d)'
  <2>1. signalled[d] <= edits /\ signalled[d] \in Nat /\ edits \in Nat
    BY <1>1 DEF ReloadInv, Settings
  <2>2. Settings(d)'
    BY <1>1, <2>1 DEF ReloadInv, Settings
  <2>3. signalled'[d] # edits'
    BY <1>1, <2>1
  <2> QED
    BY <2>2, <2>3 DEF CaughtUp
<1> QED
  BY <1>2, <1>3 DEF ReloadInv

\* A signal that is delivered is there to be taken.
LEMMA SignalsNoted ==
  ASSUME ReloadInv, ProcTypeOK, HostSendHup
  PROVE  ReloadInv'
<1> USE SameProcesses
<1>1. /\ hupped \subseteq hupped' /\ phase \in [Proc -> Phase]
      /\ \A d \in Proc : phase'[d] # "gone" => phase[d] # "gone"
  BY DEF HostSendHup, SendHup, Go, ProcTypeOK, Live
<1>2. CASE hup \in hupped'
  <2>1. NoteSignal(hup) /\ hup \in Proc
    BY <1>2 DEF HostSendHup, SendHup, ProcTypeOK
  <2>2. /\ signalled' = [signalled EXCEPT ![hup] = edits]
        /\ UNCHANGED <<file, running, booted, provider, caches, rstep, next, aborted, edits>>
    BY <2>1 DEF NoteSignal
  <2>3. signalled \in [Daemon -> 0..MaxEdits] /\ edits \in 0..MaxEdits
    BY DEF ReloadInv, ConfigTypeOK
  <2>4. ConfigTypeOK'
    BY <2>1, <2>2, <2>3 DEF ReloadInv, ConfigTypeOK
  <2>5. ASSUME NEW d \in Proc PROVE Settings(d)' /\ CaughtUp(d)'
    <3>1. Settings(d) /\ CaughtUp(d)
      BY DEF ReloadInv
    <3>2. signalled'[d] = signalled[d] \/ (d = hup /\ signalled'[d] = edits)
      BY <2>1, <2>2, <2>3
    <3>3. edits <= edits
      BY <2>3
    <3>4. Settings(d)'
      BY <2>2, <3>1, <3>2, <3>3 DEF Settings
    <3>5. CaughtUp(d)'
      BY <1>1, <1>2, <2>2, <3>1, <3>2 DEF CaughtUp
    <3> QED
      BY <3>4, <3>5
  <2> QED
    BY <2>4, <2>5 DEF ReloadInv
<1>3. CASE hup \notin hupped'
  <2>1. UNCHANGED configVars
    BY <1>3 DEF HostSendHup
  <2> QED
    BY <1>1, <2>1, ReloadStays
<1> QED
  BY <1>2, <1>3

\* A reload is begun before the file is read: what it reads is not older than the
\* signal.
LEMMA SignalTaken ==
  ASSUME ReloadInv, ProcTypeOK, NEW p \in Proc, TakeHup(p), BeginReload(p), running[p] # Unread
  PROVE  ReloadInv'
<1> USE SameProcesses
<1>1. /\ rstep[p] = "idle" /\ rstep' = [rstep EXCEPT ![p] = "load"]
      /\ UNCHANGED <<file, running, booted, provider, caches, next, aborted, signalled, edits>>
      /\ hupped' = hupped \ {p} /\ UNCHANGED phase
      /\ rstep \in [Daemon -> {"idle", "load", "provider", "caches", "store"}]
  BY DEF BeginReload, TakeHup, ReloadInv, ConfigTypeOK
<1>2. ConfigTypeOK'
  BY <1>1 DEF ReloadInv, ConfigTypeOK
<1>3. ASSUME NEW d \in Proc PROVE Settings(d)' /\ CaughtUp(d)'
  <2>1. Settings(d) /\ CaughtUp(d)
    BY DEF ReloadInv
  <2>2. rstep'[d] = IF d = p THEN "load" ELSE rstep[d]
    BY <1>1
  <2>3. Settings(d)'
    BY <1>1, <2>1, <2>2 DEF Settings
  <2>4. CaughtUp(d)'
    BY <1>1, <2>1, <2>2 DEF CaughtUp
  <2> QED
    BY <2>3, <2>4
<1> QED
  BY <1>2, <1>3 DEF ReloadInv

\* The steps of a reload: the file is read once, and what was read of it goes to the
\* provider, to the caches and to the running configuration.
LEMMA ReloadsOn ==
  ASSUME ReloadInv, NEW p \in Proc, ReloadStep(p), running[p] # Unread, UNCHANGED <<hupped, phase>>
  PROVE  ReloadInv'
<1> USE SameProcesses, ReloadAssumption
<1>1. /\ file \in Config \cup {Broken} /\ edits \in 0..MaxEdits /\ aborted \subseteq Daemon
      /\ running \in [Daemon -> Config \cup {Unread}] /\ booted \in [Daemon -> Config \cup {Unread}]
      /\ provider \in [Daemon -> Config \cup {Unread}] /\ caches \in [Daemon -> Config \cup {Unread}]
      /\ next \in [Daemon -> Config \cup {Unread}] /\ signalled \in [Daemon -> 0..MaxEdits]
      /\ rstep \in [Daemon -> {"idle", "load", "provider", "caches", "store"}]
  BY DEF ReloadInv, ConfigTypeOK
<1>2. Settings(p) /\ CaughtUp(p)
  BY DEF ReloadInv
<1>3. running[p] \in Config /\ booted[p] \in Config /\ running[p].engine = booted[p].engine
  BY <1>1, <1>2 DEF Settings
<1>4. rstep[p] \in {"provider", "caches", "store"} => next[p] \in Config /\ next[p].engine = booted[p].engine
  BY <1>1, <1>2 DEF Settings
<1>5. UNCHANGED <<file, booted, signalled, edits>>
  BY DEF ReloadStep, ReloadFile, ApplyProvider, ReplaceCaches, StoreConfig
<1>6. CASE ReloadFile(p)
  <2>1. UNCHANGED <<file, running, booted, provider, caches, aborted, signalled, edits>> /\ rstep[p] = "load"
    BY <1>6 DEF ReloadFile
  <2>2. CASE (~Valid(file) \/ file = running[p]) /\ rstep' = [rstep EXCEPT ![p] = "idle"] /\ UNCHANGED next
    <3>1. ConfigTypeOK' /\ rstep'[p] = "idle"
      BY <1>1, <2>1, <2>2 DEF ConfigTypeOK
    <3>2. Settings(p)'
      BY <1>2, <2>1, <2>2, <3>1 DEF Settings
    <3>3. Valid(file) => running[p] = Merge(booted[p], file)
      BY <1>3, <2>2, MergeSame
    <3>4. CaughtUp(p)'
      BY <2>1, <3>1, <3>3 DEF CaughtUp, Valid
    <3> QED
      BY <1>1, <2>1, <2>2, <3>1, <3>2, <3>4, ReloadOfOne
  <2>3. CASE Valid(file) /\ next' = [next EXCEPT ![p] = Merge(running[p], file)]
             /\ rstep' = [rstep EXCEPT ![p] = "provider"]
    <3>1. PICK n : n = Merge(running[p], file)
      OBVIOUS
    <3>2. n \in Config /\ n.engine = booted[p].engine
      BY <1>1, <1>3, <2>3, <3>1, MergeTyped DEF Valid
    <3>3. next' = [next EXCEPT ![p] = n] /\ next'[p] = n /\ rstep'[p] = "provider"
      BY <1>1, <2>3, <3>1
    <3>4. ConfigTypeOK'
      BY <1>1, <2>1, <2>3, <3>2, <3>3 DEF ConfigTypeOK
    <3>5. Settings(p)'
      BY <1>2, <2>1, <3>2, <3>3 DEF Settings
    <3>6. CaughtUp(p)'
      BY <2>1, <3>1, <3>3 DEF CaughtUp
    <3> QED
      BY <1>1, <2>1, <2>3, <3>3, <3>4, <3>5, <3>6, ReloadOfOne
  <2> QED
    BY <1>6, <2>2, <2>3 DEF ReloadFile
<1>7. CASE ApplyProvider(p)
  <2>1. /\ UNCHANGED <<file, running, booted, caches, next, signalled, edits>> /\ rstep[p] = "provider"
        /\ provider' = [provider EXCEPT ![p] = next[p]]
        /\ \/ rstep' = [rstep EXCEPT ![p] = "caches"] /\ UNCHANGED aborted
           \/ rstep' = [rstep EXCEPT ![p] = "idle"] /\ aborted' = aborted \cup {p}
    BY <1>7 DEF ApplyProvider
  <2>2. /\ rstep'[p] = "caches" \/ (rstep'[p] = "idle" /\ p \in aborted')
        /\ provider'[p] = next[p]
    BY <1>1, <2>1
  <2>3. ConfigTypeOK'
    BY <1>1, <1>4, <2>1 DEF ConfigTypeOK
  <2>4. Settings(p)'
    BY <1>2, <2>1, <2>2 DEF Settings
  <2>5. CaughtUp(p)'
    BY <1>2, <2>1, <2>2 DEF CaughtUp
  <2>6. \A d \in Proc \ {p} : provider'[d] = provider[d] /\ rstep'[d] = rstep[d] /\ (d \in aborted' <=> d \in aborted)
    BY <1>1, <2>1
  <2> QED
    BY <1>1, <2>1, <2>3, <2>4, <2>5, <2>6, ReloadOfOne
<1>8. CASE ReplaceCaches(p)
  <2>1. /\ UNCHANGED <<file, running, booted, provider, next, aborted, signalled, edits>> /\ rstep[p] = "caches"
        /\ caches' = [caches EXCEPT ![p] = next[p]] /\ rstep' = [rstep EXCEPT ![p] = "store"]
    BY <1>8 DEF ReplaceCaches
  <2>2. rstep'[p] = "store" /\ caches'[p] = next[p]
    BY <1>1, <2>1
  <2>3. ConfigTypeOK'
    BY <1>1, <1>4, <2>1 DEF ConfigTypeOK
  <2>4. Settings(p)'
    BY <1>2, <2>1, <2>2 DEF Settings
  <2>5. CaughtUp(p)'
    BY <1>2, <2>1, <2>2 DEF CaughtUp
  <2>6. \A d \in Proc \ {p} : caches'[d] = caches[d] /\ rstep'[d] = rstep[d]
    BY <1>1, <2>1
  <2> QED
    BY <1>1, <2>1, <2>3, <2>4, <2>5, <2>6, ReloadOfOne
<1>9. CASE StoreConfig(p)
  <2>1. /\ UNCHANGED <<file, booted, provider, caches, next, signalled, edits>> /\ rstep[p] = "store"
        /\ running' = [running EXCEPT ![p] = next[p]] /\ rstep' = [rstep EXCEPT ![p] = "idle"]
        /\ aborted' = aborted \ {p}
    BY <1>9 DEF StoreConfig
  <2>2. rstep'[p] = "idle" /\ running'[p] = next[p] /\ p \notin aborted'
    BY <1>1, <2>1
  <2>3. ConfigTypeOK'
    BY <1>1, <1>4, <2>1 DEF ConfigTypeOK
  <2>4. Settings(p)'
    BY <1>2, <1>3, <1>4, <2>1, <2>2 DEF Settings
  <2>5. CaughtUp(p)'
    <3>1. Valid(file) => Merge(running[p], file) = Merge(booted[p], file)
      BY <1>1, <1>3, SameEngine DEF Valid
    <3>2. Valid(file)' <=> Valid(file)
      BY <2>1 DEF Valid
    <3> QED
      BY <1>2, <2>1, <2>2, <3>1, <3>2 DEF CaughtUp
  <2>6. \A d \in Proc \ {p} : running'[d] = running[d] /\ rstep'[d] = rstep[d] /\ (d \in aborted' <=> d \in aborted)
    BY <1>1, <2>1
  <2> QED
    BY <1>1, <2>1, <2>3, <2>4, <2>5, <2>6, ReloadOfOne
<1> QED
  BY <1>6, <1>7, <1>8, <1>9 DEF ReloadStep

-----------------------------------------------------------------------------
\* At first everything is of one release.
LEMMA UpgradeInitTyped == UpgradeInit => UpgradeTypeOK /\ Checked
<1> SUFFICES ASSUME UpgradeInit PROVE UpgradeTypeOK /\ Checked
  OBVIOUS
<1>1. UpgradeTypeOK
  <2>1. installed \in [Part -> Version \cup {"none", "damaged"}]
    BY DEF UpgradeInit, Version
  <2>2. upgrades \in 0..MaxUpgrades
    BY UpgradeAssumption DEF UpgradeInit
  <2> QED
    BY <2>1, <2>2 DEF UpgradeInit, UpgradeTypeOK, UpgradeSteps, Version
<1>2. Checked
  BY DEF UpgradeInit, Checked, Part
<1> QED
  BY <1>1, <1>2

\* A binary is replaced by what was downloaded.
LEMMA InstallTyped ==
  ASSUME UpgradeTypeOK, Checked, NEW part \in Part \ {"plugins"}, InstallBinary(part)
  PROVE  UpgradeTypeOK' /\ Checked'
<1>1. /\ archive \in {"new", "damaged"} /\ installed \in [Part -> Version \cup {"none", "damaged"}]
      /\ ~AllowUnchecked => archive # "damaged"
      /\ ustep = part /\ part # "plugins"
      /\ UNCHANGED <<archive, receipt, upgrades>>
  BY DEF UpgradeTypeOK, Checked, InstallBinary, Part, UpgradeSteps
<1>2. CASE ustep' = "idle" /\ UNCHANGED <<installed, half>>
  <2>1. UpgradeTypeOK'
    BY <1>1, <1>2 DEF UpgradeTypeOK, UpgradeSteps
  <2>2. Checked'
    BY <1>1, <1>2 DEF Checked, Part, UpgradeSteps
  <2> QED
    BY <2>1, <2>2
<1>3. CASE ustep' = After(part) /\ installed' = [installed EXCEPT ![part] = archive] /\ half' = TRUE
  <2>1. /\ \A other \in Part \ {part} : installed'[other] = installed[other]
        /\ installed'[part] = archive
        /\ installed' \in [Part -> Version \cup {"none", "damaged"}]
    BY <1>1, <1>3 DEF Version, Part
  <2>2. /\ part = "termlm" => ustep' = "termlm-core"
        /\ part = "termlm-core" => ustep' = "termlm-client"
        /\ part = "termlm-client" => ustep' = "plugins"
        /\ part \in {"termlm", "termlm-core", "termlm-client"}
    BY <1>1, <1>3 DEF After, Part
  <2>3. UpgradeTypeOK'
    BY <1>1, <1>3, <2>1, <2>2 DEF UpgradeTypeOK, UpgradeSteps
  <2>4. ~AllowUnchecked => \A other \in Part : installed'[other] # "damaged"
    BY <1>1, <2>1 DEF Checked
  <2>5. CASE part = "termlm"
    <3>1. /\ ustep = "termlm" /\ ustep' = "termlm-core" /\ installed'["termlm"] = archive
          /\ \A other \in Part \ {"termlm"} : installed'[other] = installed[other]
      BY <1>1, <2>1, <2>2, <2>5
    <3>2. UpgradeTypeOK' /\ archive # "models"
      BY <1>1, <2>3
    <3>3. Checked'
      BY <1>1, <1>3, <2>4, <3>1, <3>2 DEF Checked, Part
    <3> QED
      BY <3>2, <3>3
  <2>6. CASE part = "termlm-core"
    <3>1. /\ ustep = "termlm-core" /\ ustep' = "termlm-client" /\ installed'["termlm-core"] = archive
          /\ \A other \in Part \ {"termlm-core"} : installed'[other] = installed[other]
      BY <1>1, <2>1, <2>2, <2>6
    <3>2. UpgradeTypeOK' /\ archive # "models"
      BY <1>1, <2>3
    <3>3. Checked'
      BY <1>1, <1>3, <2>4, <3>1, <3>2 DEF Checked, Part
    <3> QED
      BY <3>2, <3>3
  <2>7. CASE part = "termlm-client"
    <3>1. /\ ustep = "termlm-client" /\ ustep' = "plugins" /\ installed'["termlm-client"] = archive
          /\ \A other \in Part \ {"termlm-client"} : installed'[other] = installed[other]
      BY <1>1, <2>1, <2>2, <2>7
    <3>2. UpgradeTypeOK' /\ archive # "models"
      BY <1>1, <2>3
    <3>3. Checked'
      BY <1>1, <1>3, <2>4, <3>1, <3>2 DEF Checked, Part
    <3> QED
      BY <3>2, <3>3
  <2> QED
    BY <2>2, <2>3, <2>5, <2>6, <2>7
<1> QED
  BY <1>2, <1>3 DEF InstallBinary

\* The steps of an upgrade; only CheckSums lets a bundle through.
LEMMA UpgradeGoesOn ==
  ASSUME UpgradeTypeOK, Checked, BeginUpgrade \/ StopDaemon \/ UpgradeStep
  PROVE  UpgradeTypeOK' /\ Checked'
<1> USE DEF Part, UpgradeSteps
<1>1. CASE BeginUpgrade
  <2>1. UpgradeTypeOK'
    BY <1>1, UpgradeAssumption DEF BeginUpgrade, UpgradeTypeOK
  <2>2. Checked'
    BY <1>1 DEF BeginUpgrade, Checked
  <2> QED
    BY <2>1, <2>2
<1>2. CASE StopDaemon
  <2>1. UpgradeTypeOK'
    BY <1>2 DEF StopDaemon, UpgradeTypeOK
  <2>2. Checked'
    BY <1>2 DEF StopDaemon, Checked
  <2> QED
    BY <2>1, <2>2
<1>3. CASE FetchBundle
  <2>1. UpgradeTypeOK'
    BY <1>3 DEF FetchBundle, UpgradeTypeOK
  <2>2. Checked'
    BY <1>3 DEF FetchBundle, Checked
  <2> QED
    BY <2>1, <2>2
<1>4. CASE CheckSums
  <2>1. /\ ustep' \in {"unpack", "idle"} /\ UNCHANGED <<archive, installed, receipt, half, upgrades>>
        /\ ustep' = "unpack" => AllowUnchecked \/ archive # "damaged"
    BY <1>4, UpgradeAssumption DEF CheckSums
  <2>2. UpgradeTypeOK'
    BY <2>1 DEF UpgradeTypeOK
  <2>3. Checked'
    BY <2>1, UpgradeAssumption DEF Checked
  <2> QED
    BY <2>2, <2>3
<1>5. CASE UnpackBundle
  <2>1. UpgradeTypeOK'
    BY <1>5 DEF UnpackBundle, UpgradeTypeOK
  <2>2. Checked'
    BY <1>5 DEF UnpackBundle, Checked
  <2> QED
    BY <2>1, <2>2
<1>6. ASSUME NEW part \in Part, InstallBinary(part) PROVE UpgradeTypeOK' /\ Checked'
  <2>1. part \in Part \ {"plugins"}
    BY <1>6 DEF InstallBinary
  <2> QED
    BY <1>6, <2>1, InstallTyped
<1>7. CASE RemovePlugins
  <2>1. /\ installed \in [Part -> Version \cup {"none", "damaged"}] /\ ustep = "plugins"
        /\ UNCHANGED <<archive, receipt, half, upgrades>> /\ half
    BY <1>7 DEF RemovePlugins, UpgradeTypeOK, Checked
  <2>2. CASE ustep' = "place" /\ installed' = [installed EXCEPT !["plugins"] = "none"]
    <3>1. installed'["plugins"] = "none" /\ \A part \in Part \ {"plugins"} : installed'[part] = installed[part]
      BY <2>1, <2>2
    <3>2. UpgradeTypeOK'
      BY <2>1, <2>2, PutTyped DEF UpgradeTypeOK
    <3>3. Checked'
      BY <2>1, <2>2, <3>1 DEF Checked
    <3> QED
      BY <3>2, <3>3
  <2>3. CASE ustep' = "idle" /\ UNCHANGED installed
    <3>1. UpgradeTypeOK'
      BY <2>1, <2>3 DEF UpgradeTypeOK
    <3>2. Checked'
      BY <2>1, <2>3 DEF Checked
    <3> QED
      BY <3>1, <3>2
  <2> QED
    BY <1>7, <2>2, <2>3 DEF RemovePlugins
<1>8. CASE PlacePlugins
  <2>1. /\ installed \in [Part -> Version \cup {"none", "damaged"}] /\ ustep = "place"
        /\ UNCHANGED <<archive, receipt, half, upgrades>> /\ half /\ archive \in {"new", "damaged"}
        /\ ~AllowUnchecked => archive # "damaged"
    BY <1>8 DEF PlacePlugins, UpgradeTypeOK, Checked
  <2>2. CASE ustep' = "smoke" /\ installed' = [installed EXCEPT !["plugins"] = archive]
    <3>1. installed'["plugins"] = archive /\ \A part \in Part \ {"plugins"} : installed'[part] = installed[part]
      BY <2>1, <2>2
    <3>2. UpgradeTypeOK'
      BY <2>1, <2>2, PutTyped DEF UpgradeTypeOK, Version
    <3>3. Checked'
      BY <2>1, <2>2, <3>1 DEF Checked
    <3> QED
      BY <3>2, <3>3
  <2>3. CASE ustep' = "idle" /\ UNCHANGED installed
    <3>1. UpgradeTypeOK'
      BY <2>1, <2>3 DEF UpgradeTypeOK
    <3>2. Checked'
      BY <2>1, <2>3 DEF Checked
    <3> QED
      BY <3>1, <3>2
  <2> QED
    BY <1>8, <2>2, <2>3 DEF PlacePlugins
<1>9. CASE SmokeTest
  <2>1. UpgradeTypeOK'
    BY <1>9 DEF SmokeTest, UpgradeTypeOK
  <2>2. Checked'
    BY <1>9 DEF SmokeTest, Checked
  <2> QED
    BY <2>1, <2>2
<1>10. CASE WriteReceipt
  <2>1. /\ ustep = "receipt" /\ ustep' = "idle" /\ UNCHANGED <<archive, installed, upgrades>>
        /\ (receipt' = "new" /\ half' = FALSE) \/ UNCHANGED <<receipt, half>>
    BY <1>10 DEF WriteReceipt
  <2>2. UpgradeTypeOK'
    BY <2>1 DEF UpgradeTypeOK, Version
  <2>3. \A part \in Part : installed[part] = archive
    BY <2>1 DEF Checked
  <2>4. archive \in {"new", "damaged"}
    BY <2>1 DEF Checked, UpgradeTypeOK
  <2>5. Checked'
    BY <2>1, <2>3, <2>4 DEF Checked
  <2> QED
    BY <2>2, <2>5
<1>11. CASE AbandonUpgrade
  <2>1. UpgradeTypeOK'
    BY <1>11 DEF AbandonUpgrade, UpgradeTypeOK
  <2>2. Checked'
    BY <1>11 DEF AbandonUpgrade, Checked
  <2> QED
    BY <2>1, <2>2
<1> QED
  BY <1>1, <1>2, <1>3, <1>4, <1>5, <1>6, <1>7, <1>8, <1>9, <1>10, <1>11 DEF UpgradeStep

\* A step of another part leaves the installed files alone.
LEMMA UpgradeUnchanged ==
  UpgradeTypeOK /\ Checked /\ UNCHANGED upgradeVars => UpgradeTypeOK' /\ Checked'
<1> SUFFICES ASSUME UpgradeTypeOK, Checked, UNCHANGED upgradeVars PROVE UpgradeTypeOK' /\ Checked'
  OBVIOUS
<1>1. UNCHANGED <<ustep, archive, installed, receipt, half, upgrades>>
  BY DEF upgradeVars
<1>2. UpgradeTypeOK'
  BY <1>1 DEF UpgradeTypeOK
<1>3. Checked'
  BY <1>1 DEF Checked
<1> QED
  BY <1>2, <1>3

-----------------------------------------------------------------------------
\* Whoever steps ends, or goes on without going back; ...
Onward ==
  /\ UNCHANGED bindRace
  /\ \A q \in Proc :
       \/ phase'[q] \in {phase[q], "gone"}
       \/ /\ phase[q] \in Probing \cup Listening /\ phase'[q] \in Probing \cup Listening
          /\ phase[q] \in Stopping => phase'[q] \in Stopping

\* ... and a process loses a signal that it has not taken only by its end.
HupsStay ==
  \A d \in Proc : d \notin hupped' /\ phase'[d] # "gone" => d \notin hupped /\ phase[d] # "gone"

\* The probes, the bind, the pid file and the end of a daemon, ...
LEMMA ProbesOnward ==
  ASSUME ProcTypeOK, NEW p \in Proc, HostProbe(p)
  PROVE  Onward /\ HupsStay
<1> USE DEF Go, Probing, Listening, Naming, Serving, Stopping
<1>1. phase \in [Proc -> Phase]
  BY DEF ProcTypeOK
<1>2. UNCHANGED bindRace /\ (hupped' = hupped \/ (hupped' = hupped \ {p} /\ phase'[p] = "gone"))
  BY <1>1 DEF HostProbe, ReadPid, ProbeOwner, EvictSocket, RemoveStalePid, ProbeSocket, UnlinkSocket,
     Bind, CreatePid, WritePid, Subscribe, RemovePid, RemoveSocket
<1>3. /\ \A q \in Proc \ {p} : phase'[q] = phase[q]
      /\ phase[p] \in Probing \cup Listening
      /\ phase'[p] \in {"gone"} \cup Probing \cup Listening
      /\ phase[p] \in Stopping => phase'[p] \in {"gone"} \cup Stopping
  <2>1. CASE ReadPid(p) \/ ProbeOwner(p) \/ EvictSocket(p) \/ RemoveStalePid(p)
    BY <1>1, <2>1 DEF ReadPid, ProbeOwner, EvictSocket, RemoveStalePid
  <2>2. CASE ProbeSocket(p) \/ UnlinkSocket(p) \/ Bind(p) \/ CreatePid(p)
    BY <1>1, <2>2 DEF ProbeSocket, UnlinkSocket, Bind, CreatePid
  <2>3. CASE WritePid(p) \/ Subscribe(p) \/ RemovePid(p) \/ RemoveSocket(p)
    BY <1>1, <2>3 DEF WritePid, Subscribe, RemovePid, RemoveSocket
  <2> QED
    BY <2>1, <2>2, <2>3 DEF HostProbe
<1> QED
  BY <1>2, <1>3 DEF Onward, HupsStay

\* ... and what others do to it, go onward.
LEMMA EndsOnward ==
  ASSUME ProcTypeOK
  PROVE  /\ \A p \in Proc : Shutdown(p) => Onward /\ HupsStay
         /\ \A p \in Proc : Crash(p) => Onward /\ HupsStay
         /\ \A p \in Proc : TakeHup(p) => Onward
         /\ ReadHupTarget => Onward /\ HupsStay
         /\ SendHup => Onward
<1> USE DEF Go, Probing, Listening, Naming, Serving, Stopping, ProcTypeOK
<1>1. ASSUME NEW p \in Proc, Shutdown(p) PROVE Onward /\ HupsStay
  BY <1>1 DEF Shutdown, Onward, HupsStay
<1>2. ASSUME NEW p \in Proc, Crash(p) PROVE Onward /\ HupsStay
  <2>1. /\ phase[p] \in Live /\ phase' = [phase EXCEPT ![p] = "gone"] /\ UNCHANGED bindRace
        /\ hupped' = hupped \ {p}
    BY <1>2 DEF Crash
  <2> QED
    BY <2>1 DEF Onward, HupsStay, Live
<1>3. ASSUME ReadHupTarget PROVE Onward /\ HupsStay
  BY <1>3 DEF ReadHupTarget, Onward, HupsStay
<1>4. ASSUME SendHup PROVE Onward
  BY <1>4 DEF SendHup, Onward
<1>5. ASSUME NEW p \in Proc, TakeHup(p) PROVE Onward
  BY <1>5 DEF TakeHup, Onward
<1> QED
  BY <1>1, <1>2, <1>3, <1>4, <1>5

-----------------------------------------------------------------------------
\* The assets of the machine: at first, ...
LEMMA AssetInvAtFirst == HostInit => AssetInv
  BY AssetInitTyped, FilesInit, SoundAtFirst DEF HostInit, AssetInv

\* ... and whatever step is taken: it is one of a process that loads, or its end.
LEMMA AssetInvStep ==
  ASSUME AssetInv, ProcTypeOK, [HostNext]_hostVars
  PROVE  AssetInv'
<1> USE SameProcesses
<1>1. ASSUME NEW p \in Proc, HostAssets(p) PROVE AssetInv'
  BY <1>1, AssetsKept DEF HostAssets
<1>2. ASSUME NEW p \in Proc, HostCrash(p) PROVE AssetInv'
  BY <1>2, AssetsKept, AssetsUnchanged DEF HostCrash
<1>3. ASSUME HostSendHup PROVE AssetInv'
  BY <1>3, AssetsKept, AssetsUnchanged DEF HostSendHup
<1>4. ASSUME NEW p \in Proc, HostStart(p) \/ HostLoad(p) \/ HostProbe(p) \/ HostShutdown(p) \/ HostTakeHup(p) \/ HostReload(p)
      PROVE  UNCHANGED assetVars
  BY <1>4 DEF HostStart, HostLoad, HostProbe, HostShutdown, HostTakeHup, HostReload
<1>5. ASSUME HostReadHupTarget \/ HostEditConfig \/ HostStopDaemon \/ HostUpgrade \/ UNCHANGED hostVars
      PROVE  UNCHANGED assetVars
  BY <1>5 DEF HostReadHupTarget, HostEditConfig, HostStopDaemon, HostUpgrade, hostVars
<1> QED
  BY <1>1, <1>2, <1>3, <1>4, <1>5, AssetsUnchanged DEF HostNext

\* The configuration: every step but the reload's own leaves it, and only ends take
\* signals away unseen.
LEMMA ReloadInvStep ==
  ASSUME ReloadInv, ProcTypeOK, Linked, [HostNext]_hostVars
  PROVE  ReloadInv'
<1>1. ASSUME NEW p \in Proc, HostStart(p) PROVE ReloadInv'
  BY <1>1, BootsCurrent DEF HostStart
<1>2. ASSUME NEW p \in Proc, HostTakeHup(p) PROVE ReloadInv'
  <2>1. running[p] # Unread
    BY <1>2 DEF HostTakeHup, TakeHup, Linked, Listening, Serving
  <2> QED
    BY <1>2, <2>1, SignalTaken DEF HostTakeHup
<1>3. ASSUME NEW p \in Proc, HostReload(p) PROVE ReloadInv'
  <2>1. running[p] # Unread
    BY <1>3 DEF HostReload, Linked, Listening, Serving
  <2>2. UNCHANGED <<hupped, phase>>
    BY <1>3 DEF HostReload, procVars
  <2> QED
    BY <1>3, <2>1, <2>2, ReloadsOn DEF HostReload
<1>4. ASSUME HostSendHup PROVE ReloadInv'
  BY <1>4, SignalsNoted
<1>5. ASSUME HostEditConfig PROVE ReloadInv'
  <2>1. UNCHANGED <<hupped, phase>>
    BY <1>5 DEF HostEditConfig, procVars
  <2> QED
    BY <1>5, <2>1, EditsNoted DEF HostEditConfig
<1>6. ASSUME NEW p \in Proc, HostLoad(p) PROVE ReloadInv'
  <2>1. /\ UNCHANGED configVars /\ UNCHANGED hupped /\ phase[p] = "loading"
        /\ \A d \in Proc \ {p} : phase'[d] = phase[d]
    BY <1>6 DEF HostLoad, Load, Go, ProcTypeOK
  <2> QED
    BY <2>1, ReloadStays
<1>7. ASSUME UNCHANGED configVars, HupsStay PROVE ReloadInv'
  BY <1>7, ReloadStays DEF HupsStay
<1>8. ASSUME NEW p \in Proc, HostProbe(p) \/ HostShutdown(p) \/ HostCrash(p) PROVE ReloadInv'
  <2>1. UNCHANGED configVars
    BY <1>8 DEF HostProbe, HostShutdown, HostCrash
  <2>2. HupsStay
    BY <1>8, ProbesOnward, EndsOnward DEF HostShutdown, HostCrash
  <2> QED
    BY <1>7, <2>1, <2>2
<1>9. ASSUME HostReadHupTarget PROVE ReloadInv'
  BY <1>9, <1>7, EndsOnward DEF HostReadHupTarget
<1>10. ASSUME UNCHANGED configVars, UNCHANGED procVars PROVE ReloadInv'
  <2>1. HupsStay
    BY <1>10 DEF procVars, HupsStay
  <2> QED
    BY <1>7, <1>10, <2>1
<1>11. ASSUME NEW p \in Proc, HostAssets(p) PROVE ReloadInv'
  BY <1>10, <1>11 DEF HostAssets
<1>12. ASSUME HostStopDaemon PROVE ReloadInv'
  <2>1. UNCHANGED configVars
    BY <1>12 DEF HostStopDaemon
  <2>2. CASE sock \in Proc /\ Shutdown(sock)
    BY <1>7, <2>1, <2>2, EndsOnward
  <2>3. CASE UNCHANGED procVars
    BY <1>10, <2>1, <2>3
  <2> QED
    BY <1>12, <2>2, <2>3, AsksOrNot
<1>13. ASSUME HostUpgrade PROVE ReloadInv'
  BY <1>10, <1>13 DEF HostUpgrade
<1>14. ASSUME UNCHANGED hostVars PROVE ReloadInv'
  BY <1>10, <1>14 DEF hostVars
<1> QED
  BY <1>1, <1>2, <1>3, <1>4, <1>5, <1>6, <1>8, <1>9, <1>11, <1>12, <1>13, <1>14 DEF HostNext

\* The upgrade: only its own steps are about it.
LEMMA UpgradeStepsTyped ==
  ASSUME UpgradeTypeOK, Checked, [HostNext]_hostVars
  PROVE  UpgradeTypeOK' /\ Checked'
<1>1. ASSUME NEW p \in Proc, HostStart(p) \/ HostAssets(p) \/ HostLoad(p) \/ HostProbe(p) \/ HostShutdown(p)
                             \/ HostCrash(p) \/ HostTakeHup(p) \/ HostReload(p)
      PROVE  UNCHANGED upgradeVars
  BY <1>1 DEF HostStart, HostAssets, HostLoad, HostProbe, HostShutdown, HostCrash, HostTakeHup, HostReload
<1>2. ASSUME HostReadHupTarget \/ HostSendHup \/ HostEditConfig \/ UNCHANGED hostVars
      PROVE  UNCHANGED upgradeVars
  BY <1>2 DEF HostReadHupTarget, HostSendHup, HostEditConfig, hostVars
<1>3. HostStopDaemon \/ HostUpgrade => StopDaemon \/ BeginUpgrade \/ UpgradeStep
  BY DEF HostStopDaemon, HostUpgrade
<1> QED
  BY <1>1, <1>2, <1>3, UpgradeUnchanged, UpgradeGoesOn DEF HostNext

-----------------------------------------------------------------------------
\* Who goes onward keeps what it had.
LEMMA StaysLinked ==
  ASSUME Linked, Onward, UNCHANGED <<astep, running>>
  PROVE  Linked'
  BY DEF Linked, Onward, Probing, Listening, Naming, Serving, Stopping

\* A process comes to the probes by HostLoad, with its assets and its configuration.
LEMMA LinkedStep ==
  ASSUME Linked, HostTypeOK, ReloadInv, [HostNext]_hostVars
  PROVE  Linked'
<1> USE SameProcesses
<1>0. /\ ProcTypeOK /\ phase \in [Proc -> Phase]
      /\ astep \in [Starter -> {"idle", "ensure", "next", "save", "done", "failed"} \cup Downloading]
  BY DEF HostTypeOK, ProcTypeOK, AssetTypeOK
<1>1. ASSUME NEW p \in Proc, HostStart(p) PROVE Linked'
  <2>1. /\ phase[p] = "off" /\ phase' = [phase EXCEPT ![p] = "loading"] /\ UNCHANGED astep
        /\ \E c : running' = [running EXCEPT ![p] = c]
    BY <1>1 DEF HostStart, Start, Go, BootConfig, assetVars
  <2>2. \A q \in Proc \ {p} : phase'[q] = phase[q] /\ running'[q] = running[q]
    BY <1>0, <2>1 DEF ReloadInv, ConfigTypeOK
  <2>3. phase'[p] = "loading"
    BY <1>0, <2>1
  <2> QED
    BY <2>1, <2>2, <2>3 DEF Linked, Probing, Listening, Naming, Serving, Stopping
<1>2. ASSUME NEW p \in Proc, HostAssets(p) PROVE Linked'
  <2>1. phase[p] = "loading" /\ UNCHANGED <<phase, running>>
    BY <1>2 DEF HostAssets, procVars, configVars
  <2>2. \A q \in Proc \ {p} : astep'[q] = astep[q]
    BY <1>0, <1>2 DEF HostAssets, BeginAssets, AssetStep, EnsureMissing, EnsurePresent, OpenPartial, WriteChunk,
       RenamePartial, VerifyDownload, NextAsset, SaveManifest, Download, AssetError, Step
  <2> QED
    BY <2>1, <2>2 DEF Linked, Probing, Listening, Naming, Serving, Stopping
<1>3. ASSUME NEW p \in Proc, HostLoad(p) PROVE Linked'
  <2>1. /\ phase' = [phase EXCEPT ![p] = "single"] \/ phase' = [phase EXCEPT ![p] = "gone"]
        /\ phase'[p] = "single" => astep[p] = "done" /\ running[p] # Unread
        /\ UNCHANGED <<astep, running>>
    BY <1>3 DEF HostLoad, Load, Go, assetVars, configVars
  <2>2. /\ \A q \in Proc \ {p} : phase'[q] = phase[q]
        /\ phase'[p] \in {"single", "gone"}
    BY <1>0, <2>1
  <2> QED
    BY <2>1, <2>2 DEF Linked, Probing, Listening, Naming, Serving, Stopping
<1>4. ASSUME NEW p \in Proc, HostProbe(p) \/ HostShutdown(p) \/ HostTakeHup(p) PROVE Linked'
  <2>1. UNCHANGED <<astep, running>>
    BY <1>4 DEF HostProbe, HostShutdown, HostTakeHup, BeginReload, assetVars, configVars
  <2>2. Onward
    BY <1>0, <1>4, ProbesOnward, EndsOnward DEF HostShutdown, HostTakeHup
  <2> QED
    BY <2>1, <2>2, StaysLinked
<1>5. ASSUME NEW p \in Proc, phase'[p] = "gone", Onward, AbandonAssets(p), UNCHANGED running PROVE Linked'
  <2>1. \A q \in Proc \ {p} : astep'[q] = astep[q]
    BY <1>0, <1>5 DEF AbandonAssets, Step
  <2> QED
    BY <1>5, <2>1 DEF Linked, Onward, Probing, Listening, Naming, Serving, Stopping
<1>6. ASSUME NEW p \in Proc, HostCrash(p) PROVE Linked'
  <2>1. Onward /\ UNCHANGED running /\ phase'[p] = "gone"
    BY <1>0, <1>6, EndsOnward DEF HostCrash, Crash, Go, configVars
  <2>2. AbandonAssets(p) \/ UNCHANGED astep
    BY <1>6 DEF HostCrash, assetVars
  <2> QED
    BY <1>5, <2>1, <2>2, StaysLinked
<1>7. ASSUME HostSendHup PROVE Linked'
  <2>1. Onward /\ UNCHANGED running
    BY <1>0, <1>7, EndsOnward DEF HostSendHup, NoteSignal, configVars
  <2>2. CASE hup \in Proc /\ phase[hup] = "loading"
    <3>1. AbandonAssets(hup) /\ phase'[hup] = "gone"
      BY <1>0, <1>7, <2>2 DEF HostSendHup, SendHup, Go, Live, Stopping
    <3> QED
      BY <1>5, <2>1, <2>2, <3>1
  <2>3. CASE ~(hup \in Proc /\ phase[hup] = "loading")
    <3>1. UNCHANGED astep
      BY <1>7, <2>3 DEF HostSendHup, assetVars
    <3> QED
      BY <2>1, <3>1, StaysLinked
  <2> QED
    BY <2>2, <2>3
<1>8. ASSUME NEW p \in Proc, HostReload(p) PROVE Linked'
  <2>1. UNCHANGED <<phase, astep>> /\ phase[p] \in {"serving"} \cup Stopping
    BY <1>8 DEF HostReload, procVars, assetVars
  <2>2. \A q \in Proc \ {p} : running'[q] = running[q]
    BY <1>8 DEF HostReload, ReloadStep, ReloadFile, ApplyProvider, ReplaceCaches, StoreConfig, ReloadInv, ConfigTypeOK
  <2>3. running[p] # Unread
    BY <2>1 DEF Linked, Listening, Serving
  <2>4. running'[p] # Unread
    BY <1>8, <2>3 DEF HostReload, ReloadStep, ReloadFile, ApplyProvider, ReplaceCaches, StoreConfig,
       ReloadInv, ConfigTypeOK, Settings
  <2> QED
    BY <2>1, <2>2, <2>4 DEF Linked, Stopping
<1>9. ASSUME UNCHANGED <<phase, bindRace, astep, running>> PROVE Linked'
  BY <1>9 DEF Linked
<1>10. ASSUME HostReadHupTarget PROVE Linked'
  BY <1>10, <1>9 DEF HostReadHupTarget, ReadHupTarget, assetVars, configVars
<1>11. ASSUME HostEditConfig \/ HostUpgrade \/ UNCHANGED hostVars PROVE Linked'
  BY <1>11, <1>9 DEF HostEditConfig, EditConfig, HostUpgrade, hostVars, procVars, assetVars, configVars
<1>12. ASSUME HostStopDaemon PROVE Linked'
  <2>1. UNCHANGED <<astep, running>>
    BY <1>12 DEF HostStopDaemon, assetVars, configVars
  <2>2. CASE sock \in Proc /\ Shutdown(sock)
    BY <1>0, <2>1, <2>2, EndsOnward, StaysLinked
  <2>3. CASE UNCHANGED procVars
    BY <1>9, <2>1, <2>3 DEF procVars
  <2> QED
    BY <1>12, <2>2, <2>3, AsksOrNot
<1> QED
  BY <1>1, <1>2, <1>3, <1>4, <1>6, <1>7, <1>8, <1>10, <1>11, <1>12 DEF HostNext

-----------------------------------------------------------------------------
\* The version of every process, and the processes an upgrade came too early for.
VersionsTyped == version \in [Proc -> Version \cup {"none", "damaged"}] /\ late \subseteq Proc

\* Who goes onward keeps its version.
LEMMA VersionsStay ==
  ASSUME VersionsTyped, Retired, Onward, UNCHANGED <<version, late, ustep, installed>>
  PROVE  VersionsTyped' /\ Retired'
<1>1. \A p \in Proc : phase'[p] \in Live \ Stopping => phase[p] \in Live \ Stopping
  BY DEF Onward, Live, Probing, Listening, Naming, Serving, Stopping
<1> QED
  BY <1>1 DEF Onward, Retired, VersionsTyped

\* The upgrade asks while no daemon but the named one serves, and then replaces its
\* binary; who starts in between is late.
LEMMA RetiredStep ==
  ASSUME VersionsTyped, Retired, ProcTypeOK, UpgradeTypeOK, Checked, BindSafe, [HostNext]_hostVars
  PROVE  VersionsTyped' /\ Retired'
<1>0. phase \in [Proc -> Phase] /\ installed \in [Part -> Version \cup {"none", "damaged"}]
  BY DEF ProcTypeOK, UpgradeTypeOK
<1>1. ASSUME NEW p \in Proc, HostStart(p) PROVE VersionsTyped' /\ Retired'
  <2>1. /\ phase' = [phase EXCEPT ![p] = "loading"] /\ UNCHANGED <<bindRace, ustep, installed>>
        /\ version' = [version EXCEPT ![p] = installed["termlm-core"]]
        /\ late' = IF ustep \in {"termlm", "termlm-core"} THEN late \cup {p} ELSE late
    BY <1>1 DEF HostStart, Start, Go, upgradeVars
  <2>2. installed["termlm-core"] \in Version \cup {"none", "damaged"}
    BY <1>0 DEF Part
  <2>3. VersionsTyped'
    BY <2>1, <2>2 DEF VersionsTyped
  <2>4. /\ version'[p] = installed["termlm-core"]
        /\ \A q \in Proc \ {p} : version'[q] = version[q] /\ phase'[q] = phase[q]
    BY <1>0, <2>1 DEF VersionsTyped
  <2>5. Retired'
    BY <2>1, <2>4 DEF Retired
  <2> QED
    BY <2>3, <2>5
<1>2. ASSUME NEW p \in Proc, HostLoad(p) PROVE VersionsTyped' /\ Retired'
  <2>1. /\ phase[p] = "loading" /\ UNCHANGED <<version, late, ustep, installed>>
        /\ \A q \in Proc \ {p} : phase'[q] = phase[q]
    BY <1>0, <1>2 DEF HostLoad, Load, Go, upgradeVars
  <2>3. bindRace => bindRace'
    BY <1>2, Zenon DEF HostLoad, Load
  <2>2. phase[p] \in Live \ Stopping
    BY <2>1 DEF Live, Stopping
  <2> QED
    BY <2>1, <2>2, <2>3 DEF VersionsTyped, Retired
<1>3. ASSUME NEW p \in Proc, HostProbe(p) \/ HostShutdown(p) \/ HostCrash(p) \/ HostTakeHup(p)
      PROVE VersionsTyped' /\ Retired'
  <2>1. UNCHANGED <<version, late, ustep, installed>>
    BY <1>3 DEF HostProbe, HostShutdown, HostCrash, HostTakeHup, upgradeVars
  <2>2. Onward
    BY <1>3, ProbesOnward, EndsOnward DEF HostShutdown, HostCrash, HostTakeHup
  <2> QED
    BY <2>1, <2>2, VersionsStay
<1>4. ASSUME HostReadHupTarget \/ HostSendHup PROVE VersionsTyped' /\ Retired'
  <2>1. UNCHANGED <<version, late, ustep, installed>>
    BY <1>4 DEF HostReadHupTarget, HostSendHup, upgradeVars
  <2>2. Onward
    BY <1>4, EndsOnward DEF HostReadHupTarget, HostSendHup
  <2> QED
    BY <2>1, <2>2, VersionsStay
<1>5. ASSUME UNCHANGED <<procVars, version, late, upgradeVars>> PROVE VersionsTyped' /\ Retired'
  <2>1. UNCHANGED <<version, late, ustep, installed>> /\ Onward
    BY <1>5 DEF procVars, upgradeVars, Onward
  <2> QED
    BY <2>1, VersionsStay
<1>6. ASSUME NEW p \in Proc, HostAssets(p) \/ HostReload(p) PROVE VersionsTyped' /\ Retired'
  BY <1>5, <1>6 DEF HostAssets, HostReload
<1>7. ASSUME HostEditConfig \/ UNCHANGED hostVars PROVE VersionsTyped' /\ Retired'
  BY <1>5, <1>7 DEF HostEditConfig, hostVars
<1>8. ASSUME HostStopDaemon PROVE VersionsTyped' /\ Retired'
  <2> DEFINE Asked == /\ late' = {p \in Proc : phase[p] \in {"loading"} \cup Probing \cup Naming}
                      /\ IF \E p \in Proc : sock = p /\ phase[p] \in Serving
                         THEN Shutdown(sock) ELSE UNCHANGED procVars
             Missed == late' = {p \in Proc : phase[p] \in Live} /\ UNCHANGED procVars
  <2>1. UNCHANGED <<version, installed>> /\ (Asked \/ Missed)
    BY <1>8 DEF HostStopDaemon, StopDaemon
  <2>2. VersionsTyped'
    BY <2>1 DEF VersionsTyped
  <2>3. ASSUME NEW p \in Proc, ~bindRace, phase[p] \in Serving, Asked PROVE phase'[p] = "stopping"
    <3>1. sock = p
      BY <2>3 DEF BindSafe, Listening
    <3>2. Shutdown(p)
      BY <2>3, <3>1
    <3> QED
      BY <1>0, <3>2 DEF Shutdown, Go
  <2>4. Onward
    <3>1. CASE sock \in Proc /\ Shutdown(sock)
      BY <3>1, EndsOnward
    <3>2. CASE UNCHANGED procVars
      BY <3>2 DEF procVars, Onward
    <3> QED
      BY <1>8, <3>1, <3>2, AsksOrNot
  <2>5. ASSUME NEW p \in Proc, ~bindRace, phase'[p] \in Live \ Stopping PROVE p \in late'
    <3>1. phase[p] \in Live \ Stopping
      BY <2>4, <2>5 DEF Onward, Live, Probing, Listening, Naming, Serving, Stopping
    <3>2. CASE Asked
      <4>1. phase[p] \notin Serving
        BY <2>3, <2>5, <3>2 DEF Stopping
      <4> QED
        BY <3>1, <3>2, <4>1 DEF Live, Listening
    <3>3. CASE Missed
      BY <3>1, <3>3
    <3> QED
      BY <2>1, <3>2, <3>3
  <2>6. Retired'
    BY <2>4, <2>5 DEF Retired, Onward
  <2> QED
    BY <2>2, <2>6
<1>9. ASSUME HostUpgrade PROVE VersionsTyped' /\ Retired'
  <2>1. UNCHANGED <<phase, bindRace, version, late>>
    BY <1>9 DEF HostUpgrade, procVars
  <2>2. \/ ustep \in {"termlm", "termlm-core"}
        \/ ustep' \notin {"termlm", "termlm-core"} /\ installed'["termlm-core"] = installed["termlm-core"]
    <3>1. CASE BeginUpgrade \/ FetchBundle \/ CheckSums \/ UnpackBundle
      BY <3>1 DEF BeginUpgrade, FetchBundle, CheckSums, UnpackBundle
    <3>2. CASE \E part \in Part : InstallBinary(part)
      <4>1. PICK part \in Part : InstallBinary(part)
        BY <3>2
      <4>2. CASE part = "termlm-client"
        BY <1>0, <4>1, <4>2 DEF InstallBinary, After, Part
      <4>3. CASE part # "termlm-client"
        BY <4>1, <4>3 DEF InstallBinary, Part
      <4> QED
        BY <4>2, <4>3
    <3>3. CASE RemovePlugins \/ PlacePlugins
      BY <1>0, <3>3 DEF RemovePlugins, PlacePlugins, Part
    <3>4. CASE SmokeTest \/ WriteReceipt \/ AbandonUpgrade
      BY <3>4 DEF SmokeTest, WriteReceipt, AbandonUpgrade
    <3> QED
      BY <1>9, <3>1, <3>2, <3>3, <3>4 DEF HostUpgrade, UpgradeStep
  <2>3. Retired'
    BY <2>1, <2>2 DEF Retired
  <2> QED
    BY <2>1, <2>3 DEF VersionsTyped
<1> QED
  BY <1>1, <1>2, <1>3, <1>4, <1>6, <1>7, <1>8, <1>9 DEF HostNext

-----------------------------------------------------------------------------
\* The parts of the invariant hold at first, ...
LEMMA HostInvInit == HostInit => HostInv
<1> SUFFICES ASSUME HostInit PROVE HostInv
  OBVIOUS
<1>1. AssetInv /\ ReloadInv
  BY AssetInvAtFirst, ReloadAtFirst
<1>2. UpgradeTypeOK /\ Checked
  BY UpgradeInitTyped DEF HostInit
<1>3. HostTypeOK
  <2>1. version \in [Proc -> Version \cup {"none", "damaged"}] /\ late \subseteq Proc
    BY DEF HostInit
  <2>2. ProcTypeOK
    BY TypeInit DEF HostInit
  <2> QED
    BY <1>1, <1>2, <2>1, <2>2 DEF HostTypeOK, AssetInv, ReloadInv
<1>4. Linked
  BY SameProcesses DEF HostInit, ProcInit, AssetInit, ConfigInit, Linked, Probing, Listening, Naming, Serving, Stopping
<1>5. Retired
  BY DEF HostInit, ProcInit, Retired, Live, Probing, Listening, Naming, Serving, Stopping
<1> QED
  BY <1>1, <1>2, <1>3, <1>4, <1>5 DEF HostInv

\* ... and are kept by every step, with the invariant of the processes.
LEMMA HostInvStep == HostInv /\ StartInv /\ [HostNext]_hostVars => HostInv'
<1> SUFFICES ASSUME HostInv, StartInv, [HostNext]_hostVars PROVE HostInv'
  OBVIOUS
<1>1. /\ HostTypeOK /\ AssetInv /\ ReloadInv /\ Linked /\ Checked /\ Retired
      /\ ProcTypeOK /\ UpgradeTypeOK /\ VersionsTyped /\ BindSafe
  BY DEF HostInv, HostTypeOK, VersionsTyped, StartInv
<1>2. AssetInv' /\ ReloadInv'
  BY <1>1, AssetInvStep, ReloadInvStep
<1>3. Linked'
  BY <1>1, LinkedStep
<1>4. UpgradeTypeOK' /\ Checked'
  BY <1>1, UpgradeStepsTyped
<1>5. VersionsTyped' /\ Retired'
  BY <1>1, RetiredStep
<1>6. ProcTypeOK'
  BY <1>1, HostStepIsProcStep, TypeStep
<1>7. HostTypeOK'
  BY <1>2, <1>4, <1>5, <1>6 DEF HostTypeOK, AssetInv, ReloadInv, VersionsTyped
<1> QED
  BY <1>2, <1>3, <1>4, <1>5, <1>7 DEF HostInv

\* The invariant of the machine.
LEMMA HostInvariant == HostSpec => []HostInv
<1>1. HostInit => ProcInit
  BY DEF HostInit
<1> QED
  BY <1>1, HostInvInit, HostInvStep, StartInvInit, StartInvStep, HostStepIsProcStep, PTL DEF HostSpec

\* Every variable of the machine keeps its type, whatever its processes do.
THEOREM HostTypes == HostSpec => []HostTypeOK
<1>1. HostInv => HostTypeOK
  BY DEF HostInv
<1> QED
  BY <1>1, HostInvariant, PTL

\* Unless two processes downloaded an asset at a time, no file at an asset's own path is
\* truncated or half written, and a process that went on from its assets has all the
\* required ones, with the pinned content.
THEOREM WholeAssets == HostSpec => []BootedOnWholeAssets
<1>1. HostInv => BootedOnWholeAssets
  <2> SUFFICES ASSUME HostInv, ~shared PROVE BootedOnWholeAssets
    BY DEF BootedOnWholeAssets
  <2>1. Sound
    BY DEF HostInv, AssetInv
  <2>2. ASSUME NEW p \in Proc, phase[p] \in Probing \cup Listening, NEW a \in Required
        PROVE  Ready(a)
    <3>1. astep[p] = "done" /\ p \in Starter
      BY <2>2, SameProcesses DEF HostInv, Linked
    <3>2. current[p] = Len(Asset) + 1
      BY <3>1 DEF HostInv, AssetInv, Placed
    <3>3. PICK i \in DOMAIN Asset : Asset[i] = a
      BY <2>2, AssetAssumption DEF Assets
    <3>4. Passed(p, i)
      BY <3>1, <3>2, <3>3, AssetOrder DEF Passed
    <3> QED
      BY <2>1, <2>2, <3>1, <3>3, <3>4 DEF Sound
  <2> QED
    BY <2>1, <2>2 DEF BootedOnWholeAssets, Sound, Ready
<1> QED
  BY <1>1, HostInvariant, PTL

\* FR-45: no signal sent during a reload is lost: a daemon that took every signal since
\* the last edit serves from what the file says.
THEOREM ReloadCatches == HostSpec => []ReloadCatchesUp
<1>1. HostInv => ReloadCatchesUp
  <2> SUFFICES ASSUME HostInv, NEW d \in Proc, phase[d] = "serving", d \notin hupped \cup aborted,
                      rstep[d] = "idle", signalled[d] = edits, Valid(file)
               PROVE  running[d] = Merge(booted[d], file) /\ provider[d] = running[d] /\ caches[d] = running[d]
    BY DEF ReloadCatchesUp
  <2>1. running[d] # Unread
    BY DEF HostInv, Linked, Listening, Serving
  <2>2. Settings(d) /\ CaughtUp(d)
    BY DEF HostInv, ReloadInv
  <2> QED
    BY <2>1, <2>2 DEF Settings, CaughtUp
<1> QED
  BY <1>1, HostInvariant, PTL

\* The receipt names what is installed, and no upgrade installs bytes the published
\* sums do not vouch for.
THEOREM ReceiptTrue == HostSpec => []ReceiptIsTrue
<1>1. HostInv => ReceiptIsTrue
  BY DEF HostInv, Checked, ReceiptIsTrue
<1> QED
  BY <1>1, HostInvariant, PTL

\* Once no upgrade is under way, every daemon that serves runs the installed binary, unless
\* it was launched during an upgrade or two starts overlapped.
THEOREM UpgradeRetires == HostSpec => []UpgradeRetiresDaemon
<1>1. HostInv => UpgradeRetiresDaemon
  BY DEF HostInv, Retired, UpgradeRetiresDaemon, Live, Listening, Serving, Stopping
<1> QED
  BY <1>1, HostInvariant, PTL
=============================================================================
