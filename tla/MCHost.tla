------------------------------- MODULE MCHost -------------------------------
(***************************************************************************)
(* Two processes on one machine.  Which of the four concerns a behaviour   *)
(* is about is chosen at the start, so that each is explored with its own  *)
(* faults and the state space is their union, not their product.           *)
(***************************************************************************)
EXTENDS Host

CONSTANTS p1, p2, model, embed

VARIABLE focus   \* "start", "assets", "reload" or "upgrade"

Procs == {p1, p2}
AssetOrder == <<model, embed>>

\* Constants of a behaviour that is not about them: the assets are there, the
\* files of an earlier life are not, one configuration.
Quiet ==
  /\ focus # "start" => sock = Absent /\ pidFile = Absent
  /\ focus # "assets" => \A a \in Assets : dest[a] # NoFile /\ data[dest[a]] = Good
  /\ focus # "reload" => file = [engine |-> "none", endpoint |-> "set", ttl |-> 1]

MCInit == HostInit /\ focus \in {"start", "assets", "reload", "upgrade"} /\ Quiet

\* What a behaviour of each kind leaves out.
Focused ==
  /\ focus # "reload" => edits' = 0 /\ hups' <= 1
  /\ focus # "upgrade" => upgrades' = 0
  /\ focus \in {"assets", "upgrade"} => hups' = 0
  /\ focus \in {"reload", "upgrade"} => crashes' = 0
  /\ focus = "reload" => phase'[p2] = "off"
  /\ focus = "assets" => \A p \in Proc : phase'[p] \in {"off", "loading", "single", "gone"}

\* Assets that are all there are ensured without a step of another in between.
Ensuring == {p \in Proc : focus # "assets" /\ phase[p] = "loading"
                            /\ astep[p] \notin {"done", "failed"}}

\* So are the probes of a start that is not about them.
Starting == {p \in Proc : focus \in {"reload", "upgrade"} /\ phase[p] \in Probing \cup Naming}

\* Nothing else looks at what an upgrade does before it asks for the shutdown.
MCNext == /\ IF Ensuring # {} THEN \E p \in Ensuring : HostAssets(p)
             ELSE IF Starting # {} THEN \E p \in Starting : HostProbe(p)
             ELSE IF ustep \in {"fetch", "check", "unpack"} THEN HostUpgrade
             ELSE HostNext
          /\ Focused
          /\ UNCHANGED focus

MCSpec == /\ MCInit /\ [][MCNext]_<<hostVars, focus>>
          /\ \A p \in Proc : WF_hostVars((HostAssets(p) \/ HostProbe(p)) /\ MCNext)

-----------------------------------------------------------------------------
\* A start that gets to its probes leads to a daemon that serves, unless a daemon
\* was stopped or killed: giving way to another start never leaves nobody.
StartServes ==
  focus = "start" => \A p \in Proc : phase[p] = "single" ~> (\E q \in Proc : phase[q] = "serving") \/ ended # {}
=============================================================================
