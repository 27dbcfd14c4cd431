------------------------------- MODULE Observer -------------------------------
(***************************************************************************)
(* What shells run, and what the daemon remembers of it.  The zsh hooks    *)
(* preexec and precmd watch each command, capture its output by a tee and  *)
(* tell the daemon; the daemon keeps a ring of the last commands of all    *)
(* shells, a file for each output, a registry of the shells and the        *)
(* context (aliases, functions) of each.                                   *)
(*                                                                         *)
(* A shell is known to the daemon by its registration, <<z, n>> for the    *)
(* nth of shell z.  Commands are numbered as they run; an output is the    *)
(* set of the commands, each with its shell, that printed it.              *)
(***************************************************************************)
EXTENDS Naturals, Sequences, SequencesExt

CONSTANTS Zsh,               \* the shells
          Absent,            \* no command, no entry, no file
          MaxEntries,        \* terminal_context.max_entries
          MaxCommands,       \* bound: commands run, by all shells
          MaxRegistrations,  \* bound: registrations of a shell
          MaxDeaths,         \* bound: deaths of a helper or of the daemon
          MaxEdits           \* bound: edits of the switches

ASSUME ObserverAssumption ==
  MaxEntries \in Nat \ {0} /\ {MaxCommands, MaxRegistrations, MaxDeaths, MaxEdits} \subseteq Nat

VARIABLES switches,   \* [terminal_context] of the configuration file
          loaded,     \* what a shell last read of it
          shell,      \* a shell's registration and its helper, counters and aliases
          running,    \* the command in a shell's foreground
          tee,        \* where a shell's output is copied to
          held,       \* what the capture files of a shell hold
          ran, deaths, edits,
          line,       \* what is on its way to the daemon, per registration
          hand,       \* what the handler of a connection is about
          registry,   \* the registrations of live connections
          contexts,   \* the version of the context known of a registration
          ring,       \* the observed commands
          files       \* the output files, by name
adapterVars == <<switches, loaded, shell, running, tee, held, ran, deaths, edits>>
daemonVars == <<hand, registry, contexts, ring, files>>
observerVars == <<adapterVars, line, daemonVars>>

Registration == Zsh \X (1..MaxRegistrations)
AliasSet == 1..2
Switches == [all : BOOLEAN, output : BOOLEAN]
Target == {"observed", "approved"}
\* What matters of a command line: an upgrade ends the registration, an excluded one
\* (an editor, a secret) is not captured, a silent one prints nothing.
What == {"plain", "silent", "excluded", "upgrade"}
Command == [n : 1..MaxCommands, what : What, approved : BOOLEAN, by : Nat, seq : Nat]

\* What the ring keeps of a command; ref names the file its output is in.  The handler of
\* a connection is about to push one, or to clean up after those the ring gave up.
Observed == [by : Registration, seq : Nat, n : 1..MaxCommands, ref : (Registration \X Nat) \cup {Absent}]
Hand == [do : {"push", "clean"}, entries : Seq(Observed)]
ASSUME AbsentAssumption == Absent \notin Hand

\* MUTANT of Name: the name leaves the shell out.
NameByNumber(r, seq) == <<CHOOSE any \in Registration : TRUE, seq>>
\* The name of an output file: shell id and command_seq.
Name(r, seq) == <<r, seq>>

ObserverTypeOK ==
  /\ switches \in Switches /\ loaded \in [Zsh -> Switches]
  /\ shell \in [Zsh -> [id : 0..MaxRegistrations, ids : 0..MaxRegistrations, alive : BOOLEAN,
                        aliases : AliasSet, told : {0} \cup AliasSet,
                        observed : 0..MaxCommands, approved : 0..MaxCommands]]
  /\ running \in [Zsh -> Command \cup {Absent}]
  /\ tee \in [Zsh -> Target \cup {Absent}]
  /\ held \in [Zsh -> [Target -> SUBSET (Zsh \X (1..MaxCommands))]]
  /\ ran \in 0..MaxCommands /\ deaths \in 0..MaxDeaths /\ edits \in 0..MaxEdits
  /\ registry \subseteq Registration /\ contexts \in [Registration -> {0} \cup AliasSet]
  /\ hand \in [Registration -> Hand \cup {Absent}]
  /\ ring \in Seq(Observed) /\ Len(ring) <= MaxEntries
  /\ files \subseteq [name : Registration \X Nat, holds : SUBSET (Zsh \X (1..MaxCommands))]

ObserverInit ==
  /\ switches = [all |-> TRUE, output |-> TRUE] /\ loaded = [z \in Zsh |-> switches]
  /\ shell = [z \in Zsh |-> [id |-> 0, ids |-> 0, alive |-> FALSE, aliases |-> 1, told |-> 0,
                             observed |-> 0, approved |-> 0]]
  /\ running = [z \in Zsh |-> Absent] /\ tee = [z \in Zsh |-> Absent]
  /\ held = [z \in Zsh |-> [k \in Target |-> {}]]
  /\ ran = 0 /\ deaths = 0 /\ edits = 0
  /\ line = [r \in Registration |-> <<>>] /\ hand = [r \in Registration |-> Absent]
  /\ registry = {} /\ contexts = [r \in Registration |-> 0]
  /\ ring = <<>> /\ files = {}

----
(* Registration and context. *)

Id(z, s) == <<z, s.id>>
Live(s) == s.id # 0 /\ s.alive

\* termlm-start-helper: a new bridge process, which registers with the daemon.  It may
\* fail; the id is gone then.  The daemon enters it in the registry before it answers.
Started(s) ==
  {[s EXCEPT !.id = 0, !.alive = FALSE]} \cup
  IF s.ids = MaxRegistrations THEN {}
  ELSE {[s EXCEPT !.id = s.ids + 1, !.ids = s.ids + 1, !.alive = TRUE]}
Registered(s) == IF Live(s) THEN {s} ELSE Started(s)

\* termlm-send-shell-context: nothing is sent when the hash is that of the last time.
\* The hash is kept whether or not the send went well.
ContextMessage(s) == [op |-> "context", version |-> s.aliases]
Contexts(s) == IF s.id = 0 \/ s.told = s.aliases THEN <<>> ELSE <<ContextMessage(s)>>
Told(s) == IF s.id = 0 THEN s ELSE [s EXCEPT !.told = s.aliases]

\* What is sent to a helper that is not there is lost.
Sent(z, s, messages) ==
  line' = IF Live(s) THEN [line EXCEPT ![Id(z, s)] = @ \o messages] ELSE line
Enters(z, s) == IF Live(s) THEN registry \cup {Id(z, s)} ELSE registry

\* termlm-start-task: the shell registers if it must and tells its context.  The task
\* itself is TaskLifecycle's.
Prompted(z) ==
  /\ running[z] = Absent
  /\ \E s \in Registered(shell[z]) :
       /\ shell' = [shell EXCEPT ![z] = Told(s)]
       /\ Sent(z, s, Contexts(s))
       /\ registry' = Enters(z, s)
  /\ UNCHANGED <<switches, loaded, running, tee, held, ran, deaths, edits,
                 hand, contexts, ring, files>>

----
(* The hooks. *)

\* preexec.  A capture that is on goes on unless a new one takes its place.
Captures(z, c) ==
  IF shell[z].id = 0 THEN Absent
  ELSE IF c.approved THEN "approved"
  ELSE IF loaded[z].all /\ loaded[z].output /\ c.what # "excluded" THEN "observed"
  ELSE Absent
Shown(z, c) == IF c.what = "silent" THEN {} ELSE {<<z, c.n>>}

\* A command line is accepted: typed by the user, or one that termlm proposed.
Run(z) ==
  /\ running[z] = Absent /\ ran < MaxCommands
  /\ ran' = ran + 1
  /\ \E what \in What, approved \in BOOLEAN :
       LET s == shell[z]
           c == [n |-> ran + 1, what |-> what, approved |-> approved, by |-> s.id,
                 seq |-> 1 + IF approved THEN s.approved ELSE s.observed]
           to == IF Captures(z, c) = Absent THEN tee[z] ELSE Captures(z, c)
       IN /\ approved => Live(s)
          /\ running' = [running EXCEPT ![z] = c]
          /\ shell' = IF approved THEN [shell EXCEPT ![z].approved = c.seq] ELSE shell
          /\ tee' = [tee EXCEPT ![z] = to]
          /\ held' = IF to = Absent THEN held
                     ELSE [held EXCEPT ![z][to] = Shown(z, c) \cup
                                         IF Captures(z, c) = Absent THEN @ ELSE {}]
  /\ UNCHANGED <<switches, loaded, deaths, edits, line, daemonVars>>

\* A command may change the configuration file; so may anybody else at any time.
Edit ==
  /\ edits < MaxEdits /\ edits' = edits + 1
  /\ switches' \in Switches \ {switches}
  /\ UNCHANGED <<loaded, shell, running, tee, held, ran, deaths, line, daemonVars>>

\* The Ack of an approved command speaks of the task's shell, the registration that
\* started it; the observation of a typed one of the shell's present registration.
AckMessage(z, c) == [op |-> "ack", by |-> <<z, c.by>>, seq |-> c.seq, n |-> c.n,
                     what |-> c.what, out |-> held[z]["approved"]]
\* A capture that was on counts as this command's, with what the file holds.
Observation(z, s, c) ==
  [op |-> "observed", by |-> Id(z, s), seq |-> c.seq, n |-> c.n, what |-> c.what,
   out |-> IF tee[z] # Absent /\ c.what # "excluded" THEN held[z]["observed"] ELSE {}]

\* precmd.  The switches are read anew first; then comes the end of an upgrade, then the
\* context, then the Ack or the observation, whichever it is, and the end of the capture.
\* The shell is active in a session or a dialogue: it registers again if it must.
Precmd(z) ==
  /\ running[z] # Absent
  /\ LET c == running[z]
     IN \E version \in AliasSet, refreshed \in BOOLEAN, active \in BOOLEAN :
          LET pending == c.approved /\ ~refreshed
              before == [shell[z] EXCEPT !.aliases = version]
              s == IF refreshed THEN [before EXCEPT !.id = 0, !.alive = FALSE, !.told = 0]
                                ELSE before
              speaks == Live(s) \/ active \/ pending
          IN /\ refreshed => c.what = "upgrade"
             /\ \E r \in IF speaks THEN Registered(s) ELSE {s} :
                  LET observes == ~pending /\ r.id # 0 /\ switches.all
                      told == IF speaks THEN Told(r) ELSE r
                  IN /\ shell' = [shell EXCEPT ![z] =
                                    IF observes THEN [told EXCEPT !.observed = c.seq] ELSE told]
                     /\ Sent(z, r, (IF speaks THEN Contexts(r) ELSE <<>>)
                                   \o (IF pending THEN <<AckMessage(z, c)>> ELSE <<>>)
                                   \o (IF observes THEN <<Observation(z, r, c)>> ELSE <<>>))
                     /\ registry' = Enters(z, r)
                     /\ IF pending \/ observes
                        THEN /\ tee' = [tee EXCEPT ![z] = Absent]
                             /\ held' = [held EXCEPT ![z][IF pending THEN "approved" ELSE "observed"] = {}]
                        ELSE UNCHANGED <<tee, held>>
  /\ loaded' = [loaded EXCEPT ![z] = switches]
  /\ running' = [running EXCEPT ![z] = Absent]
  /\ UNCHANGED <<switches, ran, deaths, edits, hand, contexts, ring, files>>

\* The bridge process dies with what it had not passed on.
HelperDies(z) ==
  /\ Live(shell[z]) /\ deaths < MaxDeaths /\ deaths' = deaths + 1
  /\ shell' = [shell EXCEPT ![z].alive = FALSE]
  /\ \E k \in 0..Len(line[Id(z, shell[z])]) :
       line' = [line EXCEPT ![Id(z, shell[z])] = SubSeq(@, 1, k)]
  /\ UNCHANGED <<switches, loaded, running, tee, held, ran, edits, daemonVars>>

----
(* The daemon. *)

\* process_observed_command up to the ring: the output is written to its file.
Observe(r, m) ==
  LET ref == IF m.out = {} \/ m.what = "excluded" THEN Absent ELSE Name(m.by, m.seq)
  IN /\ hand' = [hand EXCEPT ![r] = [do |-> "push",
                   entries |-> <<[by |-> m.by, seq |-> m.seq, n |-> m.n, ref |-> ref]>>]]
     /\ files' = IF ref = Absent THEN files
                 ELSE {f \in files : f.name # ref} \cup {[name |-> ref, holds |-> m.out]}

\* handle_connection takes the next message.  An Ack of a task that is not in the table
\* any more is not observed, nor is anything once the daemon has reloaded a file with
\* the switch off.
Receive(r) ==
  /\ hand[r] = Absent /\ line[r] # <<>>
  /\ line' = [line EXCEPT ![r] = Tail(@)]
  /\ LET m == Head(line[r])
     IN \/ /\ m.op = "context"
           /\ contexts' = [contexts EXCEPT ![r] = m.version] /\ UNCHANGED <<hand, files>>
        \/ m.op \in {"observed", "ack"} /\ Observe(r, m) /\ UNCHANGED contexts
        \/ /\ m.op \in {"ack"} \cup (IF edits = 0 THEN {} ELSE {"observed"})
           /\ UNCHANGED <<hand, files, contexts>>
  /\ UNCHANGED <<adapterVars, registry, ring>>

\* The critical section on the ring.
Push(r) ==
  /\ hand[r] # Absent /\ hand[r].do = "push"
  /\ LET all == ring \o hand[r].entries
         over == IF Len(all) > MaxEntries THEN Len(all) - MaxEntries ELSE 0
     IN /\ ring' = SubSeq(all, over + 1, Len(all))
        /\ hand' = [hand EXCEPT ![r] = IF over = 0 THEN Absent
                                       ELSE [do |-> "clean", entries |-> SubSeq(all, 1, over)]]
  /\ UNCHANGED <<adapterVars, line, registry, contexts, files>>

\* cleanup_observed_entry_refs for those that the ring gave up.
Clean(r) ==
  /\ hand[r] # Absent /\ hand[r].do = "clean"
  /\ files' = {f \in files : \A i \in DOMAIN hand[r].entries : hand[r].entries[i].ref # f.name}
  /\ hand' = [hand EXCEPT ![r] = Absent]
  /\ UNCHANGED <<adapterVars, line, registry, contexts, ring>>

\* The connection of a bridge that has gone is read to its end.
Close(r) ==
  /\ r \in registry /\ hand[r] = Absent /\ line[r] = <<>>
  /\ ~(shell[r[1]].id = r[2] /\ shell[r[1]].alive)
  /\ registry' = registry \ {r}
  /\ UNCHANGED <<adapterVars, line, hand, contexts, ring, files>>

\* The daemon dies or is replaced, and the bridges with it.  Nothing names the files it
\* leaves behind any more.
DaemonDies ==
  /\ registry # {} /\ deaths < MaxDeaths /\ deaths' = deaths + 1
  /\ shell' = [z \in Zsh |-> [shell[z] EXCEPT !.alive = FALSE]]
  /\ line' = [r \in Registration |-> <<>>] /\ hand' = [r \in Registration |-> Absent]
  /\ registry' = {} /\ contexts' = [r \in Registration |-> 0] /\ ring' = <<>> /\ files' = {}
  /\ UNCHANGED <<switches, loaded, running, tee, held, ran, edits>>

ObserverNext ==
  \/ \E z \in Zsh : Prompted(z) \/ Run(z) \/ Precmd(z) \/ HelperDies(z)
  \/ \E r \in Registration : Receive(r) \/ Push(r) \/ Clean(r) \/ Close(r)
  \/ Edit \/ DaemonDies

ObserverSpec == ObserverInit /\ [][ObserverNext]_observerVars

----
(* Properties. *)

Refs(entries) == {entries[i].ref : i \in DOMAIN entries} \ {Absent}
\* The two counters of a shell have both passed this number: the name may have been used
\* for a typed command and for an approved one.
NumberedTwice(name) ==
  LET s == shell[name[1][1]] IN s.observed >= name[2] /\ s.approved >= name[2]
\* A file with output of an earlier command of the shell: a capture had been left on.
LeftOn(e, f) == \E o \in f.holds : o[1] = e.by[1] /\ o[2] < e.n

\* The output that an observed command refers to is there and is its own, and no output is
\* kept that no observed command refers to: whatever shells run side by side, and whatever
\* the ring gives up meanwhile.  Left out are names used twice and captures left on, which
\* the code does not prevent.
OutputsMatchRing ==
  /\ \A i \in DOMAIN ring :
       LET e == ring[i]
       IN e.ref = Absent \/ NumberedTwice(e.ref)
          \/ \E f \in files : f.name = e.ref /\ (f.holds = {<<e.by[1], e.n>>} \/ LeftOn(e, f))
  /\ \A f \in files : f.name \in Refs(ring)
       \cup UNION {Refs(hand[r].entries) : r \in {other \in Registration : hand[other] # Absent}}

\* FR-59: a shell's context is sent right after it has registered, and at a prompt when it
\* has changed: after precmd the daemon has it, or it is on its way.
LastContext(r) ==
  LET sent == SelectSeq(line[r], LAMBDA m : m.op = "context")
  IN IF sent = <<>> THEN contexts[r] ELSE Last(sent).version
ContextFollowsRegistration ==
  [][\A z \in Zsh : running[z] # Absent /\ running'[z] = Absent /\ Live(shell'[z])
       => LastContext(Id(z, shell[z]))' = shell'[z].aliases]_observerVars
=============================================================================
