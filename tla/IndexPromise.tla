----------------------------- MODULE IndexPromise -----------------------------
(***************************************************************************)
(* What the command-documentation index promises whoever asks it, with no  *)
(* file, lock, indexer or restart step in it: the documents it serves are  *)
(* those of the commands they are served for, and never go back to an      *)
(* older text, until the process ends and its memory with it.              *)
(***************************************************************************)
EXTENDS Naturals

CONSTANTS
  Path,        \* commands on the PATH
  Virtual,     \* commands of the shell itself: built-ins, aliases, functions
  MaxVersion   \* bound: how often a command is replaced

VARIABLES
  present,     \* the commands that are installed
  version,     \* the version of each
  served,      \* what memory holds: records [path, text]
  intact       \* no crash has left files of two generations on the disk, and
               \* no run has overtaken the one that reads them at the start

vars == <<present, version, served, intact>>

Stub == 0  \* "no documentation available"

\* The text of a command's document names the command and one of the
\* versions that it has had up to now.
Genuine(doc) ==
  /\ doc.text.path = doc.path
  /\ doc.text.version <= IF doc.path \in Path THEN version[doc.path] ELSE 1

NoOlder(doc) ==
  \A old \in served :
    old.path = doc.path => \/ doc.text.version = Stub
                           \/ doc.text.version >= old.text.version

Change ==
  /\ present' \in SUBSET Path
  /\ \A p \in Path : version'[p] \in {version[p], version[p] + 1}
  /\ UNCHANGED <<served, intact>>

Publish ==
  /\ \/ ~intact
     \/ \A doc \in served' : doc.path \in Path \cup Virtual /\ Genuine(doc) /\ NoOlder(doc)
  /\ intact' \in BOOLEAN
  /\ UNCHANGED <<present, version>>

\* The process ends, in the middle of a write perhaps.
Lose ==
  /\ served' = {}
  /\ intact' \in BOOLEAN
  /\ UNCHANGED <<present, version>>

Init ==
  /\ present = Path
  /\ version = [p \in Path |-> 1]
  /\ served = {}
  /\ intact = TRUE

Next == Change \/ Publish \/ Lose

Spec == Init /\ [][Next]_vars
=============================================================================
