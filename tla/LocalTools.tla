------------------------------ MODULE LocalTools ------------------------------
(***************************************************************************)
(* The read-only tools a model may call, with what they share: the caches  *)
(* of five of them, which are keyed by a fingerprint of what is read, and  *)
(* the ledger of sources.  What a tool reads is one subject with a version *)
(* number; the user, the indexer and other programs change it at any time. *)
(* A call takes less than a tick of the caches' clock.                     *)
(***************************************************************************)
EXTENDS Naturals, FiniteSets

CONSTANTS Shell,       \* the shells, each with one task at a time
          Ttl,         \* the lifetime of a cached result, in ticks
          MaxVersion,  \* bound on the changes of a subject
          None         \* no key, no value

ASSUME ToolBounds == Ttl \in Nat /\ MaxVersion \in Nat \ {0}

VARIABLES
  is,        \* the version of each subject that is there now; 0: nothing is there
  newest,    \* the number of its last change
  back,      \* history: the subjects that were brought back to an earlier state
  gone,      \* history: the ticks since each version was last there
  cacheOn,   \* cache.enabled of the stored configuration
  reload,    \* cache.enabled of the configuration a reload is about to store
  cache,     \* what each caching tool has kept
  ledger,    \* last_source_ledger, of which the daemon has one: the tools it names
  call       \* the call each shell's task is in

toolVars == <<is, newest, back, gone, cacheOn, reload, cache, ledger, call>>

Caching == {"read_file", "project_metadata", "git_context", "grounding", "command_exists"}
Tool == Caching \cup {"run_readonly_command", "search_files", "list_workspace_files",
                      "search_terminal_context", "lookup_command_docs", "retrieve_command_docs"}

\* What a tool reads: a shell's task sees the terminal of that shell only.
Subject == {"file", "project", "repository", "index", "programs"} \cup Shell
Source(t, s) ==
  CASE t \in {"read_file", "search_files", "list_workspace_files", "run_readonly_command"} -> "file"
    [] t = "project_metadata" -> "project"
    [] t = "git_context" -> "repository"
    [] t \in {"grounding", "lookup_command_docs", "retrieve_command_docs"} -> "index"
    [] t = "command_exists" -> "programs"
    [] t = "search_terminal_context" -> s

\* The part of a cache key that depends on what is read.  A file is known by its
\* inode, size and time, and not at all when it is not there.
FileKey == IF is["file"] = 0 THEN None ELSE is["file"]
\* A project is known by its manifests, their content as well.
ProjectKey == is["project"]
\* A repository is known by HEAD, its index and the text of its status, which an edit of
\* a file that is already changed leaves alone.
GitKey == (is["repository"] + 1) \div 2
\* Documents are known by the revision of the index; so is whether a command exists,
\* what is in PATH is not looked at.
IndexKey == is["index"]

Fingerprint(t) ==
  CASE t = "read_file" -> FileKey
    [] t = "project_metadata" -> ProjectKey
    [] t = "git_context" -> GitKey
    [] t \in {"grounding", "command_exists"} -> IndexKey

\* The tools whose fingerprint tells any two versions apart.
Exact == {"read_file", "project_metadata", "grounding"}

Version == 0..MaxVersion
ASSUME NoneAssumption == None \notin Version /\ None \notin Tool
Idle == [at |-> "idle", tool |-> None, caching |-> FALSE, key |-> None, value |-> None, seen |-> {}]
Waiting(s) == call[s].at \in {"idle", "answered"}

ToolInit ==
  /\ is = [o \in Subject |-> IF o = "index" THEN 0 ELSE 1] /\ newest = is
  /\ back = {}
  /\ gone = [o \in Subject |-> [v \in Version |-> 0]]
  /\ cacheOn = TRUE /\ reload = None
  /\ cache = [t \in Caching |-> {}]
  /\ ledger = {}
  /\ call = [s \in Shell |-> Idle]

Go(s, step) == call' = [call EXCEPT ![s].at = step]
world == <<is, newest, back, gone>>
settings == <<cacheOn, reload>>

\* A StartTask of any shell empties the ledger of all.
BeginTask(s) ==
  /\ Waiting(s)
  /\ ledger' = {}
  /\ call' = [call EXCEPT ![s] = Idle]
  /\ UNCHANGED <<world, settings, cache>>

\* The model calls a tool; the configuration it is handled under is the one now stored.
Ask(s, t) ==
  /\ Waiting(s)
  /\ LET caching == cacheOn /\ t \in Caching
     IN call' = [call EXCEPT ![s] = [Idle EXCEPT !.at = IF caching THEN "asked" ELSE "missed",
                                                 !.tool = t, !.caching = caching,
                                                 !.seen = {is[Source(t, s)]}]]
  /\ UNCHANGED <<world, settings, cache, ledger>>

\* A missing argument, a root or a path that is denied, a command that the prompt
\* does not ask for: an error, of which nothing is kept or noted.
Refuse(s) ==
  /\ \/ call[s].at = "asked"
     \/ call[s].at = "missed" /\ ~call[s].caching
  /\ call' = [call EXCEPT ![s] = Idle]
  /\ UNCHANGED <<world, settings, cache, ledger>>

MakeKey(s) ==
  /\ call[s].at = "asked"
  /\ LET key == Fingerprint(call[s].tool)
     IN call' = [call EXCEPT ![s].key = key, ![s].at = IF key = None THEN "missed" ELSE "keyed"]
  /\ UNCHANGED <<world, settings, cache, ledger>>

\* TimedCache::get: an entry that is too old is dropped.
Lookup(s) ==
  /\ call[s].at = "keyed"
  /\ LET c == call[s]
         kept == {e \in cache[c.tool] : e.key = c.key}
         live == {e \in kept : e.age <= Ttl}
     IN /\ cache' = [cache EXCEPT ![c.tool] = @ \ (kept \ live)]
        /\ IF live = {} THEN Go(s, "missed")
           ELSE \E e \in live : call' = [call EXCEPT ![s].value = e.value, ![s].at = "noting"]
  /\ UNCHANGED <<world, settings, ledger>>

\* The work of a tool, of which something is kept when there is a key for it.
Working(s, t) == call[s].at = "missed" /\ call[s].tool = t
There(s) == is[Source(call[s].tool, s)]
Gets(s, keeps) ==
  /\ call' = [call EXCEPT ![s].value = There(s),
                         ![s].at = IF keeps /\ call[s].key # None THEN "keeping" ELSE "noting"]
  /\ UNCHANGED <<world, settings, cache, ledger>>

\* A probe runs, fails or is killed after its timeout.  One that is no command of the
\* allowed list is not run; it is noted all the same.
RunProbe(s) == Working(s, "run_readonly_command") /\ Gets(s, FALSE)
RejectProbe(s) ==
  /\ Working(s, "run_readonly_command")
  /\ Go(s, "noting")
  /\ UNCHANGED <<world, settings, cache, ledger>>

\* What these keep they keep whatever came of it, errors included.
ReadFile(s) == Working(s, "read_file") /\ Gets(s, TRUE)
ReadProject(s) == Working(s, "project_metadata") /\ Gets(s, TRUE)
ReadRepository(s) == Working(s, "git_context") /\ Gets(s, TRUE)
CommandExists(s) == Working(s, "command_exists") /\ Gets(s, TRUE)
\* An index without documents is answered for, but the answer is not kept.
Ground(s) == Working(s, "grounding") /\ Gets(s, There(s) # 0)

\* These look each time.
SearchFiles(s) == Working(s, "search_files") /\ Gets(s, FALSE)
ListFiles(s) == Working(s, "list_workspace_files") /\ Gets(s, FALSE)
SearchTerminal(s) == Working(s, "search_terminal_context") /\ Gets(s, FALSE)
LookUpDocs(s) == Working(s, "lookup_command_docs") /\ Gets(s, FALSE)
RetrieveDocs(s) == Working(s, "retrieve_command_docs") /\ Gets(s, FALSE)

Do(s) ==
  \/ RunProbe(s) \/ RejectProbe(s)
  \/ ReadFile(s) \/ ReadProject(s) \/ ReadRepository(s) \/ CommandExists(s) \/ Ground(s)
  \/ SearchFiles(s) \/ ListFiles(s) \/ SearchTerminal(s) \/ LookUpDocs(s) \/ RetrieveDocs(s)

\* Mutant: the key is made when the result is kept.
PutUnderKeyOfNow(t, key, value) ==
  LET now == Fingerprint(t)
  IN cache' = [cache EXCEPT ![t] = {e \in @ : e.key # now} \cup {[key |-> now, value |-> value, age |-> 0]}]
\* TimedCache::insert, under the key that was made before the work, errors included.
Put(t, key, value) ==
  cache' = [cache EXCEPT ![t] = {e \in @ : e.key # key} \cup {[key |-> key, value |-> value, age |-> 0]}]
Keep(s) ==
  /\ call[s].at = "keeping"
  /\ Put(call[s].tool, call[s].key, call[s].value)
  /\ Go(s, "noting")
  /\ UNCHANGED <<world, settings, ledger>>

\* append_source_refs: a reference that is there already is not added again.  A probe
\* adds one in any case, another tool when it found something; the two that validation
\* asks add none.
Note(s) ==
  /\ call[s].at = "noting"
  /\ LET t == call[s].tool
     IN \E refs \in CASE t = "run_readonly_command" -> {{t}}
                      [] t \in {"grounding", "command_exists"} -> {{}}
                      [] OTHER -> {{}, {t}} :
          ledger' = ledger \cup refs
  /\ Go(s, "answered")
  /\ UNCHANGED <<world, settings, cache>>

\* A reload first makes the caches anew, then stores the configuration.
ReplaceCaches ==
  /\ reload = None
  /\ reload' \in BOOLEAN
  /\ cache' = [t \in Caching |-> {}]
  /\ UNCHANGED <<world, cacheOn, ledger, call>>
StoreConfig ==
  /\ reload # None
  /\ cacheOn' = reload
  /\ reload' = None
  /\ UNCHANGED <<world, cache, ledger, call>>

-----------------------------------------------------------------------------
\* What others do to a subject, before or after a call under way looks at it.  A file
\* that is not there has no fingerprint; a project without manifests has one, and it
\* is the same each time.
Becomes(o, v) ==
  /\ is' = [is EXCEPT ![o] = v]
  /\ gone' = [gone EXCEPT ![o][is[o]] = 0, ![o][v] = 0]
  /\ call' = [s \in Shell |-> IF ~Waiting(s) /\ Source(call[s].tool, s) = o
                              THEN [call[s] EXCEPT !.seen = @ \cup {v}] ELSE call[s]]
  /\ UNCHANGED <<settings, cache, ledger>>
\* Each change takes the next number, and a new state is known by it.
Touch(o) == newest[o] < MaxVersion /\ newest' = [newest EXCEPT ![o] = @ + 1]
Change(o) ==
  /\ Touch(o)
  /\ Becomes(o, newest'[o])
  /\ UNCHANGED back
Delete(o) ==
  /\ o \in {"file", "project"} /\ is[o] # 0
  /\ Touch(o)
  /\ Becomes(o, 0)
  /\ back' = IF o = "project" THEN back \cup {o} ELSE back

\* An older file moved back into place has its inode and its time again.
MoveBack(o) ==
  /\ o \in {"file", "project"}
  /\ Touch(o)
  /\ \E v \in 1..newest[o] \ {is[o]} : Becomes(o, v)
  /\ back' = back \cup {o}

\* Time passes between calls; what was answered before is over.
Tick ==
  /\ \A s \in Shell : Waiting(s)
  /\ cache' = [t \in Caching |-> {[e EXCEPT !.age = IF @ > Ttl THEN @ ELSE @ + 1] : e \in cache[t]}]
  /\ gone' = [o \in Subject |-> [v \in Version |->
       IF v = is[o] THEN 0 ELSE IF gone[o][v] > Ttl THEN gone[o][v] ELSE gone[o][v] + 1]]
  /\ call' = [s \in Shell |-> Idle]
  /\ UNCHANGED <<is, newest, back, settings, ledger>>

Handle(s) == Refuse(s) \/ MakeKey(s) \/ Lookup(s) \/ Do(s) \/ Keep(s) \/ Note(s)
ToolNext ==
  \/ \E s \in Shell : BeginTask(s) \/ Handle(s) \/ \E t \in Tool : Ask(s, t)
  \/ ReplaceCaches \/ StoreConfig
  \/ \E o \in Subject : Change(o) \/ Delete(o) \/ MoveBack(o)
  \/ Tick

-----------------------------------------------------------------------------
\* What a tool answers, from its cache or not, is true.  When its fingerprint tells
\* all versions apart, the answer was the state of the subject at some moment of the
\* call, whatever else was edited, cached and reloaded between its steps.  When the
\* fingerprint does not, or an old file was moved back, the answer was true at most
\* one lifetime of the cache ago.
ServedIsTrue ==
  \A s \in Shell : call[s].at = "answered" /\ call[s].value # None =>
    LET c == call[s]
        o == Source(c.tool, s)
    IN /\ c.tool \in Exact /\ o \notin back => c.value \in c.seen
       /\ c.value \in c.seen \/ gone[o][c.value] <= Ttl

ToolTypeOK ==
  /\ is \in [Subject -> Version] /\ newest \in [Subject -> Version]
  /\ back \subseteq Subject
  /\ gone \in [Subject -> [Version -> 0..Ttl + 1]]
  /\ cacheOn \in BOOLEAN /\ reload \in BOOLEAN \cup {None}
  /\ cache \in [Caching -> SUBSET [key : Version, value : Version, age : 0..Ttl + 1]]
  /\ ledger \subseteq Tool
  /\ call \in [Shell -> [at : {"idle", "asked", "keyed", "missed", "keeping", "noting", "answered"},
                         tool : Tool \cup {None}, caching : BOOLEAN, key : Version \cup {None},
                         value : Version \cup {None}, seen : SUBSET Version]]
=============================================================================
