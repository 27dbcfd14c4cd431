------------------------------ MODULE MCServices ------------------------------
(***************************************************************************)
(* The services a task calls, each on small instances.  They share nothing *)
(* that a property of theirs reads, so a behaviour stays with one of them: *)
(* its focus is one of the local tools, the web, the model, or what shells *)
(* run.                                                                    *)
(***************************************************************************)
EXTENDS LocalTools, WebTools, Inference, Observer

CONSTANTS s1, s2, a1, a2, q1, p1, p2, t1, t2, r1, r2, r3

VARIABLE focus

Shells == {s1, s2}
Askers == {a1, a2}
Queries == {q1}
Pages == {p1, p2}
PlainPages == {p2}
\* p1 is an https address that leads to p2, a plain one.
Redirects == [p \in Pages |-> p2]
Open == [plain |-> TRUE, delay |-> 1, caching |-> TRUE]
Strict == [plain |-> FALSE, delay |-> 1, caching |-> TRUE]
Uncached == [plain |-> FALSE, delay |-> 0, caching |-> FALSE]
Settings == {Open, Strict, Uncached}
Tasks == {t1, t2}
Requests == {r1, r2, r3}

MCInit ==
  /\ focus \in Tool \cup {"web", "inference", "shells"}
  /\ ToolInit /\ WebInit /\ InferenceInit /\ ObserverInit
  /\ focus # "inference" => kind = "local"
  /\ web = Open \/ (focus = "web" /\ web = Uncached)

\* One tool, and what it reads.  A second shell for two of the tools, a reload for
\* three of the others; two changes of a file, one of the others.
Shared == focus \in {"git_context", "search_terminal_context"}
Reloading == focus \in {"project_metadata", "grounding", "command_exists"}
ToolStep ==
  /\ ToolNext
  /\ \A s \in Shell : call'[s].tool \in {None, focus} /\ (s = s2 /\ ~Shared => call'[s] = Idle)
  /\ \A o \in Subject : newest'[o] # newest[o] =>
       /\ o \in {Source(focus, s) : s \in Shell} \/ (o = "index" /\ focus = "command_exists")
       /\ o # "file" => newest'[o] <= MaxVersion - 1
  /\ ~Reloading => reload' = None
  /\ reload' \in {None, reload, ~cacheOn}

\* What an asker does without waiting for others goes first; a1 asks before a2, and
\* questions only.  A reload makes the policy strict.
Prompt == {"begun", "next", "reply", "answered"}
WebStep ==
  /\ WebNext
  /\ renewing' # Nothing => web = Open /\ renewing' = Strict
  /\ asks = 0 => asker'[a2] = NoAsk
  /\ asker'[a1].what \in {Nothing, "question"}
  /\ (\E a \in Asker : asker[a].at \in Prompt) =>
       \E a \in Asker : asker[a].at \in Prompt /\ asker'[a] # asker[a]

\* Two requests of one task, and one of another that waits for the local generation.
InferenceStep ==
  /\ InferenceNext
  /\ \A r \in Request : req[r].at = "new" /\ req'[r].at # "new" =>
       /\ req'[r].task = (IF r = r3 THEN t2 ELSE t1)
       /\ r = r3 => kind = "local"
       /\ kind = "local" \/ r = r1 => req'[r].stream
       /\ r # r1 => req[r1].at # "new"
  /\ cancels' # cancels => req[r1].at # "new"

\* Both shells are registered before a command runs.  The first does everything, the
\* second types one command that prints.  Aliases stay; the settings change or something
\* dies, not both; a context on its way and the end of a connection go first.
Other == s2
Telling(r) == line[r] # <<>> /\ Head(line[r]).op = "context"
ObserverStep ==
  /\ ObserverNext
  /\ \A z \in Zsh : shell'[z].aliases = 1
  /\ deaths' + edits' <= 1
  /\ shell'[Other].ids <= 1 /\ shell'[Other].observed <= 1
  /\ \A z \in Zsh : running'[z] # running[z] => \A o \in Zsh : shell[o].ids > 0
  /\ \A z \in Zsh, i \in 1..MaxRegistrations :
       running[z] = Absent /\ running'[z] # Absent => line[<<z, i>>] = <<>>
  /\ running'[Other] # Absent => running'[Other].what = "plain" /\ ~running'[Other].approved
  /\ (\E r \in Registration : hand[r] = Absent /\ Telling(r)) =>
       \E r \in Registration : hand[r] = Absent /\ Telling(r) /\ line'[r] = Tail(line[r])

MCNext ==
  /\ UNCHANGED focus
  /\ \/ focus \in Tool /\ ToolStep /\ UNCHANGED <<webVars, inferenceVars, observerVars>>
     \/ focus = "web" /\ WebStep /\ UNCHANGED <<toolVars, inferenceVars, observerVars>>
     \/ focus = "inference" /\ InferenceStep /\ UNCHANGED <<toolVars, webVars, observerVars>>
     \/ focus = "shells" /\ ObserverStep /\ UNCHANGED <<toolVars, webVars, inferenceVars>>

MCSpec == MCInit /\ [][MCNext]_<<toolVars, webVars, inferenceVars, observerVars, focus>>
          /\ WebFairness /\ InferenceFairness

\* The types of the four, and that no cache of the web holds more than there is room for.
ServicesTypeOK == ToolTypeOK /\ WebTypeOK /\ InferenceTypeOK /\ ObserverTypeOK
=============================================================================
