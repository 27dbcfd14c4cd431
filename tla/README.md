# termlm: models, checks and proofs

termlm is an assistant inside zsh: the user types a wish, a daemon asks a
language model for a command, the user approves it, the shell runs it, and the
daemon goes on from its result.  This directory holds TLA+ models of the program,
the TLC runs that check them and the TLAPS proofs about them.  `main.rs` below is
`src/crates/termlm-core/src/main.rs`; other paths are given from `src/`.

## 1. The system

| part | its state | its operations | how it meets the others |
|---|---|---|---|
| task table (`main.rs` 74-110, 1024-2220) | `tasks`, `timed_out_tasks`, `task_conversations`, `shell_approval_overrides`: four maps, each behind its own async mutex | StartTask, UserResponse (six decisions), Ack | called by the connection handlers, cleaned by the sweeper and by a disconnection |
| connection handler (819-1022) | the shell it is bound to, its place in the current message | one message at a time off a Unix socket; index updates in between | one tokio task per connection, all on the same tables |
| timeout sweeper (1100-1179) | none between ticks; a list of expired ids during one | every second: remove expired entries, their conversations, record them as timed out | takes the three mutexes one after the other, between any two awaits of a handler |
| provider orchestration (6290-7577) | the conversation of the task | build a prompt, stream the model, run read-only tools, recurse, end in a question, a proposal or an answer | calls planning; re-inserts the task's entry |
| planning and validation (11612-12295, `planning/mod.rs`) | the draft, the round | floor check, grounding, validation, web fallback, redraft, revision | reads the entry before, writes a new one after |
| approval policy (2565, 12020; `termlm-safety`) | `approval_override` per task and per shell | approve, approve all, edit, reject | decides whether the adapter asks or runs |
| providers (`termlm-inference`, `provider_bootstrap.rs`) | the loaded model or the HTTP connection | stream, cancel, health | one mutex, held while a stream is opened |
| zsh adapter (`plugins/zsh`) | current, closed, pending, approval and clarification task ids | widgets that send decisions, hooks that send Acks | through a bridge process and two FIFOs |
| client and bridge (`termlm-client`) | one daemon connection | relay, CLI commands | IPC |
| daemon start and stop (378-647, 16224-16268) | pid file, socket file | single instance, stale socket, signals | |
| configuration (`termlm-config`, 649-817) | the current config | load, hot reload at SIGHUP | read as a snapshot by everyone |
| index (`termlm-indexer`, 13299-15368) | chunks, lexicon, vectors in memory and on disk; write lock | full, delta, compact, watch, background | broadcasts updates to the connections |
| caches (`cache/mod.rs`, `termlm-web/src/cache.rs`) | TTL maps, a size-bounded LRU | get, put | tools, retrieval, validation |
| observed commands, session transcript (12788-13010) | bounded rings per daemon and shell | append, trim | terminal context of prompts |
| local and web tools | the time of the last web request | read-only calls | orchestration |
| upgrade and install | staged version directories | stage, switch, roll back | |
| classification, prompts, parsing, redaction | none | functions of text | everywhere |

What is hard in it: every handler awaits many times, and what it read before an
await may be gone after it; the tables are cleaned by three actors (the handler,
the sweeper, a disconnection) that each take one mutex after another; requests
cross replies; an Ack removes a task that the orchestration then puts back; and
the rights a user gave (an approve-all) travel through all of this in a flag.

What makes each part correct:

- task table: a task that a shell is waiting on, or holds a question or a command
  of, is in the table; none is left when its shell is gone; conversations do not
  outlive tasks; rounds are bounded; every request gets one answer;
- approval: no command reaches the shell without a gate unless the user gave that
  right to this task or shell, never a critical one; a right given is honoured;
- sweeper: it ends what timed out and nothing else;
- planning: what is surfaced was validated, within the rounds allowed;
- adapter: it runs a command once, only for the current task, and is never stuck;
- daemon start: at most one daemon serves the socket; reload is all or nothing;
- index: memory and disk agree after any crash; no chunk of a removed command is
  retrieved; indexers exclude one another;
- caches: within size, never older than their TTL; transcript and ring in bounds.

## 2. Plan, and what is left of it

The order was: what a user's task depends on first, then what the tasks share,
then the process around it.

1. `TaskLifecycle` and its abstract `TaskProtocol`: the task table (done, its safety
   and that of the refinement proved).
2. `Orchestration` with `Planning`, and its abstract `OrchestrationPromise` (done, its
   safety proved).
3. `Adapter`: zsh and its helper, against the daemon's protocol (done, its safety
   proved).
4. `DaemonProcess`, `ModelAssets`, `ConfigReload`, `Upgrade`, composed in `Host` (done,
   all their safety proved).
5. `IndexStore` and its abstract `IndexPromise` (done, its safety proved).
6. `LocalTools`, `WebTools`, `Inference`, `Observer` (done, their safety proved, of each
   and of the four side by side).

Left: the session transcript and the one-shot commands of the client, which have little to go
wrong; loading errors of the index's files, which the model takes to be absent.

## 3. Modules

| module | what it is | composed in |
|---|---|---|
| `TaskLifecycle` | the daemon's task table with its handlers, sweeper and clients | `MCTaskLifecycle` |
| `TaskProtocol` | abstract: what the client was told per task, who may be told what next | refined by `TaskLifecycle` |
| `Planning` | pure: the checks of a draft and the daemon's own revision | `Orchestration` |
| `Orchestration` | one task inside the daemon: the model, its tool calls, the planning loops | `MCOrchestration` |
| `OrchestrationPromise` | abstract: one answer per request, valid commands only | refined by `Orchestration` |
| `Adapter` | a shell's adapter, its helper, the queues between them and the daemon | `MCAdapter` |
| `DaemonProcess` | pid file, socket, start, shutdown, crash, SIGHUP of several processes | `Host` |
| `ModelAssets` | download and verification of the model files | `Host` |
| `ConfigReload` | the configuration of a running daemon | `Host` |
| `Upgrade` | `termlm upgrade` | `Host` |
| `Host` | the four above on one machine | `MCHost` |
| `IndexStore` | the index on disk and in memory, and its indexers | `MCIndexStore` |
| `IndexPromise` | abstract: genuine documents that never go back | refined by `IndexStore` |
| `LocalTools` | the read-only tools and their caches | `MCServices` |
| `WebTools` | web questions, search, page reads, politeness, caches | `MCServices` |
| `Inference` | requests to the model, their locks and cancels | `MCServices` |
| `Observer` | what shells run and what the daemon remembers of it | `MCServices` |
| `*_proofs` | the theorems about the module they are named for; `TaskTable_proofs` goes on from `TaskLifecycle_proofs`, `Host_proofs` holds those about `DaemonProcess` too, `Services_proofs` those about `LocalTools`, `WebTools` and `Inference`, and `Observer_proofs`, which goes on from it, the one about `MCServices` | |

### How `TaskLifecycle` corresponds to the code

`tasks`, `timedOut`, `conversations` and `shellOverrides` are the four maps (the
last three by their keys).  An entry keeps the fields that a branch reads:
`override`, `awaiting`, `continuation`, `round`, and `stale` for "`created_at` is as
old as the timeout that applies".  Writing `created_at` resets `stale`.

A handler is a process with a counter `pc[s]`; `cur`, `snap` and `prior` are its
stack (the message, the clone of the entry, what `propose_command_for_execution`
read).  A step of it is the code between two awaits at which somebody else could
change what it relies on:

    idle -> start | timed -> lookup -> decide -> orchestrate -> seed -> stream
         -> surface -> handled | unhandled -> idle;  failed -> closing -> closed

- `start`: `process_start_task` up to the orchestration (floor and shortcuts,
  ambiguous prompt);
- `timed`, `lookup`, `decide`: `consume_timed_out_task`, the look-up (a response
  clones the entry, an Ack removes it), the decision;
- `orchestrate`, `seed`, `stream`: `try_provider_orchestration` before its tools
  are known, before it locks the conversations, and after; its exits `Complete`,
  `Clarify`, `GiveUp`, `DirectAnswer`, `NoTools`;
- `surface`: `propose_command_for_execution` after it read the entry; its exits
  `FloorRefused`, `Unvalidated`, `Surface`, and `FallbackFailed`, or any exit of
  the orchestration it may call;
- `handled`, `unhandled`: what the caller does with `true` and `false`;
- `failed`: an error went up by `?`; `closing`: the loop of `handle_connection` has
  ended; `dropped`: it was left by `?` past its clean-up.

`convLock` is a handler that holds the mutex of the conversations across an
await, which happens in one place (`RejectWithReason`); a step that locks it has
the guard `ConversationsFree`.

The client is the zsh adapter as far as the protocol sees it: `view[t]` is what it
was last told about a task, and it sends only what it offers its user in that
state.  Requests wait in `inbox[s]`; replies arrive at once, and a closed task
ignores them, so crossings are those of a request with a reply.

Abstractions, all of which add behaviour or merge steps that nothing can separate:

- the model, the prompt and every text heuristic are free choices of an exit;
- the read-only rounds, and the nested orchestration of a web fallback, are not
  counted: what they may end in is what one round may end in;
- the round a question stores (0 or the number of read-only results) is any
  number up to `MaxToolRounds`; larger ones act like the limit;
- `clear_task_state` and `cancel_and_clear_shell_tasks` are one step each; the
  insertion of a proposal and its sending are one step; when a send fails the
  handler goes to `failed`, which clears what it has just written;
- direct answers before the tools (`main.rs` 6377-6451) are exits of `Complete`;
- `UnregisterShell` does what the end of the connection does (`CloseShell`);
- cancelling a provider stream changes none of the tables;
- the Ack that the adapter still sends for a task the daemon has closed meanwhile
  meets an unknown task (`LookupUnknown`) and is not sent again by the model;
- a second connection that speaks for the same task (`termlm respond-task`) is not
  modelled: each shell's tasks come over its own connection.

History variables: `everExpired`, `granted`, `runs` record what the properties
speak of and no action reads them but their own updates.

### How `TaskProtocol` corresponds

It keeps `view`, `connected` and `granted` and drops the tables, the queues and the
handlers.  `Offer` and `Run` state the approval policy (`main.rs` 12020-12027) in
terms of the grants given; `Spec` has weak fairness on answering a waiting client,
and none on a running command.  `TaskLifecycle` instantiates it with its own
variables of the same names; `KeepsProtocol` is its specification.

### How `Planning` and `Orchestration` correspond

A draft is a record of what the checks can tell of a command line: is its first
name installed (`name`; "later": one further down a pipeline is not), is it complete
(`shape`), are its flags documented, does it do what the prompt asks.  `Findings` is
`validate_round` with the filters behind it (`main.rs` 11695-11830), `Revise` is
`revise_command` (`planning/mod.rs`) with its oddities: the suggestion for a later
command replaces the first token, a compound flag token is never stripped.

`Orchestration` is the call stack of one request: `pc` is the handler's place, and
`loops` the stack of running `propose_command_for_execution`s, because a draft that
needs the web starts a nested `try_provider_orchestration` whose verdict the loop
waits for (`WebFallback`, then any exit).  `Begin` holds the shortcuts of
`process_start_task`, `Orchestrate` the exits of the orchestration, `Plan` one round
of the loop, `Settle` what the three callers do with `Ok(true)` and `Ok(false)`.  The
conversation is what the code counts in it: results of tools, prompts of the web
fallback, and whether the verdict on the draft is in it.  `TaskLifecycle` has the
same exits seen from the table, with time, other tasks and lost clients around them.

The provider is a free choice.  Two paths of the code cannot be reached with the
callers there are and have no action: streaming without tools, and the `Ok(false)`
of an empty tool set (6480; some tool is always exposed).  A rejection with a reason
is in `TaskLifecycle` only.

### How `Adapter` corresponds

`sh` are the globals of `plugins/zsh` by which it knows what the user is in (an empty
one is `None`): `TASK_ID`, `CLOSED_TASK_ID`, `ACKED_PENDING_TASK_ID`,
`CLARIFICATION_TASK_ID`, `APPROVAL_TASK_ID` with its command, `PENDING_TASK_ID`,
`WAITING_MODEL`, `MODE`, `SESSION_MODE`.  `inPipe` and `outPipe` are the helper's FIFOs,
`inbox` the socket, `entry` the daemon's table as `TaskProtocol` has it.  A widget, a
hook (`Acknowledge` is `precmd`) and one handled line of the helper (`OnStarted` to
`OnBadProtocol`) is an action each; none of the latter happens while a command runs,
because zle is not active then.  `Forward` is the helper, `Serve` the daemon handling
one message, `ClearLost` the end of the old connection, `Expire` its sweeper.
`Deliver` is `termlm-helper-send`: a message to a dead helper starts another.

`confused` marks what one `CLOSED_TASK_ID` cannot tell apart: two dismissals in a row,
or one before `task_started` was handled.

### How `Host` and its parts correspond

- `DaemonProcess`: `phase[p]` is the next system call of a start (`ensure_single_daemon`,
  `cleanup_stale_socket`, bind, `write_pid_file`; `main.rs` 378-647 and 16224-16268) or of
  a shutdown.  The pid file is a file and its text, since `fs::write` creates it empty
  and fills it later, through a descriptor (`fd`) that survives its removal; `Boot` is
  a pid of an earlier life of the machine.  Probe and act are always two steps.
  `bindRace` and `nameRace` record that two starts overlapped up to the bind, or up to
  the pid file: the code has no lock against that.
- `ModelAssets`: `ensure_required_model_assets` (`provider_bootstrap.rs`) per process and asset; a file
  is two chunks, written through the `<asset>.partial` that all processes share, which
  a rename moves with its open handles.  What the server sends may be bad, and of the
  right length; the hash recorded is that of the bytes received.
- `ConfigReload`: a SIGHUP's reload in four steps (`ReloadFile`, `ApplyProvider`,
  `ReplaceCaches`, `StoreConfig`; `main.rs` 649-817), and three keys that stand for the
  kinds: one that waits for a restart, one hot, one that makes another invalid.
- `Upgrade`: `upgrade.rs` from the release to the receipt; every step may fail or be cut.
- `Host`: a process runs the installed binary and reads the configuration as it starts,
  makes sure of its assets before the probes, reloads when signalled, and is asked to
  stop by an upgrade.  The request (`upgrade.rs` 759-784) goes to `default_socket_path`
  only and is waited for 300 ms: `HostStopDaemon` reaches the daemon on the socket, or it
  does not and the upgrade goes on; a daemon that takes it later does a `HostShutdown`.

### How `IndexStore` corresponds

`disk` are the files of the index directory (absent or a sequence), `runtime` is
`index_runtime`.  A document is one chunk whose text names the command and version it
documents; entries, chunks, lexical rows and vectors are matched by position, as in
the code.  A run (`"boot"`, `"watch"`, `"background"`, `"delta"`, `"compact"`, `"full"`) waits for
`index_write_lock`, and is then a program of one step per scan, extraction, file and
publication (`Scan` to `Publish`; `store.rs`, `main.rs` 13299-15368), between any two of
which the world may change or the process `Crash` and restart with another embedding
model.  The commands are executables (`Path`), which come, go and change, and built-ins (`Virtual`),
which the scan always finds although their paths do not exist (`main.rs` 14535-14561,
15023-15098).  `prune_stale_loaded_index` therefore drops every built-in from the chunks at
each start, and neither from the lexical index nor from the vectors; the run of the start sees
no change, and memory stays like that until a run has something to write: `pruned` is what is
missing.  `torn` marks files of two generations, which a crash leaves, or a run that writes
before the bootstrap has published what it read (`Early`: clients are served from the start,
`main.rs` 561-618); `unseen` marks a change after the scan of a start and before its watcher,
`renamed` vectors kept under the name of another model, and `reordered` a memory that was filled
in another order of priority than the files were written in (section 6).  The code heals `torn` only by a
full reindex, `unseen` at the next run, the other three when a
run publishes (a compaction publishes memory, and so leaves `pruned` as it is).

### How the services correspond

- `LocalTools`: a call is `asked`, `keyed` (its fingerprint is taken), looked up, does its
  reading, keeps the result and notes its source; the world changes between any two.
  A subject is a version number.  `Fingerprint` is what each cache key depends on: size,
  time and inode of a file; HEAD, index and status of a repository (`GitKey`: an edit of
  a file already changed leaves it alone); the index revision for grounding and for
  whether a command exists.  `MoveBack` brings an old file back with its old times.
  `ReplaceCaches` and `StoreConfig` are the two steps of a reload.
- `WebTools`: a question of a task (`process_web_question`) or a tool call looks in a cache,
  takes its place after the last request (`Slot`: sleeping and trying again), requests,
  stores, reads the pages a search listed.  `LeadsTo` is where redirects end and
  `Allowed` the check of every hop.  An asker goes by the settings it began with.
- `Inference`: a request waits for the provider's mutex, connects, and generates in a
  task of its own (`Serve`), while its handler listens and may leave early (`Listen`);
  `flags` is `cancel_flags` by task id, `raised` the flags that are set.
- `Observer`: `Prompted`, `Run` and `Precmd` are the zsh hooks with all they send;
  `process_observed_command` is `Receive` (write the output file), `Push` (into the ring)
  and `Clean` (remove what the ring gave up).  A registration `<<z, n>>` is a shell id.
  An output is the set of commands that printed it.

## 4. Runs

| run | module, instance | checks |
|---|---|---|
| `one_task` | `MCTaskLifecycle`: 1 task, 1 shell, 2 requests in flight, 2 rounds, mode `manual`, time passes, the client may leave, fair | `TypeOK`, `OpenTaskIsKnown`, `NoOrphanConversation`, `ToolRoundsBounded`, `ClosedShellIsClean`, `Answered`, `KeepsProtocol` |
| `two_shells` | `MCTaskLifecycle`: 3 tasks of 2 shells, of which one is open beside `t1`; 1 request in flight, 1 round, rejections with a reason, approvals outlive tasks, one shell may leave | `OpenTaskIsKnown`, `ApprovalIsEarned`, `ApproveAllIsHonoured` |
| `orchestration` | `MCOrchestration`: a sound, a misspelt and a forbidden draft, clarifications allowed or not, 2 tool rounds, 2 planning rounds, 2 requests, fair | `ConversationEnds`, `FindingReachesRedraft`, `ReadonlyRoundsBounded`, `KeepsPromise` |
| `adapter` | `MCAdapter`: 2 tasks, one of up to 2 commands, a death of the helper, a timeout, fair | `AdapterTypeOK`, `DismissedStaysDismissed`, `BoxIsBacked`, `AckIsExpected`, `WaitingEnds` |
| `host` | `MCHost`: 2 processes, 2 assets, a crash, 2 SIGHUPs, 2 edits, 2 upgrades, fair starts | `HostTypeOK`, `OneDaemon`, `ServingIsNamed`, `BootedOnWholeAssets`, `ReloadCatchesUp`, `ReceiptIsTrue`, `UpgradeRetiresDaemon`, `StartServes` |
| `index` | `MCIndexStore`: 2 executables of which one changes, a built-in, 2 chunks, 2 embedding models, a crash, a request at any time, fair | `TypeOK`, `MemoryIsCurrent`, `PositionsAgree`, `ReuseIsSound`, `KeepsPromise`, `CatchesUp` |
| `services` | `MCServices`: see below | `ServicesTypeOK`, `ServedIsTrue`, `PagesWithinPolicy`, `CancelledOnPurpose`, `OutputsMatchRing`, `WebAnswered`, `RequestsEnd` |
| `approve_all_lost` | as `one_task`, the default `approve_all_resets_per_task` | finds `ApproveAllIsHonoured` violated |
| `question_lost` | as `one_task` | finds `QuestionCanBeAnswered` violated |
| `reasoned_rejection` | 1 task, rejections with a reason, fair | finds `Answered` violated |
| `sweeper_race` | as `one_task` | finds `LiveTaskIsNotTimedOut` violated |
| `context_lost` | `Observer`: 1 shell, 1 command, 2 registrations, a death | finds `ContextFollowsRegistration` violated |

Deadlock is not checked in any of them: when every task is over, every client gone or
every bound used up, the system rightly stops.  That it does not stop before is what
the liveness properties say (`Answered`, `KeepsPromise` of `Orchestration`,
`WaitingEnds`, `StartServes`, `CatchesUp`, `WebAnswered`, `RequestsEnd`).

### A behaviour has a focus

`MCHost`, `MCAdapter` and `MCServices` have a variable `focus`, chosen at the start, that
says what a behaviour is about; the other parts then keep still, take their steps at
once (`Ensuring`, `Starting`, `Prompt`), or have no faults.  The state space is the sum of
those of the concerns and not their product.  What a focus leaves out:

- `host`: files of an earlier life and a reused pid only for "start"; missing or bad
  assets only for "assets"; edits only for "reload", with one process; an upgrade only
  for "upgrade"; a crash only for "start" and "assets".  An upgrade's steps before it asks
  for the shutdown are seen by nobody, so they come at once.
- `adapter`: "dialogue" is two tasks with questions, sessions and up to two commands and no
  fault; "trouble" one fault among tasks without questions; "link" one task with the
  helper's forwarding as a step of its own, which the other two have at once.  Ids are
  drawn in order, which costs nothing as they are alike.
- `services`: a local tool, "web", "inference" or "shells".  For a tool: a second shell where
  two shells can meet (`git_context`, whose cache they share, and `search_terminal_context`),
  a reload for three of the caching tools, two changes of a file and one of anything else.
  For the web: two addresses, of which the https one leads to the plain one; one asker asks
  questions and goes first, the other uses the tools; the policy becomes strict in a reload,
  or there is no cache; a cache holds one body.  For inference: two requests of one task and
  one of another, a token, one cancel from outside.  For shells: two commands, a ring of one
  entry, and a death or an edit of the switches; the second shell types one plain command;
  aliases stay (in `context_lost` they may change).

### Bounds and why they are enough

- `MaxPending` = 2 in `one_task`: a request can overtake the answer to the one before it,
  which is what a crossing needs; a third only repeats it.
- `MaxToolRounds` = 2, `MaxPlanningRounds` = 2: a round below the limit and one at it.
- a second task of the same shell for what outlives one, a second shell for what is
  shared.  `OneOther` keeps the two apart (an action constraint): a shell has one task at a
  time because the adapter abandons one before it starts another.
- `Clocked` and `Leaving` restrict time and departures to the runs whose question needs them.
- three drafts are the three verdicts that lead on differently: valid, refused and
  repairable (its name by a suggestion, its flag by stripping), and refused by the floor.
  `MaxRetries` = 1 bounds redrafts, which the code does not (section 6).
- two executables, a built-in and two chunks: the cap cuts one off, the built-in is indexed
  first, as in the code, and an executable of a high rank that comes or goes moves what is
  after it; each restart shifts the positions by the built-in.  One request besides the start's and the
  watcher's runs gives three runs that wait for one lock.
- two processes: the third waits for the same files as the second.  Two edits and two
  SIGHUPs: the second comes during the reload of the first.
- `Ttl` = 1: an entry that is fresh, one at its limit and one past it.

The sizes, in distinct states: `one_task` 84,963, `two_shells`
1,425,973, `orchestration` 262,342, `adapter` 750,203, `host` 233,642, `index` 310,128,
`services` 321,775; of the violations, which stop at the first, `approve_all_lost` 16,901,
`question_lost` 1,281, `reasoned_rejection` 2,248, `sweeper_race` 3,852, `context_lost` 132.  The
longest takes three minutes.

### Fairness

`TaskLifecycle` has weak fairness of each handler and of the sweeper (tokio polls a ready
task; the sweeper's ticker fires every second) and strong fairness of `Outcome`, an exit
of the orchestration.  The latter stands for the bounds the code has: streams end by the
token limit or the idle timeout, read-only rounds by `max_tool_rounds`, web fallbacks by
`max_planning_rounds`; it also assumes what the code does not bound (section 6).  In
`Orchestration` these bounds are steps of the model, and weak fairness of the handler is
all that is assumed there.  `Adapter`: strong fairness of handling a line, since zle reads
keys and the helper's output at once whenever no command runs, and weak fairness of hooks,
helper and daemon; `WaitingEnds` excuses a death of the helper, which the shell does not
notice.  `MCHost`: weak fairness of the steps of a start, which are system calls.
`IndexStore`: weak fairness of the bootstrap, the watcher and the run that holds the lock,
and strong fairness of each waiting run's taking it, since tokio's mutex is first come, first
served.  `WebTools`: of time and of each handler, whose requests have timeouts.
`Inference`: of each generation and each handler, likewise.  Nothing is assumed of users,
clients, commands, faults or changes of the world.

### What the violations show

1. `approve_all_lost`: an Ack removes the entry with its override, and planning reads it
   after that.  The grant never covers a second command.  (FR-13)
2. `question_lost`: after a clarification whose orchestration asks again, the caller clears
   `awaiting_clarification` of the *new* entry; the second answer is refused.  (FR-21)  As a
   side effect this is what keeps a chain of questions from resetting the round counter
   for ever: a repair must look at `ToolRoundsBounded` again.
3. `reasoned_rejection`: the guard of the conversations mutex is alive during an
   orchestration that locks it.  (FR-14)  The adapter never sends a reason; the command
   line's `respond-task --text` does.
4. `sweeper_race`: the sweeper expires an entry during the orchestration of an answer that
   came in time; the next answer is told "timeout".  (FR-26)
5. `context_lost`: the adapter remembers the hash of the context it sent last and not to
   whom; a shell that registers again under a new id takes it for sent.  (FR-59)

With reasons and time together (no run), a direct answer after a reasoned rejection whose
entry the sweeper has taken leaves a conversation behind.

## 5. Proofs

| theorem | says | module |
|---|---|---|
| `TypeCorrect`, `TypeInvInvariant` | `Spec => []TypeOK`, `Spec => []TypeInv` | `TaskLifecycle_proofs` |
| `ApprovalEarned` | `Spec => []ApprovalIsEarned` | `TaskLifecycle_proofs` |
| `KnownInvariant` | `Spec => []Known` | `TaskTable_proofs` |
| `OpenTaskCorrect`, `ToolRoundsCorrect` | `Spec => []OpenTaskIsKnown`, `[]ToolRoundsBounded` | `TaskTable_proofs` |
| `NoOrphanCorrect`, `ClosedShellCorrect` | `~ReasonedRejections => (Spec => []NoOrphanConversation)`, the same for `ClosedShellIsClean` | `TaskTable_proofs` |
| `ApproveAllCorrect` | `~ApproveAllResetsPerTask => (Spec => []ApproveAllIsHonoured)` | `TaskTable_proofs` |
| `ProtocolKept` | `Spec => Protocol!Safe`: `TaskLifecycle` implements the safety part of `TaskProtocol` | `TaskTable_proofs` |
| `RoundsBoundedCorrect`, `FindingReachesCorrect`, `ConversationEndsCorrect` | `Spec => []ReadonlyRoundsBounded`, `[]FindingReachesRedraft`, `[]ConversationEnds` | `Orchestration_proofs` |
| `PromiseKept` | `Spec => Promise!Safe`: `Orchestration` implements the safety part of `OrchestrationPromise` | `Orchestration_proofs` |
| `AdapterTypes`, `DismissedStays` | `Spec => []AdapterTypeOK`, `[]DismissedStaysDismissed` | `Adapter_proofs` |
| `BoxBacked`, `AckExpected` | `Spec => []BoxIsBacked`, `[]AckIsExpected` | `Adapter_proofs` |
| `ProcTypeCorrect`, `OneDaemonCorrect`, `ServingIsNamedCorrect` | `ProcSpec => []ProcTypeOK`, `[]OneDaemon`, `[]ServingIsNamed` | `Host_proofs` |
| `HostRefinesProcesses` | `HostSpec => ProcSpec` | `Host_proofs` |
| `HostDaemonIsOneAndNamed` | `HostSpec => [](OneDaemon /\ ServingIsNamed)` | `Host_proofs` |
| `HostTypes`, `WholeAssets` | `HostSpec => []HostTypeOK`, `[]BootedOnWholeAssets` | `Host_proofs` |
| `ReloadCatches`, `ReceiptTrue`, `UpgradeRetires` | `HostSpec => []ReloadCatchesUp`, `[]ReceiptIsTrue`, `[]UpgradeRetiresDaemon` | `Host_proofs` |
| `ToolTypeCorrect`, `ServedIsTrueCorrect` | `ToolSpec => []ToolTypeOK`, `[]ServedIsTrue` | `Services_proofs` |
| `IndexTypes` | `Spec => []TypeOK` | `IndexStore_proofs` |
| `ReuseSound`, `IndexKeepsPromise` | `Spec => []ReuseIsSound` and `Spec => KeepsPromise`: `IndexStore` implements `IndexPromise` | `IndexStore_proofs` |
| `PositionsRight`, `MemoryCurrent` | `Spec => []PositionsAgree` and `Spec => []MemoryIsCurrent`, both with built-ins | `IndexStore_proofs` |
| `InferenceTypeCorrect`, `CancelledOnPurposeCorrect` | `InferenceSpec => []InferenceTypeOK`, `[]CancelledOnPurpose` | `Services_proofs` |
| `WebTypeCorrect`, `PagesCorrect` | `WebSpec => []WebTypeOK`, `[]PagesWithinPolicy` | `Services_proofs` |
| `ObserverTypeCorrect`, `OutputsCorrect` | `ObserverSpec => []ObserverTypeOK`, `[]OutputsMatchRing` | `Observer_proofs` |
| `ServicesTypeCorrect` | `MCSpec => []ServicesTypeOK`, of the four services side by side | `Observer_proofs` |

They hold for every set of tasks, shells, processes and requests and every bound that
meets the assumptions of the modules (`ConfigAssumption`, `ProcAssumption`,
`BoundAssumption`, `AssetAssumption`, `ReloadAssumption`, `UpgradeAssumption`, `InferenceBounds`,
`NobodyAssumption`, `ToolBounds`, `NoneAssumption`, `WebBounds`, `NothingAssumption`, `IndexAssumption`,
`AbsentAssumption`, ...), which TLC evaluates on the
runs.

**Tasks.**  `TypeOK` is not inductive.  `process_ack` stores `round + 1` when the
orchestration has ended, from a clone of an entry that is no longer in the table; that this
is a legal round depends on a comparison made many steps earlier.  `TypeInv` adds
`Ready(s, pc[s])`: what a handler holds on its stack at each label, in particular that an
Ack past its decision is below the limit.

`ApprovalIsEarned` speaks of what a client was told.  `ApprovalInv` follows the flag to where
it comes from: an entry's override, the flag read before planning and a shell-wide flag are
each backed by a grant of the task or of its shell (`EntriesEarned`, `PriorEarned`,
`OverridesEarned`), and a connection carries only its own shell's tasks (`OwnerOK`), so that
the flag a handler stores belongs to the task it is about.  The step lemma has one case per
action; the helper lemmas (`GotoEarned`, `ReplyEarned`, `InsertEarned`, ...) say what each
building block of an action preserves.

**The table and its clients.**  `OpenTaskIsKnown` speaks of a task at rest, and nothing of
it is inductive: between a client's last message and its next the entry is taken out, put
back, amended by a handler that works from a clone, and removed by the sweeper.  `TableInv`
rests on one observation about the line to the daemon, `LineOK`: a client that waits has
exactly one *demand* (a start, a clarification, an Ack, a rejection with a reason) under
way, unread or with the handler, and a handler that has not answered yet has a client that
waits.  From it `KnownOK` says at which labels the entry must be there, `RoundsOK` where the
count of acknowledged commands is while no entry holds it (the clone, `prior`, the entry that
planning wrote) and why the entry of a question, whose round is wrong for a while, is never
acknowledged, `ClosedOK` that a closed connection has taken its tasks along, and `ShellsOK`
which requests are orchestrated and who holds the conversations mutex.  `Known` is `TypeInv`,
`ApprovalInv` and `TableInv` together.  `NoneAssumption` says that the values which stand for
"no entry" and "nobody" are neither entries nor shells.

A conversation without an entry is `Loose` (at a label whose way out drops it or writes the
entry) or `Swept`; that is `ConvInv`.  Its theorems need `~ReasonedRejections`: a rejection
with a text writes to the conversation after the sweeper may have taken the entry, and when
its orchestration ends in an answer nobody drops it; TLC shows the behaviour.  The adapter
sends no text, `respond-task --text` does.

`ProtocolKept` maps each step to one of `TaskProtocol` or a stutter.  That an answer finds a
client that waits, or that runs the command the answer refuses, depends on the order of the
requests: the adapter runs what it approves at once, so that its approval and its Ack may
both be under way.  `DialogueInv` says that approvals come before the demand of the same
task, and that nobody waits for the answer to a rejection or an abort.

`ApproveAllCorrect` needs approvals that outlive tasks; under the default, which resets
them, run `approve_all_lost` shows `ApproveAllIsHonoured` false.  A grant is for the shell,
but the task it was given in may be over at its client, which has begun another: the grant
must reach that one too.  `QueueInv` is about the shell's line: a task of which no start was read is
unknown to table and handlers (`FreshOK`), a shell has one live task (`OneLive`), and its
start is behind all that is under way of the shell's others (`TurnOK`), so a grant that
crosses a new task's start finds that task still unread.  `GrantInv` follows the flag: with a
grant, it is at the shell (`ShellCovered`), in the entry of its live task, and in what a handler
has read before planning (`CarriesOn`).  `HonourInv` is both.

**Orchestration.**  `TaskInv` is inductive: the types; `Control` (a request is open exactly
while a handler works on it, and where a planning loop is needed there is one); `Counted`
(the rounds stay below the limit, start at zero and are no more than the results in the
conversation); `Told` (the finding a redraft needs is in the conversation before the
redraft is asked for) and `Ended` (what `ConversationEnds` says holds from the moment the
request was handled).  Of the constants it needs `OrchestrationAssumption` and
`AbsentAssumption`.  `PromiseKept` follows from it step by step.

**The adapter.**  All four rest on where a task's *turn* is.  `OneTurn`: what keeps a task
going (its unused id, its question, its box, its command, a message that asks the daemon to
go on, an event that asks the user) is in one place at most.  `StartsOnce` says the same of
`task_started`.  `TurnedAway` then says of a dismissed task whose turn is still to come that
the shell has another task, or has closed this one last, so that
`termlm-should-ignore-task-event` ignores its events.  A shell without a task takes the
events of any other, and its end would replace `CLOSED_TASK_ID`; `First` says that nothing
but the start of another task comes before that turn.  `Dialogue` is their conjunction with the
types and with `Wired`; it holds with any
number of deaths of the helper, and implies `DismissedStaysDismissed`.

`BoxIsBacked` and `AckIsExpected` compare the shell with the daemon's table, at the two ends
of three queues.  `Undisturbed` says, as long as the helper lives: `Agrees`, that the offer on
its way, the box, the decision, the running command and its Ack all carry the round the
daemon waits with, an Ack follows the decision if one was wanted, and where the daemon has
no entry the end is on its way, behind the offer; `DecidedOnce`, that while a decision is on
its way nothing else of that task is but the Ack behind it; `Announced`, that events and
messages come after the task's start; and `Closes`, that the end which is on its way will
close the box, since a task that has a box is not taken for one that was closed.  `StepShape`
gives each action's effect, and `StepSmooth` says which actions leave the daemon alone, so that
the long lemmas are about `Forward`, `Serve` and `Expire` only.  With a death both are false, as the
excepted `deaths = 0` says: the daemon clears the lost connection's tasks while the box stays.

**Daemons.**  That one process listens rests on what each probe has seen being still true
when it is acted on.  `BindSafe`, while no two starts overlapped: one process probes at a
time, the path names whoever listens, and who is about to unlink the socket does so when
nobody listens.  `NameSafe` says the same of the pid file up to its write: the file that is
being written is the one at the path, and who has read a pid has read the one that serves.
`StartInv` is their conjunction with the types.  `Host` adds assets, configuration and
upgrades; `HostStepIsProcStep` maps each of its steps to one of `DaemonProcess` or to a
stutter, so that the daemon of a whole host is one and named as well.

**The host.**  `HostInv` has a part for each of the other three concerns and two that link
them.  It is proved of `HostSpec`, the whole product, which TLC explores only one concern at a
time (`focus`).

- `AssetInv`, for any list of assets and any number of processes.  `Placed`: the position in the
  list fits the step.  `Apart`: the partial file and the asset's own file are two files, so that
  a write through an open handle cannot reach a verified file.  `Unmade`: the name under which a
  process would create a partial file is not in use, which needs that no process goes back in the
  list.  `Sound`, as long as no asset was downloaded twice at a time (`shared`): one download of an
  asset (`Alone`); its partial file holds what it wrote (`Writes`); every file at an asset's own
  path is whole; and what a process has passed is `Ready`, with the pinned content.  A pinned
  file passes without being read when its length and the recorded hash fit, and a wrong content may
  have the right length; `Vouched` says why that is safe: the pinned hash stands in the manifest,
  or in a starter's copy of it, only while that file is there, and no download replaces a ready file.
- `ReloadInv`.  `Settings` says from what the provider, the caches and the running configuration
  were taken at each step of a reload, `CaughtUp` that the file's content is under way or arrived
  once the last signal after the last edit was delivered and taken.  An edit between the read and
  the store is the case that matters: the daemon was then not signalled since that edit, or its
  signal still waits.
- `Checked` follows an upgrade part by part: behind `CheckSums` the archive is vouched for,
  behind `UnpackBundle` it is this bundle, at each later step the parts before it are replaced, and from
  the first replacement to the receipt `half` says so.
- `Linked`: who probes or listens has its assets and its configuration.
- `Retired`: a process that is not `late` runs the installed binary, and there is none between
  the request to stop and the new core.  At `HostStopDaemon` this needs `BindSafe`: the request
  reaches the daemon the socket path names, and any daemon that serves is that one.  A request
that does not reach it leaves everybody `late`.

**Cancels.**  A raised flag ends the stream it belongs to, so one must show that it belongs
to a request that was meant: `FlagsLead` (the task's id leads to the flag of its newest
request that registered one), `Flagged` (a raised flag, and a generation that is ending as
cancelled, was meant) and `Begun`, `Connecting` (who has not begun or not yet registered
has no raised flag) make `CancelledOnPurpose` inductive, as `CancelInv`.

**Tools.**  That an answer was true during the call rests on the cache key.  For an exact
tool the key is made of the version that was read first, and the value is read after it, so
the two may differ; `KeptHonestly` says that they then differ only under a key that no later
call can make, since versions only grow, and that whoever still holds that key has seen the
value come.  `Newest` and `SeenNow` say the world moves on and that a call sees it move.
Where a version can come back (`back`), and for the keys that do not name a version, only
age bounds the answer: `AgesTrue` follows each entry's age against how long ago its value
was last true.  `ServeInv` is their conjunction; one lemma per action, and one for any change
of the world (`BecomesKeeps`).

**The web.**  The two caches are shared by every asker and outlive its policy.  `WebInv` says why a
page found there may be answered: it was stored under its address and all the settings it was read
under (`Reading`), and it is allowed under those (`Allowed` looks at the settings alone), so that
equal keys mean an equal verdict.  `AskerSound` says of the asker that it looks with the settings it
began with, and that what it holds for storing was checked against them.  The search cache carries
no such promise: its key leaves the policy out, and each page a search listed is looked at again
before it is read.  `Kept` (no key twice, no more than there is room for) is what makes taking a key
out and inserting it again safe.  `NothingAssumption` says that "no page" and "no settings"
are neither.

**Observed commands.**  A file is named by registration and number, so `OutputsMatchRing` rests on
who used a number.  `RingInv` follows each report of a command from the line of its connection over
the handler to the ring: `InOnePlace`, it is in one of them, once; `NotYet`, what runs is in none;
`Numbers`, its number has been passed by one of its shell's two counters, and a number that two
reports carry, or a report and the approved command that runs, by both, which is the exception
`NumberedTwice`; `Captured`, what a capture holds was printed in its shell and by no later command,
so that what is not the command's own had been left on.  With these `RefsRight` and `FilesNamed`
hold through a write to a file that is already there, an eviction and its clean-up: what the
ring gave up is removed, and nothing that it still names.  A death of the daemon forgets the ring and
leaves the files of its registrations out of the account (section 6).
`ServicesInv` is the four invariants together.

**The index.**  Files, memory and runs hold entries beside chunks, and a run trusts an entry's
signature to vouch for its chunk.  So the invariant speaks of pairs: `Clean` says that texts
and signatures are of versions there have been, that each chunk holds its own command's text, and that a
command which is still as its entry says has that text in its chunk.  A change of the PATH keeps it,
since versions only grow (`CleanMovesOn`), and so does dropping items (`CleanPart`).  `SoundInv`
says it of the files unless they are being rewritten, of memory, of what the bootstrap has
loaded and of what a run has found or made (`DiskClean` ... `JobClean`); and `Written` that the files
a run has written hold what it wrote, unless a full reindex has emptied the directory since.
From this `ReadBack`: what the next run reads is what this one wrote, or nothing.  A full
run starts from nothing and is `Firm` even among torn files.  `Before` is about the bootstrap: a
run that has written a file before it published has set `torn`.  Requests that come so early are
in the model; what the theorems except is such a write, from then until a full reindex.
For the promise `Fresh` adds that what a run will publish
is not older than what memory holds, and that a compaction writes what memory holds.

`PositionsAgree` is a matter of timing: the prune of a start drops chunks and so shifts the
positions.  For executables that is made good by the bootstrap's own run, which then finds
something to write (`Due`): the entry of what was dropped is still in the files, and the command is
gone or, if it came back, is of a newer version (`Dropped`, stable by `WorldDropped`; `ScanDue`).
Built-ins do neither, so that nothing makes it good for them: what the start leaves is what it read but
for them (`Lasting`), and memory fits but for them (`FitsBut`), which is what the property
states.  `MemoryFits`, `MemoryNamed` and `MemoryEmpty`
follow memory to the end of that run, `FilesFit` and `FilesNamed` the files it is loaded from.

`MemoryIsCurrent` follows a change of the PATH to memory.  Until a scan has seen it a run is due
(`Behind`); then `ScanSeen` (what was found is the commands, each once), `JobSeen` (what was made
of it is `UpToDate`) and `MemorySeen` hand it on, and any later change sets `Behind` again.
The hard case is the run that finds nothing to do and publishes nothing.  That is right because
it then reuses all that the files hold (`ScanAll`) and memory holds the same (`Kept`): a run's files
read back as what it made, row for row (`ReadExactly`, stronger than `ReadBack`), since each was
written (`Whole`, unless a full request has emptied the directory since) and each chunk has
an entry to be found by (`Housed`).  Where a start-up prune has parted memory from the files,
for an executable, `Due` says that its run has something to write; for a built-in the two
stay apart, and `Kept`, `UpToDate` and the property say that it is by `pruned` and nothing else.
The size, `MaxChunks` or all commands, is counted: `IndexAssumption` says that each order of `Orders`
names every command once (the scan keeps one entry per path, `prioritize_index_targets` only
sorts), so what is found is as long as `Wanted` is large (`FoundAll`, `DistinctCount`), and no
set of chunks outgrows the cap (`Capped`).

The selections of a sequence (`At`) are a recursive function; what it returns is proved through
its table of values (`Unfolding`, `AtUnfolds`) and by the least position at which a claim fails,
since induction theorems are out of the provers' reach.

Only model-checked: all liveness (out of the prover's reach) and with it the fairness part of
the refinements.  Every invariant that a passing run checks is stated by a theorem too.

## 6. What does not hold, and what is not modelled

Besides the five violations, these are known from the models and have no run of their own,
because a property excepts them (the history variable or the guard is named) or because
no property speaks of them:

- Planning rounds are bounded for the daemon's own revisions only: a provider that keeps
  sending redrafts that differ is looped on before `max_planning_rounds` is looked at
  (`main.rs` 11867; FR-108).  `MaxRetries`.
- After every ordinary restart, not in a rare race, built-ins, aliases and functions are
  missing from memory: the start-up prune (`main.rs` 14194-14241) drops what is no file, and
  the delta run that follows sees no change (14645-14698).  They come back when a run has
  something to write, as a client's full reindex has.  FR-64 says that memory "is always
  current"; `MemoryIsCurrent` and `CatchesUp` say it of the executables, and of built-ins but
  for those of `pruned`.
- For the same reason the chunks after a restart are not at the positions of the lexical
  index and of the mapped vectors, which keep the built-ins (13708-13760): as built-ins are
  sorted first, every text is paired with the row of another.  `PositionsAgree` says that
  the shift is by exactly those of `pruned`, not that there is none.
- An early request whose run writes files before the bootstrap has published what it read
  leaves the daemon with an older memory, or files that vouch for a wrong text (`torn`).
- When memory is empty and a run finds nothing to do, it fills memory in its own order of
  priority, while lexical index and vectors keep the files' (14648-14685; `reordered`).
- A crash between two files of the index leaves entries of one run beside chunks of another,
  until a full reindex (`torn`).  The manifest, which names the embedding model, is written first
  and the vectors last: if a run under a new model is cut off between them and is not a full one
  (a compaction or a background run that got the lock before the bootstrap's), the next start finds
  the name it
  expects, keeps the old vectors and embeds its queries with the new model (`renamed`; it takes
  two restarts, `MaxCrashes = 2`).  A change after the scan of a start and before its watcher is
  reported to nobody (`unseen`).
- An upgrade looks for the daemon at the default socket path, whatever `daemon.socket_path`
  says, and waits 300 ms: a daemon it does not reach serves on from the old binary (`late`).
- Two starts that overlap may both serve (`bindRace`); the loser of the pid file serves
  unnamed (`nameRace`); two that download a model file at once may mix their bytes (`shared`).
- A reload that fails half way leaves the provider's settings (`aborted`); taking the edit
  back is then "unchanged".  The merged configuration is never validated (`main.rs` 761).
- Two dismissals in a row, or one before `task_started`, let a late proposal open a box or run
  (`confused`).  A helper's death is noticed only when the next message is sent, as the shell
  holds the FIFOs open itself.  An edited command runs although the daemon's floor refuses it.
- An end of an older request to the model removes a newer one's cancel flag
  (`local_llama.rs` 1380); a later cancel finds none.
- Any shell's new task empties the one source ledger (`main.rs` 1250).
- Numbers of typed and of approved commands are two counters and share file names; a capture
  left on at a prompt adds to the next command's output (`NumberedTwice`, `LeftOn`).  Output
  files of a dead daemon are never removed.

Not modelled:

- Text: prompts, classification, parsing of shell commands, redaction, scoring, extraction of
  documentation.  Whether a text matches is a free choice of the model, which therefore says
  nothing about the patterns themselves.  What the language model says is arbitrary.
- Framing and encoding of messages; status, health, ping and retrieve requests, which change
  no state; the client's one-shot commands; the shell scripts that install a bundle.
- The session transcript: two texts are added and the oldest dropped after a task has ended,
  and no other part's property depends on it.
- Errors in reading or writing the index's files; robots.txt and address checks; the fallback
  search, which goes outside the politeness slot.
- A handler leaves by `?` in `TaskLifecycle` only when a send fails because its client has
  gone.  Two rarer ways out with the client still connected are left out: an HTTP client
  that cannot be built, and an outgoing message longer than the frame limit.
- A tee that has not written all when `precmd` reads its file; the exit of the shell.
