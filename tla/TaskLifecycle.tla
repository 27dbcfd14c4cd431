--------------------------- MODULE TaskLifecycle ---------------------------
(***************************************************************************)
(* The daemon's task table: how termlm-core drives a task from StartTask   *)
(* to TaskComplete, and the three things that run beside one another on    *)
(* it: one connection handler per shell (handle_connection, which takes    *)
(* its messages one at a time), the timeout sweeper, and time itself.      *)
(*                                                                         *)
(* A handler is a small program with a counter pc[s]: each step is the     *)
(* code between two awaits at which another actor may get in.  The model   *)
(* and the provider are an arbitrary choice among the outcomes that        *)
(* try_provider_orchestration can have.  Replies reach the client at once; *)
(* requests wait in inbox[s], so a request may cross a reply.              *)
(***************************************************************************)
EXTENDS Naturals, Sequences

CONSTANTS
  Task,                     \* task ids (UUIDs chosen by the client)
  Shell,                    \* registered shells, each with its connection
  ShellOf,                  \* the shell that starts a task
  MaxToolRounds,            \* behavior.max_tool_rounds
  MaxPending,               \* bound: unread requests on a connection
  Clocked,                  \* bound: tasks for which time passes
  Leaving,                  \* bound: shells whose client may disconnect
  ApprovalMode,             \* approval.mode
  ApproveAllResetsPerTask,  \* approval.approve_all_resets_per_task
  AllowClarifications,      \* behavior.allow_clarifications
  ReasonedRejections,       \* do clients send a text with a rejection?
  Absent,                   \* "no entry in the task table"
  Nobody                    \* "the conversations mutex is free"

ASSUME ConfigAssumption ==
  /\ ShellOf \in [Task -> Shell]
  /\ MaxToolRounds \in Nat \ {0}
  /\ MaxPending \in Nat \ {0}
  /\ Clocked \subseteq Task
  /\ Leaving \subseteq Shell
  /\ ApprovalMode \in {"manual", "manual_critical", "auto"}
  /\ ApproveAllResetsPerTask \in BOOLEAN
  /\ AllowClarifications \in BOOLEAN
  /\ ReasonedRejections \in BOOLEAN

VARIABLES
  tasks,           \* DaemonState.tasks: Task -> entry or Absent
  timedOut,        \* DaemonState.timed_out_tasks (its keys)
  conversations,   \* DaemonState.task_conversations (its keys)
  convLock,        \* who holds the conversations mutex across an await
  shellOverrides,  \* DaemonState.shell_approval_overrides (its keys)
  sweep,           \* the sweeper: its next step and the tasks it collected
  pc,              \* per handler: where it is
  cur,             \* per handler: the message it is handling
  snap,            \* per handler: its clone of the task's entry
  prior,           \* per handler: what propose_command read before planning
  inbox,           \* per connection: requests not yet read
  connected,       \* per connection: is the client still there?
  view,            \* per task: what the client was last told
  everExpired,     \* history: tasks the sweeper removed at least once
  granted,         \* history: tasks in which approve-all was accepted
  runs             \* history: acknowledged commands of a never expired task

daemonVars  == <<tasks, timedOut, conversations, convLock, shellOverrides>>
handlerVars == <<pc, cur, snap, prior>>
clientVars  == <<inbox, connected, view>>
historyVars == <<everExpired, granted, runs>>
vars == <<daemonVars, sweep, handlerVars, clientVars, historyVars>>
-----------------------------------------------------------------------------
(* Data *)

Rounds == 0 .. MaxToolRounds  \* larger read-only counts act like the limit

\* InFlightTask, less the fields no branch reads.  stale: its timeout elapsed.
Entry == [override : BOOLEAN, awaiting : BOOLEAN, continuation : BOOLEAN,
          round : Rounds, stale : BOOLEAN]

\* What propose_command_for_execution remembers of the entry it replaces.
Prior == [override : BOOLEAN, round : Rounds]
NoPrior == [override |-> FALSE, round |-> 0]

Decisions == {"approved", "approve_all", "edited", "rejected", "explained",
              "abort", "clarification"}
Message == [kind : Decisions \cup {"start", "ack"}, task : Task]

\* What stands for "nothing" is none of the things it stands in for.
ASSUME NoneAssumption == Absent \notin Entry \cup Message /\ Nobody \notin Shell

Idle == "idle"

PC == {Idle, "start", "timed", "lookup", "decide", "orchestrate", "seed",
       "stream", "surface", "handled", "unhandled", "failed", "closing",
       "closed", "dropped"}

\* "offered" and "auto" are a ProposedCommand with and without
\* requires_approval; the suffix says that it matched a critical pattern.
Proposed == {"offered", "offered_critical", "auto", "auto_critical"}
View == {"new", "waiting", "asked", "running", "done"} \cup Proposed

\* MUTANT of AwaitingEntry: a question counts as a tool round.
QuestionCounted(override, continuation, round) ==
  [override |-> override, awaiting |-> TRUE, continuation |-> continuation,
   round |-> round + 1, stale |-> FALSE]

AwaitingEntry(override, continuation, round) ==
  [override |-> override, awaiting |-> TRUE, continuation |-> continuation,
   round |-> round, stale |-> FALSE]

\* A guard of every step that locks task_conversations: a handler that holds
\* the mutex across an await blocks them all, itself included.
ConversationsFree == convLock = Nobody

\* MUTANT of ShellOverride: the test of the option is inverted.
OverrideInverted(s) == ApproveAllResetsPerTask /\ s \in shellOverrides

\* MUTANT of ShellOverride: one flag for all shells.
OverrideForAll(s) == ~ApproveAllResetsPerTask /\ shellOverrides # {}

\* approval_override_for_shell
ShellOverride(s) == ~ApproveAllResetsPerTask /\ s \in shellOverrides

-----------------------------------------------------------------------------
(* The client: the shell's adapter, which keeps to the protocol. *)

ClientSends(t, kind, from, to) ==
  LET s == ShellOf[t] IN
  /\ connected[s]
  /\ view[t] \in from
  /\ Len(inbox[s]) < MaxPending
  /\ inbox' = [inbox EXCEPT ![s] = Append(@, [kind |-> kind, task |-> t])]
  /\ view' = [view EXCEPT ![t] = to]
  /\ UNCHANGED <<daemonVars, sweep, handlerVars, connected, historyVars>>

\* A shell has one task at a time: it gives one up before it starts another.
SendStart(t) ==
  /\ \A u \in Task \ {t} : ShellOf[u] = ShellOf[t] => view[u] \in {"new", "done"}
  /\ ClientSends(t, "start", {"new"}, "waiting")

\* The adapter runs an approved or edited command at once, without waiting
\* for the daemon's verdict.
SendApproval(t) ==
  \E kind \in {"approved", "approve_all", "edited"} :
    ClientSends(t, kind, {"offered", "offered_critical"}, "running")

SendRejection(t) ==
  \/ ClientSends(t, "rejected", {"offered", "offered_critical"}, "done")
  \/ /\ ReasonedRejections
     /\ ClientSends(t, "explained", {"offered", "offered_critical"}, "waiting")

SendClarification(t) == ClientSends(t, "clarification", {"asked"}, "waiting")

SendAbort(t) ==
  ClientSends(t, "abort",
              {"waiting", "asked", "offered", "offered_critical"}, "done")

\* The command has ended.  A command that needs no approval was started as
\* soon as it arrived.
SendAck(t) ==
  ClientSends(t, "ack", {"running", "auto", "auto_critical"}, "waiting")

Disconnect(s) ==
  /\ s \in Leaving
  /\ connected[s]
  /\ connected' = [connected EXCEPT ![s] = FALSE]
  /\ view' = [t \in Task |-> IF ShellOf[t] = s THEN "done" ELSE view[t]]
  /\ UNCHANGED <<daemonVars, sweep, handlerVars, inbox, historyVars>>

Client ==
  \/ \E t \in Task : \/ SendStart(t) \/ SendApproval(t) \/ SendRejection(t)
                     \/ SendClarification(t) \/ SendAbort(t) \/ SendAck(t)
  \/ \E s \in Shell : Disconnect(s)
-----------------------------------------------------------------------------
(* Steps that handlers are made of *)

At(s, label) == pc[s] = label
Goto(s, label) == pc' = [pc EXCEPT ![s] = label]
OnTask(s) == cur[s].task

\* transport.send: an error leaves the handler by `?`; a client that has
\* closed a task ignores what still arrives for it.
Told(t, v) == [view EXCEPT ![t] = IF @ = "done" THEN @ ELSE v]
Sends(s, v) == view' = IF connected[s] THEN Told(OnTask(s), v) ELSE view

Keep == UNCHANGED <<cur, snap, prior>>

\* The handler returns; what it held of the task goes with its stack.
Return(s) ==
  /\ Goto(s, Idle)
  /\ cur' = [cur EXCEPT ![s] = Absent]
  /\ snap' = [snap EXCEPT ![s] = Absent]
  /\ prior' = [prior EXCEPT ![s] = NoPrior]

SendThen(s, v, label) ==
  /\ Sends(s, v)
  /\ Goto(s, IF connected[s] THEN label ELSE "failed")
  /\ Keep

SendAndReturn(s, v) ==
  /\ Sends(s, v)
  /\ IF connected[s] THEN Return(s) ELSE Goto(s, "failed") /\ Keep

Remove(t) == tasks' = [tasks EXCEPT ![t] = Absent]
Insert(t, entry) == tasks' = [tasks EXCEPT ![t] = entry]
Amend(t, entry) ==  \* get_mut: nothing happens when the entry is gone
  tasks' = [tasks EXCEPT ![t] = IF @ = Absent THEN Absent ELSE entry]

\* clear_task_state: its removals are one step, since only the sweeper could
\* get in between and it touches no entry that is already gone.
ClearTaskState(s) ==
  LET t == OnTask(s) IN
  /\ ConversationsFree
  /\ Remove(t)
  /\ timedOut' = timedOut \ {t}
  /\ conversations' = conversations \ {t}
  /\ shellOverrides' = IF ApproveAllResetsPerTask /\ tasks[t] # Absent
                       THEN shellOverrides \ {ShellOf[t]}
                       ELSE shellOverrides
  /\ UNCHANGED convLock

\* handle_connection takes the next message off the connection.
Receive(s) ==
  /\ At(s, Idle)
  /\ inbox[s] # <<>>
  /\ inbox' = [inbox EXCEPT ![s] = Tail(@)]
  /\ cur' = [cur EXCEPT ![s] = Head(inbox[s])]
  /\ Goto(s, IF Head(inbox[s]).kind = "start" THEN "start" ELSE "timed")
  /\ UNCHANGED <<daemonVars, sweep, snap, prior, connected, view, historyVars>>

-----------------------------------------------------------------------------
(* process_start_task *)

AskedAtStart(s, continuation) ==
  /\ Insert(OnTask(s), AwaitingEntry(ShellOverride(s), continuation, 0))
  /\ SendAndReturn(s, "asked")

Unshared == UNCHANGED <<inbox, connected>>

\* The prompt asks for a safety-floor command, or a shortcut (documentation,
\* web or local tool) answers it: the task ends without ever being stored.
StartAnswered(s) ==
  /\ At(s, "start")
  /\ SendAndReturn(s, "done")
  /\ UNCHANGED <<daemonVars, sweep, historyVars>> /\ Unshared

StartAmbiguous(s) ==
  /\ At(s, "start")
  /\ AllowClarifications
  /\ AskedAtStart(s, FALSE)
  /\ UNCHANGED <<timedOut, conversations, convLock, shellOverrides, sweep,
                 historyVars>> /\ Unshared

StartOrchestration(s) ==
  /\ At(s, "start")
  /\ Goto(s, "orchestrate")
  /\ Keep
  /\ UNCHANGED <<daemonVars, sweep, view, historyVars>> /\ Unshared
-----------------------------------------------------------------------------
(* process_user_response and process_ack, up to the decision *)

\* consume_timed_out_task
AnswerTimedOut(s) ==
  /\ At(s, "timed")
  /\ IF OnTask(s) \in timedOut
     THEN /\ timedOut' = timedOut \ {OnTask(s)}
          /\ SendAndReturn(s, "done")
     ELSE /\ Goto(s, "lookup")
          /\ Keep
          /\ UNCHANGED <<timedOut, view>>
  /\ UNCHANGED <<tasks, conversations, convLock, shellOverrides, sweep,
                 historyVars>> /\ Unshared

\* The task is unknown: Error BadProtocol, at which the adapter closes it.
LookupUnknown(s) ==
  /\ At(s, "lookup")
  /\ tasks[OnTask(s)] = Absent
  /\ SendAndReturn(s, "done")
  /\ UNCHANGED <<daemonVars, sweep, historyVars>> /\ Unshared

\* active_task_timeout_kind: too late, though the sweeper has not been by.
LookupStale(s) ==
  LET t == OnTask(s) IN
  /\ At(s, "lookup")
  /\ tasks[t] # Absent
  /\ tasks[t].stale
  /\ IF cur[s].kind = "ack"
     THEN /\ ConversationsFree
          /\ Remove(t)
          /\ conversations' = conversations \ {t}
          /\ UNCHANGED <<timedOut, convLock, shellOverrides>>
     ELSE ClearTaskState(s)
  /\ SendAndReturn(s, "done")
  /\ UNCHANGED <<sweep, historyVars>> /\ Unshared

\* MUTANT of LookupFound: a response takes the entry out, as an Ack does.
LookupTakes(s) ==
  LET t == OnTask(s) IN
  /\ At(s, "lookup")
  /\ tasks[t] # Absent
  /\ ~tasks[t].stale
  /\ snap' = [snap EXCEPT ![s] = tasks[t]]
  /\ Remove(t)
  /\ Goto(s, "decide")
  /\ UNCHANGED <<timedOut, conversations, convLock, shellOverrides, sweep, cur,
                 prior, view, historyVars>> /\ Unshared

\* A response clones the entry; an Ack takes it out of the table.
LookupFound(s) ==
  LET t == OnTask(s) IN
  /\ At(s, "lookup")
  /\ tasks[t] # Absent
  /\ ~tasks[t].stale
  /\ snap' = [snap EXCEPT ![s] = tasks[t]]
  /\ IF cur[s].kind = "ack" THEN Remove(t) ELSE UNCHANGED tasks
  /\ runs' = IF cur[s].kind = "ack" /\ t \notin everExpired
             THEN [runs EXCEPT ![t] = @ + 1]
             ELSE runs
  /\ Goto(s, "decide")
  /\ UNCHANGED <<timedOut, conversations, convLock, shellOverrides, sweep, cur,
                 prior, view, everExpired, granted>> /\ Unshared

Decides(s, kind) == At(s, "decide") /\ cur[s].kind = kind
-----------------------------------------------------------------------------
(* process_user_response: the decisions *)

\* The reply is a ModelText: it tells the client nothing it waits for.
Acknowledged(s) ==
  IF connected[s]
  THEN Return(s) /\ UNCHANGED view
  ELSE Goto(s, "failed") /\ Keep /\ UNCHANGED view

Approve(s) ==
  LET t == OnTask(s) IN
  /\ Decides(s, "approved")
  /\ Amend(t, [tasks[t] EXCEPT !.awaiting = FALSE, !.stale = FALSE])
  /\ Acknowledged(s)
  /\ UNCHANGED <<timedOut, conversations, convLock, shellOverrides, sweep,
                 historyVars>> /\ Unshared

ApproveAll(s) ==
  LET t == OnTask(s) IN
  /\ Decides(s, "approve_all")
  /\ Amend(t, [tasks[t] EXCEPT !.override = TRUE, !.awaiting = FALSE,
                               !.stale = FALSE])
  /\ shellOverrides' = IF tasks[t] # Absent /\ ~ApproveAllResetsPerTask
                       THEN shellOverrides \cup {ShellOf[t]}
                       ELSE shellOverrides
  /\ granted' = IF tasks[t] # Absent THEN granted \cup {t} ELSE granted
  /\ Acknowledged(s)
  /\ UNCHANGED <<timedOut, conversations, convLock, sweep, everExpired, runs>>
  /\ Unshared

EditRefused(s) ==  \* empty: the task stays; safety floor: it ends
  /\ Decides(s, "edited")
  /\ \/ UNCHANGED daemonVars
     \/ ClearTaskState(s)
  /\ SendAndReturn(s, "done")
  /\ UNCHANGED <<sweep, historyVars>> /\ Unshared

EditAccepted(s) ==
  LET t == OnTask(s) IN
  /\ Decides(s, "edited")
  /\ Amend(t, [tasks[t] EXCEPT !.awaiting = FALSE, !.stale = FALSE])
  /\ Acknowledged(s)
  /\ UNCHANGED <<timedOut, conversations, convLock, shellOverrides, sweep,
                 historyVars>> /\ Unshared

\* A rejection without a text, or of a task the model does not continue.
Reject(s) ==
  /\ \/ Decides(s, "rejected")
     \/ Decides(s, "explained") /\ ~snap[s].continuation
  /\ ClearTaskState(s)
  /\ SendAndReturn(s, "done")
  /\ UNCHANGED <<sweep, historyVars>> /\ Unshared

\* The mutex guard taken to record the refusal lives through the
\* orchestration that follows.
RejectWithReason(s) ==
  /\ Decides(s, "explained")
  /\ snap[s].continuation
  /\ ConversationsFree
  /\ convLock' = s
  /\ conversations' = conversations \cup {OnTask(s)}
  /\ Goto(s, "orchestrate")
  /\ Keep
  /\ UNCHANGED <<tasks, timedOut, shellOverrides, sweep, view, historyVars>>
  /\ Unshared

Abort(s) ==
  /\ Decides(s, "abort")
  /\ ClearTaskState(s)
  /\ SendAndReturn(s, "done")
  /\ UNCHANGED <<sweep, historyVars>> /\ Unshared

\* MUTANT of NotAwaiting: an unexpected answer is dropped without a reply.
NotAwaitingIgnored(s) ==
  /\ Decides(s, "clarification")
  /\ ~snap[s].awaiting
  /\ Return(s)
  /\ UNCHANGED <<daemonVars, sweep, view, historyVars>> /\ Unshared

NotAwaiting(s) ==
  /\ Decides(s, "clarification")
  /\ ~snap[s].awaiting
  /\ SendAndReturn(s, "done")
  /\ UNCHANGED <<daemonVars, sweep, historyVars>> /\ Unshared

Reawait(s, awaiting) ==
  LET t == OnTask(s) IN
  Amend(t, [tasks[t] EXCEPT !.awaiting = awaiting, !.continuation = TRUE,
                            !.stale = FALSE])

\* Prompt mode: the answer is itself ambiguous.
ClarificationAmbiguous(s) ==
  /\ Decides(s, "clarification")
  /\ snap[s].awaiting
  /\ Reawait(s, TRUE)
  /\ SendAndReturn(s, "asked")
  /\ UNCHANGED <<timedOut, conversations, convLock, shellOverrides, sweep,
                 historyVars>> /\ Unshared

Clarified(s) ==
  /\ Decides(s, "clarification")
  /\ snap[s].awaiting
  /\ Goto(s, "orchestrate")
  /\ Keep
  /\ UNCHANGED <<daemonVars, sweep, view, historyVars>> /\ Unshared
-----------------------------------------------------------------------------
(* process_ack: the entry is out of the table *)

NextRound(s) == snap[s].round + 1

\* MUTANT of RoundLimitReached: off by one.
RoundLimitPassed(s) == NextRound(s) > MaxToolRounds

RoundLimitReached(s) == NextRound(s) >= MaxToolRounds

\* MUTANT of AckLast: the conversation is forgotten.
AckLastKeepsHistory(s) ==
  /\ Decides(s, "ack")
  /\ snap[s].continuation => RoundLimitReached(s)
  /\ SendAndReturn(s, "done")
  /\ UNCHANGED <<daemonVars, sweep, historyVars>> /\ Unshared

\* The model asked for no more, or the round limit is reached.
AckLast(s) ==
  /\ Decides(s, "ack")
  /\ snap[s].continuation => RoundLimitReached(s)
  /\ ConversationsFree
  /\ conversations' = conversations \ {OnTask(s)}
  /\ SendAndReturn(s, "done")
  /\ UNCHANGED <<tasks, timedOut, convLock, shellOverrides, sweep, historyVars>>
  /\ Unshared

AckContinue(s) ==
  /\ Decides(s, "ack")
  /\ snap[s].continuation
  /\ ~RoundLimitReached(s)
  /\ ConversationsFree
  /\ conversations' = conversations \cup {OnTask(s)}
  /\ Goto(s, "orchestrate")
  /\ Keep
  /\ UNCHANGED <<tasks, timedOut, convLock, shellOverrides, sweep, view,
                 historyVars>> /\ Unshared

-----------------------------------------------------------------------------
(* try_provider_orchestration and propose_command_for_execution.  A round   *)
(* of read-only tool calls, and a web fallback inside planning, run the     *)
(* orchestration again: what they may end in is what it may end in.         *)

\* An answer from recent terminal output, before any conversation exists.  It
\* takes a referential follow-up; an Ack's prompt is classified as debugging.
DirectAnswer(s) ==
  /\ At(s, "orchestrate")
  /\ cur[s].kind # "ack"
  /\ SendThen(s, "done", "handled")
  /\ UNCHANGED <<daemonVars, sweep, historyVars>> /\ Unshared

NoTools(s) ==
  /\ At(s, "orchestrate")
  /\ Goto(s, "unhandled")
  /\ Keep
  /\ UNCHANGED <<daemonVars, sweep, view, historyVars>> /\ Unshared

ExposeTools(s) ==
  /\ At(s, "orchestrate")
  /\ Goto(s, "seed")
  /\ Keep
  /\ UNCHANGED <<daemonVars, sweep, view, historyVars>> /\ Unshared

\* The mutex of the conversations, which this handler may hold already.
SeedConversation(s) ==
  /\ At(s, "seed")
  /\ ConversationsFree
  /\ conversations' = conversations \cup {OnTask(s)}
  /\ Goto(s, "stream")
  /\ Keep
  /\ UNCHANGED <<tasks, timedOut, convLock, shellOverrides, sweep, view,
                 historyVars>> /\ Unshared

Orchestrating(s) == pc[s] \in {"stream", "surface"}

\* A final answer, a provider failure, a stalled stream, or the limit of
\* read-only rounds.  The entry, if there is one, stays in the table.
Complete(s) ==
  /\ Orchestrating(s)
  /\ ConversationsFree
  /\ conversations' = conversations \ {OnTask(s)}
  /\ SendThen(s, "done", "handled")
  /\ UNCHANGED <<tasks, timedOut, convLock, shellOverrides, sweep, historyVars>>
  /\ Unshared

\* A question of the model, or no usable command.  The round is 0 or the
\* number of read-only tool results so far.
Clarify(s) ==
  /\ Orchestrating(s)
  /\ ConversationsFree
  /\ \E round \in Rounds :
       Insert(OnTask(s), AwaitingEntry(ShellOverride(s), TRUE, round))
  /\ SendThen(s, "asked", "handled")
  /\ UNCHANGED <<timedOut, conversations, convLock, shellOverrides, sweep,
                 historyVars>> /\ Unshared

GiveUp(s) ==
  /\ At(s, "stream")
  /\ ConversationsFree
  /\ conversations' = conversations \ {OnTask(s)}
  /\ Goto(s, "unhandled")
  /\ Keep
  /\ UNCHANGED <<tasks, timedOut, convLock, shellOverrides, sweep, view,
                 historyVars>> /\ Unshared

\* propose_command_for_execution reads the entry once, before planning.
Propose(s) ==
  LET t == OnTask(s) IN
  /\ Orchestrating(s)
  /\ prior' = [prior EXCEPT ![s] =
       IF tasks[t] = Absent
       THEN [override |-> ShellOverride(s), round |-> 0]
       ELSE [override |-> tasks[t].override, round |-> tasks[t].round]]
  /\ Goto(s, "surface")
  /\ UNCHANGED <<daemonVars, sweep, cur, snap, view, historyVars>> /\ Unshared

\* The nested orchestration of the web fallback handled nothing.
FallbackFailed(s) ==
  /\ At(s, "surface")
  /\ ConversationsFree
  /\ conversations' = conversations \ {OnTask(s)}
  /\ UNCHANGED <<tasks, timedOut, convLock, shellOverrides, sweep, handlerVars,
                 view, historyVars>> /\ Unshared

\* The draft matches the safety floor.
FloorRefused(s) ==
  /\ At(s, "surface")
  /\ ConversationsFree
  /\ IF AllowClarifications
     THEN /\ Insert(OnTask(s), AwaitingEntry(prior[s].override, TRUE,
                                             prior[s].round))
          /\ conversations' = conversations \cup {OnTask(s)}
          /\ UNCHANGED <<timedOut, convLock, shellOverrides>>
          /\ SendThen(s, "asked", "handled")
     ELSE ClearTaskState(s) /\ SendThen(s, "done", "handled")
  /\ UNCHANGED <<sweep, historyVars>> /\ Unshared

\* No draft passed validation within max_planning_rounds.
Unvalidated(s) ==
  /\ At(s, "surface")
  /\ ConversationsFree
  /\ conversations' = conversations \cup {OnTask(s)}
  /\ IF AllowClarifications
     THEN /\ \E again \in BOOLEAN :
               Insert(OnTask(s), AwaitingEntry(prior[s].override, again,
                                               prior[s].round))
          /\ SendThen(s, "asked", "handled")
     ELSE /\ UNCHANGED tasks
          /\ SendThen(s, "done", "handled")
  /\ UNCHANGED <<timedOut, convLock, shellOverrides, sweep, historyVars>>
  /\ Unshared

\* MUTANT of RequiresApproval: approve-all covers critical commands too.
OverrideCoversCritical(override, critical) ==
  /\ ApprovalMode # "auto"
  /\ ApprovalMode = "manual_critical" => critical
  /\ ~override

RequiresApproval(override, critical) ==
  /\ ApprovalMode # "auto"
  /\ ApprovalMode = "manual_critical" => critical
  /\ override => critical

ProposalView(requires, critical) ==
  IF requires THEN IF critical THEN "offered_critical" ELSE "offered"
              ELSE IF critical THEN "auto_critical" ELSE "auto"

\* MUTANT of Surface: no return after the proposal.
SurfaceFallsThrough(s) ==
  /\ At(s, "surface")
  /\ \E critical, again \in BOOLEAN :
       /\ Insert(OnTask(s),
                 [override |-> prior[s].override, awaiting |-> FALSE,
                  continuation |-> again, round |-> prior[s].round,
                  stale |-> FALSE])
       /\ SendThen(s, ProposalView(RequiresApproval(prior[s].override, critical),
                                   critical), "stream")
  /\ UNCHANGED <<timedOut, conversations, convLock, shellOverrides, sweep,
                 historyVars>> /\ Unshared

\* again: the tool call's continue_after_execution.
Surface(s) ==
  /\ At(s, "surface")
  /\ \E critical, again \in BOOLEAN :
       /\ Insert(OnTask(s),
                 [override |-> prior[s].override, awaiting |-> FALSE,
                  continuation |-> again, round |-> prior[s].round,
                  stale |-> FALSE])
       /\ SendThen(s, ProposalView(RequiresApproval(prior[s].override, critical),
                                   critical), "handled")
  /\ UNCHANGED <<timedOut, conversations, convLock, shellOverrides, sweep,
                 historyVars>> /\ Unshared
-----------------------------------------------------------------------------
(* What a handler does with the orchestration's verdict *)

After(s, label, kind) == At(s, label) /\ cur[s].kind = kind

StartHandled(s) ==
  /\ After(s, "handled", "start")
  /\ Return(s)
  /\ UNCHANGED <<daemonVars, sweep, view, historyVars>> /\ Unshared

StartUnhandled(s) ==
  /\ After(s, "unhandled", "start")
  /\ AskedAtStart(s, TRUE)
  /\ UNCHANGED <<timedOut, conversations, convLock, shellOverrides, sweep,
                 historyVars>> /\ Unshared

ClarificationHandled(s) ==
  /\ After(s, "handled", "clarification")
  /\ Reawait(s, FALSE)
  /\ Return(s)
  /\ UNCHANGED <<timedOut, conversations, convLock, shellOverrides, sweep, view,
                 historyVars>> /\ Unshared

ClarificationUnhandled(s) ==
  /\ After(s, "unhandled", "clarification")
  /\ Reawait(s, TRUE)
  /\ SendAndReturn(s, "asked")
  /\ UNCHANGED <<timedOut, conversations, convLock, shellOverrides, sweep,
                 historyVars>> /\ Unshared

RejectionHandled(s) ==
  LET t == OnTask(s) IN
  /\ After(s, "handled", "explained")
  /\ Amend(t, [tasks[t] EXCEPT !.continuation = TRUE])
  /\ convLock' = Nobody
  /\ Return(s)
  /\ UNCHANGED <<timedOut, conversations, shellOverrides, sweep, view,
                 historyVars>> /\ Unshared

\* The guard's block ends here; what follows is an ordinary rejection.
RejectionUnhandled(s) ==
  /\ After(s, "unhandled", "explained")
  /\ convLock' = Nobody
  /\ cur' = [cur EXCEPT ![s].kind = "rejected"]
  /\ Goto(s, "decide")
  /\ UNCHANGED <<tasks, timedOut, conversations, shellOverrides, sweep, snap,
                 prior, view, historyVars>> /\ Unshared

AckHandled(s) ==
  LET t == OnTask(s) IN
  /\ After(s, "handled", "ack")
  /\ Amend(t, [tasks[t] EXCEPT !.round = NextRound(s), !.continuation = TRUE])
  /\ Return(s)
  /\ UNCHANGED <<timedOut, conversations, convLock, shellOverrides, sweep, view,
                 historyVars>> /\ Unshared

AckUnhandled(s) ==
  /\ After(s, "unhandled", "ack")
  /\ ConversationsFree
  /\ conversations' = conversations \ {OnTask(s)}
  /\ SendAndReturn(s, "done")
  /\ UNCHANGED <<tasks, timedOut, convLock, shellOverrides, sweep, historyVars>>
  /\ Unshared

-----------------------------------------------------------------------------
(* The end of a connection *)

\* The handler failed: cancel_and_clear_task, and the loop breaks.
Fail(s) ==
  /\ At(s, "failed")
  /\ ClearTaskState(s)
  /\ Goto(s, "closing")
  /\ Keep
  /\ UNCHANGED <<sweep, view, historyVars>> /\ Unshared

EndOfStream(s) ==
  /\ At(s, Idle)
  /\ ~connected[s]
  /\ inbox[s] = <<>>
  /\ Goto(s, "closing")
  /\ Keep
  /\ UNCHANGED <<daemonVars, sweep, view, historyVars>> /\ Unshared

\* The reply to a Ping fails: `?` leaves handle_connection at once, past the
\* cleanup at its end.
DropConnection(s) ==
  /\ At(s, Idle)
  /\ ~connected[s]
  /\ Goto(s, "dropped")
  /\ Keep
  /\ UNCHANGED <<daemonVars, sweep, view, historyVars>> /\ Unshared

\* MUTANT of OpenTasks: the tasks of all shells.
AnyOpenTasks(s) == {t \in Task : tasks[t] # Absent}

OpenTasks(s) == {t \in Task : ShellOf[t] = s /\ tasks[t] # Absent}

\* MUTANT of CloseShell: the conversations are left behind.
CloseShellKeepsHistory(s) ==
  LET open == OpenTasks(s) IN
  /\ At(s, "closing")
  /\ tasks' = [t \in Task |-> IF t \in open THEN Absent ELSE tasks[t]]
  /\ timedOut' = timedOut \ open
  /\ shellOverrides' = shellOverrides \ {s}
  /\ Goto(s, "closed")
  /\ cur' = [cur EXCEPT ![s] = Absent]
  /\ snap' = [snap EXCEPT ![s] = Absent]
  /\ prior' = [prior EXCEPT ![s] = NoPrior]
  /\ UNCHANGED <<conversations, convLock, sweep, view, historyVars>>
  /\ Unshared

\* cancel_and_clear_shell_tasks
CloseShell(s) ==
  LET open == OpenTasks(s) IN
  /\ At(s, "closing")
  /\ IF open = {}
     THEN UNCHANGED <<tasks, timedOut, conversations, shellOverrides>>
     ELSE /\ ConversationsFree
          /\ tasks' = [t \in Task |-> IF t \in open THEN Absent ELSE tasks[t]]
          /\ conversations' = conversations \ open
          /\ timedOut' = timedOut \ open
          /\ shellOverrides' = shellOverrides \ {s}
  /\ Goto(s, "closed")
  /\ cur' = [cur EXCEPT ![s] = Absent]
  /\ snap' = [snap EXCEPT ![s] = Absent]
  /\ prior' = [prior EXCEPT ![s] = NoPrior]
  /\ UNCHANGED <<convLock, sweep, view, historyVars>> /\ Unshared
-----------------------------------------------------------------------------
(* expire_timed_out_tasks: three critical sections, one per table *)

Stale == {t \in Task : tasks[t] # Absent /\ tasks[t].stale}

SweepTasks ==
  /\ sweep.step = "tasks"
  /\ Stale # {}
  /\ sweep' = [step |-> "conversations", found |-> Stale]
  /\ tasks' = [t \in Task |-> IF t \in Stale THEN Absent ELSE tasks[t]]
  /\ everExpired' = everExpired \cup Stale
  /\ UNCHANGED <<timedOut, conversations, convLock, shellOverrides, handlerVars,
                 clientVars, granted, runs>>

SweepConversations ==
  /\ sweep.step = "conversations"
  /\ ConversationsFree
  /\ conversations' = conversations \ sweep.found
  /\ sweep' = [sweep EXCEPT !.step = "timed_out"]
  /\ UNCHANGED <<tasks, timedOut, convLock, shellOverrides, handlerVars,
                 clientVars, historyVars>>

SweepTimedOut ==
  /\ sweep.step = "timed_out"
  /\ timedOut' = timedOut \cup sweep.found
  /\ sweep' = [step |-> "tasks", found |-> {}]
  /\ UNCHANGED <<tasks, conversations, convLock, shellOverrides, handlerVars,
                 clientVars, historyVars>>

\* The retention of a timed-out record has elapsed.
Forget(t) ==
  /\ sweep.step = "tasks"
  /\ t \in timedOut
  /\ timedOut' = timedOut \ {t}
  /\ UNCHANGED <<tasks, conversations, convLock, shellOverrides, sweep,
                 handlerVars, clientVars, historyVars>>

Sweep == SweepTasks \/ SweepConversations \/ SweepTimedOut

\* Time passes: created_at is as long ago as the task's timeout.
GoStale(t) ==
  /\ t \in Clocked
  /\ tasks[t] # Absent
  /\ ~tasks[t].stale
  /\ tasks' = [tasks EXCEPT ![t].stale = TRUE]
  /\ UNCHANGED <<timedOut, conversations, convLock, shellOverrides, sweep,
                 handlerVars, clientVars, historyVars>>
-----------------------------------------------------------------------------
Init ==
  /\ tasks = [t \in Task |-> Absent]
  /\ timedOut = {}
  /\ conversations = {}
  /\ convLock = Nobody
  /\ shellOverrides = {}
  /\ sweep = [step |-> "tasks", found |-> {}]
  /\ pc = [s \in Shell |-> Idle]
  /\ cur = [s \in Shell |-> Absent]
  /\ snap = [s \in Shell |-> Absent]
  /\ prior = [s \in Shell |-> NoPrior]
  /\ inbox = [s \in Shell |-> <<>>]
  /\ connected = [s \in Shell |-> TRUE]
  /\ view = [t \in Task |-> "new"]
  /\ everExpired = {}
  /\ granted = {}
  /\ runs = [t \in Task |-> 0]

Starting(s) ==
  StartAnswered(s) \/ StartAmbiguous(s) \/ StartOrchestration(s)

LookingUp(s) ==
  \/ AnswerTimedOut(s) \/ LookupUnknown(s) \/ LookupStale(s) \/ LookupFound(s)

Deciding(s) ==
  \/ Approve(s) \/ ApproveAll(s) \/ EditRefused(s) \/ EditAccepted(s)
  \/ Reject(s) \/ RejectWithReason(s) \/ Abort(s) \/ NotAwaiting(s)
  \/ ClarificationAmbiguous(s) \/ Clarified(s) \/ AckLast(s) \/ AckContinue(s)

Orchestration(s) ==
  \/ DirectAnswer(s) \/ NoTools(s) \/ ExposeTools(s) \/ SeedConversation(s)
  \/ Complete(s) \/ Clarify(s) \/ GiveUp(s)

Planning(s) ==
  \/ Propose(s) \/ FallbackFailed(s) \/ FloorRefused(s) \/ Unvalidated(s)
  \/ Surface(s)

Concluding(s) ==
  \/ StartHandled(s) \/ StartUnhandled(s)
  \/ ClarificationHandled(s) \/ ClarificationUnhandled(s)
  \/ RejectionHandled(s) \/ RejectionUnhandled(s)
  \/ AckHandled(s) \/ AckUnhandled(s)

Closing(s) == Fail(s) \/ EndOfStream(s) \/ DropConnection(s) \/ CloseShell(s)

Handler(s) ==
  \/ Receive(s) \/ Starting(s) \/ LookingUp(s) \/ Deciding(s)
  \/ Orchestration(s) \/ Planning(s) \/ Concluding(s) \/ Closing(s)

Time == \E t \in Task : GoStale(t) \/ Forget(t)

Next ==
  \/ Client
  \/ \E s \in Shell : Handler(s)
  \/ Sweep
  \/ Time

Spec == Init /\ [][Next]_vars

\* A way in which an orchestration ends.  The read-only rounds stop at
\* max_tool_rounds and the web fallback at max_planning_rounds; a redraft
\* follows another only while the provider sends commands that differ and that
\* validation refuses, which it is assumed not to do for ever.
Outcome(s) ==
  \/ Complete(s) \/ Clarify(s) \/ GiveUp(s) \/ FloorRefused(s)
  \/ Unvalidated(s) \/ Surface(s)

\* A handler runs whenever it can: tokio polls a ready task, and a provider's
\* stream is bounded by the idle timeout and the token limit.  The sweeper
\* ticks every second.  Nothing is assumed of clients or of time.
Fairness ==
  /\ \A s \in Shell : WF_vars(Handler(s)) /\ SF_vars(Outcome(s))
  /\ WF_vars(Sweep)

FairSpec == Spec /\ Fairness
-----------------------------------------------------------------------------
(* Properties *)

\* Every variable holds a value of its type.
TypeOK ==
  /\ tasks \in [Task -> Entry \cup {Absent}]
  /\ timedOut \in SUBSET Task
  /\ conversations \in SUBSET Task
  /\ convLock \in Shell \cup {Nobody}
  /\ shellOverrides \in SUBSET Shell
  /\ sweep \in [step : {"tasks", "conversations", "timed_out"},
                found : SUBSET Task]
  /\ pc \in [Shell -> PC]
  /\ cur \in [Shell -> Message \cup {Absent}]
  /\ snap \in [Shell -> Entry \cup {Absent}]
  /\ prior \in [Shell -> Prior]
  /\ inbox \in [Shell -> Seq(Message)]
  /\ connected \in [Shell -> BOOLEAN]
  /\ view \in [Task -> View]
  /\ everExpired \in SUBSET Task
  /\ granted \in SUBSET Task
  /\ runs \in [Task -> Nat]

\* No message about t is unread, and t's handler waits for the next one.
Quiet(t) ==
  LET s == ShellOf[t] IN
  /\ At(s, Idle)
  /\ \A i \in DOMAIN inbox[s] : inbox[s][i].task # t

\* A client that holds a proposal, a question or a running command is never
\* forgotten: once the daemon is at rest its task is in the table, unless the
\* sweeper took it.  (An Ack takes the entry out and the orchestration puts
\* another in its place, so this relates every path of both.)
OpenTaskIsKnown ==
  \A t \in Task :
    /\ view[t] \in Proposed \cup {"asked", "running"}
    /\ Quiet(t)
    /\ t \notin everExpired
    => tasks[t] # Absent

\* A question put to the user can be answered: the entry still awaits the
\* clarification (FR-21: "send it back as UserResponse{Clarification}").
QuestionCanBeAnswered ==
  \A t \in Task :
    view[t] = "asked" /\ Quiet(t) /\ tasks[t] # Absent => tasks[t].awaiting

\* A task that has just been proposed or asked about is not at the same time
\* recorded as timed out: its user answers in time and is told "timeout".
LiveTaskIsNotTimedOut ==
  \A t \in Task : tasks[t] # Absent /\ Quiet(t) => t \notin timedOut

Working(t) ==
  LET s == ShellOf[t] IN
  /\ pc[s] \notin {Idle, "closed", "dropped"}
  /\ cur[s] # Absent
  /\ cur[s].task = t

\* A conversation outlives its task only while a handler or the sweeper is
\* about to drop it: no history is left behind for ever.
NoOrphanConversation ==
  AllowClarifications =>
    \A t \in conversations :
      \/ tasks[t] # Absent
      \/ Working(t)
      \/ t \in sweep.found

\* FR-24: a task acknowledges at most max_tool_rounds commands, whatever
\* clarifications, refusals and re-plannings come in between.  (A task that
\* the sweeper removes under a running orchestration starts its count again.)
ToolRoundsBounded == \A t \in Task : runs[t] <= MaxToolRounds

Approver(t) ==
  IF ApproveAllResetsPerTask
  THEN t \in granted
  ELSE \E u \in granted : ShellOf[u] = ShellOf[t]

\* FR-13, FR-18: in manual mode a command reaches the client without an
\* approval gate only after its user approved all, and a critical one never.
ApprovalIsEarned ==
  \A t \in Task :
    /\ view[t] = "auto" => \/ ApprovalMode # "manual"
                           \/ Approver(t)
    /\ view[t] = "auto_critical" => ApprovalMode = "auto"

\* FR-13: once approve-all was accepted, the ordinary commands it covers skip
\* the approval prompt.
ApproveAllIsHonoured == \A t \in Task : Approver(t) => view[t] # "offered"

\* A connection that ended through the loop's exit leaves nothing of its
\* shell's tasks in the tables (the sweeper may still be at work).
ClosedShellIsClean ==
  \A t \in Task :
    At(ShellOf[t], "closed") =>
      /\ tasks[t] = Absent
      /\ AllowClarifications /\ t \in conversations => t \in sweep.found

\* The daemon keeps the promises of TaskProtocol: each request is answered
\* once, nothing replaces an open question or offer, and approvals follow the
\* policy, whatever the table, the sweeper and the other shells do.
Protocol == INSTANCE TaskProtocol
KeepsProtocol == Protocol!Spec

\* NFR-7 and FR-26: whoever waits for the daemon is answered.
Answered == \A t \in Task : (view[t] = "waiting") ~> (view[t] # "waiting")
=============================================================================
