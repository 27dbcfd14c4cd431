---------------------------- MODULE Orchestration ----------------------------
(***************************************************************************)
(* One task inside the daemon: try_provider_orchestration, which asks the  *)
(* model and carries out what it calls for, and                            *)
(* propose_command_for_execution, the planning loop a command goes through *)
(* before the user sees it.  The two call each other: a draft the local    *)
(* documentation cannot ground starts a nested orchestration that may use  *)
(* the web, and the loop waits on the stack for its verdict.  The model is *)
(* an arbitrary choice among its replies.                                  *)
(*                                                                         *)
(* The conversation of the task is kept for what the code counts in it.    *)
(* TaskLifecycle has the same handlers from outside, with other tasks,     *)
(* time and lost clients around them.                                      *)
(***************************************************************************)
EXTENDS Naturals, Sequences, Planning

CONSTANTS
  Drafts,               \* the commands the model may write
  Classes,              \* the task classifications that occur
  MaxToolRounds,        \* behavior.max_tool_rounds
  MaxPlanningRounds,    \* behavior.max_planning_rounds
  Configs,              \* the rest of the configuration: one of these
  MaxRequests,          \* bound: requests of the user
  MaxRetries,           \* bound: redrafts that differ from the draft, and
                        \* nested orchestrations that handle nothing
  Absent                \* no entry, no conversation, no command

\* allow: behavior.allow_clarifications.  local: local_tools.enabled.
\* web: web.enabled and web.expose_tools, as one.  override: what
\* approval_override_for_shell returns.
Config == [allow : BOOLEAN, local : BOOLEAN, web : BOOLEAN, override : BOOLEAN]

\* What the classifier returns; which words earn which class is left open.
AllClasses == {"fresh", "diagnostic", "web", "documentation", "referential",
               "exploratory"}

ASSUME OrchestrationAssumption ==
  /\ Drafts \subseteq Draft
  /\ MaxToolRounds \in Nat \ {0}
  /\ MaxPlanningRounds \in Nat \ {0}
  /\ Configs \subseteq Config
  /\ Classes \subseteq AllClasses
  /\ MaxRequests \in Nat /\ MaxRetries \in Nat
  /\ Absent \notin Draft

VARIABLES
  config,   \* the configuration, which stays
  pc,       \* where the handler is
  request,  \* the request it works on
  history,  \* DaemonState.task_conversations of the task
  entry,    \* DaemonState.tasks of the task
  loops,    \* the planning loops: the last one runs, the others wait
  told,     \* what the user was last told
  rounds,   \* history: provider requests in a row after read-only tool calls
  retries,  \* history: what MaxRetries bounds
  requests, \* history: requests so far
  lost      \* history: an unhandled fallback dropped the loop's conversation

countVars == <<rounds, retries, requests, lost>>
asked == <<config, request>>
vars == <<asked, pc, history, entry, loops, told, countVars>>
-----------------------------------------------------------------------------
(* Data *)

\* clear: prompt_has_sufficient_local_action_details and
\* prompt_prefers_execute_action.  direct: prompt_prefers_direct_answer, which
\* is asked in command mode.  round: the entry's tool round, for an Ack.
Request == [kind : {"start", "clarification", "ack"}, mode : {"?", "/p"},
            class : AllClasses, direct : BOOLEAN, clear : BOOLEAN,
            round : 0 .. MaxToolRounds]

\* Counts are only compared with their limits.
UpTo(n, limit) == IF n < limit THEN n ELSE limit

\* system: it starts with the system message.  observations: results of
\* read-only tools.  fallbacks: prompts of the web fallback.  finding: the
\* verdict on the draft of the running loop is in it.
History == [system : BOOLEAN, observations : 0 .. MaxToolRounds,
            fallbacks : 0 .. MaxPlanningRounds, finding : BOOLEAN]
EmptyHistory == [system |-> FALSE, observations |-> 0, fallbacks |-> 0,
                 finding |-> FALSE]
Recorded == IF history = Absent THEN EmptyHistory ELSE history

\* InFlightTask, less what no branch here reads.
Entry(awaiting, continuation, round, override, cmd) ==
  [awaiting |-> awaiting, continuation |-> continuation, round |-> round,
   override |-> override, cmd |-> cmd]
Entries == [awaiting : BOOLEAN, continuation : BOOLEAN,
            round : 0 .. MaxToolRounds, override : BOOLEAN,
            cmd : Draft \cup {Absent}]

ASSUME AbsentAssumption == Absent \notin History /\ Absent \notin Entries

ReadonlyRoundCount ==
  IF history = Absent THEN 0 ELSE history.observations

FallbackCount == IF history = Absent THEN 0 ELSE history.fallbacks

\* propose_command_for_execution: its draft and what it was called with, and
\* what it read of the entry.
Loop == [draft : Draft, fromProvider : BOOLEAN, again : BOOLEAN,
         round : Nat, override : BOOLEAN, toolRound : 0 .. MaxToolRounds]
Running == loops[Len(loops)]
Amend(loop) == [loops EXCEPT ![Len(loops)] = loop]
-----------------------------------------------------------------------------
(* The tools a request exposes *)

Executes(class) == class \notin {"web", "documentation"}

\* determine_tool_exposure, with the routing flags at their defaults but for
\* always_expose_execute
WebFor(class) ==
  /\ config.web
  /\ class # "documentation"
  /\ class = "web" \/ Executes(class)

Direct(r) == r.direct
ExposesExecute(r) == Executes(r.class) /\ ~Direct(r)
ClearCommand(r) == r.mode = "?" /\ ExposesExecute(r) /\ r.clear

Tools(r) ==
  {tool \in {"execute", "ask", "docs", "local", "terminal", "web"} :
     \/ tool = "execute" /\ ExposesExecute(r)
     \/ tool = "ask" /\ ExposesExecute(r) /\ r.mode = "?" /\ ~r.clear
     \/ tool = "docs" /\ ~ClearCommand(r)
     \/ tool = "local" /\ config.local /\ ~ClearCommand(r)
                       /\ (Direct(r) \/ Executes(r.class))
     \/ tool = "terminal" /\ config.local /\ ~ClearCommand(r)
          /\ r.class \in IF Direct(r) THEN {"diagnostic", "referential"}
                         ELSE {"diagnostic", "referential", "exploratory"}
     \/ tool = "web" /\ WebFor(r.class)}

-----------------------------------------------------------------------------
(* Answers to the user *)

\* The orchestration, with every loop around it, has handled the request.
Finish(message) ==
  /\ told' = message
  /\ pc' = "handled"
  /\ loops' = <<>>
  /\ UNCHANGED <<asked, countVars>>

Question(continuation, round, override) ==
  /\ entry' = Entry(TRUE, continuation, round, override, Absent)
  /\ Finish("asked")

Complete == Finish("complete") /\ UNCHANGED entry

\* MUTANT of CompleteAndForget: the conversation outlives the task.
CompleteAndRemember == Complete /\ UNCHANGED history

CompleteAndForget == Complete /\ history' = Absent

\* The orchestration has handled nothing: its caller goes on.
Unhandled ==
  /\ history' = Absent
  /\ IF loops = <<>>
     THEN pc' = "unhandled" /\ UNCHANGED <<lost, retries>>
     ELSE /\ retries < MaxRetries
          /\ pc' = "redraft"
          /\ lost' = TRUE
          /\ retries' = retries + 1
  /\ UNCHANGED <<asked, entry, loops, told, rounds, requests>>
-----------------------------------------------------------------------------
(* The user's requests *)

Serve(kind, modes, classes, round) ==
  /\ requests < MaxRequests
  /\ requests' = requests + 1
  /\ \E mode \in modes, class \in classes, direct, clear \in BOOLEAN :
       /\ direct => mode = "?"
       /\ request' = [kind |-> kind, mode |-> mode, class |-> class,
                      direct |-> direct, clear |-> clear, round |-> round]
  /\ pc' = IF kind = "ack" THEN "enter" ELSE "begin"
  /\ told' = "waiting"
  /\ rounds' = 0
  /\ UNCHANGED <<config, loops, retries, lost>>

Start ==
  /\ pc = "idle" /\ told = "new"
  /\ Serve("start", {"?", "/p"}, Classes, 0)
  /\ UNCHANGED <<history, entry>>

\* process_user_response: the prompt is classified anew in command mode only.
Clarification ==
  /\ pc = "idle" /\ told = "asked"
  /\ entry # Absent /\ entry.awaiting
  /\ Serve("clarification", {request.mode},
           IF request.mode = "?" THEN Classes ELSE {request.class}, 0)
  /\ UNCHANGED <<history, entry>>

\* process_ack takes the entry out of the table; the result of the command
\* goes into the conversation of a task that continues.
Ack ==
  /\ pc = "idle" /\ told = "proposed"
  /\ entry # Absent
  /\ entry.continuation /\ entry.round + 1 < MaxToolRounds
  /\ Serve("ack", {request.mode}, {"diagnostic"}, entry.round)
  /\ entry' = Absent
  /\ history' = Recorded

\* The last command of the task: no continuation, or the round limit.
LastAck ==
  /\ pc = "idle" /\ told = "proposed"
  /\ entry # Absent
  /\ entry.continuation => entry.round + 1 >= MaxToolRounds
  /\ told' = "complete"
  /\ entry' = Absent /\ history' = Absent
  /\ UNCHANGED <<pc, asked, loops, countVars>>

\* A rejection without a reason, or an abort.  A rejection with a reason stops
\* the handler for good: that is in TaskLifecycle.
Decline ==
  /\ pc = "idle" /\ told \in {"asked", "proposed"}
  /\ told' = "complete"
  /\ entry' = Absent /\ history' = Absent
  /\ UNCHANGED <<pc, asked, loops, countVars>>
-----------------------------------------------------------------------------
(* What the handlers do without the model.  The shortcuts of                 *)
(* process_start_task all end the task.                                      *)

Beginning(kind) == pc = "begin" /\ request.kind = kind

\* The prompt itself matches the safety floor.
PromptForbidden ==
  /\ Beginning("start")
  /\ Complete
  /\ UNCHANGED history

\* clarification_question_for_ambiguous_prompt
PromptAmbiguous ==
  /\ Beginning("start")
  /\ config.allow
  /\ Question(FALSE, 0, config.override)
  /\ UNCHANGED history

TakesDocumentation(r) == r.mode = "/p" /\ r.class = "documentation"
TakesWeb(r) == (r.mode = "/p" \/ Direct(r)) /\ r.class = "web" /\ config.web

AnswerDocumentation ==
  /\ Beginning("start") /\ TakesDocumentation(request)
  /\ Complete
  /\ UNCHANGED history

AnswerFromWeb ==
  /\ Beginning("start") /\ TakesWeb(request)
  /\ Complete
  /\ UNCHANGED history

\* try_handle_local_tool_request: a file, a listing, metadata, git
AnswerLocally ==
  /\ Beginning("start") /\ request.mode = "/p"
  /\ ~TakesDocumentation(request) /\ ~TakesWeb(request)
  /\ Complete
  /\ UNCHANGED history

Delegate ==
  /\ pc = "begin"
  /\ request.kind = "start"
       => ~TakesDocumentation(request) /\ ~TakesWeb(request)
  /\ pc' = "enter"
  /\ UNCHANGED <<asked, history, entry, loops, told, countVars>>
-----------------------------------------------------------------------------
(* try_provider_orchestration *)

\* The last terminal output answers a referential question.  No conversation
\* is removed: a first request has none yet.
AnswerFromTerminal ==
  /\ pc = "enter"
  /\ Direct(request) /\ request.class = "referential"
  /\ Complete
  /\ UNCHANGED history

\* A probe materialized from the prompt, or the fast path of the local model
AnswerDirectly ==
  /\ pc = "enter"
  /\ Direct(request)
  /\ CompleteAndForget

\* A system message, then the prompt.  All callers continue a conversation.
Seed ==
  /\ pc = "enter"
  /\ Tools(request) # {}
  /\ history' = [Recorded EXCEPT !.system = TRUE]
  /\ pc' = "reply"
  /\ UNCHANGED <<asked, entry, loops, told, countVars>>

\* The request or the stream fails, or the stream stalls.
ProviderFails ==
  /\ pc = "reply"
  /\ CompleteAndForget

\* Text alone, where no tool was named in it: a question of the model, the
\* answer, or one that would need an observation.
DirectText ==
  /\ pc = "reply"
  /\ Direct(request)
  /\ \/ /\ config.allow
        /\ \E round \in {0, ReadonlyRoundCount} :
             Question(TRUE, round, config.override)
        /\ UNCHANGED history
     \/ CompleteAndForget

\* propose_command_for_execution starts: it reads the entry once.
Propose(d, fromProvider, again) ==
  /\ loops' = Append(loops,
       [draft |-> d, fromProvider |-> fromProvider, again |-> again,
        round |-> 1,
        override |-> IF entry = Absent THEN config.override ELSE entry.override,
        toolRound |-> IF entry = Absent THEN 0 ELSE entry.round])
  /\ pc' = "draft"
  /\ UNCHANGED <<asked, entry, told, countVars>>

\* propose_retrieved_template_command_if_available
Template ==
  /\ request.clear /\ ~Direct(request)
  /\ \E d \in Drafts : Propose(d, FALSE, FALSE)
  /\ history' = [history EXCEPT !.finding = FALSE]

AskOrTemplate(round) ==
  \/ Question(TRUE, round, config.override) /\ UNCHANGED history
  \/ Template

\* Text without a call, in command mode
CommandText ==
  /\ pc = "reply"
  /\ request.mode = "?" /\ ~Direct(request)
  /\ IF config.allow THEN AskOrTemplate(0) ELSE CompleteAndForget

\* A question of the model, or its final answer
SessionText ==
  /\ pc = "reply"
  /\ request.mode = "/p"
  /\ \/ config.allow
        /\ Question(TRUE, 0, config.override)
        /\ UNCHANGED history
     \/ CompleteAndForget

\* Nothing was said (round 0), or no call could be carried out.
NothingUsable ==
  /\ pc = "reply"
  /\ IF request.mode = "?" /\ config.allow
     THEN \E round \in {0, ReadonlyRoundCount} : AskOrTemplate(round)
     ELSE Unhandled

\* handle_command_docs_tool_call and handle_readonly_tool_call: their results,
\* errors among them, are appended to the conversation.
Observed(n) ==
  [history EXCEPT !.observations = UpTo(@ + n, MaxToolRounds)]

\* MUTANT of ReadTools: the results of this round are not counted.
ReadToolsOnceMore ==
  /\ pc = "reply"
  /\ ReadonlyRoundCount < MaxToolRounds
  /\ \E n \in 1 .. MaxToolRounds : history' = Observed(n)
  /\ pc' = "enter"
  /\ rounds' = rounds + 1
  /\ UNCHANGED <<asked, entry, loops, told, retries, requests, lost>>

\* Read-only calls only: the model is asked again with their results, until
\* the conversation holds max_tool_rounds of them.
ReadTools ==
  /\ pc = "reply"
  /\ \E n \in 1 .. MaxToolRounds :
       /\ history' = Observed(n)
       /\ history'.observations < MaxToolRounds
       /\ pc' = "enter"
       /\ rounds' = rounds + 1
  /\ UNCHANGED <<asked, entry, loops, told, retries, requests, lost>>

ToolRoundLimit ==
  /\ pc = "reply"
  /\ IF config.allow
     THEN /\ Question(TRUE, MaxToolRounds, config.override)
          /\ history' = Observed(MaxToolRounds)
     ELSE CompleteAndForget

\* A probe answers the question, or the last terminal output does.
AnswerFromObservation ==
  /\ pc = "reply"
  /\ Direct(request)
  /\ CompleteAndForget

\* ask_clarification, whatever else the model called for
AskClarification ==
  /\ pc = "reply"
  /\ \E n \in 0 .. MaxToolRounds :
       /\ history' = Observed(n)
       /\ Question(TRUE, history'.observations, config.override)

\* execute_shell_command, after the read-only calls beside it.  It is not
\* asked whether the tool was exposed.
ExecuteCall ==
  /\ pc = "reply"
  /\ \E d \in Drafts, again \in BOOLEAN : Propose(d, TRUE, again)
  /\ \E n \in 0 .. MaxToolRounds :
       history' = [Observed(n) EXCEPT !.finding = FALSE]
-----------------------------------------------------------------------------
(* propose_command_for_execution *)

FindingsNow == Findings(Running.draft, Running.fromProvider)

AskAboutDraft(continuation) ==
  Question(continuation, Running.toolRound, Running.override)

\* The draft matches the safety floor.
FloorRefused ==
  /\ pc = "draft" /\ Running.draft.floor
  /\ IF config.allow
     THEN AskAboutDraft(TRUE) /\ history' = Recorded
     ELSE /\ Finish("complete")
          /\ entry' = Absent /\ history' = Absent

\* MUTANT of Surface: a draft that was revised is not validated again.
SurfaceRevised ==
  /\ pc = "draft" /\ ~Running.draft.floor
  /\ FindingsNow = {} \/ Running.round > 1
  /\ entry' = Entry(FALSE, Running.again, Running.toolRound, Running.override,
                    Running.draft)
  /\ Finish("proposed")
  /\ UNCHANGED history

Surface ==
  /\ pc = "draft" /\ ~Running.draft.floor
  /\ FindingsNow = {}
  /\ entry' = Entry(FALSE, Running.again, Running.toolRound, Running.override,
                    Running.draft)
  /\ Finish("proposed")
  /\ UNCHANGED history

\* MUTANT of Refuse: the finding is told only to an existing conversation.
RefuseQuietly ==
  /\ pc = "draft" /\ ~Running.draft.floor
  /\ FindingsNow # {}
  /\ history' = IF history = Absent \/ Running.round > 1
                THEN Recorded ELSE [history EXCEPT !.finding = TRUE]
  /\ pc' = "fallback"
  /\ UNCHANGED <<asked, entry, loops, told, countVars>>

\* The verdict goes into the conversation.
Refuse ==
  /\ pc = "draft" /\ ~Running.draft.floor
  /\ FindingsNow # {}
  /\ history' = [Recorded EXCEPT !.finding = TRUE]
  /\ pc' = "fallback"
  /\ UNCHANGED <<asked, entry, loops, told, countVars>>

WebFallbackApplies ==
  /\ WebFor(request.class)
  /\ NeedsWeb(FindingsNow)
  /\ ReadonlyRoundCount < MaxToolRounds
  /\ FallbackCount < MaxPlanningRounds

\* A nested orchestration, for which this loop waits.
WebFallback ==
  /\ pc = "fallback"
  /\ WebFallbackApplies
  /\ history' = [Recorded EXCEPT !.fallbacks = UpTo(@ + 1, MaxPlanningRounds)]
  /\ pc' = "enter"
  /\ rounds' = 0
  /\ UNCHANGED <<asked, entry, loops, told, retries, requests, lost>>

NoFallback ==
  /\ pc = "fallback"
  /\ ~WebFallbackApplies
  /\ pc' = "redraft"
  /\ UNCHANGED <<asked, history, entry, loops, told, countVars>>

\* provider_redraft_from_validation sends whatever conversation there is.
\* The next round starts at once, whatever its number.
Redraft ==
  /\ pc = "redraft"
  /\ retries < MaxRetries
  /\ \E d \in Drafts \ {Running.draft} :
       loops' = Amend([Running EXCEPT !.draft = d, !.round = @ + 1])
  /\ retries' = retries + 1
  /\ history' = [Recorded EXCEPT !.finding = FALSE]
  /\ pc' = "draft"
  /\ lost' = FALSE
  /\ UNCHANGED <<asked, entry, told, rounds, requests>>

\* The request fails, or its answer is no new command.
NoRedraft ==
  /\ pc = "redraft"
  /\ history' = Recorded
  /\ pc' = "revise"
  /\ lost' = FALSE
  /\ UNCHANGED <<asked, entry, loops, told, rounds, retries, requests>>

Revised == Revise(Running.draft, FindingsNow)

\* No round is left, or the draft cannot be revised.
Unvalidated ==
  /\ pc = "revise"
  /\ Running.round >= MaxPlanningRounds \/ Revised = Running.draft
  /\ IF config.allow THEN AskAboutDraft(Running.again) ELSE Complete
  /\ UNCHANGED history

ReviseDraft ==
  /\ pc = "revise"
  /\ Running.round < MaxPlanningRounds
  /\ Revised # Running.draft
  /\ loops' = Amend([Running EXCEPT !.draft = Revised, !.round = @ + 1])
  /\ history' = [Recorded EXCEPT !.finding = FALSE]
  /\ pc' = "draft"
  /\ UNCHANGED <<asked, entry, told, countVars>>
-----------------------------------------------------------------------------
(* What the handlers do with the verdict *)

Return(answer) ==
  /\ told' = answer
  /\ pc' = "idle"
  /\ UNCHANGED <<asked, loops, countVars>>

Handled(kind) == pc = "handled" /\ request.kind = kind
NotHandled(kind) == pc = "unhandled" /\ request.kind = kind

StartHandled ==
  /\ Handled("start")
  /\ Return(told)
  /\ UNCHANGED <<entry, history>>

StartUnhandled ==
  /\ NotHandled("start")
  /\ Return("asked")
  /\ entry' = Entry(TRUE, TRUE, 0, config.override, Absent)
  /\ UNCHANGED history

\* Whatever the orchestration left in the table is amended.
Reawait(awaiting) ==
  entry' = IF entry = Absent THEN Absent
           ELSE [entry EXCEPT !.awaiting = awaiting, !.continuation = TRUE]

\* The user's answer is ambiguous itself: that is asked before the model is,
\* in command mode.
DetailAmbiguous ==
  /\ Beginning("clarification") /\ request.mode = "?"
  /\ Return("asked")
  /\ Reawait(TRUE)
  /\ UNCHANGED history

ClarificationHandled ==
  /\ Handled("clarification")
  /\ Return(told)
  /\ Reawait(FALSE)
  /\ UNCHANGED history

ClarificationUnhandled ==
  /\ NotHandled("clarification")
  /\ Return("asked")
  /\ Reawait(TRUE)
  /\ UNCHANGED history

AckHandled ==
  /\ Handled("ack")
  /\ Return(told)
  /\ entry' = IF entry = Absent THEN Absent
              ELSE [entry EXCEPT !.round = request.round + 1,
                                 !.continuation = TRUE]
  /\ UNCHANGED history

AckUnhandled ==
  /\ NotHandled("ack")
  /\ Return("complete")
  /\ history' = Absent
  /\ UNCHANGED entry
-----------------------------------------------------------------------------
Init ==
  /\ config \in Configs
  /\ pc = "idle" /\ told = "new"
  /\ request = Absent
  /\ history = Absent /\ entry = Absent
  /\ loops = <<>>
  /\ rounds = 0 /\ retries = 0 /\ requests = 0
  /\ lost = FALSE

User == Start \/ Clarification \/ Ack \/ LastAck \/ Decline

Begin ==
  \/ PromptForbidden \/ PromptAmbiguous \/ AnswerDocumentation \/ AnswerFromWeb
  \/ AnswerLocally \/ DetailAmbiguous \/ Delegate

Orchestrate ==
  \/ AnswerFromTerminal \/ AnswerDirectly \/ Seed \/ ProviderFails
  \/ DirectText \/ CommandText \/ SessionText \/ NothingUsable
  \/ ReadTools \/ ToolRoundLimit \/ AnswerFromObservation
  \/ AskClarification \/ ExecuteCall

Plan ==
  \/ FloorRefused \/ Surface \/ Refuse \/ WebFallback \/ NoFallback
  \/ Redraft \/ NoRedraft \/ Unvalidated \/ ReviseDraft

Settle ==
  \/ StartHandled \/ StartUnhandled \/ ClarificationHandled
  \/ ClarificationUnhandled \/ AckHandled \/ AckUnhandled

Daemon == Begin \/ Orchestrate \/ Plan \/ Settle
Next == User \/ Daemon

Spec == Init /\ [][Next]_vars

\* The handler is one task of the runtime, and every wait in it has a timeout.
FairSpec == Spec /\ WF_vars(Daemon)
-----------------------------------------------------------------------------
(* Properties *)

TypeOK ==
  /\ config \in Config
  /\ pc \in {"idle", "begin", "enter", "reply", "draft", "fallback", "redraft", "revise",
            "handled", "unhandled"}
  /\ request \in Request \cup {Absent}
  /\ history \in History \cup {Absent}
  /\ entry \in Entries \cup {Absent}
  /\ loops \in Seq(Loop)
  /\ told \in {"new", "waiting", "asked", "proposed", "complete"}
  /\ rounds \in Nat /\ retries \in Nat /\ requests \in Nat
  /\ lost \in BOOLEAN

\* What may be proposed: nothing of the safety floor, and nothing with a
\* finding.
Valid == {d \in Draft : ~d.floor /\ Findings(d, FALSE) = {}}

Offer == IF told = "proposed" /\ entry # Absent THEN entry.cmd ELSE Absent

Promise == INSTANCE OrchestrationPromise WITH Nothing <- Absent, offer <- Offer

\* However often the model calls tools, retries and nests look-ups, each
\* request is answered, once, and only a valid command is proposed: the
\* returns of try_provider_orchestration and propose_command_for_execution,
\* with the recursion between them.
KeepsPromise == Promise!Spec

\* A task that has ended leaves no conversation behind, whichever of the
\* many exits it took; the answer from the terminal is taken before there is
\* a conversation, and a draft refused without clarifications keeps its own.
ConversationEnds ==
  (/\ pc = "idle" /\ told = "complete"
   /\ config.allow
   /\ ~(Direct(request) /\ request.class = "referential"))
  => history = Absent

\* The model is asked for a redraft in a conversation that holds the verdict on
\* the draft, but for the case that a nested orchestration gave up and dropped
\* the conversation under the loop that waited for it.
FindingReachesRedraft ==
  pc = "redraft" => lost \/ (history # Absent /\ history.finding)

\* Read-only tool calls send the model back at most max_tool_rounds - 1 times
\* in a row, though what is counted is tool results of the whole task.  With
\* the types, so that every counter of a conversation keeps its bound.
ReadonlyRoundsBounded == TypeOK /\ rounds < MaxToolRounds
=============================================================================
