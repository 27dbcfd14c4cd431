------------------------------ MODULE Adapter ------------------------------
(***************************************************************************)
(* A shell with the zsh adapter: the globals by which its widgets tell     *)
(* which task the user is in, the helper process (`termlm bridge`) that    *)
(* carries its messages to the daemon and the daemon's events back, and    *)
(* the two FIFOs between them.  zsh runs one widget, one hook or one line  *)
(* of the helper's output at a time; while a command runs it handles none. *)
(* The daemon is what TaskProtocol says it is, one message at a time.      *)
(***************************************************************************)
EXTENDS Naturals, Sequences, SequencesExt

CONSTANTS
  Task,         \* the ids uuidgen draws, one per task
  None,         \* an empty variable of the adapter, no entry at the daemon
  MaxRounds,    \* behavior.max_tool_rounds: proposals in a task
  MaxDeaths,    \* bound on the helper's deaths
  MaxExpiries   \* bound on tasks that the daemon's sweeper ends

ASSUME BoundAssumption ==
  MaxRounds \in Nat \ {0} /\ MaxDeaths \in Nat /\ MaxExpiries \in Nat

VARIABLES
  sh,        \* the adapter's globals, a record of Globals
  helper,    \* the helper: "up" or "dead"
  inPipe,    \* helper.in: messages to the daemon the helper has not read
  outPipe,   \* helper.out: events the shell has not read
  inbox,     \* messages on the socket the daemon has not read
  entry,     \* the daemon's table: per task what it waits for, or None
  lost,      \* tasks whose connection ended and that the daemon will clear
  fresh,     \* ids not used yet
  deaths, expiries,
  confirmed, \* history: tasks whose task_started was handled
  dismissed, \* history: tasks the user turned away from
  confused   \* history: a task was dismissed before it was confirmed, or while
             \* events of another that was given up before were still to come

linkVars == <<helper, inPipe, outPipe>>
coreVars == <<inbox, entry, lost, expiries>>
histVars == <<confirmed, dismissed, confused>>
vars == <<sh, linkVars, coreVars, fresh, deaths, histVars>>

Command == [task : Task, round : 1..MaxRounds]   \* a command the daemon proposed

Globals == [task : Task \cup {None},          \* TASK_ID
            closed : Task \cup {None},        \* CLOSED_TASK_ID
            acked : Task \cup {None},         \* ACKED_PENDING_TASK_ID
            clarification : Task \cup {None}, \* CLARIFICATION_TASK_ID
            approval : Command \cup {None},   \* APPROVAL_TASK_ID and _CMD
            editing : BOOLEAN,                \* EDITING_APPROVAL_TASK_ID: e was pressed
            pending : Command \cup {None},    \* PENDING_TASK_ID and _CMD
            waiting : BOOLEAN,                \* WAITING_MODEL
            prompt : BOOLEAN,                 \* MODE is "prompt"
            session : BOOLEAN,                \* SESSION_MODE
            busy : BOOLEAN]                   \* a command runs: zle is not active

Message == [op : {"start", "approved", "edited", "rejected", "abort", "reply", "ack"},
            task : Task, round : 0..MaxRounds]
Event == [event : {"started", "text", "question", "proposal", "complete", "error", "bad"},
          task : Task, round : 0..MaxRounds, gate : BOOLEAN]
Entry == [state : {"question", "offered", "decided"}, round : 0..MaxRounds, gate : BOOLEAN]
           \cup {[state |-> "expired", round |-> 0, gate |-> FALSE]}

\* What is empty is no id, no command and no entry.
ASSUME NoneAssumption == None \notin Task /\ None \notin Command /\ None \notin Entry

AdapterTypeOK ==
  /\ sh \in Globals
  /\ helper \in {"up", "dead"}
  /\ inPipe \in Seq(Message) /\ inbox \in Seq(Message) /\ outPipe \in Seq(Event)
  /\ entry \in [Task -> Entry \cup {None}]
  /\ lost \subseteq Task /\ fresh \subseteq Task
  /\ deaths \in 0..MaxDeaths /\ expiries \in 0..MaxExpiries
  /\ confirmed \subseteq Task /\ dismissed \subseteq Task /\ confused \in BOOLEAN

-----------------------------------------------------------------------------
(* The adapter's functions, on a record of its globals. *)

FirstSet(x, y, z) == IF x # None THEN x ELSE IF y # None THEN y ELSE z

ApprovalTask(g) == IF g.approval = None THEN None ELSE g.approval.task
PendingTask(g) == IF g.pending = None THEN None ELSE g.pending.task

\* The task termlm-mark-task-closed closes.
Closing(g) == FirstSet(g.task, ApprovalTask(g), g.clarification)

\* MUTANT of MarkClosed: the approval box stays open.
MarkClosedBoxOpen(g) ==
  [g EXCEPT !.closed = IF Closing(g) # None THEN Closing(g) ELSE @,
            !.acked = IF @ = Closing(g) THEN None ELSE @,
            !.waiting = FALSE, !.task = None, !.clarification = None]

\* MUTANT of MarkClosed: the closed task is not remembered.
MarkClosedForgotten(g) ==
  [g EXCEPT !.acked = IF @ = Closing(g) THEN None ELSE @,
            !.waiting = FALSE, !.task = None, !.clarification = None,
            !.approval = None, !.editing = FALSE]

\* MUTANT of MarkClosed: the wait is not ended.
MarkClosedWaiting(g) ==
  [g EXCEPT !.closed = IF Closing(g) # None THEN Closing(g) ELSE @,
            !.acked = IF @ = Closing(g) THEN None ELSE @,
            !.task = None, !.clarification = None,
            !.approval = None, !.editing = FALSE]

\* termlm-mark-task-closed
MarkClosed(g) ==
  [g EXCEPT !.closed = IF Closing(g) # None THEN Closing(g) ELSE @,
            !.acked = IF @ = Closing(g) THEN None ELSE @,
            !.waiting = FALSE, !.task = None, !.clarification = None,
            !.approval = None, !.editing = FALSE]

ExitPrompt(g) == [g EXCEPT !.prompt = FALSE]
ExitSession(g) ==
  [g EXCEPT !.session = FALSE, !.task = None, !.clarification = None,
            !.approval = None, !.editing = FALSE, !.prompt = FALSE]

\* What most functions end with: the one-shot prompt is left, a session stays.
Redraw(g) == IF g.session THEN g ELSE ExitPrompt(g)

\* termlm-reset-after-connection-lost
Reset(g) == Redraw(MarkClosed(g))

\* termlm-is-closed-task-event, termlm-is-current-task-event
IsClosedEvent(g, t) == t = g.closed /\ g.task # t
IsCurrentEvent(g, t) == t \in {g.task, PendingTask(g), ApprovalTask(g), g.clarification}

\* termlm-should-ignore-task-event: without a task every event but the closed
\* one's is taken.
Ignores(g, t) ==
  \/ IsClosedEvent(g, t)
  \/ /\ {g.task, PendingTask(g), ApprovalTask(g), g.clarification} # {None}
     /\ ~IsCurrentEvent(g, t)

\* MUTANT of RunApproved: the task is remembered and not its command.
RunApprovedTask(g, c) ==
  [g EXCEPT !.acked = None, !.pending = c.task, !.busy = TRUE,
            !.prompt = IF g.session THEN @ ELSE FALSE]

\* termlm-run-approved-command: the line editor is left and the command runs.
RunApproved(g, c) ==
  [g EXCEPT !.acked = None, !.pending = c, !.busy = TRUE,
            !.prompt = IF g.session THEN @ ELSE FALSE]

Decided(g) == [g EXCEPT !.approval = None, !.editing = FALSE]

-----------------------------------------------------------------------------
(* The link to the daemon. *)

\* termlm-start-helper: the helper opens new FIFOs, connects and registers a shell;
\* then it reads what was written to it.
HelperStarts(msgs) == helper' = "up" /\ inPipe' = msgs /\ outPipe' = <<>>
HelperFails == UNCHANGED helper /\ inPipe' = <<>> /\ outPipe' = <<>>

\* termlm-helper-send: what a live helper will read is sent; a dead helper is
\* started again, which registers a new shell over new FIFOs, or that fails.
DeliverBefore(rest, msg, good, bad) ==
  \/ /\ helper = "up"
     /\ inPipe' = Append(inPipe, msg) /\ outPipe' = rest
     /\ sh' = good
     /\ UNCHANGED helper
  \/ /\ helper = "dead"
     /\ \/ HelperStarts(<<msg>>) /\ sh' = good
        \/ HelperFails /\ sh' = bad

Deliver(msg, good, bad) == DeliverBefore(outPipe, msg, good, bad)

Ask(op, c) == [op |-> op, task |-> c.task, round |-> c.round]
About(op, t) == [op |-> op, task |-> t, round |-> 0]

\* Without a message the same: termlm-send-shell-context registers the shell.
Reconnect(g) ==
  /\ sh' = g
  /\ \/ UNCHANGED linkVars
     \/ helper = "dead" /\ (HelperStarts(<<>>) \/ HelperFails)

InFlight(t) ==
  \/ \E i \in DOMAIN inPipe : inPipe[i].task = t
  \/ \E i \in DOMAIN inbox : inbox[i].task = t
  \/ \E i \in DOMAIN outPipe : outPipe[i].task = t

\* The user turns away from the task that Closing names, if there is one.
Dismiss ==
  LET t == Closing(sh) IN
  /\ dismissed' = IF t = None THEN dismissed ELSE dismissed \cup {t}
  /\ confused' = (confused \/ /\ t # None
                              /\ \/ t \notin confirmed
                                 \/ \E u \in Task \ {t} : InFlight(u))
  /\ UNCHANGED confirmed

-----------------------------------------------------------------------------
(* What the user does at the line editor. *)

AtLine == ~sh.busy
Prompting == sh.prompt \/ sh.session    \* the termlm-prompt keymap is on
Box == sh.approval # None /\ ~sh.editing  \* keys are approval keys

\* `?` on an empty line: a task that was waited for is closed, without an abort.
QuestionMark ==
  /\ AtLine /\ ~Box
  /\ IF sh.task # None \/ sh.waiting
     THEN Dismiss /\ sh' = [MarkClosed(sh) EXCEPT !.prompt = TRUE]
     ELSE UNCHANGED histVars /\ sh' = [sh EXCEPT !.prompt = TRUE]
  /\ UNCHANGED <<linkVars, coreVars, fresh, deaths>>

\* termlm-abandon-active-task: the task is closed, then aborted if it has an id.
AbandonTask(g) ==
  /\ Dismiss
  /\ IF sh.task # None THEN Deliver(About("abort", sh.task), g, g)
     ELSE sh' = g /\ UNCHANGED linkVars
  /\ UNCHANGED <<coreVars, fresh, deaths>>

\* /p enters the session, also where a box has opened over it.
EnterSession ==
  /\ AtLine /\ ~sh.session
  /\ LET in(g) == [g EXCEPT !.session = TRUE, !.prompt = FALSE] IN
     IF sh.waiting THEN AbandonTask(in(MarkClosed(sh)))
     ELSE sh' = in(sh) /\ UNCHANGED <<linkVars, coreVars, fresh, deaths, histVars>>

\* /q, or ^D on an empty line.
LeaveSession ==
  /\ AtLine /\ sh.session
  /\ IF sh.task # None \/ sh.waiting THEN AbandonTask(ExitSession(MarkClosed(sh)))
     ELSE sh' = ExitSession(sh) /\ UNCHANGED <<linkVars, coreVars, fresh, deaths, histVars>>

\* Esc, bound in the prompt's keymap only: whatever task there is is aborted.
Cancel ==
  /\ AtLine /\ Prompting
  /\ Dismiss
  /\ LET g == IF sh.session THEN ExitSession(MarkClosed(sh)) ELSE ExitPrompt(MarkClosed(sh)) IN
     IF Closing(sh) # None THEN Deliver(About("abort", Closing(sh)), g, g)
     ELSE sh' = g /\ UNCHANGED linkVars
  /\ UNCHANGED <<coreVars, fresh, deaths>>

\* termlm-start-task, from the session's line or, for a one-shot prompt, from
\* the next zle-line-init.
StartTask(t) ==
  /\ AtLine /\ Prompting
  /\ ~sh.editing /\ sh.approval = None /\ sh.clarification = None
  /\ t \in fresh
  /\ fresh' = fresh \ {t}
  /\ Deliver(About("start", t),
             [sh EXCEPT !.waiting = TRUE, !.task = t, !.acked = None, !.closed = None],
             IF sh.session THEN [sh EXCEPT !.waiting = FALSE]
                           ELSE ExitPrompt([sh EXCEPT !.waiting = FALSE]))
  /\ UNCHANGED <<coreVars, deaths, histVars>>

\* Enter on a line that reads like a command while the model is waited for: the
\* task is given up and the line runs.
RunTyped ==
  /\ AtLine /\ Prompting /\ sh.waiting
  /\ sh.approval = None /\ sh.clarification = None
  /\ AbandonTask([Redraw(MarkClosed(sh)) EXCEPT !.busy = TRUE])

\* Enter outside the prompt: an ordinary command, whatever box is open.
RunLine ==
  /\ AtLine /\ ~Prompting
  /\ sh' = [sh EXCEPT !.busy = TRUE]
  /\ UNCHANGED <<linkVars, coreVars, fresh, deaths, histVars>>

\* Enter on the answer to a question.
Reply ==
  /\ AtLine /\ Prompting /\ sh.approval = None /\ sh.clarification # None
  /\ LET t == sh.clarification  IN
     Deliver(About("reply", t),
             [sh EXCEPT !.task = t, !.clarification = None, !.waiting = TRUE],
             Redraw([MarkClosed([sh EXCEPT !.task = t, !.clarification = None])
                       EXCEPT !.task = None, !.waiting = FALSE]))
  /\ UNCHANGED <<coreVars, fresh, deaths, histVars>>

\* MUTANT of Approve: the decision is not sent.
ApproveUnsent ==
  /\ AtLine /\ Box
  /\ sh' = RunApproved(Decided(sh), sh.approval)
  /\ UNCHANGED <<linkVars, coreVars, fresh, deaths, histVars>>

\* y or a at the box: the decision is sent, then the command runs.
Approve ==
  /\ AtLine /\ Box
  /\ Deliver(Ask("approved", sh.approval),
             RunApproved(Decided(sh), sh.approval), Reset(Decided(sh)))
  /\ UNCHANGED <<coreVars, fresh, deaths, histVars>>

\* e: the command is put on the line.
Edit ==
  /\ AtLine /\ Box
  /\ sh' = [sh EXCEPT !.editing = TRUE]
  /\ UNCHANGED <<linkVars, coreVars, fresh, deaths, histVars>>

\* Enter on the edited line: it runs without the daemon's verdict.
FinishEdit ==
  /\ AtLine /\ Prompting /\ sh.approval # None /\ sh.editing
  /\ Deliver(Ask("edited", sh.approval),
             RunApproved(Decided(sh), sh.approval), Reset(Decided(sh)))
  /\ UNCHANGED <<coreVars, fresh, deaths, histVars>>

\* Any other key at the box, Enter in the prompt, or a blank edit: rejected.
Reject ==
  /\ AtLine /\ sh.approval # None /\ (sh.editing => Prompting)
  /\ Dismiss
  /\ Deliver(Ask("rejected", sh.approval), Redraw(MarkClosed(Decided(sh))), Reset(sh))
  /\ UNCHANGED <<coreVars, fresh, deaths>>

-----------------------------------------------------------------------------
(* The hooks around a command. *)

\* precmd after a proposed command: the Ack, by a helper started again if need be.
Acknowledge ==
  /\ sh.busy /\ sh.pending # None
  /\ LET over == [sh EXCEPT !.busy = FALSE, !.pending = None] IN
     Deliver(Ask("ack", sh.pending),
             [over EXCEPT !.acked = PendingTask(sh), !.waiting = TRUE],
             Redraw([over EXCEPT !.acked = None, !.waiting = FALSE, !.task = None]))
  /\ UNCHANGED <<coreVars, fresh, deaths, histVars>>

\* precmd after any other command: a shell with a task or a prompt reconnects.
FinishCommand ==
  /\ sh.busy /\ sh.pending = None
  /\ LET over == [sh EXCEPT !.busy = FALSE] IN
     IF Prompting \/ sh.approval # None \/ sh.clarification # None \/ sh.task # None
     THEN Reconnect(over) ELSE sh' = over /\ UNCHANGED linkVars
  /\ UNCHANGED <<coreVars, fresh, deaths, histVars>>

-----------------------------------------------------------------------------
(* A line of the helper's output: termlm-handle-run-task-line. *)

Receive(kind) ==
  /\ AtLine /\ outPipe # <<>> /\ Head(outPipe).event = kind
  /\ outPipe' = Tail(outPipe)
  /\ UNCHANGED <<coreVars, fresh, deaths>>

From == Head(outPipe).task
Quiet == UNCHANGED <<helper, inPipe>>

OnStarted ==
  /\ Receive("started") /\ Quiet
  /\ sh' = [sh EXCEPT !.task = From]
  /\ confirmed' = confirmed \cup {From}
  /\ UNCHANGED <<dismissed, confused>>

\* Text of a command that runs or was just acknowledged is not shown.
OnText ==
  /\ Receive("text") /\ Quiet
  /\ sh' = IF ~Ignores(sh, From) /\ sh.task = None /\ From \notin {PendingTask(sh), sh.acked}
           THEN [sh EXCEPT !.task = From] ELSE sh
  /\ UNCHANGED histVars

\* The wait is over before it is known whose question this is.
OnQuestion ==
  /\ Receive("question") /\ Quiet
  /\ sh' = IF Ignores(sh, From) THEN [sh EXCEPT !.waiting = FALSE]
           ELSE [sh EXCEPT !.waiting = FALSE, !.task = From, !.clarification = From,
                           !.prompt = IF sh.session THEN @ ELSE TRUE]
  /\ UNCHANGED histVars

\* A proposal opens the box, runs at once, or is stopped by the adapter's floor.
OnProposal ==
  /\ AtLine /\ outPipe # <<>> /\ Head(outPipe).event = "proposal"
  /\ LET cmd == [task |-> From, round |-> Head(outPipe).round]
         rest == Tail(outPipe)
         heard == [sh EXCEPT !.waiting = FALSE]
         shown == [heard EXCEPT !.task = From]
         Show(g) == sh' = g /\ outPipe' = rest /\ Quiet IN
     \/ Ignores(sh, From) /\ Show(heard)
     \/ /\ ~Ignores(sh, From)
        /\ \/ Head(outPipe).gate /\ Show([shown EXCEPT !.approval = cmd, !.editing = FALSE])
           \/ ~Head(outPipe).gate /\ Show(RunApproved(shown, cmd))
           \/ DeliverBefore(rest, About("abort", From), Redraw([shown EXCEPT !.task = None]),
                            Redraw(MarkClosed(shown)))
  /\ UNCHANGED <<coreVars, fresh, deaths, histVars>>

OnComplete ==
  /\ Receive("complete") /\ Quiet
  /\ sh' = IF Ignores(sh, From) THEN sh ELSE Redraw(MarkClosed(sh))
  /\ UNCHANGED histVars

\* Only a bad_protocol error ends the task.
OnError ==
  /\ Receive("error") /\ Quiet
  /\ sh' = IF Ignores(sh, From) \/ sh.task # None THEN sh ELSE [sh EXCEPT !.task = From]
  /\ UNCHANGED histVars

OnBadProtocol ==
  /\ Receive("bad") /\ Quiet
  /\ sh' = IF Ignores(sh, From) THEN sh
           ELSE Redraw(MarkClosed([sh EXCEPT !.task = IF @ = None THEN From ELSE @]))
  /\ UNCHANGED histVars

-----------------------------------------------------------------------------
(* The helper and the daemon. *)

\* run_bridge: a message goes to the socket; task_started is the helper's own.
Forward ==
  /\ helper = "up" /\ inPipe # <<>>
  /\ LET m == Head(inPipe) IN
     /\ inbox' = Append(inbox, m)
     /\ outPipe' = IF m.op = "start"
                   THEN Append(outPipe, [event |-> "started", task |-> m.task, round |-> 0, gate |-> FALSE])
                   ELSE outPipe
  /\ inPipe' = Tail(inPipe)
  /\ UNCHANGED <<sh, helper, entry, lost, expiries, fresh, deaths, histVars>>

\* The daemon went away or the helper was killed: what it had not sent is lost, what
\* it had written stays in the FIFO, which the shell itself holds open.
HelperDies ==
  /\ helper = "up" /\ deaths < MaxDeaths
  /\ helper' = "dead" /\ deaths' = deaths + 1
  /\ inPipe' = <<>> /\ inbox' = <<>>
  /\ lost' = lost \cup {t \in Task : entry[t] # None}
  /\ UNCHANGED <<sh, outPipe, entry, expiries, fresh, histVars>>

\* The end of the connection is noticed: cancel_and_clear_shell_tasks.
ClearLost ==
  /\ lost # {}
  /\ entry' = [t \in Task |-> IF t \in lost THEN None ELSE entry[t]]
  /\ lost' = {}
  /\ UNCHANGED <<sh, linkVars, inbox, expiries, fresh, deaths, histVars>>

Expire(t) ==
  /\ entry[t] # None /\ entry[t].state # "expired" /\ expiries < MaxExpiries
  /\ entry' = [entry EXCEPT ![t] = [state |-> "expired", round |-> 0, gate |-> FALSE]]
  /\ expiries' = expiries + 1
  /\ UNCHANGED <<sh, linkVars, inbox, lost, fresh, deaths, histVars>>

Say(kind, t) == [event |-> kind, task |-> t, round |-> 0, gate |-> FALSE]

\* The message is answered, and the task's entry becomes e.
Answer(e, events) ==
  /\ entry' = [entry EXCEPT ![Head(inbox).task] = e]
  /\ outPipe' = outPipe \o events
  /\ inbox' = Tail(inbox)
  /\ UNCHANGED <<sh, helper, inPipe, lost, expiries, fresh, deaths, histVars>>

\* What the model makes of a prompt, an answer or a result after `round` commands.
Turn(round) ==
  LET t == Head(inbox).task IN
  \/ Answer(None, <<Say("text", t), Say("complete", t)>>)
  \/ Answer(None, <<Say("error", t), Say("complete", t)>>)
  \/ Answer([state |-> "question", round |-> round, gate |-> FALSE], <<Say("question", t)>>)
  \/ /\ round < MaxRounds
     /\ \E gate \in BOOLEAN :
          Answer([state |-> "offered", round |-> round + 1, gate |-> gate],
                 <<[event |-> "proposal", task |-> t, round |-> round + 1, gate |-> gate]>>)

Serve ==
  /\ inbox # <<>>
  /\ LET m == Head(inbox)
         e == entry[m.task]
         end == Say("complete", m.task)
         text == Say("text", m.task) IN
     \/ m.op = "start" /\ Turn(0)
     \/ m.op # "start" /\ e = None /\ Answer(None, <<Say("bad", m.task)>>)
     \/ /\ m.op # "start" /\ e # None
        /\ \/ e.state = "expired" /\ Answer(None, <<end>>)
           \/ /\ e.state # "expired"
              /\ \/ m.op = "approved" /\ Answer([e EXCEPT !.state = "decided"], <<text>>)
                 \/ m.op = "edited" /\ \/ Answer([e EXCEPT !.state = "decided"], <<text>>)
                                       \/ Answer(None, <<Say("error", m.task), end>>)
                 \/ m.op = "rejected" /\ Answer(None, <<text, end>>)
                 \/ m.op = "abort" /\ Answer(None, <<end>>)
                 \/ m.op = "reply" /\ IF e.state = "question" THEN Turn(e.round)
                                      ELSE Answer(e, <<Say("bad", m.task)>>)
                 \/ m.op = "ack" /\ IF e.round < MaxRounds THEN Turn(e.round)
                                    ELSE Answer(None, <<end>>)

-----------------------------------------------------------------------------
Init ==
  /\ sh = [task |-> None, closed |-> None, acked |-> None, clarification |-> None,
           approval |-> None, editing |-> FALSE, pending |-> None, waiting |-> FALSE,
           prompt |-> FALSE, session |-> FALSE, busy |-> FALSE]
  /\ helper = "dead" /\ inPipe = <<>> /\ outPipe = <<>>
  /\ inbox = <<>> /\ entry = [t \in Task |-> None] /\ lost = {}
  /\ fresh = Task /\ deaths = 0 /\ expiries = 0
  /\ confirmed = {} /\ dismissed = {} /\ confused = FALSE

User ==
  \/ QuestionMark \/ EnterSession \/ LeaveSession \/ Cancel \/ RunTyped \/ RunLine
  \/ Reply \/ Approve \/ Edit \/ FinishEdit \/ Reject
  \/ \E t \in Task : StartTask(t)

HandleLine ==
  \/ OnStarted \/ OnText \/ OnQuestion \/ OnProposal \/ OnComplete \/ OnError \/ OnBadProtocol

Next ==
  \/ User \/ Acknowledge \/ FinishCommand \/ HandleLine
  \/ Forward \/ HelperDies \/ ClearLost \/ Serve
  \/ \E t \in Task : Expire(t)

\* zle, which waits for keys and for the helper's output at once, reads a line of it
\* though commands run again and again; commands end, the helper and the daemon do not
\* sleep.
Spec == /\ Init /\ [][Next]_vars
        /\ SF_vars(HandleLine) /\ WF_vars(Acknowledge \/ FinishCommand)
        /\ WF_vars(Forward) /\ WF_vars(Serve)

-----------------------------------------------------------------------------
\* FR-15: a task the user turned away from opens no box and runs nothing when its
\* proposal comes late, be it that another task has started or ended since.  The
\* adapter remembers one closed task only, so not after two in a row, and a
\* task_started that comes after the dismissal revives the task.
DismissedStaysDismissed ==
  ~confused => \A t \in dismissed : ApprovalTask(sh) # t /\ PendingTask(sh) # t

\* FR-17: a box is about a command the daemon still wants decided, or whose task's
\* end is on its way to close the box, or that the daemon timed out without a word.
BoxIsBacked ==
  sh.approval # None /\ deaths = 0 =>
    LET t == sh.approval.task IN
    \/ entry[t] # None /\ entry[t].state = "expired"
    \/ entry[t] # None /\ entry[t].state = "offered" /\ entry[t].round = sh.approval.round
    \/ \E i \in DOMAIN outPipe : outPipe[i].task = t /\ outPipe[i].event \in {"complete", "bad"}

\* The daemon hears of a command's end only after the decision on that command, and
\* what is decided or acknowledged is the command it offered last.
AckIsExpected ==
  inbox # <<>> /\ deaths = 0 =>
    LET m == Head(inbox) e == entry[m.task] IN
    m.op \in {"approved", "edited", "rejected", "ack"} /\ e # None /\ e.state # "expired" =>
      /\ e.round = m.round
      /\ e.state = IF m.op = "ack" /\ e.gate THEN "decided" ELSE "offered"

\* FR-26: the user does not wait for ever, as long as the helper lives: whatever was
\* dismissed, typed over or ignored, an end comes that counts or there is something to
\* answer.
WaitingEnds ==
  sh.waiting ~> (~sh.waiting \/ sh.clarification # None \/ sh.approval # None \/ deaths > 0)
=============================================================================
