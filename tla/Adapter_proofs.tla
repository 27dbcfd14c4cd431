-------------------------- MODULE Adapter_proofs --------------------------
(***************************************************************************)
(* Proofs about the adapter of a shell: a task that was turned away from   *)
(* comes to nothing, a box is about a command that waits, and the daemon   *)
(* is told what it can make sense of.                                      *)
(***************************************************************************)
EXTENDS Adapter, TLAPS

USE BoundAssumption

AsksTurn(m) == m.op \in {"start", "reply", "ack"}
GivesTurn(e) == e.event \in {"question", "proposal"}
Decides(m) == m.op \in {"approved", "edited", "rejected"}
Ends(e) == e.event \in {"complete", "bad"}

\* A command runs at the end of a proposal, an offered command has a number, and
\* a dead helper has no messages.
Wired ==
  /\ sh.pending # None => sh.busy
  /\ \A i \in DOMAIN outPipe : outPipe[i].event = "proposal" => outPipe[i].round # 0
  /\ helper = "dead" => inPipe = <<>> /\ inbox = <<>>

-----------------------------------------------------------------------------
(* Types *)

LEMMA MarkClosedTyped ==
  ASSUME NEW g \in Globals
  PROVE  /\ Closing(g) \in Task \cup {None}
         /\ MarkClosed(g) \in Globals
<1>1. /\ g.task \in Task \cup {None} /\ g.clarification \in Task \cup {None}
      /\ g.approval \in Command \cup {None}
  BY DEF Globals
<1>2. ApprovalTask(g) \in Task \cup {None}
  BY <1>1 DEF ApprovalTask, Command
<1>3. Closing(g) \in Task \cup {None}
  BY <1>1, <1>2 DEF Closing, FirstSet
<1>4. PICK t : t = Closing(g)
  OBVIOUS
<1>5. MarkClosed(g) =
        [g EXCEPT !.closed = IF t # None THEN t ELSE @, !.acked = IF @ = t THEN None ELSE @,
                  !.waiting = FALSE, !.task = None, !.clarification = None,
                  !.approval = None, !.editing = FALSE]
  BY <1>4 DEF MarkClosed
<1> QED
  BY <1>3, <1>4, <1>5 DEF Globals

LEMMA RedrawTyped ==
  ASSUME NEW g \in Globals
  PROVE  /\ ExitPrompt(g) \in Globals /\ ExitSession(g) \in Globals
         /\ Redraw(g) \in Globals /\ Decided(g) \in Globals
         /\ Reset(g) \in Globals
  <1>1. ExitPrompt(g) \in Globals /\ ExitSession(g) \in Globals /\ Decided(g) \in Globals
    BY DEF ExitPrompt, ExitSession, Decided, Globals
  <1>2. ASSUME NEW h \in Globals PROVE Redraw(h) \in Globals
    BY DEF Redraw, ExitPrompt, Globals
  <1> QED
    BY <1>1, <1>2, MarkClosedTyped DEF Reset

LEMMA RunApprovedTyped ==
  ASSUME NEW g \in Globals, NEW c \in Command
  PROVE  RunApproved(g, c) \in Globals
  BY DEF RunApproved, Globals

LEMMA MessageTyped ==
  /\ \A c \in Command : \A op \in {"approved", "edited", "rejected", "ack"} : Ask(op, c) \in Message
  /\ \A t \in Task : \A op \in {"start", "abort", "reply"} : About(op, t) \in Message
  BY DEF Ask, About, Message, Command
-----------------------------------------------------------------------------
(* What a step does to the globals that name tasks, whatever it does to the rest. *)

Same ==
  /\ sh'.task = sh.task /\ sh'.closed = sh.closed /\ sh'.approval = sh.approval
  /\ sh'.clarification = sh.clarification /\ sh'.pending = sh.pending

\* The shell has let go of the task x, if there is one.
Away(x) ==
  /\ sh'.task = None /\ sh'.closed = IF x # None THEN x ELSE sh.closed
  /\ sh'.approval = None /\ sh'.clarification = None /\ sh'.pending = sh.pending

Calm == UNCHANGED <<coreVars, deaths>>
Still == UNCHANGED linkVars
Cut == helper = "dead" /\ helper' \in {"up", "dead"} /\ inPipe' = <<>> /\ outPipe' = <<>>
Send(rest, m) ==
  \/ helper = "up" /\ helper' = "up" /\ inPipe' = Append(inPipe, m) /\ outPipe' = rest
  \/ helper = "dead" /\ helper' = "up" /\ inPipe' = <<m>> /\ outPipe' = <<>>

\* Nothing reaches the daemon and what was in the FIFOs is gone.
Fails ==
  /\ Cut /\ Calm /\ fresh' \subseteq fresh
  /\ sh'.task \in {sh.task, None}
  /\ \/ sh'.closed \in {sh.closed, sh.task, ApprovalTask(sh), sh.clarification}
     \/ outPipe # <<>> /\ sh'.closed = Head(outPipe).task
  /\ sh'.approval \in {sh.approval, None} /\ sh'.clarification \in {sh.clarification, None}
  /\ sh'.pending \in {sh.pending, None}
  /\ UNCHANGED histVars \/ (sh.pending = None /\ Dismiss /\ Away(sh'.closed))

\* Nothing is sent, or there is nothing to send.
Idles ==
  /\ Calm /\ Still /\ UNCHANGED <<fresh, histVars>>
  /\ Same \/ (sh.task = None /\ Away(None))

TurnsAway ==
  /\ Calm /\ UNCHANGED fresh /\ sh.pending = None
  /\ Dismiss /\ Away(Closing(sh))
  /\ Still \/ (Closing(sh) # None /\ Send(outPipe, About("abort", Closing(sh))))

Rejects ==
  /\ Calm /\ UNCHANGED fresh /\ sh.pending = None /\ sh.approval # None
  /\ Dismiss /\ Away(FirstSet(sh.task, None, sh.clarification))
  /\ Send(outPipe, Ask("rejected", sh.approval))

Begins(t) ==
  /\ Calm /\ UNCHANGED histVars /\ sh.approval = None /\ sh.clarification = None /\ sh.pending = None
  /\ t \in fresh /\ fresh' = fresh \ {t}
  /\ sh'.task = t /\ sh'.closed = None /\ sh'.approval = sh.approval
  /\ sh'.clarification = sh.clarification /\ sh'.pending = sh.pending
  /\ Send(outPipe, About("start", t))

Replies ==
  /\ Calm /\ UNCHANGED <<fresh, histVars>> /\ sh.approval = None /\ sh.clarification # None
  /\ sh'.task = sh.clarification /\ sh'.closed = sh.closed /\ sh'.approval = sh.approval
  /\ sh'.clarification = None /\ sh'.pending = sh.pending
  /\ Send(outPipe, About("reply", sh.clarification))

Agreed(op) ==
  /\ Calm /\ UNCHANGED <<fresh, histVars>> /\ sh.approval # None /\ sh.pending = None
  /\ sh'.task = sh.task /\ sh'.closed = sh.closed /\ sh'.approval = None
  /\ sh'.clarification = sh.clarification /\ sh'.pending = sh.approval /\ sh'.busy
  /\ Send(outPipe, Ask(op, sh.approval))

Acks ==
  /\ Calm /\ UNCHANGED <<fresh, histVars>> /\ sh.pending # None
  /\ sh'.task = sh.task /\ sh'.closed = sh.closed /\ sh'.approval = sh.approval
  /\ sh'.clarification = sh.clarification /\ sh'.pending = None
  /\ Send(outPipe, Ask("ack", sh.pending))

\* A line of the helper is read.
Reads(e) ==
  /\ Calm /\ UNCHANGED fresh /\ sh.pending = None
  /\ outPipe # <<>> /\ e = Head(outPipe)

Hears(e) ==
  /\ Reads(e) /\ Quiet /\ outPipe' = Tail(outPipe)
  /\ e.event # "started" /\ UNCHANGED histVars /\ Same
  /\ Ends(e) => Ignores(sh, e.task)

Starts(e) ==
  /\ Reads(e) /\ Quiet /\ outPipe' = Tail(outPipe)
  /\ e.event = "started" /\ confirmed' = confirmed \cup {e.task} /\ UNCHANGED <<dismissed, confused>>
  /\ sh'.task = e.task /\ sh'.closed = sh.closed /\ sh'.approval = sh.approval
  /\ sh'.clarification = sh.clarification /\ sh'.pending = sh.pending

\* The line is about a task that the shell takes up.
Takes(e) ==
  /\ Reads(e) /\ UNCHANGED histVars /\ ~Ignores(sh, e.task)
  /\ e.event # "started"

TakesTask(e) ==
  /\ Takes(e) /\ Quiet /\ outPipe' = Tail(outPipe)
  /\ ~Ends(e) /\ ~GivesTurn(e) /\ sh.task = None
  /\ sh'.task = e.task /\ sh'.closed = sh.closed /\ sh'.approval = sh.approval
  /\ sh'.clarification = sh.clarification /\ sh'.pending = sh.pending

TakesQuestion(e) ==
  /\ Takes(e) /\ Quiet /\ outPipe' = Tail(outPipe) /\ e.event = "question"
  /\ sh'.task = e.task /\ sh'.closed = sh.closed /\ sh'.approval = sh.approval
  /\ sh'.clarification = e.task /\ sh'.pending = sh.pending

TakesProposal(e) ==
  /\ Takes(e) /\ e.event = "proposal" /\ sh'.closed = sh.closed
  /\ sh'.clarification = sh.clarification
  /\ \/ /\ Quiet /\ outPipe' = Tail(outPipe) /\ e.gate
        /\ sh'.task = e.task /\ sh'.approval = [task |-> e.task, round |-> e.round]
        /\ sh'.pending = sh.pending
     \/ /\ Quiet /\ outPipe' = Tail(outPipe) /\ ~e.gate
        /\ sh'.task = e.task /\ sh'.approval = sh.approval
        /\ sh'.pending = [task |-> e.task, round |-> e.round] /\ sh'.busy
     \/ /\ sh'.task = None /\ sh'.approval = sh.approval /\ sh'.pending = sh.pending
        /\ Send(Tail(outPipe), About("abort", e.task))

TakesEnd(e) ==
  /\ Takes(e) /\ Quiet /\ outPipe' = Tail(outPipe) /\ Ends(e)
  /\ \E x \in {Closing(sh), e.task} : Away(x) /\ (e.event = "complete" => x = Closing(sh))
                                     /\ (x # Closing(sh) => sh.task = None)

LEMMA FieldsOfMarkClosed ==
  ASSUME NEW g \in Globals
  PROVE  /\ MarkClosed(g).task = None /\ MarkClosed(g).clarification = None
         /\ MarkClosed(g).approval = None /\ MarkClosed(g).pending = g.pending
         /\ MarkClosed(g).closed = IF Closing(g) # None THEN Closing(g) ELSE g.closed
         /\ MarkClosed(g).busy = g.busy /\ MarkClosed(g).session = g.session
         /\ MarkClosed(g).prompt = g.prompt
  BY DEF MarkClosed, Globals

LEMMA FieldsOfRedraw ==
  ASSUME NEW g \in Globals
  PROVE  /\ \A h \in {ExitPrompt(g), Redraw(g)} :
              /\ h.task = g.task /\ h.clarification = g.clarification
              /\ h.approval = g.approval /\ h.pending = g.pending
              /\ h.closed = g.closed /\ h.busy = g.busy
         /\ ExitSession(g).task = None /\ ExitSession(g).clarification = None
         /\ ExitSession(g).approval = None /\ ExitSession(g).pending = g.pending
         /\ ExitSession(g).closed = g.closed /\ ExitSession(g).busy = g.busy
         /\ Decided(g).task = g.task /\ Decided(g).clarification = g.clarification
         /\ Decided(g).approval = None /\ Decided(g).pending = g.pending
         /\ Decided(g).closed = g.closed /\ Decided(g).busy = g.busy
  BY DEF Redraw, ExitPrompt, ExitSession, Decided, Globals

LEMMA FieldsOfRunApproved ==
  ASSUME NEW g \in Globals, NEW c \in Command
  PROVE  LET h == RunApproved(g, c) IN
         /\ h.task = g.task /\ h.clarification = g.clarification
         /\ h.approval = g.approval /\ h.pending = c
         /\ h.closed = g.closed /\ h.busy
  BY DEF RunApproved, Globals
-----------------------------------------------------------------------------
(* Every step is of one of these kinds. *)

\* The globals are what they should be.
Sound == sh \in Globals /\ (sh.pending # None => sh.busy)

\* What a letting go of the active task g is made of.
LetsGo(g) ==
  /\ g \in Globals /\ g.task = None /\ g.approval = None /\ g.clarification = None
  /\ g.closed = IF Closing(sh) # None THEN Closing(sh) ELSE sh.closed
  /\ g.pending = sh.pending

LEMMA DeliverShape ==
  ASSUME AdapterTypeOK, NEW rest, NEW msg, NEW good, NEW bad, DeliverBefore(rest, msg, good, bad)
  PROVE  \/ sh' = good /\ Send(rest, msg)
         \/ sh' = bad /\ Cut
  BY DEF DeliverBefore, Send, Cut, HelperStarts, HelperFails, AdapterTypeOK

LEMMA ClosingAt ==
  ASSUME sh \in Globals
  PROVE  /\ sh.task # None => Closing(sh) = sh.task
         /\ Closing(sh) \in {None, sh.task, ApprovalTask(sh), sh.clarification}
         /\ Closing(sh) \in Task \cup {None}
         /\ sh.approval # None => ApprovalTask(sh) = sh.approval.task
  BY DEF Closing, FirstSet, ApprovalTask, Globals, Command

LEMMA AwayIsFailure ==
  ASSUME sh \in Globals, NEW g, LetsGo(g), sh' = g
  PROVE  /\ Away(Closing(sh))
         /\ sh'.closed = IF Closing(sh) # None THEN Closing(sh) ELSE sh.closed
         /\ sh'.closed \in {sh.closed, sh.task, ApprovalTask(sh), sh.clarification}
         /\ Away(sh'.closed)
  BY ClosingAt DEF LetsGo, Away

LEMMA AbandonShape ==
  ASSUME AdapterTypeOK, Wired, AtLine, NEW g, LetsGo(g), AbandonTask(g)
  PROVE  Sound' /\ (TurnsAway \/ Fails)
<1>1. sh \in Globals /\ sh.pending = None
  BY DEF AdapterTypeOK, Wired, AtLine
<1>2. Calm /\ fresh' = fresh /\ Dismiss
  BY DEF AbandonTask, Calm
<1>3. sh' = g
  BY DeliverShape DEF AbandonTask, Deliver
<1>4. Away(Closing(sh)) /\ sh'.closed \in {sh.closed, sh.task, ApprovalTask(sh), sh.clarification}
      /\ Away(sh'.closed)
  BY <1>1, <1>3, AwayIsFailure
<1>5. Sound'
  BY <1>1, <1>3 DEF Sound, LetsGo
<1>6. CASE sh.task = None
  BY <1>1, <1>2, <1>4, <1>5, <1>6 DEF AbandonTask, TurnsAway, Still
<1>7. CASE sh.task # None
  <2>1. Closing(sh) = sh.task
    BY <1>1, <1>7, ClosingAt
  <2>2. Send(outPipe, About("abort", sh.task)) \/ Cut
    BY <1>7, DeliverShape DEF AbandonTask, Deliver
  <2>3. CASE Send(outPipe, About("abort", sh.task))
    BY <1>1, <1>2, <1>4, <1>5, <1>7, <2>1, <2>3 DEF TurnsAway
  <2>4. CASE Cut
    BY <1>1, <1>2, <1>4, <1>5, <2>4 DEF Fails, Away, Calm
  <2> QED
    BY <2>2, <2>3, <2>4
<1> QED
  BY <1>6, <1>7

LEMMA MarkClosedLetsGo ==
  ASSUME sh \in Globals
  PROVE  LetsGo(MarkClosed(sh)) /\ LetsGo(Redraw(MarkClosed(sh))) /\ LetsGo(ExitPrompt(MarkClosed(sh)))
         /\ LetsGo(ExitSession(MarkClosed(sh))) /\ LetsGo(Reset(sh))
<1> DEFINE g == MarkClosed(sh)
<1>1. g \in Globals /\ LetsGo(g)
  BY MarkClosedTyped, FieldsOfMarkClosed DEF LetsGo
<1> HIDE DEF g
<1>2. LetsGo(Redraw(g)) /\ LetsGo(ExitPrompt(g)) /\ LetsGo(ExitSession(g))
  BY <1>1, RedrawTyped, FieldsOfRedraw DEF LetsGo
<1> QED
  BY <1>1, <1>2 DEF Reset, g

LEMMA LetsGoWith ==
  ASSUME NEW g, LetsGo(g), NEW h \in Globals,
         h.task = g.task, h.closed = g.closed, h.approval = g.approval,
         h.clarification = g.clarification, h.pending = g.pending
  PROVE  LetsGo(h)
  BY DEF LetsGo

LEMMA LineShape ==
  ASSUME AdapterTypeOK, Wired, QuestionMark \/ EnterSession \/ LeaveSession \/ RunTyped \/ Cancel
  PROVE  Sound' /\ (Idles \/ TurnsAway \/ Fails)
<1>1. sh \in Globals /\ sh.pending = None /\ AtLine
  BY DEF AdapterTypeOK, Wired, AtLine, QuestionMark, EnterSession, LeaveSession, RunTyped, Cancel
<1>2. LetsGo(MarkClosed(sh)) /\ LetsGo(Redraw(MarkClosed(sh))) /\ LetsGo(ExitPrompt(MarkClosed(sh)))
      /\ LetsGo(ExitSession(MarkClosed(sh)))
  BY <1>1, MarkClosedLetsGo
<1>3. ASSUME NEW g, LetsGo(g), NEW h \in Globals, h = [g EXCEPT !.prompt = TRUE]
                \/ h = [g EXCEPT !.session = TRUE, !.prompt = FALSE] \/ h = [g EXCEPT !.busy = TRUE]
      PROVE  LetsGo(h)
  <2>1. h.task = g.task /\ h.closed = g.closed /\ h.approval = g.approval
        /\ h.clarification = g.clarification /\ h.pending = g.pending
    BY <1>3 DEF LetsGo, Globals
  <2> QED
    BY <1>3, <2>1, LetsGoWith
<1>4. ASSUME NEW g \in Globals
      PROVE  /\ [g EXCEPT !.prompt = TRUE] \in Globals
             /\ [g EXCEPT !.session = TRUE, !.prompt = FALSE] \in Globals
             /\ [g EXCEPT !.busy = TRUE] \in Globals
  BY DEF Globals
<1>5. CASE QuestionMark
  <2>1. CASE sh.task # None \/ sh.waiting
    <3>1. LetsGo([MarkClosed(sh) EXCEPT !.prompt = TRUE]) /\ sh' = [MarkClosed(sh) EXCEPT !.prompt = TRUE]
      BY <1>2, <1>3, <1>4, <1>5, <2>1 DEF QuestionMark, LetsGo
    <3> QED
      BY <1>1, <1>5, <2>1, <3>1, AwayIsFailure DEF QuestionMark, TurnsAway, Calm, Still, Sound, LetsGo
  <2>2. CASE ~(sh.task # None \/ sh.waiting)
    <3>1. sh' = [sh EXCEPT !.prompt = TRUE]
          /\ Calm /\ Still /\ UNCHANGED <<fresh, histVars>>
      BY <1>5, <2>2 DEF QuestionMark, Calm, Still
    <3>2. Same /\ Sound'
      BY <1>1, <3>1 DEF Same, Sound, Globals
    <3> QED
      BY <3>1, <3>2 DEF Idles
  <2> QED
    BY <2>1, <2>2
<1>6. CASE EnterSession
  <2> DEFINE in(g) == [g EXCEPT !.session = TRUE, !.prompt = FALSE]
  <2>1. CASE sh.waiting
    <3>1. LetsGo(in(MarkClosed(sh)))
      BY <1>2, <1>3, <1>4 DEF LetsGo
    <3>2. AbandonTask(in(MarkClosed(sh)))
      BY <1>6, <2>1 DEF EnterSession
    <3> QED
      BY <1>1, <3>1, <3>2, AbandonShape
  <2>2. CASE ~sh.waiting
    <3>1. sh' = [sh EXCEPT !.session = TRUE, !.prompt = FALSE]
          /\ Calm /\ Still /\ UNCHANGED <<fresh, histVars>>
      BY <1>6, <2>2 DEF EnterSession, Calm, Still
    <3>2. Same /\ Sound'
      BY <1>1, <3>1 DEF Same, Sound, Globals
    <3> QED
      BY <3>1, <3>2 DEF Idles
  <2> QED
    BY <2>1, <2>2
<1>7. CASE LeaveSession
  <2>1. CASE sh.task # None \/ sh.waiting
    BY <1>1, <1>2, <1>7, <2>1, AbandonShape DEF LeaveSession
  <2>2. CASE ~(sh.task # None \/ sh.waiting)
    <3>1. sh' = ExitSession(sh) /\ Calm /\ Still /\ UNCHANGED <<fresh, histVars>> /\ sh.task = None
      BY <1>7, <2>2 DEF LeaveSession, Calm, Still
    <3>2. Away(None) /\ Sound'
      BY <1>1, <3>1, FieldsOfRedraw, RedrawTyped DEF Away, Sound
    <3> QED
      BY <3>1, <3>2 DEF Idles
  <2> QED
    BY <2>1, <2>2
<1>8. CASE RunTyped
  <2>1. LetsGo([Redraw(MarkClosed(sh)) EXCEPT !.busy = TRUE])
    BY <1>2, <1>3, <1>4 DEF LetsGo
  <2> QED
    BY <1>1, <1>8, <2>1, AbandonShape DEF RunTyped
<1>9. CASE Cancel
  <2> DEFINE g == IF sh.session THEN ExitSession(MarkClosed(sh)) ELSE ExitPrompt(MarkClosed(sh))
  <2>1. LetsGo(g)
    BY <1>2
  <2> HIDE DEF g
  <2>2. Dismiss /\ Calm /\ UNCHANGED fresh
        /\ IF Closing(sh) # None THEN Deliver(About("abort", Closing(sh)), g, g)
           ELSE sh' = g /\ UNCHANGED linkVars
    BY <1>9 DEF Cancel, Calm, g
  <2>3. sh' = g
    BY <2>2, DeliverShape DEF Deliver
  <2>4. Away(Closing(sh)) /\ Sound' /\ sh'.closed \in {sh.closed, sh.task, ApprovalTask(sh), sh.clarification}
        /\ Away(sh'.closed)
    BY <1>1, <2>1, <2>3, AwayIsFailure DEF Sound, LetsGo
  <2>5. CASE Closing(sh) = None
    BY <1>1, <2>2, <2>4, <2>5 DEF TurnsAway, Still
  <2>6. CASE Closing(sh) # None /\ Send(outPipe, About("abort", Closing(sh)))
    BY <1>1, <2>2, <2>4, <2>6 DEF TurnsAway
  <2>7. CASE Cut
    BY <1>1, <2>2, <2>4, <2>7 DEF Fails, Away, Calm
  <2> QED
    BY <2>2, <2>5, <2>6, <2>7, DeliverShape DEF Deliver
<1> QED
  BY <1>5, <1>6, <1>7, <1>8, <1>9

LEMMA RunLineShape ==
  ASSUME AdapterTypeOK, Wired, RunLine \/ Edit
  PROVE  Sound' /\ Idles
<1>1. sh \in Globals /\ sh.pending = None
  BY DEF AdapterTypeOK, Wired, AtLine, RunLine, Edit
<1>2. sh' = [sh EXCEPT !.busy = TRUE] \/ sh' = [sh EXCEPT !.editing = TRUE]
  BY DEF RunLine, Edit
<1>3. Same /\ Sound'
  BY <1>1, <1>2 DEF Same, Sound, Globals
<1> QED
  BY <1>3 DEF RunLine, Edit, Idles, Calm, Still

LEMMA StartShape ==
  ASSUME AdapterTypeOK, Wired, NEW t \in Task, StartTask(t)
  PROVE  Sound' /\ (Begins(t) \/ Fails)
<1> DEFINE good == [sh EXCEPT !.waiting = TRUE, !.task = t, !.acked = None, !.closed = None]
           quiet == [sh EXCEPT !.waiting = FALSE]
           bad == IF sh.session THEN quiet ELSE ExitPrompt(quiet)
<1>1. sh \in Globals /\ sh.pending = None /\ sh.approval = None /\ sh.clarification = None
      /\ t \in fresh /\ fresh' = fresh \ {t} /\ Calm /\ UNCHANGED histVars
  BY DEF AdapterTypeOK, Wired, AtLine, StartTask, Calm
<1>2. /\ good \in Globals /\ good.task = t /\ good.closed = None
      /\ good.approval = sh.approval /\ good.clarification = sh.clarification
      /\ good.pending = sh.pending
  BY <1>1 DEF Globals
<1>3. /\ quiet \in Globals /\ quiet.task = sh.task /\ quiet.closed = sh.closed
      /\ quiet.approval = sh.approval /\ quiet.clarification = sh.clarification
      /\ quiet.pending = sh.pending
  BY <1>1 DEF Globals
<1>4. Deliver(About("start", t), good, bad)
  BY DEF StartTask
<1> HIDE DEF good, quiet
<1>5. /\ bad \in Globals /\ bad.task = sh.task /\ bad.closed = sh.closed
      /\ bad.approval = sh.approval /\ bad.clarification = sh.clarification
      /\ bad.pending = sh.pending
  BY <1>3, RedrawTyped, FieldsOfRedraw
<1> HIDE DEF bad
<1>6. CASE sh' = good /\ Send(outPipe, About("start", t))
  BY <1>1, <1>2, <1>6 DEF Begins, Sound
<1>7. CASE sh' = bad /\ Cut
  BY <1>1, <1>5, <1>7 DEF Fails, Sound
<1> QED
  BY <1>4, <1>6, <1>7, DeliverShape DEF Deliver

LEMMA ReplyShape ==
  ASSUME AdapterTypeOK, Wired, Reply
  PROVE  Sound' /\ (Replies \/ Fails)
<1> DEFINE t == sh.clarification
           good == [sh EXCEPT !.task = t, !.clarification = None, !.waiting = TRUE]
           g == [sh EXCEPT !.task = t, !.clarification = None]
           h == [MarkClosed(g) EXCEPT !.task = None, !.waiting = FALSE]
           bad == Redraw(h)
<1>1. sh \in Globals /\ sh.pending = None /\ sh.approval = None /\ t # None /\ t \in Task
      /\ Calm /\ UNCHANGED <<fresh, histVars>>
  BY DEF AdapterTypeOK, Wired, AtLine, Reply, Calm, Globals
<1>2. /\ good \in Globals /\ good.task = t /\ good.closed = sh.closed
      /\ good.approval = sh.approval /\ good.clarification = None
      /\ good.pending = sh.pending
  BY <1>1 DEF Globals
<1>3. /\ g \in Globals /\ g.task = t /\ g.closed = sh.closed
      /\ g.approval = sh.approval /\ g.pending = sh.pending
  BY <1>1 DEF Globals
<1>4. Deliver(About("reply", t), good, bad)
  BY DEF Reply
<1> HIDE DEF good, g
<1>5. Closing(g) = t
  BY <1>1, <1>3 DEF Closing, FirstSet
<1>6. /\ h \in Globals /\ h.task = None /\ h.closed = t /\ h.approval = None
      /\ h.clarification = None /\ h.pending = sh.pending
  <2>1. MarkClosed(g) \in Globals /\ MarkClosed(g).closed = t /\ MarkClosed(g).approval = None
        /\ MarkClosed(g).clarification = None /\ MarkClosed(g).pending = sh.pending
    BY <1>1, <1>3, <1>5, MarkClosedTyped, FieldsOfMarkClosed
  <2> QED
    BY <2>1 DEF Globals
<1> HIDE DEF h
<1>7. /\ bad \in Globals /\ bad.task = None /\ bad.closed = t /\ bad.approval = None
      /\ bad.clarification = None /\ bad.pending = sh.pending
  BY <1>6, RedrawTyped, FieldsOfRedraw
<1> HIDE DEF bad
<1>8. CASE sh' = good /\ Send(outPipe, About("reply", t))
  BY <1>1, <1>2, <1>8 DEF Replies, Sound
<1>9. CASE sh' = bad /\ Cut
  BY <1>1, <1>7, <1>9 DEF Fails, Sound
<1> QED
  BY <1>4, <1>8, <1>9, DeliverShape DEF Deliver

LEMMA DecisionShape ==
  ASSUME AdapterTypeOK, Wired, Approve \/ FinishEdit
  PROVE  Sound' /\ ((\E op \in {"approved", "edited"} : Agreed(op)) \/ Fails)
<1> DEFINE g == Decided(sh)
           good == RunApproved(g, sh.approval)
           bad == Reset(g)
<1>1. sh \in Globals /\ sh.pending = None /\ sh.approval # None /\ sh.approval \in Command
      /\ Calm /\ UNCHANGED <<fresh, histVars>>
  BY DEF AdapterTypeOK, Wired, AtLine, Approve, FinishEdit, Box, Calm, Globals
<1>2. PICK op \in {"approved", "edited"} : Deliver(Ask(op, sh.approval), good, bad)
  BY DEF Approve, FinishEdit
<1>3. /\ g \in Globals /\ g.task = sh.task /\ g.closed = sh.closed /\ g.approval = None
      /\ g.clarification = sh.clarification /\ g.pending = sh.pending
  BY <1>1, RedrawTyped, FieldsOfRedraw
<1> HIDE DEF g
<1>4. /\ good \in Globals /\ good.task = sh.task /\ good.closed = sh.closed
      /\ good.approval = None /\ good.clarification = sh.clarification
      /\ good.pending = sh.approval /\ good.busy
  BY <1>1, <1>3, RunApprovedTyped, FieldsOfRunApproved
<1>5. /\ bad \in Globals /\ bad.task = None /\ bad.approval = None /\ bad.clarification = None
      /\ bad.pending = None /\ bad.closed \in {sh.closed, sh.task, ApprovalTask(sh), sh.clarification}
  <2>1. Closing(g) \in {None, sh.task, sh.clarification}
    BY <1>3 DEF Closing, FirstSet, ApprovalTask
  <2>2. /\ MarkClosed(g) \in Globals /\ MarkClosed(g).task = None /\ MarkClosed(g).approval = None
        /\ MarkClosed(g).clarification = None /\ MarkClosed(g).pending = None
        /\ MarkClosed(g).closed \in {sh.closed, sh.task, ApprovalTask(sh), sh.clarification}
    BY <1>1, <1>3, <2>1, MarkClosedTyped, FieldsOfMarkClosed
  <2> QED
    BY <2>2, RedrawTyped, FieldsOfRedraw DEF Reset
<1> HIDE DEF good, bad
<1>6. CASE sh' = good /\ Send(outPipe, Ask(op, sh.approval))
  BY <1>1, <1>4, <1>6 DEF Agreed, Sound
<1>7. CASE sh' = bad /\ Cut
  BY <1>1, <1>5, <1>7 DEF Fails, Sound
<1> QED
  BY <1>2, <1>6, <1>7, DeliverShape DEF Deliver

LEMMA RejectShape ==
  ASSUME AdapterTypeOK, Wired, Reject
  PROVE  Sound' /\ (Rejects \/ Fails)
<1> DEFINE g == Decided(sh)
           good == Redraw(MarkClosed(g))
<1>1. sh \in Globals /\ sh.pending = None /\ sh.approval # None
      /\ Calm /\ UNCHANGED fresh /\ Dismiss
  BY DEF AdapterTypeOK, Wired, AtLine, Reject, Calm
<1>2. Deliver(Ask("rejected", sh.approval), good, Reset(sh))
  BY DEF Reject
<1>3. /\ g \in Globals /\ g.task = sh.task /\ g.closed = sh.closed /\ g.approval = None
      /\ g.clarification = sh.clarification /\ g.pending = sh.pending
  BY <1>1, RedrawTyped, FieldsOfRedraw
<1> HIDE DEF g
<1>4. Closing(g) = FirstSet(sh.task, None, sh.clarification)
  BY <1>3 DEF Closing, FirstSet, ApprovalTask
<1>5. /\ good \in Globals /\ good.task = None /\ good.approval = None
      /\ good.clarification = None /\ good.pending = sh.pending
      /\ good.closed = LET x == FirstSet(sh.task, None, sh.clarification) IN
                       IF x # None THEN x ELSE sh.closed
  <2>1. /\ MarkClosed(g) \in Globals /\ MarkClosed(g).task = None /\ MarkClosed(g).approval = None
        /\ MarkClosed(g).clarification = None /\ MarkClosed(g).pending = sh.pending
        /\ MarkClosed(g).closed = LET x == FirstSet(sh.task, None, sh.clarification) IN
                                  IF x # None THEN x ELSE sh.closed
    BY <1>1, <1>3, <1>4, MarkClosedTyped, FieldsOfMarkClosed
  <2> QED
    BY <2>1, RedrawTyped, FieldsOfRedraw
<1> HIDE DEF good
<1>6. CASE sh' = good /\ Send(outPipe, Ask("rejected", sh.approval))
  BY <1>1, <1>5, <1>6 DEF Rejects, Away, Sound
<1>7. CASE sh' = Reset(sh) /\ Cut
  <2>1. LetsGo(Reset(sh))
    BY <1>1, MarkClosedLetsGo
  <2>2. /\ sh'.closed \in {sh.closed, sh.task, ApprovalTask(sh), sh.clarification}
        /\ Away(sh'.closed)
    BY <1>1, <1>7, <2>1, AwayIsFailure
  <2>3. Sound'
    BY <1>1, <1>7, <2>1 DEF Sound, LetsGo
  <2> QED
    BY <1>1, <1>7, <2>2, <2>3 DEF Fails, Away
<1> QED
  BY <1>2, <1>6, <1>7, DeliverShape DEF Deliver

LEMMA PrecmdShape ==
  ASSUME AdapterTypeOK, Wired, Acknowledge \/ FinishCommand
  PROVE  Sound' /\ (Acks \/ Idles \/ Fails)
<1>1. sh \in Globals
  BY DEF AdapterTypeOK
<1>2. CASE Acknowledge
  <2> DEFINE over == [sh EXCEPT !.busy = FALSE, !.pending = None]
             good == [over EXCEPT !.acked = PendingTask(sh), !.waiting = TRUE]
             h == [over EXCEPT !.acked = None, !.waiting = FALSE, !.task = None]
  <2>1. sh.pending # None /\ Calm /\ UNCHANGED <<fresh, histVars>>
        /\ Deliver(Ask("ack", sh.pending), good, Redraw(h))
    BY <1>2 DEF Acknowledge, Calm
  <2>2. PendingTask(sh) \in Task \cup {None}
    BY <1>1 DEF PendingTask, Globals, Command
  <2>3. /\ over \in Globals /\ over.task = sh.task /\ over.closed = sh.closed
        /\ over.approval = sh.approval /\ over.clarification = sh.clarification /\ over.pending = None
    BY <1>1 DEF Globals
  <2> HIDE DEF over
  <2>4. /\ good \in Globals /\ good.task = sh.task /\ good.closed = sh.closed
        /\ good.approval = sh.approval /\ good.clarification = sh.clarification /\ good.pending = None
    BY <2>2, <2>3 DEF Globals
  <2>5. /\ h \in Globals /\ h.task = None /\ h.closed = sh.closed
        /\ h.approval = sh.approval /\ h.clarification = sh.clarification /\ h.pending = None
    BY <2>3 DEF Globals
  <2> HIDE DEF good, h
  <2>6. CASE sh' = good /\ Send(outPipe, Ask("ack", sh.pending))
    BY <2>1, <2>4, <2>6 DEF Acks, Sound
  <2>7. CASE sh' = Redraw(h) /\ Cut
    BY <2>1, <2>5, <2>7, RedrawTyped, FieldsOfRedraw DEF Fails, Sound
  <2> QED
    BY <2>1, <2>6, <2>7, DeliverShape DEF Deliver
<1>3. CASE FinishCommand
  <2>1. sh' = [sh EXCEPT !.busy = FALSE] /\ Calm /\ UNCHANGED <<fresh, histVars>> /\ sh.pending = None
    BY <1>3 DEF FinishCommand, Reconnect, Calm
  <2>2. Same /\ Sound'
    BY <1>1, <2>1 DEF Same, Sound, Globals
  <2>3. Still \/ Cut
    BY <1>3 DEF FinishCommand, Reconnect, Still, Cut, HelperStarts, HelperFails
  <2> QED
    BY <2>1, <2>2, <2>3 DEF Idles, Fails, Same
<1> QED
  BY <1>2, <1>3

\* The first line of what the helper wrote, and the globals that give up the task.
LEMMA HeadTyped ==
  ASSUME AdapterTypeOK, Wired, outPipe # <<>>
  PROVE  /\ Head(outPipe) \in Event /\ From = Head(outPipe).task /\ From \in Task
         /\ Tail(outPipe) \in Seq(Event)
         /\ Head(outPipe).event = "proposal" => Head(outPipe).round \in 1..MaxRounds
<1>1. outPipe \in Seq(Event) /\ outPipe # <<>>
  BY DEF AdapterTypeOK
<1>2. Head(outPipe) = outPipe[1] /\ 1 \in DOMAIN outPipe /\ outPipe[1] \in Event
  BY <1>1
<1>3. Tail(outPipe) \in Seq(Event)
  BY <1>1
<1> QED
  BY <1>2, <1>3 DEF Wired, From, Event

LEMMA LineReadShape ==
  ASSUME AdapterTypeOK, Wired, OnStarted \/ OnText \/ OnError \/ OnQuestion
  PROVE  Sound' /\ LET e == Head(outPipe) IN Hears(e) \/ Starts(e) \/ TakesTask(e) \/ TakesQuestion(e)
<1> DEFINE e == Head(outPipe)
<1>1. outPipe # <<>> /\ sh \in Globals /\ sh.pending = None
      /\ Calm /\ UNCHANGED fresh /\ Quiet /\ outPipe' = Tail(outPipe)
  BY DEF AdapterTypeOK, Wired, AtLine, OnStarted, OnText, OnError, OnQuestion, Receive, Calm
<1>2. From \in Task /\ From = e.task /\ Reads(e)
  BY <1>1, HeadTyped DEF Reads
<1> HIDE DEF e
<1>3. ASSUME sh' = [sh EXCEPT !.task = From]
      PROVE  /\ Sound' /\ sh'.task = e.task /\ sh'.closed = sh.closed /\ sh'.approval = sh.approval
             /\ sh'.clarification = sh.clarification /\ sh'.pending = sh.pending
  BY <1>1, <1>2, <1>3 DEF Sound, Globals
<1>4. ASSUME sh' = sh \/ sh' = [sh EXCEPT !.waiting = FALSE]
      PROVE  Sound' /\ Same
  BY <1>1, <1>4 DEF Sound, Same, Globals
<1>5. CASE OnStarted
  <2>1. sh' = [sh EXCEPT !.task = From] /\ e.event = "started"
        /\ confirmed' = confirmed \cup {e.task} /\ UNCHANGED <<dismissed, confused>>
    BY <1>2, <1>5 DEF OnStarted, Receive, e
  <2> QED
    BY <1>1, <1>2, <1>3, <2>1 DEF Starts, e
<1>6. CASE OnText \/ OnError
  <2>1. e.event \in {"text", "error"} /\ UNCHANGED histVars
    BY <1>6 DEF OnText, OnError, Receive, e
  <2>2. sh' = sh \/ (sh' = [sh EXCEPT !.task = From] /\ ~Ignores(sh, e.task) /\ sh.task = None)
    BY <1>2, <1>6 DEF OnText, OnError
  <2>3. CASE sh' = sh
    BY <1>1, <1>2, <1>4, <2>1, <2>3 DEF Hears, Ends, e
  <2>4. CASE sh' = [sh EXCEPT !.task = From] /\ ~Ignores(sh, e.task) /\ sh.task = None
    BY <1>1, <1>2, <1>3, <2>1, <2>4 DEF TakesTask, Takes, Ends, GivesTurn, e
  <2> QED
    BY <2>2, <2>3, <2>4
<1>7. CASE OnQuestion
  <2>1. e.event = "question" /\ UNCHANGED histVars
    BY <1>7 DEF OnQuestion, Receive, e
  <2>2. CASE Ignores(sh, From)
    <3>1. sh' = [sh EXCEPT !.waiting = FALSE]
      BY <1>7, <2>2 DEF OnQuestion
    <3> QED
      BY <1>1, <1>2, <1>4, <2>1, <3>1 DEF Hears, Ends, e
  <2>3. CASE ~Ignores(sh, From)
    <3>1. sh' = [sh EXCEPT !.waiting = FALSE, !.task = From, !.clarification = From,
                           !.prompt = IF sh.session THEN @ ELSE TRUE]
      BY <1>7, <2>3 DEF OnQuestion
    <3>2. /\ Sound' /\ sh'.task = From /\ sh'.closed = sh.closed /\ sh'.approval = sh.approval
          /\ sh'.clarification = From /\ sh'.pending = sh.pending
      BY <1>1, <1>2, <3>1 DEF Sound, Globals
    <3> QED
      BY <1>1, <1>2, <2>1, <2>3, <3>2 DEF TakesQuestion, Takes, e
  <2> QED
    BY <2>2, <2>3
<1> QED
  BY <1>5, <1>6, <1>7 DEF e

LEMMA ProposalShape ==
  ASSUME AdapterTypeOK, Wired, OnProposal
  PROVE  Sound' /\ LET e == Head(outPipe) IN Hears(e) \/ TakesProposal(e) \/ Fails
<1> DEFINE e == Head(outPipe)
           cmd == [task |-> From, round |-> e.round]
           heard == [sh EXCEPT !.waiting = FALSE]
           shown == [heard EXCEPT !.task = From]
<1>1. outPipe # <<>> /\ sh \in Globals /\ sh.pending = None /\ e.event = "proposal"
      /\ Calm /\ UNCHANGED <<fresh, histVars>>
  BY DEF AdapterTypeOK, Wired, AtLine, OnProposal, Calm
<1>2. From \in Task /\ From = e.task /\ Reads(e) /\ cmd \in Command
  BY <1>1, HeadTyped DEF Reads, Command
<1>3. \/ Ignores(sh, From) /\ sh' = heard /\ outPipe' = Tail(outPipe) /\ Quiet
      \/ /\ ~Ignores(sh, From)
         /\ \/ /\ e.gate /\ sh' = [shown EXCEPT !.approval = cmd, !.editing = FALSE]
               /\ outPipe' = Tail(outPipe) /\ Quiet
            \/ ~e.gate /\ sh' = RunApproved(shown, cmd) /\ outPipe' = Tail(outPipe) /\ Quiet
            \/ DeliverBefore(Tail(outPipe), About("abort", From), Redraw([shown EXCEPT !.task = None]),
                             Redraw(MarkClosed(shown)))
  BY DEF OnProposal
<1> HIDE DEF e, cmd
<1>4. /\ heard \in Globals /\ heard.task = sh.task /\ heard.closed = sh.closed
      /\ heard.approval = sh.approval /\ heard.clarification = sh.clarification
      /\ heard.pending = sh.pending
  BY <1>1 DEF Globals
<1> HIDE DEF heard
<1>5. /\ shown \in Globals /\ shown.task = From /\ shown.closed = sh.closed
      /\ shown.approval = sh.approval /\ shown.clarification = sh.clarification
      /\ shown.pending = sh.pending
  BY <1>2, <1>4 DEF Globals
<1> HIDE DEF shown
<1>6. CASE Ignores(sh, From) /\ sh' = heard /\ outPipe' = Tail(outPipe) /\ Quiet
  BY <1>1, <1>2, <1>4, <1>6 DEF Hears, Ends, Sound, Same, e
<1>7. CASE /\ ~Ignores(sh, From)
           /\ e.gate /\ sh' = [shown EXCEPT !.approval = cmd, !.editing = FALSE]
           /\ outPipe' = Tail(outPipe) /\ Quiet
  <2>1. /\ sh' \in Globals /\ sh'.task = From /\ sh'.closed = sh.closed /\ sh'.approval = cmd
        /\ sh'.clarification = sh.clarification /\ sh'.pending = None
    BY <1>1, <1>2, <1>5, <1>7 DEF Globals
  <2> QED
    BY <1>1, <1>2, <1>7, <2>1 DEF TakesProposal, Takes, Sound, cmd, e
<1>8. CASE /\ ~Ignores(sh, From)
           /\ ~e.gate /\ sh' = RunApproved(shown, cmd) /\ outPipe' = Tail(outPipe) /\ Quiet
  <2>1. /\ sh' \in Globals /\ sh'.task = From /\ sh'.closed = sh.closed /\ sh'.approval = sh.approval
        /\ sh'.clarification = sh.clarification /\ sh'.pending = cmd /\ sh'.busy
    BY <1>1, <1>2, <1>5, <1>8, RunApprovedTyped, FieldsOfRunApproved
  <2> QED
    BY <1>1, <1>2, <1>8, <2>1 DEF TakesProposal, Takes, Sound, cmd, e
<1>9. CASE ~Ignores(sh, From) /\ DeliverBefore(Tail(outPipe), About("abort", From),
                Redraw([shown EXCEPT !.task = None]), Redraw(MarkClosed(shown)))
  <2> DEFINE good == [shown EXCEPT !.task = None]
  <2>1. /\ good \in Globals /\ good.task = None /\ good.closed = sh.closed /\ good.approval = sh.approval
        /\ good.clarification = sh.clarification /\ good.pending = None
    BY <1>1, <1>5 DEF Globals
  <2> HIDE DEF good
  <2>2. CASE sh' = Redraw(good) /\ Send(Tail(outPipe), About("abort", From))
    <3>1. /\ sh' \in Globals /\ sh'.task = None /\ sh'.closed = sh.closed /\ sh'.approval = sh.approval
          /\ sh'.clarification = sh.clarification /\ sh'.pending = None
      BY <2>1, <2>2, RedrawTyped, FieldsOfRedraw
    <3> QED
      BY <1>1, <1>2, <1>9, <2>2, <3>1 DEF TakesProposal, Takes, Sound, e
  <2>3. CASE sh' = Redraw(MarkClosed(shown)) /\ Cut
    <3>1. sh'.closed = From /\ Sound' /\ sh'.task = None /\ sh'.approval = None
          /\ sh'.clarification = None /\ sh'.pending = None
      <4>1. Closing(shown) = From
        BY <1>2, <1>5, NoneAssumption DEF Closing, FirstSet
      <4>2. /\ MarkClosed(shown) \in Globals /\ MarkClosed(shown).closed = From
            /\ MarkClosed(shown).task = None /\ MarkClosed(shown).approval = None
            /\ MarkClosed(shown).clarification = None /\ MarkClosed(shown).pending = None
        BY <1>1, <1>2, <1>5, <4>1, MarkClosedTyped, FieldsOfMarkClosed, NoneAssumption
      <4> QED
        BY <2>3, <4>2, RedrawTyped, FieldsOfRedraw DEF Cut, Sound
    <3> QED
      BY <1>1, <1>2, <2>3, <3>1 DEF Fails, e
  <2> QED
    BY <1>9, <2>2, <2>3, DeliverShape DEF good
<1> QED
  BY <1>3, <1>6, <1>7, <1>8, <1>9 DEF e

LEMMA EndShape ==
  ASSUME AdapterTypeOK, Wired, OnComplete \/ OnBadProtocol
  PROVE  Sound' /\ LET e == Head(outPipe) IN Hears(e) \/ TakesEnd(e)
<1> DEFINE e == Head(outPipe)
<1>1. outPipe # <<>> /\ sh \in Globals /\ sh.pending = None /\ Ends(e)
      /\ Calm /\ UNCHANGED <<fresh, histVars>> /\ Quiet /\ outPipe' = Tail(outPipe)
  BY DEF AdapterTypeOK, Wired, AtLine, OnComplete, OnBadProtocol, Receive, Calm, Ends
<1>2. From \in Task /\ From = e.task /\ Reads(e)
  BY <1>1, HeadTyped DEF Reads
<1>3. CASE Ignores(sh, From)
  <2>1. sh' = sh
    BY <1>3 DEF OnComplete, OnBadProtocol
  <2> QED
    BY <1>1, <1>2, <1>3, <2>1 DEF Hears, Ends, Sound, Same
<1>4. CASE ~Ignores(sh, From) /\ OnComplete
  <2>1. sh' = Redraw(MarkClosed(sh)) /\ e.event = "complete"
    BY <1>4 DEF OnComplete, Receive
  <2>2. Away(Closing(sh)) /\ Sound'
    BY <1>1, <2>1, MarkClosedLetsGo, AwayIsFailure DEF Sound, LetsGo
  <2> QED
    BY <1>1, <1>2, <1>4, <2>1, <2>2 DEF TakesEnd, Takes, Ends
<1>5. CASE ~Ignores(sh, From) /\ OnBadProtocol
  <2> DEFINE g == [sh EXCEPT !.task = IF @ = None THEN From ELSE @]
  <2>1. sh' = Redraw(MarkClosed(g)) /\ e.event = "bad"
    BY <1>5 DEF OnBadProtocol, Receive
  <2>2. /\ g \in Globals /\ g.task = (IF sh.task = None THEN From ELSE sh.task) /\ g.closed = sh.closed
        /\ g.approval = sh.approval /\ g.clarification = sh.clarification /\ g.pending = sh.pending
    BY <1>1, <1>2 DEF Globals
  <2> HIDE DEF g
  <2>3. Closing(g) = (IF sh.task = None THEN From ELSE sh.task) /\ Closing(g) # None
    BY <1>2, <2>2, NoneAssumption DEF Closing, FirstSet
  <2>4. Away(Closing(g)) /\ Sound'
    <3>1. /\ MarkClosed(g) \in Globals /\ MarkClosed(g).closed = Closing(g)
          /\ MarkClosed(g).task = None /\ MarkClosed(g).approval = None
          /\ MarkClosed(g).clarification = None /\ MarkClosed(g).pending = sh.pending
      BY <2>2, <2>3, MarkClosedTyped, FieldsOfMarkClosed
    <3> QED
      BY <1>1, <2>1, <2>3, <3>1, RedrawTyped, FieldsOfRedraw DEF Away, Sound
  <2>5. Closing(g) \in {Closing(sh), From} /\ (Closing(g) # Closing(sh) => sh.task = None)
    BY <1>1, <2>3, ClosingAt
  <2> QED
    BY <1>1, <1>2, <1>5, <2>1, <2>4, <2>5 DEF TakesEnd, Takes, Ends
<1> QED
  BY <1>2, <1>3, <1>4, <1>5

LEMMA StepShape ==
  ASSUME AdapterTypeOK, Wired, [Next]_vars
  PROVE  /\ Sound'
         /\ LET e == Head(outPipe) IN
            \/ Idles \/ TurnsAway \/ Rejects \/ Replies \/ Acks \/ Fails
            \/ \E t \in Task : Begins(t)
            \/ \E op \in {"approved", "edited"} : Agreed(op)
            \/ Hears(e) \/ Starts(e) \/ TakesTask(e) \/ TakesQuestion(e) \/ TakesProposal(e) \/ TakesEnd(e)
            \/ Forward \/ HelperDies \/ ClearLost \/ Serve \/ \E t \in Task : Expire(t)
<1>1. CASE User
  BY <1>1, LineShape, RunLineShape, ReplyShape, DecisionShape, RejectShape, StartShape DEF User
<1>2. CASE Acknowledge \/ FinishCommand
  BY <1>2, PrecmdShape
<1>3. CASE HandleLine
  BY <1>3, LineReadShape, ProposalShape, EndShape DEF HandleLine
<1>4. ASSUME Forward \/ HelperDies \/ ClearLost \/ Serve \/ \E t \in Task : Expire(t)
      PROVE  Sound'
  <2>1. sh' = sh
    BY <1>4 DEF Forward, HelperDies, ClearLost, Serve, Expire, Answer, Turn
  <2> QED
    BY <2>1 DEF Sound, AdapterTypeOK, Wired
<1>5. CASE UNCHANGED vars
  <2>1. sh' = sh /\ Calm /\ Still /\ UNCHANGED <<fresh, histVars>>
    BY <1>5 DEF vars, coreVars, linkVars, histVars, Calm, Still
  <2> QED
    BY <2>1 DEF Idles, Same, Sound, AdapterTypeOK, Wired
<1> QED
  BY <1>1, <1>2, <1>3, <1>4, <1>5 DEF Next

-----------------------------------------------------------------------------
(* What the steps do to the messages and the events. *)

LEMMA SendEffect ==
  ASSUME AdapterTypeOK, Wired, NEW rest \in Seq(Event), NEW m \in Message, Send(rest, m)
  PROVE  /\ inPipe' \in Seq(Message) /\ inPipe' = Append(inPipe, m)
         /\ Len(inPipe) \in Nat /\ DOMAIN inPipe' = 1..(Len(inPipe) + 1) /\ DOMAIN inPipe = 1..Len(inPipe)
         /\ \A i \in 1..Len(inPipe) : inPipe'[i] = inPipe[i]
         /\ inPipe'[Len(inPipe) + 1] = m
         /\ outPipe' \in {rest, <<>>} /\ helper' = "up"
         /\ helper = "up" => outPipe' = rest
<1>1. inPipe \in Seq(Message) /\ (helper = "dead" => inPipe = <<>>)
  BY DEF AdapterTypeOK, Wired
<1>2. Append(<< >>, m) = <<m>>
  OBVIOUS
<1>3. inPipe' = Append(inPipe, m)
  BY <1>1, <1>2 DEF Send
<1> QED
  BY <1>1, <1>3 DEF Send

\* The first of a pipe is gone.
LEMMA TailEffect ==
  ASSUME NEW S, NEW s \in Seq(S), s # <<>>
  PROVE  /\ Tail(s) \in Seq(S) /\ Head(s) = s[1] /\ Head(s) \in S /\ 1 \in DOMAIN s
         /\ Len(s) \in Nat \ {0} /\ DOMAIN s = 1..Len(s) /\ DOMAIN Tail(s) = 1..(Len(s) - 1)
         /\ \A i \in 1..(Len(s) - 1) : Tail(s)[i] = s[i + 1]
  OBVIOUS

LEMMA ForwardEffect ==
  ASSUME AdapterTypeOK, Forward
  PROVE  LET m == Head(inPipe) IN
         /\ m \in Message /\ m = inPipe[1] /\ Len(inPipe) \in Nat \ {0}
         /\ inPipe' \in Seq(Message) /\ inbox' \in Seq(Message) /\ outPipe' \in Seq(Event)
         /\ DOMAIN inPipe = 1..Len(inPipe) /\ DOMAIN inPipe' = 1..(Len(inPipe) - 1)
         /\ \A i \in 1..(Len(inPipe) - 1) : inPipe'[i] = inPipe[i + 1]
         /\ Len(inbox) \in Nat /\ DOMAIN inbox = 1..Len(inbox) /\ DOMAIN inbox' = 1..(Len(inbox) + 1)
         /\ \A i \in 1..Len(inbox) : inbox'[i] = inbox[i]
         /\ inbox'[Len(inbox) + 1] = m
         /\ Len(outPipe) \in Nat /\ DOMAIN outPipe = 1..Len(outPipe)
         /\ m.op # "start" => outPipe' = outPipe
         /\ m.op = "start" =>
              /\ DOMAIN outPipe' = 1..(Len(outPipe) + 1)
              /\ \A i \in 1..Len(outPipe) : outPipe'[i] = outPipe[i]
              /\ outPipe'[Len(outPipe) + 1] =
                   [event |-> "started", task |-> m.task, round |-> 0, gate |-> FALSE]
         /\ sh' = sh /\ helper = "up" /\ helper' = helper
         /\ UNCHANGED <<entry, lost, expiries, fresh, deaths, histVars>>
<1> DEFINE m == Head(inPipe)
           e == [event |-> "started", task |-> m.task, round |-> 0, gate |-> FALSE]
<1>1. inPipe \in Seq(Message) /\ inPipe # <<>> /\ inbox \in Seq(Message) /\ outPipe \in Seq(Event)
  BY DEF AdapterTypeOK, Forward
<1>2. inPipe' = Tail(inPipe) /\ inbox' = Append(inbox, m)
      /\ outPipe' = IF m.op = "start" THEN Append(outPipe, e) ELSE outPipe
  BY DEF Forward
<1>3. m \in Message
  BY <1>1
<1>4. e \in Event
  BY <1>3 DEF Event, Message
<1>5. /\ inbox' \in Seq(Message) /\ Len(inbox) \in Nat /\ DOMAIN inbox = 1..Len(inbox)
      /\ DOMAIN inbox' = 1..(Len(inbox) + 1)
      /\ \A i \in 1..Len(inbox) : inbox'[i] = inbox[i]
      /\ inbox'[Len(inbox) + 1] = m
  BY <1>1, <1>2, <1>3
<1>6. /\ outPipe' \in Seq(Event) /\ Len(outPipe) \in Nat /\ DOMAIN outPipe = 1..Len(outPipe)
      /\ m.op = "start" =>
              /\ DOMAIN outPipe' = 1..(Len(outPipe) + 1)
              /\ \A i \in 1..Len(outPipe) : outPipe'[i] = outPipe[i]
              /\ outPipe'[Len(outPipe) + 1] = e
  BY <1>1, <1>2, <1>4
<1>7. /\ inPipe' \in Seq(Message) /\ m = inPipe[1] /\ Len(inPipe) \in Nat \ {0}
      /\ DOMAIN inPipe = 1..Len(inPipe) /\ DOMAIN inPipe' = 1..(Len(inPipe) - 1)
      /\ \A i \in 1..(Len(inPipe) - 1) : inPipe'[i] = inPipe[i + 1]
  BY <1>1, <1>2, TailEffect
<1>8. sh' = sh /\ helper = "up" /\ helper' = helper
      /\ UNCHANGED <<entry, lost, expiries, fresh, deaths, histVars>>
  BY DEF Forward
<1> QED
  BY <1>2, <1>3, <1>5, <1>6, <1>7, <1>8

\* An answer is one event that gives the user a turn, where a turn was asked for,
\* or one or two that do not.
Answers(m, ev) ==
  /\ ev \in Seq(Event) /\ Len(ev) \in {0, 1, 2}
  /\ \A i \in 1..Len(ev) :
       /\ ev[i].task = m.task /\ ev[i].event # "started"
       /\ ev[i].event = "proposal" => ev[i].round # 0
       /\ GivesTurn(ev[i]) => AsksTurn(m) /\ Len(ev) = 1

LEMMA AnswerEffect ==
  ASSUME AdapterTypeOK, inbox # <<>>, NEW e \in Entry \cup {None}, NEW ev,
         Answers(Head(inbox), ev), Answer(e, ev)
  PROVE  LET m == Head(inbox) IN
         /\ m \in Message /\ m = inbox[1] /\ Len(inbox) \in Nat \ {0}
         /\ inbox' \in Seq(Message) /\ outPipe' \in Seq(Event)
         /\ DOMAIN inbox = 1..Len(inbox) /\ DOMAIN inbox' = 1..(Len(inbox) - 1)
         /\ \A i \in 1..(Len(inbox) - 1) : inbox'[i] = inbox[i + 1]
         /\ Len(outPipe) \in Nat /\ DOMAIN outPipe = 1..Len(outPipe)
         /\ DOMAIN outPipe' = 1..(Len(outPipe) + Len(ev))
         /\ \A i \in 1..Len(outPipe) : outPipe'[i] = outPipe[i]
         /\ \A i \in 1..Len(ev) : outPipe'[Len(outPipe) + i] = ev[i]
         /\ entry' \in [Task -> Entry \cup {None}]
         /\ entry'[m.task] = e /\ \A t \in Task \ {m.task} : entry'[t] = entry[t]
         /\ UNCHANGED <<sh, helper, inPipe, lost, expiries, fresh, deaths, histVars>>
<1>1. inbox \in Seq(Message) /\ outPipe \in Seq(Event) /\ ev \in Seq(Event)
  BY DEF AdapterTypeOK, Answers
<1>2. inbox' = Tail(inbox) /\ outPipe' = outPipe \o ev
      /\ entry' = [entry EXCEPT ![Head(inbox).task] = e]
  BY DEF Answer
<1>3. Head(inbox) \in Message /\ Head(inbox).task \in Task
  <2>1. Head(inbox) \in Message
    BY <1>1
  <2> QED
    BY <2>1 DEF Message
<1>4. /\ entry' \in [Task -> Entry \cup {None}]
      /\ entry'[Head(inbox).task] = e /\ \A t \in Task \ {Head(inbox).task} : entry'[t] = entry[t]
  BY <1>2, <1>3 DEF AdapterTypeOK
<1>5. /\ outPipe' \in Seq(Event) /\ Len(outPipe) \in Nat /\ DOMAIN outPipe = 1..Len(outPipe)
      /\ DOMAIN outPipe' = 1..(Len(outPipe) + Len(ev))
      /\ \A i \in 1..Len(outPipe) : outPipe'[i] = outPipe[i]
      /\ \A i \in 1..Len(ev) : outPipe'[Len(outPipe) + i] = ev[i]
  BY <1>1, <1>2
<1> QED
  BY <1>1, <1>2, <1>3, <1>4, <1>5, TailEffect DEF Answer

\* What the daemon makes of a message: the entry e and the events ev.
Served(m, e, ev) ==
  /\ Answers(m, ev)
  /\ \A i \in 1..Len(ev) : ev[i].event = "proposal" =>
       e = [state |-> "offered", round |-> ev[i].round, gate |-> ev[i].gate]
  /\ e = None => \E i \in 1..Len(ev) : Ends(ev[i])
  /\ ~AsksTurn(m) =>
       \/ e = None
       \/ /\ m.op \in {"approved", "edited"} /\ entry[m.task] # None
          /\ entry[m.task].state # "expired"
          /\ e = [entry[m.task] EXCEPT !.state = "decided"]

LEMMA EventsTyped ==
  ASSUME NEW t \in Task, NEW k \in {"text", "complete", "error", "question", "bad"}
  PROVE  Say(k, t) \in Event /\ Say(k, t).event = k /\ Say(k, t).task = t
  BY DEF Say, Event

\* One event or two that say nothing of a turn.
LEMMA SaysOne ==
  ASSUME NEW m \in Message, NEW k \in {"text", "complete", "error", "bad"}
  PROVE  Answers(m, <<Say(k, m.task)>>) /\ Len(<<Say(k, m.task)>>) = 1
         /\ <<Say(k, m.task)>>[1] = Say(k, m.task)
<1>1. m.task \in Task
  BY DEF Message
<1>2. Say(k, m.task) \in Event /\ Say(k, m.task).event = k /\ Say(k, m.task).task = m.task
  BY <1>1, EventsTyped
<1> QED
  BY <1>2 DEF Answers, GivesTurn

LEMMA SaysTwo ==
  ASSUME NEW m \in Message, NEW j \in {"text", "error"}, NEW k \in {"complete", "bad"}
  PROVE  Answers(m, <<Say(j, m.task), Say(k, m.task)>>)
         /\ Len(<<Say(j, m.task), Say(k, m.task)>>) = 2
         /\ <<Say(j, m.task), Say(k, m.task)>>[1] = Say(j, m.task)
         /\ <<Say(j, m.task), Say(k, m.task)>>[2] = Say(k, m.task)
<1>1. m.task \in Task
  BY DEF Message
<1>2. /\ Say(j, m.task) \in Event /\ Say(j, m.task).event = j /\ Say(j, m.task).task = m.task
      /\ Say(k, m.task) \in Event /\ Say(k, m.task).event = k /\ Say(k, m.task).task = m.task
  BY <1>1, EventsTyped
<1> QED
  BY <1>2 DEF Answers, GivesTurn

LEMMA TurnShape ==
  ASSUME AdapterTypeOK, inbox # <<>>, NEW m \in Message, m = Head(inbox), AsksTurn(m),
         NEW round \in 0..MaxRounds, Turn(round)
  PROVE  \E e \in Entry \cup {None}, ev \in Seq(Event) : Served(m, e, ev) /\ Answer(e, ev)
<1>1. m.task \in Task
  BY DEF Message
<1>2. ASSUME NEW j \in {"text", "error"}, Answer(None, <<Say(j, m.task), Say("complete", m.task)>>)
      PROVE  \E e \in Entry \cup {None}, ev \in Seq(Event) : Served(m, e, ev) /\ Answer(e, ev)
  <2> DEFINE ev == <<Say(j, m.task), Say("complete", m.task)>>
  <2>1. /\ Answers(m, ev) /\ Len(ev) = 2
        /\ ev[1] = Say(j, m.task) /\ ev[2] = Say("complete", m.task)
    BY SaysTwo
  <2>2. ev \in Seq(Event)
    BY <2>1 DEF Answers
  <2>3. ev[1].event = j /\ ev[2].event = "complete"
    BY <1>1, <2>1, EventsTyped
  <2> HIDE DEF ev
  <2>4. Served(m, None, ev)
    BY <2>1, <2>3 DEF Served, Ends
  <2> QED
    BY <1>2, <2>2, <2>4 DEF ev
<1>3. CASE Answer([state |-> "question", round |-> round, gate |-> FALSE], <<Say("question", m.task)>>)
  <2> DEFINE ev == <<Say("question", m.task)>>
             e == [state |-> "question", round |-> round, gate |-> FALSE]
  <2>1. Say("question", m.task) \in Event /\ Say("question", m.task).event = "question"
        /\ Say("question", m.task).task = m.task
    BY <1>1, EventsTyped
  <2>2. ev \in Seq(Event) /\ Len(ev) = 1 /\ ev[1] = Say("question", m.task)
    BY <2>1
  <2>3. e \in Entry /\ e # None
    <3>1. e \in Entry
      BY DEF Entry
    <3> QED
      BY <3>1, NoneAssumption
  <2> HIDE DEF ev, e
  <2>4. Served(m, e, ev)
    BY <2>1, <2>2, <2>3 DEF Served, Answers, GivesTurn
  <2> QED
    BY <1>3, <2>2, <2>3, <2>4 DEF ev, e
<1>4. ASSUME round < MaxRounds, NEW gate \in BOOLEAN,
             Answer([state |-> "offered", round |-> round + 1, gate |-> gate],
                 <<[event |-> "proposal", task |-> m.task, round |-> round + 1, gate |-> gate]>>)
      PROVE  \E e \in Entry \cup {None}, ev \in Seq(Event) : Served(m, e, ev) /\ Answer(e, ev)
  <2> DEFINE p == [event |-> "proposal", task |-> m.task, round |-> round + 1, gate |-> gate]
             ev == <<p>>
             e == [state |-> "offered", round |-> round + 1, gate |-> gate]
  <2>1. p \in Event /\ p.event = "proposal" /\ p.task = m.task /\ p.round = round + 1 /\ p.round # 0
        /\ p.gate = gate
    BY <1>1, <1>4 DEF Event
  <2>2. e \in Entry /\ e # None /\ e = [state |-> "offered", round |-> p.round, gate |-> p.gate]
    <3>1. e \in Entry
      BY <1>4 DEF Entry
    <3> QED
      BY <3>1, NoneAssumption
  <2> HIDE DEF p, e
  <2>3. ev \in Seq(Event) /\ Len(ev) = 1 /\ ev[1] = p
    BY <2>1
  <2> HIDE DEF ev
  <2>4. Served(m, e, ev)
    BY <2>1, <2>2, <2>3 DEF Served, Answers, GivesTurn
  <2> QED
    BY <1>4, <2>2, <2>3, <2>4 DEF ev, e, p
<1> QED
  BY <1>2, <1>3, <1>4 DEF Turn

LEMMA ServeShape ==
  ASSUME AdapterTypeOK, Serve
  PROVE  /\ inbox # <<>>
         /\ \E e \in Entry \cup {None}, ev \in Seq(Event) : Served(Head(inbox), e, ev) /\ Answer(e, ev)
<1> DEFINE m == Head(inbox)
           old == entry[m.task]
<1>1. inbox # <<>> /\ m \in Message /\ m.task \in Task
  <2>1. inbox # <<>> /\ inbox \in Seq(Message)
    BY DEF Serve, AdapterTypeOK
  <2>2. m \in Message
    BY <2>1
  <2> QED
    BY <2>1, <2>2 DEF Message
<1>2. old \in Entry \cup {None}
  BY <1>1 DEF AdapterTypeOK
<1>3. \/ m.op = "start" /\ Turn(0)
      \/ m.op # "start" /\ Answer(None, <<Say("bad", m.task)>>)
      \/ m.op # "start" /\ Answer(None, <<Say("complete", m.task)>>)
      \/ /\ m.op \in {"approved", "edited"} /\ old # None /\ old.state # "expired"
         /\ Answer([old EXCEPT !.state = "decided"], <<Say("text", m.task)>>)
      \/ m.op # "start" /\ Answer(None, <<Say("error", m.task), Say("complete", m.task)>>)
      \/ m.op # "start" /\ Answer(None, <<Say("text", m.task), Say("complete", m.task)>>)
      \/ m.op \in {"reply", "ack"} /\ old # None /\ old.state # "expired" /\ Turn(old.round)
      \/ m.op = "reply" /\ old # None /\ Answer(old, <<Say("bad", m.task)>>)
  BY DEF Serve
<1> HIDE DEF m
<1>4. CASE m.op = "start" /\ Turn(0)
  <2>1. 0 \in 0..MaxRounds
    OBVIOUS
  <2> QED
    BY <1>1, <1>4, <2>1, TurnShape DEF AsksTurn, m
<1>5. ASSUME NEW k \in {"bad", "complete"}, Answer(None, <<Say(k, m.task)>>)
      PROVE  \E e \in Entry \cup {None}, ev \in Seq(Event) : Served(m, e, ev) /\ Answer(e, ev)
  <2> DEFINE ev == <<Say(k, m.task)>>
  <2>1. Answers(m, ev) /\ Len(ev) = 1 /\ ev[1] = Say(k, m.task)
    BY <1>1, SaysOne
  <2>2. ev \in Seq(Event) /\ ev[1].event = k
    BY <1>1, <2>1, EventsTyped DEF Answers
  <2> HIDE DEF ev
  <2>3. Served(m, None, ev)
    BY <2>1, <2>2 DEF Served, Ends
  <2> QED
    BY <1>5, <2>2, <2>3 DEF ev
<1>6. CASE /\ m.op \in {"approved", "edited"} /\ old # None /\ old.state # "expired"
           /\ Answer([old EXCEPT !.state = "decided"], <<Say("text", m.task)>>)
  <2> DEFINE ev == <<Say("text", m.task)>>
             e == [old EXCEPT !.state = "decided"]
  <2>1. Answers(m, ev) /\ Len(ev) = 1 /\ ev[1] = Say("text", m.task)
    BY <1>1, SaysOne
  <2>2. ev \in Seq(Event) /\ ev[1].event = "text"
    BY <1>1, <2>1, EventsTyped DEF Answers
  <2>3. e \in Entry /\ e # None
    <3>1. e \in Entry
      BY <1>2, <1>6 DEF Entry
    <3> QED
      BY <3>1, NoneAssumption
  <2> HIDE DEF ev
  <2>4. Served(m, e, ev)
    <3> HIDE DEF e
    <3>1. /\ Answers(m, ev) /\ \A i \in 1..Len(ev) : ev[i].event # "proposal"
          /\ e # None
      BY <2>1, <2>2, <2>3
    <3> QED
      BY <1>6, <3>1 DEF Served, e
  <2>5. Answer(e, ev)
    BY <1>6 DEF ev
  <2> HIDE DEF e
  <2> QED
    BY <1>1, <2>2, <2>3, <2>4, <2>5 DEF m
<1>7. ASSUME NEW j \in {"text", "error"}, Answer(None, <<Say(j, m.task), Say("complete", m.task)>>)
      PROVE  \E e \in Entry \cup {None}, ev \in Seq(Event) : Served(m, e, ev) /\ Answer(e, ev)
  <2> DEFINE ev == <<Say(j, m.task), Say("complete", m.task)>>
  <2>1. /\ Answers(m, ev) /\ Len(ev) = 2
        /\ ev[1] = Say(j, m.task) /\ ev[2] = Say("complete", m.task)
    BY <1>1, SaysTwo
  <2>2. ev \in Seq(Event)
    BY <2>1 DEF Answers
  <2>3. ev[1].event = j /\ ev[2].event = "complete"
    BY <1>1, <2>1, EventsTyped
  <2> HIDE DEF ev
  <2>4. Served(m, None, ev)
    BY <2>1, <2>3 DEF Served, Ends
  <2> QED
    BY <1>7, <2>2, <2>4 DEF ev
<1>8. CASE m.op \in {"reply", "ack"} /\ old # None /\ old.state # "expired" /\ Turn(old.round)
  <2>1. old.round \in 0..MaxRounds
    BY <1>2, <1>8 DEF Entry
  <2> QED
    BY <1>1, <1>8, <2>1, TurnShape DEF AsksTurn, m
<1>9. CASE m.op = "reply" /\ old # None /\ Answer(old, <<Say("bad", m.task)>>)
  <2> DEFINE ev == <<Say("bad", m.task)>>
  <2>1. Answers(m, ev) /\ Len(ev) = 1 /\ ev[1] = Say("bad", m.task)
    BY <1>1, SaysOne
  <2>2. ev \in Seq(Event) /\ ev[1].event = "bad"
    BY <1>1, <2>1, EventsTyped DEF Answers
  <2> HIDE DEF ev
  <2>3. Served(m, old, ev)
    BY <1>9, <2>1, <2>2 DEF Served, AsksTurn
  <2>4. Answer(old, ev)
    BY <1>9 DEF ev
  <2> HIDE DEF old
  <2> QED
    BY <1>1, <1>2, <2>2, <2>3, <2>4 DEF m
<1> QED
  BY <1>1, <1>3, <1>4, <1>5, <1>6, <1>7, <1>8, <1>9 DEF m
-----------------------------------------------------------------------------
(* Type correctness. *)

\* What the pipes have to be like, whatever is sent.
PipesTyped ==
  /\ helper \in {"up", "dead"} /\ inPipe \in Seq(Message) /\ outPipe \in Seq(Event)
  /\ \A i \in DOMAIN outPipe : outPipe[i].event = "proposal" => outPipe[i].round # 0
  /\ helper = "dead" => inPipe = <<>>

LEMMA SendTyped ==
  ASSUME AdapterTypeOK, Wired, NEW rest \in Seq(Event), NEW m \in Message, Send(rest, m),
         \A i \in DOMAIN rest : rest[i].event = "proposal" => rest[i].round # 0
  PROVE  PipesTyped'
<1>1. /\ inPipe' \in Seq(Message) /\ outPipe' \in {rest, <<>>} /\ helper' = "up"
  BY SendEffect
<1>2. CASE outPipe' = rest
  BY <1>1, <1>2 DEF PipesTyped
<1>3. CASE outPipe' = <<>>
  BY <1>1, <1>3 DEF PipesTyped
<1> QED
  BY <1>1, <1>2, <1>3

LEMMA TailTyped ==
  ASSUME AdapterTypeOK, Wired, outPipe # <<>>
  PROVE  LET rest == Tail(outPipe) IN
         /\ rest \in Seq(Event)
         /\ \A i \in DOMAIN rest : rest[i].event = "proposal" => rest[i].round # 0
<1>1. outPipe \in Seq(Event)
  BY DEF AdapterTypeOK
<1>2. /\ Tail(outPipe) \in Seq(Event) /\ Len(outPipe) \in Nat \ {0}
      /\ DOMAIN outPipe = 1..Len(outPipe) /\ DOMAIN Tail(outPipe) = 1..(Len(outPipe) - 1)
      /\ \A i \in 1..(Len(outPipe) - 1) : Tail(outPipe)[i] = outPipe[i + 1]
  BY <1>1, TailEffect
<1> QED
  BY <1>2 DEF Wired

LEMMA HistoryTyped ==
  ASSUME AdapterTypeOK, Dismiss
  PROVE  dismissed' \subseteq Task /\ confused' \in BOOLEAN /\ confirmed' \subseteq Task
<1>1. Closing(sh) \in Task \cup {None}
  BY ClosingAt DEF AdapterTypeOK
<1> QED
  BY <1>1 DEF AdapterTypeOK, Dismiss

LEMMA TypeOf ==
  ASSUME AdapterTypeOK, Wired, Sound', PipesTyped', Calm, fresh' \subseteq fresh,
         dismissed' \subseteq Task /\ confused' \in BOOLEAN /\ confirmed' \subseteq Task,
         helper' = "dead" => helper = "dead"
  PROVE  AdapterTypeOK' /\ Wired'
  BY DEF AdapterTypeOK, Wired, Sound, PipesTyped, Calm, coreVars

LEMMA TypeInvariant ==
  ASSUME AdapterTypeOK, Wired, [Next]_vars
  PROVE  AdapterTypeOK' /\ Wired'
<1>1. Sound'
  BY StepShape
<1>2. /\ sh \in Globals /\ sh.clarification \in Task \cup {None} /\ sh.pending \in Command \cup {None}
      /\ sh.approval \in Command \cup {None} /\ Closing(sh) \in Task \cup {None}
      /\ outPipe \in Seq(Event) /\ PipesTyped
      /\ dismissed \subseteq Task /\ confused \in BOOLEAN /\ confirmed \subseteq Task
  BY ClosingAt DEF AdapterTypeOK, Globals, Wired, PipesTyped
<1>3. ASSUME UNCHANGED histVars \/ Dismiss
      PROVE  dismissed' \subseteq Task /\ confused' \in BOOLEAN /\ confirmed' \subseteq Task
  BY <1>2, <1>3, HistoryTyped DEF histVars
<1>4. ASSUME NEW m \in Message, Send(outPipe, m)
      PROVE  PipesTyped' /\ helper' = "up"
  <2>1. \A i \in DOMAIN outPipe : outPipe[i].event = "proposal" => outPipe[i].round # 0
    BY DEF Wired
  <2> QED
    BY <1>2, <1>4, <2>1, SendTyped, SendEffect
<1>5. ASSUME Still PROVE PipesTyped' /\ helper' = helper
  BY <1>2, <1>5 DEF Still, linkVars, PipesTyped
<1>6. CASE Idles
  BY <1>1, <1>3, <1>5, <1>6, TypeOf DEF Idles
<1>7. CASE TurnsAway
  <2>1. Closing(sh) # None => About("abort", Closing(sh)) \in Message
    BY <1>2, MessageTyped
  <2>2. PipesTyped' /\ (helper' = "dead" => helper = "dead")
    BY <1>4, <1>5, <1>7, <2>1 DEF TurnsAway
  <2> QED
    BY <1>1, <1>3, <1>7, <2>2, TypeOf DEF TurnsAway
<1>8. CASE Rejects
  <2>1. Ask("rejected", sh.approval) \in Message
    BY <1>2, <1>8, MessageTyped DEF Rejects
  <2> QED
    BY <1>1, <1>3, <1>4, <1>8, <2>1, TypeOf DEF Rejects
<1>9. CASE Replies
  <2>1. About("reply", sh.clarification) \in Message
    BY <1>2, <1>9, MessageTyped DEF Replies
  <2> QED
    BY <1>1, <1>3, <1>4, <1>9, <2>1, TypeOf DEF Replies
<1>10. CASE Acks
  <2>1. Ask("ack", sh.pending) \in Message
    BY <1>2, <1>10, MessageTyped DEF Acks
  <2> QED
    BY <1>1, <1>3, <1>4, <1>10, <2>1, TypeOf DEF Acks
<1>11. CASE Fails
  <2>1. PipesTyped'
    <3>1. <<>> \in Seq(Message) /\ <<>> \in Seq(Event) /\ DOMAIN <<>> = {}
      OBVIOUS
    <3> QED
      BY <1>11, <3>1 DEF Fails, Cut, PipesTyped
  <2> QED
    BY <1>1, <1>3, <1>11, <2>1, TypeOf DEF Fails, Cut
<1>12. ASSUME NEW t \in Task, Begins(t) PROVE AdapterTypeOK' /\ Wired'
  <2>1. About("start", t) \in Message
    BY MessageTyped
  <2> QED
    BY <1>1, <1>3, <1>4, <1>12, <2>1, TypeOf DEF Begins
<1>13. ASSUME NEW op \in {"approved", "edited"}, Agreed(op) PROVE AdapterTypeOK' /\ Wired'
  <2>1. Ask(op, sh.approval) \in Message
    BY <1>2, <1>13, MessageTyped DEF Agreed
  <2> QED
    BY <1>1, <1>3, <1>4, <1>13, <2>1, TypeOf DEF Agreed
<1> DEFINE e == Head(outPipe)
<1>14. ASSUME outPipe # <<>>
       PROVE  /\ e.task \in Task
              /\ Tail(outPipe) \in Seq(Event)
              /\ \A i \in DOMAIN Tail(outPipe) : Tail(outPipe)[i].event = "proposal" => Tail(outPipe)[i].round # 0
  BY <1>14, TailTyped, HeadTyped
<1> HIDE DEF e
<1>15. ASSUME outPipe # <<>>, Quiet, outPipe' = Tail(outPipe)
       PROVE  PipesTyped' /\ helper' = helper
  BY <1>2, <1>14, <1>15 DEF Quiet, PipesTyped
<1>16. CASE Hears(e) \/ TakesTask(e) \/ TakesQuestion(e) \/ TakesEnd(e)
  <2>1. outPipe # <<>> /\ Quiet /\ outPipe' = Tail(outPipe) /\ Calm /\ UNCHANGED <<fresh, histVars>>
    BY <1>16 DEF Hears, TakesTask, TakesQuestion, TakesEnd, Takes, Reads
  <2> QED
    BY <1>1, <1>3, <1>15, <2>1, TypeOf
<1>17. CASE Starts(e)
  BY <1>1, <1>2, <1>14, <1>15, <1>17, TypeOf DEF Starts, Reads
<1>18. CASE TakesProposal(e)
  <2>1. outPipe # <<>> /\ Calm /\ UNCHANGED <<fresh, histVars>>
    BY <1>18 DEF TakesProposal, Takes, Reads
  <2>2. CASE Quiet /\ outPipe' = Tail(outPipe)
    BY <1>1, <1>3, <1>15, <2>1, <2>2, TypeOf
  <2>3. CASE Send(Tail(outPipe), About("abort", e.task))
    <3>1. About("abort", e.task) \in Message
      BY <1>14, <2>1, MessageTyped
    <3>2. PipesTyped' /\ helper' = "up"
      BY <1>14, <2>1, <2>3, <3>1, SendTyped, SendEffect
    <3> QED
      BY <1>1, <1>3, <2>1, <3>2, TypeOf
  <2> QED
    BY <1>18, <2>2, <2>3 DEF TakesProposal
<1>19. CASE Forward
  <2>1. \A i \in DOMAIN outPipe' : outPipe'[i].event = "proposal" => outPipe'[i].round # 0
    <3>1. CASE Head(inPipe).op = "start"
      <4>1. /\ Len(outPipe) \in Nat /\ DOMAIN outPipe = 1..Len(outPipe)
            /\ DOMAIN outPipe' = 1..(Len(outPipe) + 1)
            /\ \A i \in 1..Len(outPipe) : outPipe'[i] = outPipe[i]
            /\ outPipe'[Len(outPipe) + 1].event = "started"
        BY <1>19, <3>1, ForwardEffect
      <4> QED
        BY <1>2, <4>1 DEF PipesTyped
    <3>2. CASE Head(inPipe).op # "start"
      BY <1>2, <1>19, <3>2, ForwardEffect DEF PipesTyped
    <3> QED
      BY <3>1, <3>2
  <2> QED
    BY <1>2, <1>19, <2>1, ForwardEffect DEF AdapterTypeOK, Wired, histVars
<1>20. CASE HelperDies
  <2>1. <<>> \in Seq(Message)
    OBVIOUS
  <2> QED
    BY <1>20, <2>1 DEF HelperDies, AdapterTypeOK, Wired, histVars
<1>21. CASE ClearLost
  BY <1>21 DEF ClearLost, AdapterTypeOK, Wired, histVars, linkVars
<1>22. CASE Serve
  <2>1. PICK x \in Entry \cup {None}, ev \in Seq(Event) : Served(Head(inbox), x, ev) /\ Answer(x, ev)
    BY <1>22, ServeShape
  <2>2. Answers(Head(inbox), ev) /\ inbox # <<>>
    BY <1>22, <2>1, ServeShape DEF Served
  <2>3. helper = "up"
    BY <2>2 DEF Wired, AdapterTypeOK
  <2>4. \A i \in DOMAIN outPipe' : outPipe'[i].event = "proposal" => outPipe'[i].round # 0
    <3>1. /\ Len(outPipe) \in Nat /\ DOMAIN outPipe = 1..Len(outPipe)
          /\ DOMAIN outPipe' = 1..(Len(outPipe) + Len(ev))
          /\ \A i \in 1..Len(outPipe) : outPipe'[i] = outPipe[i]
          /\ \A i \in 1..Len(ev) : outPipe'[Len(outPipe) + i] = ev[i]
      BY <2>1, <2>2, AnswerEffect, ZenonT(30)
    <3>2. ASSUME NEW i \in 1..(Len(outPipe) + Len(ev)), i \notin 1..Len(outPipe)
          PROVE  i - Len(outPipe) \in 1..Len(ev) /\ outPipe'[i] = ev[i - Len(outPipe)]
      BY <2>2, <3>1, <3>2 DEF Answers
    <3> QED
      BY <2>2, <3>1, <3>2 DEF Answers, Wired
  <2>5. /\ inbox' \in Seq(Message) /\ outPipe' \in Seq(Event) /\ entry' \in [Task -> Entry \cup {None}]
        /\ UNCHANGED <<sh, helper, inPipe, lost, expiries, fresh, deaths, histVars>>
    BY <2>1, <2>2, AnswerEffect
  <2> QED
    BY <1>2, <2>3, <2>4, <2>5 DEF AdapterTypeOK, Wired, histVars
<1>23. ASSUME NEW t \in Task, Expire(t) PROVE AdapterTypeOK' /\ Wired'
  <2>1. [state |-> "expired", round |-> 0, gate |-> FALSE] \in Entry
    BY DEF Entry
  <2> QED
    BY <1>23, <2>1 DEF Expire, AdapterTypeOK, Wired, linkVars, histVars
<1> QED
  BY <1>6, <1>7, <1>8, <1>9, <1>10, <1>11, <1>12, <1>13, <1>16, <1>17, <1>18, <1>19, <1>20, <1>21,
     <1>22, <1>23, StepShape DEF e

-----------------------------------------------------------------------------
(* Whose turn it is: of a task there is one id to draw, one question or box or *)
(* command of the shell's, one message that asks or one event that answers.    *)

\* The turn of the task t is at the place k, i.
Holds(t, k, i) ==
  \/ k = "fresh" /\ i = 0 /\ t \in fresh
  \/ k = "question" /\ i = 0 /\ sh.clarification = t
  \/ k = "box" /\ i = 0 /\ ApprovalTask(sh) = t
  \/ k = "run" /\ i = 0 /\ PendingTask(sh) = t
  \/ k = "sent" /\ i \in DOMAIN inPipe /\ inPipe[i].task = t /\ AsksTurn(inPipe[i])
  \/ k = "asked" /\ i \in DOMAIN inbox /\ inbox[i].task = t /\ AsksTurn(inbox[i])
  \/ k = "told" /\ i \in DOMAIN outPipe /\ outPipe[i].task = t /\ GivesTurn(outPipe[i])

OneTurn ==
  \A t \in Task : \A k, l : \A i, j \in Nat :
    Holds(t, k, i) /\ Holds(t, l, j) => k = l /\ i = j

\* A step keeps a turn where it was, but for what moves up in the pipe c, or all of
\* it is now in one place.
LEMMA TurnKept ==
  ASSUME OneTurn, NEW c,
         \A t \in Task :
           \/ \A k : \A i \in Nat : Holds(t, k, i)' => Holds(t, k, IF k = c THEN i + 1 ELSE i)
           \/ \E a, b : \A k : \A i \in Nat : Holds(t, k, i)' => k = a /\ i = b
  PROVE  OneTurn'
<1> SUFFICES ASSUME NEW t \in Task, NEW k, NEW l, NEW i \in Nat, NEW j \in Nat,
                    Holds(t, k, i)', Holds(t, l, j)'
             PROVE  k = l /\ i = j
  BY DEF OneTurn
<1>1. CASE \E a, b : \A u : \A n \in Nat : Holds(t, u, n)' => u = a /\ n = b
  BY <1>1
<1>2. CASE \A u : \A n \in Nat : Holds(t, u, n)' => Holds(t, u, IF u = c THEN n + 1 ELSE n)
  <2> DEFINE p == IF k = c THEN i + 1 ELSE i
             q == IF l = c THEN j + 1 ELSE j
  <2>1. p \in Nat /\ q \in Nat /\ (k = l /\ p = q => i = j)
    OBVIOUS
  <2>2. Holds(t, k, p) /\ Holds(t, l, q)
    BY <1>2
  <2> HIDE DEF p, q
  <2>3. k = l /\ p = q
    BY <2>1, <2>2 DEF OneTurn
  <2> QED
    BY <2>1, <2>3
<1> QED
  BY <1>1, <1>2

\* In the pipes, a message that is sent is a new place at most.
LEMMA SendPlaces ==
  ASSUME AdapterTypeOK, Wired, NEW rest \in Seq(Event), NEW m \in Message, Send(rest, m),
         inbox' = inbox, NEW t, NEW k \in {"sent", "asked", "told"}, NEW i \in Nat, Holds(t, k, i)'
  PROVE  \/ k = "sent" /\ i = Len(inPipe) + 1 /\ m.task = t /\ AsksTurn(m)
         \/ k # "told" /\ Holds(t, k, i)
         \/ k = "told" /\ i \in DOMAIN rest /\ rest[i].task = t /\ GivesTurn(rest[i])
<1>1. /\ Len(inPipe) \in Nat /\ DOMAIN inPipe' = 1..(Len(inPipe) + 1) /\ DOMAIN inPipe = 1..Len(inPipe)
      /\ \A j \in 1..Len(inPipe) : inPipe'[j] = inPipe[j]
      /\ inPipe'[Len(inPipe) + 1] = m
      /\ outPipe' \in {rest, <<>>}
  BY SendEffect
<1>2. DOMAIN <<>> = {}
  OBVIOUS
<1>3. CASE k = "sent"
  BY <1>1, <1>3 DEF Holds
<1>4. CASE k = "asked"
  BY <1>4 DEF Holds
<1>5. CASE k = "told"
  BY <1>1, <1>2, <1>5 DEF Holds
<1> QED
  BY <1>3, <1>4, <1>5

LEMMA HoldsWhere ==
  ASSUME NEW t, NEW k, NEW i, Holds(t, k, i)
  PROVE  k \in {"fresh", "question", "box", "run", "sent", "asked", "told"}
  BY DEF Holds

\* With a new message about t, which was its turn and is not any more elsewhere.
LEMMA TurnSent ==
  ASSUME AdapterTypeOK, Wired, OneTurn, NEW m \in Message, Send(outPipe, m), inbox' = inbox,
         NEW k0 \in {"fresh", "question", "box", "run"}, AsksTurn(m),
         m.task \in Task, Holds(m.task, k0, 0),
         \A t \in Task : \A k \in {"fresh", "question", "box", "run"} : \A i \in Nat :
           Holds(t, k, i)' => Holds(t, k, i) /\ (t = m.task => k # k0)
  PROVE  OneTurn'
<1>1. outPipe \in Seq(Event)
  BY DEF AdapterTypeOK
<1>2. ASSUME NEW t \in Task, t # m.task, NEW k, NEW i \in Nat, Holds(t, k, i)'
      PROVE  Holds(t, k, i)
  <2>1. CASE k \in {"fresh", "question", "box", "run"}
    BY <1>2, <2>1
  <2>2. CASE k \in {"sent", "asked", "told"}
    BY <1>1, <1>2, <2>2, SendPlaces DEF Holds
  <2>3. k \in {"fresh", "question", "box", "run", "sent", "asked", "told"}
    BY <1>2 DEF Holds
  <2> QED
    BY <2>1, <2>2, <2>3
<1>3. ASSUME NEW k, NEW i \in Nat, Holds(m.task, k, i)'
      PROVE  k = "sent" /\ i = Len(inPipe) + 1
  <2>1. \A l : \A j \in Nat : Holds(m.task, l, j) => l = k0 /\ j = 0
    BY DEF OneTurn
  <2>2. CASE k \in {"fresh", "question", "box", "run"}
    BY <1>3, <2>1, <2>2
  <2>3. CASE k \in {"sent", "asked", "told"}
    <3>1. CASE k # "told" /\ Holds(m.task, k, i)
      BY <2>1, <2>3, <3>1
    <3>2. CASE k = "told" /\ i \in DOMAIN outPipe /\ outPipe[i].task = m.task /\ GivesTurn(outPipe[i])
      <4>1. Holds(m.task, k, i)
        BY <3>2 DEF Holds
      <4> QED
        BY <2>1, <3>2, <4>1
    <3>3. \/ k = "sent" /\ i = Len(inPipe) + 1
          \/ k # "told" /\ Holds(m.task, k, i)
          \/ k = "told" /\ i \in DOMAIN outPipe /\ outPipe[i].task = m.task /\ GivesTurn(outPipe[i])
      BY <1>1, <1>3, <2>3, SendPlaces DEF Holds
    <3> QED
      BY <3>1, <3>2, <3>3
  <2>4. k \in {"fresh", "question", "box", "run", "sent", "asked", "told"}
    BY <1>3 DEF Holds
  <2> QED
    BY <2>2, <2>3, <2>4
<1>4. \A t \in Task :
        \/ \A k : \A i \in Nat : Holds(t, k, i)' => Holds(t, k, IF k = "none" THEN i + 1 ELSE i)
        \/ \E a, b : \A k : \A i \in Nat : Holds(t, k, i)' => k = a /\ i = b
  <2> SUFFICES ASSUME NEW t \in Task
               PROVE  \/ \A k : \A i \in Nat : Holds(t, k, i)' => Holds(t, k, IF k = "none" THEN i + 1 ELSE i)
                      \/ \E a, b : \A k : \A i \in Nat : Holds(t, k, i)' => k = a /\ i = b
    OBVIOUS
  <2>1. CASE t = m.task
    BY <1>3, <2>1
  <2>2. CASE t # m.task
    <3>1. \A k : \A i \in Nat : Holds(t, k, i)' => Holds(t, k, i) /\ k # "none"
      BY <1>2, <2>2, HoldsWhere
    <3> QED
      BY <3>1
  <2> QED
    BY <2>1, <2>2
<1> QED
  BY <1>4, TurnKept

\* Nothing more than a turn that was there, or a message that asks for none.
LEMMA TurnNotSent ==
  ASSUME AdapterTypeOK, Wired, OneTurn, NEW m \in Message, Send(outPipe, m), inbox' = inbox, ~AsksTurn(m),
         \A t \in Task : \A k \in {"fresh", "question", "box", "run"} : \A i \in Nat :
           Holds(t, k, i)' => \/ Holds(t, k, i)
                              \/ k = "run" /\ i = 0 /\ Holds(t, "box", 0)
                                 /\ ApprovalTask(sh)' # t
  PROVE  OneTurn'
<1>1. outPipe \in Seq(Event)
  BY DEF AdapterTypeOK
<1>2. ASSUME NEW t \in Task, NEW k, NEW i \in Nat, Holds(t, k, i)'
      PROVE  \/ Holds(t, k, i)
             \/ k = "run" /\ i = 0 /\ Holds(t, "box", 0) /\ ApprovalTask(sh)' # t
  <2>1. CASE k \in {"fresh", "question", "box", "run"}
    BY <1>2, <2>1
  <2>2. CASE k \in {"sent", "asked", "told"}
    BY <1>1, <1>2, <2>2, SendPlaces DEF Holds
  <2>3. k \in {"fresh", "question", "box", "run", "sent", "asked", "told"}
    BY <1>2 DEF Holds
  <2> QED
    BY <2>1, <2>2, <2>3
<1>3. \A t \in Task :
        \/ \A k : \A i \in Nat : Holds(t, k, i)' => Holds(t, k, IF k = "none" THEN i + 1 ELSE i)
        \/ \E a, b : \A k : \A i \in Nat : Holds(t, k, i)' => k = a /\ i = b
  <2> SUFFICES ASSUME NEW t \in Task
               PROVE  \/ \A k : \A i \in Nat : Holds(t, k, i)' => Holds(t, k, IF k = "none" THEN i + 1 ELSE i)
                      \/ \E a, b : \A k : \A i \in Nat : Holds(t, k, i)' => k = a /\ i = b
    OBVIOUS
  <2>1. CASE Holds(t, "box", 0) /\ ApprovalTask(sh)' # t
    <3>1. \A l : \A j \in Nat : Holds(t, l, j) => l = "box" /\ j = 0
      BY <2>1 DEF OneTurn
    <3>2. ~Holds(t, "box", 0)'
      BY <2>1 DEF Holds
    <3>3. \A k : \A i \in Nat : Holds(t, k, i)' => k = "run" /\ i = 0
      BY <1>2, <3>1, <3>2
    <3> QED
      BY <3>3
  <2>2. CASE ~(Holds(t, "box", 0) /\ ApprovalTask(sh)' # t)
    <3>1. \A k : \A i \in Nat : Holds(t, k, i)' => Holds(t, k, i) /\ k # "none"
      BY <1>2, <2>2, HoldsWhere
    <3> QED
      BY <3>1
  <2> QED
    BY <2>1, <2>2
<1> QED
  BY <1>3, TurnKept

\* The pipes as they were or emptied.
LEMMA TurnStays ==
  ASSUME OneTurn, inbox' = inbox \/ inbox' = <<>>, inPipe' = inPipe \/ inPipe' = <<>>,
         outPipe' = outPipe \/ outPipe' = <<>>,
         \A t \in Task : \A k \in {"fresh", "question", "box", "run"} : \A i \in Nat :
           Holds(t, k, i)' => Holds(t, k, i)
  PROVE  OneTurn'
<1>1. DOMAIN <<>> = {}
  OBVIOUS
<1>2. \A t \in Task : \A k : \A i \in Nat : Holds(t, k, i)' => Holds(t, k, i) /\ k # "none"
  <2> SUFFICES ASSUME NEW t \in Task, NEW k, NEW i \in Nat, Holds(t, k, i)'
               PROVE  Holds(t, k, i) /\ k # "none"
    OBVIOUS
  <2>1. CASE k \in {"fresh", "question", "box", "run"}
    BY <2>1
  <2>2. CASE k \in {"sent", "asked", "told"}
    BY <1>1, <2>2 DEF Holds
  <2> QED
    BY <2>1, <2>2 DEF Holds
<1>3. \A t \in Task : \A k : \A i \in Nat : Holds(t, k, i)' => Holds(t, k, IF k = "none" THEN i + 1 ELSE i)
  BY <1>2
<1> QED
  BY <1>3, TurnKept

\* In the pipes nothing is new when the first event is read.
LEMMA ReadPlaces ==
  ASSUME AdapterTypeOK, Wired, outPipe # <<>>, inbox' = inbox, NEW m \in Message, ~AsksTurn(m),
         (Quiet /\ outPipe' = Tail(outPipe)) \/ Send(Tail(outPipe), m),
         NEW t \in Task, NEW k \in {"sent", "asked", "told"}, NEW i \in Nat, Holds(t, k, i)'
  PROVE  Holds(t, k, IF k = "told" THEN i + 1 ELSE i) /\ (k = "told" => i # 0)
<1>1. /\ outPipe \in Seq(Event) /\ Tail(outPipe) \in Seq(Event)
      /\ Len(outPipe) \in Nat \ {0}
      /\ DOMAIN outPipe = 1..Len(outPipe) /\ DOMAIN Tail(outPipe) = 1..(Len(outPipe) - 1)
      /\ \A j \in 1..(Len(outPipe) - 1) : Tail(outPipe)[j] = outPipe[j + 1]
  BY TailEffect DEF AdapterTypeOK
<1> DEFINE rest == Tail(outPipe)
<1>2. CASE Quiet /\ outPipe' = rest
  BY <1>1, <1>2 DEF Holds, Quiet
<1>3. CASE Send(rest, m)
  <2>1. rest \in Seq(Event)
    BY <1>1
  <2> HIDE DEF rest
  <2>2. \/ k # "told" /\ Holds(t, k, i)
        \/ k = "told" /\ i \in DOMAIN rest /\ rest[i].task = t /\ GivesTurn(rest[i])
    BY <1>3, <2>1, SendPlaces DEF Holds
  <2> USE DEF rest
  <2> QED
    BY <1>1, <2>2 DEF Holds
<1> QED
  BY <1>2, <1>3

\* The shell has the turn of t in one more place at most.
GivenTo(t) ==
  \E a : \A k \in {"fresh", "question", "box", "run"} : \A i \in Nat :
    Holds(t, k, i)' => k = a \/ Holds(t, k, i)

\* The first event is read; what turn it gives is the shell's now, if it takes it.
LEMMA TurnRead ==
  ASSUME AdapterTypeOK, Wired, OneTurn, outPipe # <<>>, inbox' = inbox,
         NEW e, e = Head(outPipe), NEW m \in Message, ~AsksTurn(m),
         (Quiet /\ outPipe' = Tail(outPipe)) \/ Send(Tail(outPipe), m),
         \A t \in Task : \A k \in {"fresh", "question", "box", "run"} : \A i \in Nat :
           Holds(t, k, i)' => \/ Holds(t, k, i)
                              \/ GivesTurn(e) /\ t = e.task /\ i = 0,
         GivesTurn(e) => GivenTo(e.task)
  PROVE  OneTurn'
<1>1. /\ outPipe \in Seq(Event) /\ Tail(outPipe) \in Seq(Event) /\ e = outPipe[1] /\ 1 \in DOMAIN outPipe
      /\ Len(outPipe) \in Nat \ {0}
      /\ DOMAIN outPipe = 1..Len(outPipe) /\ DOMAIN Tail(outPipe) = 1..(Len(outPipe) - 1)
      /\ \A i \in 1..(Len(outPipe) - 1) : Tail(outPipe)[i] = outPipe[i + 1]
  BY TailEffect DEF AdapterTypeOK
<1>2. PICK a : GivesTurn(e) =>
         \A k \in {"fresh", "question", "box", "run"} : \A i \in Nat :
           Holds(e.task, k, i)' => k = a \/ Holds(e.task, k, i)
  BY DEF GivenTo
<1>3. \A t \in Task : \A k \in {"sent", "asked", "told"} : \A i \in Nat :
        Holds(t, k, i)' => Holds(t, k, IF k = "told" THEN i + 1 ELSE i) /\ (k = "told" => i # 0)
  BY ReadPlaces
<1>4. \A t \in Task :
        \/ \A k : \A i \in Nat : Holds(t, k, i)' => Holds(t, k, IF k = "told" THEN i + 1 ELSE i)
        \/ \E c, b : \A k : \A i \in Nat : Holds(t, k, i)' => k = c /\ i = b
  <2> SUFFICES ASSUME NEW t \in Task
               PROVE  \/ \A k : \A i \in Nat : Holds(t, k, i)' => Holds(t, k, IF k = "told" THEN i + 1 ELSE i)
                      \/ \E c, b : \A k : \A i \in Nat : Holds(t, k, i)' => k = c /\ i = b
    OBVIOUS
  <2>1. CASE GivesTurn(e) /\ t = e.task
    <3>1. Holds(t, "told", 1)
      BY <1>1, <2>1 DEF Holds
    <3>2. \A l : \A j \in Nat : Holds(t, l, j) => l = "told" /\ j = 1
      BY <3>1 DEF OneTurn
    <3>3. ASSUME NEW k, NEW i \in Nat, Holds(t, k, i)' PROVE k = a /\ i = 0
      <4>1. CASE k \in {"sent", "asked", "told"}
        BY <1>3, <3>2, <3>3, <4>1
      <4>2. CASE k \in {"fresh", "question", "box", "run"}
        <5>1. i = 0
          BY <3>3, <4>2 DEF Holds
        <5>2. k = a \/ Holds(e.task, k, i)
          BY <1>2, <2>1, <3>3, <4>2
        <5> QED
          BY <2>1, <3>2, <4>2, <5>1, <5>2
      <4>3. k \in {"fresh", "question", "box", "run", "sent", "asked", "told"}
        BY <3>3 DEF Holds
      <4> QED
        BY <4>1, <4>2, <4>3
    <3>4. \A k : \A i \in Nat : Holds(t, k, i)' => k = a /\ i = 0
      BY <3>3
    <3>5. \E c, b : \A k : \A i \in Nat : Holds(t, k, i)' => k = c /\ i = b
      <4> WITNESS a, 0
      <4> QED
        BY <3>4
    <3> QED
      BY <3>5
  <2>2. CASE ~(GivesTurn(e) /\ t = e.task)
    <3>1. ASSUME NEW k, NEW i \in Nat, Holds(t, k, i)'
          PROVE  Holds(t, k, IF k = "told" THEN i + 1 ELSE i)
      <4>1. CASE k \in {"sent", "asked", "told"}
        BY <1>3, <3>1, <4>1
      <4>2. CASE k \in {"fresh", "question", "box", "run"}
        BY <2>2, <3>1, <4>2
      <4>3. k \in {"fresh", "question", "box", "run", "sent", "asked", "told"}
        BY <3>1 DEF Holds
      <4> QED
        BY <4>1, <4>2, <4>3
    <3> QED
      BY <3>1
  <2> QED
    BY <2>1, <2>2
<1> QED
  BY <1>4, TurnKept

LEMMA OneTurnInvariant ==
  ASSUME AdapterTypeOK, Wired, OneTurn, [Next]_vars
  PROVE  OneTurn'
<1>1. /\ sh \in Globals /\ sh.clarification \in Task \cup {None} /\ sh.pending \in Command \cup {None}
      /\ sh.approval \in Command \cup {None} /\ Closing(sh) \in Task \cup {None}
      /\ outPipe \in Seq(Event) /\ fresh \subseteq Task
  BY ClosingAt DEF AdapterTypeOK, Globals
<1>2. None \notin Task
  BY NoneAssumption
<1>3. ASSUME inbox' = inbox \/ inbox' = <<>>, inPipe' = inPipe \/ inPipe' = <<>>,
             outPipe' = outPipe \/ outPipe' = <<>>, fresh' \subseteq fresh,
             sh'.clarification \in {sh.clarification, None},
             sh'.approval \in {sh.approval, None}, sh'.pending \in {sh.pending, None}
      PROVE  OneTurn'
  <2>1. \A t \in Task : \A k \in {"fresh", "question", "box", "run"} : \A i \in Nat :
           Holds(t, k, i)' => Holds(t, k, i)
    BY <1>2, <1>3 DEF Holds, ApprovalTask, PendingTask
  <2> QED
    BY <1>3, <2>1, TurnStays
<1>4. ASSUME NEW m \in Message, ~AsksTurn(m), Send(outPipe, m), Calm, UNCHANGED fresh,
             sh'.clarification \in {sh.clarification, None}, sh'.approval \in {sh.approval, None},
             \/ sh'.pending = sh.pending
             \/ sh'.approval = None /\ sh'.pending = sh.approval
      PROVE  OneTurn'
  <2>1. \A t \in Task : \A k \in {"fresh", "question", "box", "run"} : \A i \in Nat :
           Holds(t, k, i)' => \/ Holds(t, k, i)
                              \/ k = "run" /\ i = 0 /\ Holds(t, "box", 0)
                                 /\ ApprovalTask(sh)' # t
    BY <1>2, <1>4 DEF Holds, ApprovalTask, PendingTask
  <2> QED
    BY <1>4, <2>1, TurnNotSent DEF Calm, coreVars
<1>5. CASE Idles
  <2>1. /\ UNCHANGED <<inbox, inPipe, outPipe, fresh>>
        /\ sh'.clarification \in {sh.clarification, None}
        /\ sh'.approval \in {sh.approval, None} /\ sh'.pending \in {sh.pending, None}
    BY <1>5 DEF Idles, Calm, coreVars, Still, linkVars, Same, Away
  <2> QED
    BY <1>3, <2>1
<1>6. CASE TurnsAway
  <2>1. CASE Still
    <3>1. /\ UNCHANGED <<inbox, inPipe, outPipe, fresh>>
          /\ sh'.clarification = None /\ sh'.approval = None /\ sh'.pending = sh.pending
      BY <1>6, <2>1 DEF TurnsAway, Calm, coreVars, Still, linkVars, Away
    <3> QED
      BY <1>3, <3>1
  <2>2. CASE Closing(sh) # None /\ Send(outPipe, About("abort", Closing(sh)))
    <3>1. About("abort", Closing(sh)) \in Message /\ ~AsksTurn(About("abort", Closing(sh)))
      BY <1>1, <2>2, MessageTyped DEF AsksTurn, About
    <3> QED
      BY <1>4, <1>6, <2>2, <3>1 DEF TurnsAway, Away
  <2> QED
    BY <1>6, <2>1, <2>2 DEF TurnsAway
<1>7. CASE Rejects
  <2>1. Ask("rejected", sh.approval) \in Message /\ ~AsksTurn(Ask("rejected", sh.approval))
    BY <1>1, <1>7, MessageTyped DEF Rejects, AsksTurn, Ask
  <2> QED
    BY <1>4, <1>7, <2>1 DEF Rejects, Away
<1>8. CASE Replies
  <2> DEFINE m == About("reply", sh.clarification)
  <2>1. m \in Message /\ AsksTurn(m) /\ m.task = sh.clarification /\ m.task \in Task
    BY <1>1, <1>8, MessageTyped DEF Replies, AsksTurn, About
  <2>2. Send(outPipe, m) /\ inbox' = inbox
    BY <1>8 DEF Replies, Calm, coreVars
  <2> HIDE DEF m
  <2>3. Holds(m.task, "question", 0)
    BY <2>1 DEF Holds
  <2>4. \A t \in Task : \A k \in {"fresh", "question", "box", "run"} : \A i \in Nat :
           Holds(t, k, i)' => Holds(t, k, i) /\ (t = m.task => k # "question")
    BY <1>2, <1>8 DEF Holds, Replies, ApprovalTask, PendingTask
  <2> QED
    BY <2>1, <2>2, <2>3, <2>4, TurnSent
<1>9. CASE Acks
  <2> DEFINE m == Ask("ack", sh.pending)
  <2>1. m \in Message /\ AsksTurn(m) /\ m.task = PendingTask(sh) /\ m.task \in Task
    BY <1>1, <1>9, MessageTyped DEF Acks, AsksTurn, Ask, PendingTask, Command
  <2>2. Send(outPipe, m) /\ inbox' = inbox
    BY <1>9 DEF Acks, Calm, coreVars
  <2> HIDE DEF m
  <2>3. Holds(m.task, "run", 0)
    BY <2>1 DEF Holds
  <2>4. \A t \in Task : \A k \in {"fresh", "question", "box", "run"} : \A i \in Nat :
           Holds(t, k, i)' => Holds(t, k, i) /\ (t = m.task => k # "run")
    BY <1>2, <1>9 DEF Holds, Acks, ApprovalTask, PendingTask
  <2> QED
    BY <2>1, <2>2, <2>3, <2>4, TurnSent
<1>10. CASE Fails
  BY <1>3, <1>10 DEF Fails, Cut, Calm, coreVars
<1>11. ASSUME NEW t \in Task, Begins(t) PROVE OneTurn'
  <2> DEFINE m == About("start", t)
  <2>1. m \in Message /\ AsksTurn(m) /\ m.task = t
    BY MessageTyped DEF AsksTurn, About
  <2>2. Send(outPipe, m) /\ inbox' = inbox
    BY <1>11 DEF Begins, Calm, coreVars
  <2> HIDE DEF m
  <2>3. Holds(m.task, "fresh", 0)
    BY <1>11, <2>1 DEF Holds, Begins
  <2>4. \A u \in Task : \A k \in {"fresh", "question", "box", "run"} : \A i \in Nat :
           Holds(u, k, i)' => Holds(u, k, i) /\ (u = m.task => k # "fresh")
    BY <1>2, <1>11, <2>1 DEF Holds, Begins, ApprovalTask, PendingTask
  <2> QED
    BY <2>1, <2>2, <2>3, <2>4, TurnSent
<1>12. ASSUME NEW op \in {"approved", "edited"}, Agreed(op) PROVE OneTurn'
  <2>1. Ask(op, sh.approval) \in Message /\ ~AsksTurn(Ask(op, sh.approval))
    BY <1>1, <1>12, MessageTyped DEF Agreed, AsksTurn, Ask
  <2> QED
    BY <1>4, <1>12, <2>1 DEF Agreed
<1>0. PICK e : e = Head(outPipe)
  OBVIOUS
<1>13. ASSUME outPipe # <<>> PROVE e \in Event /\ e.task \in Task
  BY <1>0, <1>13, HeadTyped
<1>14. \A t \in Task : About("abort", t) \in Message /\ ~AsksTurn(About("abort", t))
  BY MessageTyped DEF AsksTurn, About
<1>15. CASE Hears(e) \/ TakesTask(e) \/ TakesEnd(e) \/ Starts(e)
  <2>1. /\ outPipe # <<>> /\ Quiet /\ outPipe' = Tail(outPipe) /\ Calm /\ UNCHANGED fresh
        /\ sh'.clarification \in {sh.clarification, None}
        /\ sh'.approval \in {sh.approval, None} /\ sh'.pending \in {sh.pending, None}
    BY <1>15 DEF Hears, TakesTask, TakesEnd, Starts, Takes, Reads, Same, Away
  <2>2. \A t \in Task : \A k \in {"fresh", "question", "box", "run"} : \A i \in Nat :
           Holds(t, k, i)' => Holds(t, k, i)
    BY <1>2, <2>1 DEF Holds, ApprovalTask, PendingTask
  <2>3. GivesTurn(e) => GivenTo(e.task)
    <3>1. \A t \in Task : \A k \in {"fresh", "question", "box", "run"} : \A i \in Nat :
             Holds(t, k, i)' => Holds(t, k, i)
      BY <1>2, <2>1 DEF Holds, ApprovalTask, PendingTask
    <3> QED
      BY <1>13, <2>1, <3>1 DEF GivenTo
  <2>4. PICK m \in Message : ~AsksTurn(m) /\ Quiet /\ outPipe' = Tail(outPipe)
    BY <1>13, <1>14, <2>1
  <2>5. inbox' = inbox
    BY <2>1 DEF Calm, coreVars
  <2> QED
    BY <1>0, <2>1, <2>2, <2>3, <2>4, <2>5, TurnRead
<1>16. CASE TakesQuestion(e)
  <2>1. /\ outPipe # <<>> /\ Quiet /\ outPipe' = Tail(outPipe) /\ Calm /\ UNCHANGED fresh
        /\ sh'.clarification = e.task /\ sh'.approval = sh.approval /\ sh'.pending = sh.pending
        /\ GivesTurn(e)
    BY <1>16 DEF TakesQuestion, Takes, Reads, GivesTurn
  <2>2. \A t \in Task : \A k \in {"fresh", "question", "box", "run"} : \A i \in Nat :
           Holds(t, k, i)' => Holds(t, k, i) \/ (GivesTurn(e) /\ t = e.task /\ i = 0)
    BY <1>2, <2>1 DEF Holds, ApprovalTask, PendingTask
  <2>3. GivesTurn(e) => GivenTo(e.task)
    <3> SUFFICES \E a : \A k \in {"fresh", "question", "box", "run"} : \A i \in Nat :
           Holds(e.task, k, i)' => k = a \/ Holds(e.task, k, i)
      BY DEF GivenTo
    <3> WITNESS "question"
    <3> QED
      BY <1>2, <1>13, <2>1 DEF Holds, ApprovalTask, PendingTask
  <2>4. PICK m \in Message : ~AsksTurn(m) /\ Quiet /\ outPipe' = Tail(outPipe)
    BY <1>13, <1>14, <2>1
  <2>5. inbox' = inbox
    BY <2>1 DEF Calm, coreVars
  <2> QED
    BY <1>0, <2>1, <2>2, <2>3, <2>4, <2>5, TurnRead
<1>17. CASE TakesProposal(e)
  <2>1. outPipe # <<>> /\ Calm /\ UNCHANGED fresh /\ sh'.clarification = sh.clarification
        /\ GivesTurn(e) /\ inbox' = inbox
    BY <1>17 DEF TakesProposal, Takes, Reads, GivesTurn, Calm, coreVars
  <2>2. \/ /\ Quiet /\ outPipe' = Tail(outPipe)
           /\ sh'.approval = [task |-> e.task, round |-> e.round] /\ sh'.pending = sh.pending
        \/ /\ Quiet /\ outPipe' = Tail(outPipe)
           /\ sh'.approval = sh.approval /\ sh'.pending = [task |-> e.task, round |-> e.round]
        \/ /\ sh'.approval = sh.approval /\ sh'.pending = sh.pending
           /\ Send(Tail(outPipe), About("abort", e.task))
    BY <1>17 DEF TakesProposal
  <2>3. \A t \in Task : \A k \in {"fresh", "question", "box", "run"} : \A i \in Nat :
           Holds(t, k, i)' => Holds(t, k, i) \/ (GivesTurn(e) /\ t = e.task /\ i = 0)
    BY <1>2, <2>1, <2>2 DEF Holds, ApprovalTask, PendingTask
  <2>4. GivesTurn(e) => GivenTo(e.task)
    <3> SUFFICES \E a : \A k \in {"fresh", "question", "box", "run"} : \A i \in Nat :
           Holds(e.task, k, i)' => k = a \/ Holds(e.task, k, i)
      BY DEF GivenTo
    <3>1. CASE sh'.approval = sh.approval
      <4> WITNESS "run"
      <4> QED
        BY <1>2, <1>13, <2>1, <3>1 DEF Holds, ApprovalTask, PendingTask
    <3>2. CASE sh'.pending = sh.pending
      <4> WITNESS "box"
      <4> QED
        BY <1>2, <1>13, <2>1, <3>2 DEF Holds, ApprovalTask, PendingTask
    <3> QED
      BY <2>2, <3>1, <3>2
  <2>5. PICK m \in Message : ~AsksTurn(m) /\ ((Quiet /\ outPipe' = Tail(outPipe)) \/ Send(Tail(outPipe), m))
    BY <1>13, <1>14, <2>1, <2>2
  <2> QED
    BY <1>0, <2>1, <2>3, <2>4, <2>5, TurnRead
<1>18. CASE Forward
  <2> DEFINE m == Head(inPipe)
  <2>1. /\ m = inPipe[1] /\ Len(inPipe) \in Nat \ {0} /\ Len(inbox) \in Nat
        /\ DOMAIN inPipe = 1..Len(inPipe) /\ DOMAIN inPipe' = 1..(Len(inPipe) - 1)
        /\ \A i \in 1..(Len(inPipe) - 1) : inPipe'[i] = inPipe[i + 1]
        /\ DOMAIN inbox = 1..Len(inbox) /\ DOMAIN inbox' = 1..(Len(inbox) + 1)
        /\ \A i \in 1..Len(inbox) : inbox'[i] = inbox[i]
        /\ inbox'[Len(inbox) + 1] = m
        /\ sh' = sh /\ fresh' = fresh
    BY <1>18, ForwardEffect
  <2>2. /\ Len(outPipe) \in Nat /\ DOMAIN outPipe = 1..Len(outPipe)
        /\ \/ outPipe' = outPipe
           \/ /\ DOMAIN outPipe' = 1..(Len(outPipe) + 1)
              /\ \A i \in 1..Len(outPipe) : outPipe'[i] = outPipe[i]
              /\ outPipe'[Len(outPipe) + 1].event = "started"
    BY <1>18, ForwardEffect
  <2> HIDE DEF m
  <2>3. ASSUME NEW t \in Task, NEW k, NEW i \in Nat, Holds(t, k, i)'
        PROVE  \/ Holds(t, k, IF k = "sent" THEN i + 1 ELSE i) /\ (k = "sent" => i # 0)
               \/ k = "asked" /\ i = Len(inbox) + 1 /\ Holds(t, "sent", 1)
    <3>1. CASE k \in {"fresh", "question", "box", "run"}
      BY <2>1, <2>3, <3>1 DEF Holds
    <3>2. CASE k = "sent"
      BY <2>1, <2>3, <3>2 DEF Holds
    <3>3. CASE k = "asked"
      BY <2>1, <2>3, <3>3 DEF Holds
    <3>4. CASE k = "told"
      BY <2>2, <2>3, <3>4 DEF Holds, GivesTurn
    <3> QED
      BY <2>3, <3>1, <3>2, <3>3, <3>4, HoldsWhere DEF Holds
  <2>4. \A t \in Task :
           \/ \A k : \A i \in Nat : Holds(t, k, i)' => Holds(t, k, IF k = "sent" THEN i + 1 ELSE i)
           \/ \E a, b : \A k : \A i \in Nat : Holds(t, k, i)' => k = a /\ i = b
    <3> SUFFICES ASSUME NEW t \in Task
                 PROVE  \/ \A k : \A i \in Nat : Holds(t, k, i)' => Holds(t, k, IF k = "sent" THEN i + 1 ELSE i)
                        \/ \E a, b : \A k : \A i \in Nat : Holds(t, k, i)' => k = a /\ i = b
      OBVIOUS
    <3>1. CASE Holds(t, "sent", 1)
      <4>1. \A l : \A j \in Nat : Holds(t, l, j) => l = "sent" /\ j = 1
        BY <3>1 DEF OneTurn
      <4>2. \E a, b : \A k : \A i \in Nat : Holds(t, k, i)' => k = a /\ i = b
        <5>1. PICK n : n = Len(inbox) + 1
          OBVIOUS
        <5> WITNESS "asked", n
        <5> QED
          BY <2>3, <4>1, <5>1
      <4> QED
        BY <4>2
    <3>2. CASE ~Holds(t, "sent", 1)
      BY <2>3, <3>2
    <3> QED
      BY <3>1, <3>2
  <2> QED
    BY <2>4, TurnKept
<1>19. CASE HelperDies
  BY <1>3, <1>19 DEF HelperDies
<1>20. CASE ClearLost \/ \E t \in Task : Expire(t)
  BY <1>3, <1>20 DEF ClearLost, Expire, linkVars
<1>21. CASE Serve
  <2> DEFINE m == Head(inbox)
  <2>1. PICK x \in Entry \cup {None}, ev \in Seq(Event) : Served(m, x, ev) /\ Answer(x, ev)
    BY <1>21, ServeShape
  <2>2. Answers(m, ev) /\ inbox # <<>>
    BY <1>21, <2>1, ServeShape DEF Served
  <2>3. /\ m = inbox[1] /\ Len(inbox) \in Nat \ {0} /\ Len(outPipe) \in Nat
        /\ DOMAIN inbox = 1..Len(inbox) /\ DOMAIN inbox' = 1..(Len(inbox) - 1)
        /\ \A i \in 1..(Len(inbox) - 1) : inbox'[i] = inbox[i + 1]
        /\ DOMAIN outPipe = 1..Len(outPipe) /\ DOMAIN outPipe' = 1..(Len(outPipe) + Len(ev))
        /\ \A i \in 1..Len(outPipe) : outPipe'[i] = outPipe[i]
        /\ \A i \in 1..Len(ev) : outPipe'[Len(outPipe) + i] = ev[i]
        /\ UNCHANGED <<sh, inPipe, fresh>>
    BY <2>1, <2>2, AnswerEffect
  <2> HIDE DEF m
  <2>4. ASSUME NEW t \in Task, NEW k, NEW i \in Nat, Holds(t, k, i)'
        PROVE  \/ Holds(t, k, IF k = "asked" THEN i + 1 ELSE i) /\ (k = "asked" => i # 0)
               \/ k = "told" /\ i = Len(outPipe) + 1 /\ Holds(t, "asked", 1)
    <3>1. CASE k \in {"fresh", "question", "box", "run", "sent"}
      BY <2>3, <2>4, <3>1 DEF Holds
    <3>2. CASE k = "asked"
      BY <2>3, <2>4, <3>2 DEF Holds
    <3>3. CASE k = "told" /\ i \in 1..Len(outPipe)
      BY <2>3, <2>4, <3>3 DEF Holds
    <3>4. CASE k = "told" /\ i \notin 1..Len(outPipe)
      <4>1. i \in 1..(Len(outPipe) + Len(ev)) /\ Len(ev) \in {0, 1, 2}
        BY <2>2, <2>3, <2>4, <3>4 DEF Holds, Answers
      <4>2. i - Len(outPipe) \in 1..Len(ev) /\ outPipe'[i] = ev[i - Len(outPipe)]
        BY <2>3, <3>4, <4>1
      <4>3. outPipe'[i].task = t /\ GivesTurn(outPipe'[i])
        BY <2>4, <3>4 DEF Holds
      <4>4. m.task = t /\ AsksTurn(m) /\ Len(ev) = 1
        BY <2>2, <4>2, <4>3 DEF Answers
      <4> QED
        BY <2>3, <3>4, <4>2, <4>4 DEF Holds
    <3> QED
      BY <2>4, <3>1, <3>2, <3>3, <3>4 DEF Holds
  <2>5. \A t \in Task :
           \/ \A k : \A i \in Nat : Holds(t, k, i)' => Holds(t, k, IF k = "asked" THEN i + 1 ELSE i)
           \/ \E a, b : \A k : \A i \in Nat : Holds(t, k, i)' => k = a /\ i = b
    <3> SUFFICES ASSUME NEW t \in Task
                 PROVE  \/ \A k : \A i \in Nat : Holds(t, k, i)' => Holds(t, k, IF k = "asked" THEN i + 1 ELSE i)
                        \/ \E a, b : \A k : \A i \in Nat : Holds(t, k, i)' => k = a /\ i = b
      OBVIOUS
    <3>1. CASE Holds(t, "asked", 1)
      <4>1. \A l : \A j \in Nat : Holds(t, l, j) => l = "asked" /\ j = 1
        BY <3>1 DEF OneTurn
      <4>2. \E a, b : \A k : \A i \in Nat : Holds(t, k, i)' => k = a /\ i = b
        <5>1. PICK n : n = Len(outPipe) + 1
          OBVIOUS
        <5> WITNESS "told", n
        <5> QED
          BY <2>4, <4>1, <5>1
      <4> QED
        BY <4>2
    <3>2. CASE ~Holds(t, "asked", 1)
      BY <2>4, <3>2
    <3> QED
      BY <3>1, <3>2
  <2> QED
    BY <2>5, TurnKept
<1> QED
  BY <1>5, <1>6, <1>7, <1>8, <1>9, <1>10, <1>11, <1>12, <1>15, <1>16, <1>17, <1>18, <1>19, <1>20,
     <1>21, StepShape, <1>0

-----------------------------------------------------------------------------
(* A task is started once. *)

StartsOnce ==
  /\ confirmed \cap fresh = {}
  /\ \A i \in DOMAIN inPipe : inPipe[i].op = "start" => inPipe[i].task \notin confirmed
  /\ \A i \in DOMAIN outPipe : outPipe[i].event = "started" =>
       /\ outPipe[i].task \notin fresh \cup confirmed
       /\ \A j \in DOMAIN inPipe : inPipe[j].op = "start" => inPipe[j].task # outPipe[i].task
       /\ \A j \in DOMAIN outPipe :
            outPipe[j].event = "started" /\ outPipe[j].task = outPipe[i].task => i = j

LEMMA StartsKept ==
  ASSUME StartsOnce, fresh' \subseteq fresh, confirmed' = confirmed,
         \A i \in DOMAIN inPipe' : inPipe'[i].op = "start" =>
           \E j \in DOMAIN inPipe : inPipe[j] = inPipe'[i],
         NEW d \in {0, 1}, DOMAIN outPipe' \subseteq Nat,
         \A i \in DOMAIN outPipe' : outPipe'[i].event = "started" =>
           i + d \in DOMAIN outPipe /\ outPipe'[i] = outPipe[i + d]
  PROVE  StartsOnce'
<1>1. \A i \in DOMAIN inPipe' : inPipe'[i].op = "start" => inPipe'[i].task \notin confirmed'
  BY DEF StartsOnce
<1>2. ASSUME NEW i \in DOMAIN outPipe', outPipe'[i].event = "started"
      PROVE  /\ outPipe'[i].task \notin fresh' \cup confirmed'
             /\ \A j \in DOMAIN inPipe' : inPipe'[j].op = "start" => inPipe'[j].task # outPipe'[i].task
             /\ \A j \in DOMAIN outPipe' :
                  outPipe'[j].event = "started" /\ outPipe'[j].task = outPipe'[i].task => i = j
  <2>1. i + d \in DOMAIN outPipe /\ outPipe'[i] = outPipe[i + d]
    BY <1>2
  <2>2. /\ outPipe'[i].task \notin fresh' \cup confirmed'
        /\ \A j \in DOMAIN inPipe' : inPipe'[j].op = "start" => inPipe'[j].task # outPipe'[i].task
    BY <1>2, <2>1 DEF StartsOnce
  <2>3. ASSUME NEW j \in DOMAIN outPipe', outPipe'[j].event = "started", outPipe'[j].task = outPipe'[i].task
        PROVE  i = j
    <3>1. j + d \in DOMAIN outPipe /\ outPipe'[j] = outPipe[j + d]
      BY <2>3
    <3>2. i + d = j + d
      BY <1>2, <2>1, <2>3, <3>1 DEF StartsOnce
    <3>3. i \in Nat /\ j \in Nat /\ d \in Nat
      OBVIOUS
    <3> QED
      BY <3>2, <3>3
  <2> QED
    BY <2>2, <2>3
<1>3. confirmed' \cap fresh' = {}
  BY DEF StartsOnce
<1> QED
  BY <1>1, <1>2, <1>3 DEF StartsOnce

\* After a message that starts nothing.
LEMMA StartsKeptBySend ==
  ASSUME AdapterTypeOK, Wired, StartsOnce, NEW m \in Message, m.op # "start", Send(outPipe, m),
         fresh' = fresh, confirmed' = confirmed
  PROVE  StartsOnce'
<1>1. /\ Len(inPipe) \in Nat /\ DOMAIN inPipe' = 1..(Len(inPipe) + 1) /\ DOMAIN inPipe = 1..Len(inPipe)
      /\ \A j \in 1..Len(inPipe) : inPipe'[j] = inPipe[j]
      /\ inPipe'[Len(inPipe) + 1] = m
      /\ outPipe' \in {outPipe, <<>>} /\ outPipe \in Seq(Event)
  BY SendEffect DEF AdapterTypeOK
<1>2. \A i \in DOMAIN inPipe' : inPipe'[i].op = "start" =>
        \E j \in DOMAIN inPipe : inPipe[j] = inPipe'[i]
  BY <1>1
<1>3. DOMAIN <<>> = {} /\ DOMAIN outPipe \subseteq Nat
  BY <1>1
<1>4. DOMAIN outPipe' \subseteq Nat
      /\ \A i \in DOMAIN outPipe' : outPipe'[i].event = "started" =>
           i + 0 \in DOMAIN outPipe /\ outPipe'[i] = outPipe[i + 0]
  BY <1>1, <1>3
<1> QED
  BY <1>2, <1>4, StartsKept

\* After an event that was read, be it that the message m is sent.
LEMMA StartsKeptByRead ==
  ASSUME AdapterTypeOK, Wired, StartsOnce, outPipe # <<>>,
         NEW m \in Message, m.op # "start",
         (Quiet /\ outPipe' = Tail(outPipe)) \/ Send(Tail(outPipe), m),
         fresh' = fresh, confirmed' = confirmed
  PROVE  StartsOnce'
<1>1. /\ Tail(outPipe) \in Seq(Event) /\ Len(outPipe) \in Nat \ {0}
      /\ DOMAIN outPipe = 1..Len(outPipe) /\ DOMAIN Tail(outPipe) = 1..(Len(outPipe) - 1)
      /\ \A j \in 1..(Len(outPipe) - 1) : Tail(outPipe)[j] = outPipe[j + 1]
  BY TailEffect DEF AdapterTypeOK
<1> DEFINE rest == Tail(outPipe)
<1>2. outPipe' \in {rest, <<>>}
      /\ \A i \in DOMAIN inPipe' : inPipe'[i].op = "start" =>
           \E j \in DOMAIN inPipe : inPipe[j] = inPipe'[i]
  <2>1. CASE Quiet /\ outPipe' = rest
    BY <2>1 DEF Quiet
  <2>2. CASE Send(rest, m)
    <3> HIDE DEF rest
    <3>1. /\ Len(inPipe) \in Nat /\ DOMAIN inPipe' = 1..(Len(inPipe) + 1) /\ DOMAIN inPipe = 1..Len(inPipe)
          /\ \A j \in 1..Len(inPipe) : inPipe'[j] = inPipe[j]
          /\ inPipe'[Len(inPipe) + 1] = m
          /\ outPipe' \in {rest, <<>>}
      BY <1>1, <2>2, SendEffect DEF rest
    <3> QED
      BY <3>1
  <2> QED
    BY <2>1, <2>2
<1>3. DOMAIN <<>> = {}
  OBVIOUS
<1>4. DOMAIN outPipe' \subseteq Nat
      /\ \A i \in DOMAIN outPipe' : outPipe'[i].event = "started" =>
           i + 1 \in DOMAIN outPipe /\ outPipe'[i] = outPipe[i + 1]
  BY <1>1, <1>2, <1>3
<1> QED
  BY <1>2, <1>4, StartsKept

LEMMA StartsKeptByCut ==
  ASSUME AdapterTypeOK, StartsOnce, fresh' \subseteq fresh, confirmed' = confirmed,
         inPipe' = inPipe \/ inPipe' = <<>>, outPipe' = outPipe \/ outPipe' = <<>>
  PROVE  StartsOnce'
<1>1. DOMAIN <<>> = {} /\ DOMAIN outPipe \subseteq Nat
  BY DEF AdapterTypeOK
<1> QED
  BY <1>1 DEF StartsOnce

LEMMA StartsInvariant ==
  ASSUME AdapterTypeOK, Wired, OneTurn, StartsOnce, [Next]_vars
  PROVE  StartsOnce'
<1>0. PICK e : e = Head(outPipe)
  OBVIOUS
<1>1. /\ sh.clarification \in Task \cup {None} /\ sh.pending \in Command \cup {None}
      /\ sh.approval \in Command \cup {None} /\ Closing(sh) \in Task \cup {None}
      /\ outPipe \in Seq(Event) /\ fresh \subseteq Task
  BY ClosingAt DEF AdapterTypeOK, Globals
<1>2. /\ \A t \in Task : \A op \in {"abort", "reply"} : About(op, t) \in Message /\ About(op, t).op # "start"
      /\ \A c \in Command : \A op \in {"approved", "edited", "rejected", "ack"} :
           Ask(op, c) \in Message /\ Ask(op, c).op # "start"
  BY MessageTyped DEF About, Ask
<1>3. CASE Idles
  BY <1>3, StartsKeptByCut DEF Idles, Still, linkVars, histVars
<1>4. CASE TurnsAway
  <2>1. CASE Still
    BY <1>4, <2>1, StartsKeptByCut DEF TurnsAway, Still, linkVars, Dismiss
  <2>2. CASE Closing(sh) # None /\ Send(outPipe, About("abort", Closing(sh)))
    BY <1>1, <1>2, <1>4, <2>2, StartsKeptBySend DEF TurnsAway, Dismiss
  <2> QED
    BY <1>4, <2>1, <2>2 DEF TurnsAway
<1>5. CASE Rejects
  BY <1>1, <1>2, <1>5, StartsKeptBySend DEF Rejects, Dismiss
<1>6. CASE Replies
  BY <1>1, <1>2, <1>6, StartsKeptBySend DEF Replies, histVars
<1>7. CASE Acks
  BY <1>1, <1>2, <1>7, StartsKeptBySend DEF Acks, histVars
<1>8. CASE Fails
  BY <1>8, StartsKeptByCut DEF Fails, Cut, histVars, Dismiss
<1>9. ASSUME NEW op \in {"approved", "edited"}, Agreed(op) PROVE StartsOnce'
  BY <1>1, <1>2, <1>9, StartsKeptBySend DEF Agreed, histVars
<1>10. ASSUME NEW t \in Task, Begins(t) PROVE StartsOnce'
  <2>1. About("start", t) \in Message /\ About("start", t).op = "start" /\ About("start", t).task = t
    BY MessageTyped DEF About
  <2>2. /\ Len(inPipe) \in Nat /\ DOMAIN inPipe' = 1..(Len(inPipe) + 1) /\ DOMAIN inPipe = 1..Len(inPipe)
        /\ \A j \in 1..Len(inPipe) : inPipe'[j] = inPipe[j]
        /\ inPipe'[Len(inPipe) + 1] = About("start", t)
        /\ outPipe' \in {outPipe, <<>>}
    BY <1>1, <1>10, <2>1, SendEffect DEF Begins
  <2>3. t \in fresh /\ fresh' = fresh \ {t} /\ confirmed' = confirmed
    BY <1>10 DEF Begins, histVars
  <2>4. DOMAIN <<>> = {}
    OBVIOUS
  <2>5. \A i \in DOMAIN inPipe' : inPipe'[i].op = "start" =>
          inPipe'[i].task = t \/ \E j \in DOMAIN inPipe : inPipe[j] = inPipe'[i]
    BY <2>1, <2>2
  <2>6. \A i \in DOMAIN outPipe' : i \in DOMAIN outPipe /\ outPipe'[i] = outPipe[i]
    BY <2>2, <2>4
  <2>7. \A i \in DOMAIN outPipe : outPipe[i].event = "started" => outPipe[i].task # t
    BY <2>3 DEF StartsOnce
  <2> HIDE DEF StartsOnce
  <2> QED
    BY <2>3, <2>5, <2>6, <2>7 DEF StartsOnce
<1>11. ASSUME outPipe # <<>> PROVE e \in Event /\ e.task \in Task
  BY <1>0, <1>11, HeadTyped
<1>12. CASE Hears(e) \/ TakesTask(e) \/ TakesQuestion(e) \/ TakesEnd(e) \/ TakesProposal(e)
  <2>1. outPipe # <<>> /\ fresh' = fresh /\ confirmed' = confirmed
        /\ ((Quiet /\ outPipe' = Tail(outPipe)) \/ Send(Tail(outPipe), About("abort", e.task)))
    BY <1>12 DEF Hears, TakesTask, TakesQuestion, TakesEnd, TakesProposal, Takes, Reads, histVars
  <2> QED
    BY <1>2, <1>11, <2>1, StartsKeptByRead
<1>13. CASE Starts(e)
  <2>1. /\ Len(outPipe) \in Nat \ {0} /\ e = outPipe[1]
        /\ DOMAIN outPipe = 1..Len(outPipe) /\ DOMAIN Tail(outPipe) = 1..(Len(outPipe) - 1)
        /\ \A j \in 1..(Len(outPipe) - 1) : Tail(outPipe)[j] = outPipe[j + 1]
        /\ outPipe' = Tail(outPipe)
    BY <1>0, <1>1, <1>13, TailEffect DEF Starts, Reads
  <2>2. e.event = "started" /\ confirmed' = confirmed \cup {e.task} /\ inPipe' = inPipe /\ fresh' = fresh
    BY <1>13 DEF Starts, Reads, Quiet
  <2>3. /\ e.task \notin fresh \cup confirmed
        /\ \A j \in DOMAIN inPipe : inPipe[j].op = "start" => inPipe[j].task # e.task
        /\ \A j \in DOMAIN outPipe : outPipe[j].event = "started" /\ j # 1 => outPipe[j].task # e.task
    BY <2>1, <2>2 DEF StartsOnce
  <2>4. confirmed' \cap fresh' = {}
        /\ \A i \in DOMAIN inPipe' : inPipe'[i].op = "start" => inPipe'[i].task \notin confirmed'
    BY <2>2, <2>3 DEF StartsOnce
  <2>5. \A i \in DOMAIN outPipe' : i \in Nat /\ i + 1 \in DOMAIN outPipe /\ i + 1 # 1
                                   /\ outPipe'[i] = outPipe[i + 1]
    BY <2>1
  <2>6. \A i, j \in DOMAIN outPipe' : i + 1 = j + 1 => i = j
    BY <2>5
  <2> QED
    BY <2>2, <2>3, <2>4, <2>5, <2>6 DEF StartsOnce
<1>14. CASE Forward
  <2> DEFINE m == Head(inPipe)
  <2>1. /\ m = inPipe[1] /\ m \in Message /\ Len(inPipe) \in Nat \ {0} /\ Len(inbox) \in Nat
        /\ DOMAIN inPipe = 1..Len(inPipe) /\ DOMAIN inPipe' = 1..(Len(inPipe) - 1)
        /\ \A i \in 1..(Len(inPipe) - 1) : inPipe'[i] = inPipe[i + 1]
        /\ confirmed' = confirmed /\ fresh' = fresh
    BY <1>14, ForwardEffect DEF histVars
  <2>2. \A i \in DOMAIN inPipe' : \E j \in DOMAIN inPipe : j # 1 /\ inPipe[j] = inPipe'[i]
    BY <2>1
  <2>3. CASE m.op # "start"
    <3>1. outPipe' = outPipe
      BY <1>14, <2>3, ForwardEffect
    <3> QED
      BY <2>1, <2>2, <3>1 DEF StartsOnce
  <2>4. CASE m.op = "start"
    <3>1. /\ Len(outPipe) \in Nat /\ DOMAIN outPipe = 1..Len(outPipe)
          /\ DOMAIN outPipe' = 1..(Len(outPipe) + 1)
          /\ \A i \in 1..Len(outPipe) : outPipe'[i] = outPipe[i]
          /\ outPipe'[Len(outPipe) + 1].task = m.task
      BY <1>14, <2>4, ForwardEffect
    <3>2. m.task \in Task /\ m.task \notin confirmed
      BY <2>1, <2>4 DEF StartsOnce, Message
    <3>3. Holds(m.task, "sent", 1)
      BY <2>1, <2>4 DEF Holds, AsksTurn
    <3>4. m.task \notin fresh
      BY <3>2, <3>3 DEF OneTurn, Holds
    <3>5. \A j \in DOMAIN inPipe : j # 1 /\ inPipe[j].op = "start" => inPipe[j].task # m.task
      <4> SUFFICES ASSUME NEW j \in DOMAIN inPipe, j # 1, inPipe[j].op = "start", inPipe[j].task = m.task
                   PROVE  FALSE
        OBVIOUS
      <4>1. Holds(m.task, "sent", j) /\ j \in Nat
        BY <2>1 DEF Holds, AsksTurn
      <4> QED
        BY <3>2, <3>3, <4>1 DEF OneTurn
    <3>6. \A i \in DOMAIN outPipe : outPipe[i].event = "started" => outPipe[i].task # m.task
      BY <2>1, <2>4 DEF StartsOnce
    <3>7. \A i \in DOMAIN outPipe' : (i \in DOMAIN outPipe /\ outPipe'[i] = outPipe[i])
                                     \/ (i = Len(outPipe) + 1 /\ outPipe'[i].task = m.task)
      BY <3>1
    <3> HIDE DEF m
    <3> QED
      BY <2>1, <2>2, <3>2, <3>4, <3>5, <3>6, <3>7 DEF StartsOnce
  <2> QED
    BY <2>3, <2>4
<1>15. CASE HelperDies \/ ClearLost \/ \E t \in Task : Expire(t)
  BY <1>15, StartsKeptByCut DEF HelperDies, ClearLost, Expire, linkVars, histVars
<1>16. CASE Serve
  <2> DEFINE m == Head(inbox)
  <2>1. PICK x \in Entry \cup {None}, ev \in Seq(Event) : Served(m, x, ev) /\ Answer(x, ev)
    BY <1>16, ServeShape
  <2>2. Answers(m, ev) /\ inbox # <<>>
    BY <1>16, <2>1, ServeShape DEF Served
  <2>3. /\ Len(outPipe) \in Nat
        /\ DOMAIN outPipe = 1..Len(outPipe) /\ DOMAIN outPipe' = 1..(Len(outPipe) + Len(ev))
        /\ \A i \in 1..Len(outPipe) : outPipe'[i] = outPipe[i]
        /\ \A i \in 1..Len(ev) : outPipe'[Len(outPipe) + i] = ev[i]
        /\ UNCHANGED <<inPipe, fresh, histVars>>
    BY <2>1, <2>2, AnswerEffect
  <2>4. /\ Len(ev) \in Nat
        /\ \A i \in 1..Len(ev) : ev[i].event # "started"
    BY <2>2 DEF Answers
  <2>5. ASSUME NEW i \in DOMAIN outPipe', outPipe'[i].event = "started"
        PROVE  i + 0 \in DOMAIN outPipe /\ outPipe'[i] = outPipe[i + 0]
    <3>1. i \in 1..(Len(outPipe) + Len(ev))
      BY <2>3
    <3>2. CASE i \in 1..Len(outPipe)
      BY <2>3, <3>2
    <3>3. CASE i \notin 1..Len(outPipe)
      <4>1. i - Len(outPipe) \in 1..Len(ev) /\ outPipe'[i] = ev[i - Len(outPipe)]
        BY <2>3, <2>4, <3>1, <3>3
      <4> QED
        BY <2>4, <2>5, <4>1
    <3> QED
      BY <3>2, <3>3
  <2>6. DOMAIN outPipe' \subseteq Nat
    BY <2>3, <2>4
  <2>7. fresh' \subseteq fresh /\ confirmed' = confirmed
        /\ \A i \in DOMAIN inPipe' : inPipe'[i].op = "start" => \E j \in DOMAIN inPipe : inPipe[j] = inPipe'[i]
    BY <2>3 DEF histVars
  <2> QED
    BY <2>5, <2>6, <2>7, StartsKept
<1> QED
  BY <1>0, <1>3, <1>4, <1>5, <1>6, <1>7, <1>8, <1>9, <1>10, <1>12, <1>13, <1>14, <1>15, <1>16, StepShape

-----------------------------------------------------------------------------
(* A task that was turned away from. *)

\* What the FIFOs and the socket come to, but for what the helper and the daemon do.
LinksMove ==
  /\ inbox' \in {inbox, <<>>}
  /\ outPipe' \in {outPipe, <<>>} \/ (outPipe # <<>> /\ outPipe' = Tail(outPipe))
  /\ \/ inPipe' \in {inPipe, <<>>}
     \/ \E m \in Message :
          /\ inPipe' = Append(inPipe, m)
          /\ AsksTurn(m) => m.task \in fresh \cup {sh.clarification, PendingTask(sh)}

LEMMA SendMoves ==
  ASSUME AdapterTypeOK, Wired, inbox' = inbox, NEW m \in Message,
         Send(outPipe, m) \/ (outPipe # <<>> /\ Send(Tail(outPipe), m)),
         AsksTurn(m) => m.task \in fresh \cup {sh.clarification, PendingTask(sh)}
  PROVE  LinksMove
<1>1. Append(<<>>, m) = <<m>>
  OBVIOUS
<1>2. /\ inPipe' = Append(inPipe, m)
      /\ outPipe' \in {outPipe, <<>>} \/ (outPipe # <<>> /\ outPipe' = Tail(outPipe))
  BY <1>1 DEF Send, Wired
<1> QED
  BY <1>2 DEF LinksMove

LEMMA StepMoves ==
  ASSUME AdapterTypeOK, Wired, [Next]_vars
  PROVE  LinksMove \/ Forward \/ Serve
<1>1. /\ sh.clarification \in Task \cup {None} /\ sh.pending \in Command \cup {None}
      /\ sh.approval \in Command \cup {None} /\ Closing(sh) \in Task \cup {None}
  BY ClosingAt DEF AdapterTypeOK, Globals
<1>2. /\ \A t \in Task : About("abort", t) \in Message /\ ~AsksTurn(About("abort", t))
      /\ \A t \in Task : \A op \in {"start", "reply"} : About(op, t) \in Message /\ About(op, t).task = t
      /\ \A c \in Command : Ask("ack", c) \in Message /\ Ask("ack", c).task = c.task
      /\ \A c \in Command : \A op \in {"approved", "edited", "rejected"} :
           Ask(op, c) \in Message /\ ~AsksTurn(Ask(op, c))
  BY MessageTyped DEF About, Ask, AsksTurn
<1>0. PICK e : e = Head(outPipe)
  OBVIOUS
<1>3. outPipe # <<>> => e.task \in Task
  BY <1>0, HeadTyped
<1>4. CASE Idles
  BY <1>4 DEF Idles, Still, linkVars, Calm, coreVars, LinksMove
<1>5. CASE TurnsAway
  <2>1. CASE Still
    BY <1>5, <2>1 DEF TurnsAway, Still, linkVars, Calm, coreVars, LinksMove
  <2>2. CASE Closing(sh) # None /\ Send(outPipe, About("abort", Closing(sh)))
    BY <1>1, <1>2, <1>5, <2>2, SendMoves DEF TurnsAway, Calm, coreVars
  <2> QED
    BY <1>5, <2>1, <2>2 DEF TurnsAway
<1>6. CASE Rejects
  BY <1>1, <1>2, <1>6, SendMoves DEF Rejects, Calm, coreVars
<1>7. CASE Replies
  BY <1>1, <1>2, <1>7, SendMoves DEF Replies, Calm, coreVars
<1>8. CASE Acks
  BY <1>1, <1>2, <1>8, SendMoves DEF Acks, Calm, coreVars, PendingTask
<1>9. CASE Fails
  BY <1>9 DEF Fails, Cut, Calm, coreVars, LinksMove
<1>10. ASSUME NEW t \in Task, Begins(t) PROVE LinksMove
  BY <1>1, <1>2, <1>10, SendMoves DEF Begins, Calm, coreVars
<1>11. ASSUME NEW op \in {"approved", "edited"}, Agreed(op) PROVE LinksMove
  BY <1>1, <1>2, <1>11, SendMoves DEF Agreed, Calm, coreVars
<1>12. CASE Hears(e) \/ Starts(e) \/ TakesTask(e) \/ TakesQuestion(e) \/ TakesEnd(e)
  <2>1. outPipe # <<>> /\ Quiet /\ outPipe' = Tail(outPipe) /\ inbox' = inbox
    BY <1>12 DEF Hears, Starts, TakesTask, TakesQuestion, TakesEnd, Takes, Reads, Calm, coreVars
  <2> QED
    BY <2>1 DEF Quiet, LinksMove
<1>13. CASE TakesProposal(e)
  <2>1. outPipe # <<>> /\ inbox' = inbox
        /\ ((Quiet /\ outPipe' = Tail(outPipe)) \/ Send(Tail(outPipe), About("abort", e.task)))
    BY <1>13 DEF TakesProposal, Takes, Reads, Calm, coreVars
  <2>2. CASE Quiet /\ outPipe' = Tail(outPipe)
    BY <2>1, <2>2 DEF Quiet, LinksMove
  <2>3. CASE Send(Tail(outPipe), About("abort", e.task))
    BY <1>2, <1>3, <2>1, <2>3, SendMoves
  <2> QED
    BY <2>1, <2>2, <2>3
<1>14. CASE HelperDies \/ ClearLost \/ \E t \in Task : Expire(t)
  BY <1>14 DEF HelperDies, ClearLost, Expire, linkVars, LinksMove
<1> QED
  BY <1>0, <1>4, <1>5, <1>6, <1>7, <1>8, <1>9, <1>10, <1>11, <1>12, <1>13, <1>14, StepShape

\* What is read of a sequence that moved up by d.
LEMMA MovedUp ==
  ASSUME AdapterTypeOK, LinksMove
  PROVE  /\ DOMAIN outPipe = 1..Len(outPipe) /\ Len(outPipe) \in Nat
         /\ \E n \in Nat : DOMAIN outPipe' = 1..n
         /\ \E d \in {0, 1} : \A j \in DOMAIN outPipe' :
              j + d \in DOMAIN outPipe /\ outPipe'[j] = outPipe[j + d]
         /\ outPipe # <<>> /\ outPipe' \in {Tail(outPipe), <<>>} => \A j \in DOMAIN outPipe' :
              j + 1 \in DOMAIN outPipe /\ outPipe'[j] = outPipe[j + 1]
<1>1. outPipe \in Seq(Event)
  BY DEF AdapterTypeOK
<1>2. DOMAIN <<>> = {} /\ 1..0 = {}
  OBVIOUS
<1>3. DOMAIN outPipe = 1..Len(outPipe) /\ Len(outPipe) \in Nat
  BY <1>1
<1>4. ASSUME outPipe # <<>>
      PROVE  /\ Len(outPipe) \in Nat \ {0} /\ DOMAIN Tail(outPipe) = 1..(Len(outPipe) - 1)
             /\ \A i \in 1..(Len(outPipe) - 1) : Tail(outPipe)[i] = outPipe[i + 1]
  BY <1>1, <1>4, TailEffect
<1>5. CASE outPipe' = outPipe
  <2>1. \A j \in DOMAIN outPipe' : j + 0 \in DOMAIN outPipe /\ outPipe'[j] = outPipe[j + 0]
    BY <1>3, <1>5
  <2>2. outPipe # <<>> => outPipe' # <<>> /\ outPipe' # Tail(outPipe)
    BY <1>1, <1>5
  <2> QED
    BY <1>3, <1>5, <2>1, <2>2
<1>6. CASE outPipe' = <<>>
  BY <1>2, <1>3, <1>6
<1>7. CASE outPipe # <<>> /\ outPipe' = Tail(outPipe)
  <2>1. \A j \in DOMAIN outPipe' : j + 1 \in DOMAIN outPipe /\ outPipe'[j] = outPipe[j + 1]
    BY <1>3, <1>4, <1>7
  <2>2. Len(outPipe) - 1 \in Nat /\ DOMAIN outPipe' = 1..(Len(outPipe) - 1)
    BY <1>4, <1>7
  <2> QED
    BY <1>3, <2>1, <2>2
<1> QED
  BY <1>5, <1>6, <1>7 DEF LinksMove

\* Of the messages to the daemon none is new, or the last.
LEMMA MovedIn ==
  ASSUME AdapterTypeOK, LinksMove
  PROVE  /\ DOMAIN inPipe = 1..Len(inPipe) /\ Len(inPipe) \in Nat
         /\ \A i \in DOMAIN inPipe' : i \in Nat \ {0} /\
              \/ /\ i \in DOMAIN inPipe /\ inPipe'[i] = inPipe[i]
                 /\ \A j \in 1..i : inPipe'[j] = inPipe[j]
              \/ /\ i = Len(inPipe) + 1 /\ inPipe'[i] \in Message
                 /\ AsksTurn(inPipe'[i]) => inPipe'[i].task \in fresh \cup {sh.clarification, PendingTask(sh)}
                 /\ \A j \in 1..(i - 1) : inPipe'[j] = inPipe[j]
         /\ \A i \in DOMAIN inbox' : i \in Nat \ {0} /\ i \in DOMAIN inbox /\ inbox' = inbox
<1>1. inPipe \in Seq(Message) /\ inbox \in Seq(Message)
  BY DEF AdapterTypeOK
<1>2. DOMAIN <<>> = {}
  OBVIOUS
<1>3. DOMAIN inPipe = 1..Len(inPipe) /\ Len(inPipe) \in Nat /\ DOMAIN inbox = 1..Len(inbox) /\ Len(inbox) \in Nat
  BY <1>1
<1>4. \A i \in DOMAIN inbox' : i \in Nat \ {0} /\ i \in DOMAIN inbox /\ inbox' = inbox
  BY <1>2, <1>3 DEF LinksMove
<1>5. CASE inPipe' \in {inPipe, <<>>}
  BY <1>2, <1>3, <1>4, <1>5
<1>6. ASSUME NEW m \in Message, inPipe' = Append(inPipe, m),
             AsksTurn(m) => m.task \in fresh \cup {sh.clarification, PendingTask(sh)}
      PROVE  \A i \in DOMAIN inPipe' : i \in Nat \ {0} /\
              \/ /\ i \in DOMAIN inPipe /\ inPipe'[i] = inPipe[i]
                 /\ \A j \in 1..i : inPipe'[j] = inPipe[j]
              \/ /\ i = Len(inPipe) + 1 /\ inPipe'[i] \in Message
                 /\ AsksTurn(inPipe'[i]) => inPipe'[i].task \in fresh \cup {sh.clarification, PendingTask(sh)}
                 /\ \A j \in 1..(i - 1) : inPipe'[j] = inPipe[j]
  <2>1. /\ DOMAIN inPipe' = 1..(Len(inPipe) + 1)
        /\ \A j \in 1..Len(inPipe) : inPipe'[j] = inPipe[j]
        /\ inPipe'[Len(inPipe) + 1] = m
    BY <1>1, <1>6
  <2> QED
    BY <1>3, <1>6, <2>1
<1> QED
  BY <1>3, <1>4, <1>5, <1>6 DEF LinksMove

\* The task may still get a turn: the user is to be asked something of it.
Comes(t) == \E k \in {"sent", "asked", "told"} : \E i \in Nat : Holds(t, k, i)

AwayFrom(t) ==
  /\ t \in confirmed
  /\ t # sh.clarification /\ t # ApprovalTask(sh) /\ t # PendingTask(sh)
  /\ Comes(t) => sh.task # t /\ (sh.closed = t \/ sh.task # None)

\* A task that was turned away from and may still get a turn is not the shell's, and
\* either the closed one or the shell has another.
TurnedAway == ~confused => \A t \in dismissed : AwayFrom(t)

Of(t, e) == e.task = t \/ e.event = "started"

\* Nothing of another task comes before the turn of t.
FirstOf(t) ==
  /\ \A i \in DOMAIN outPipe : outPipe[i].task = t /\ GivesTurn(outPipe[i]) =>
       \A j \in 1..i : Of(t, outPipe[j])
  /\ \A i \in DOMAIN inbox : inbox[i].task = t /\ AsksTurn(inbox[i]) =>
       /\ \A j \in 1..i : inbox[j].task = t
       /\ \A j \in DOMAIN outPipe : Of(t, outPipe[j])
  /\ \A i \in DOMAIN inPipe : inPipe[i].task = t /\ AsksTurn(inPipe[i]) =>
       /\ \A j \in 1..i : inPipe[j].task = t
       /\ \A j \in DOMAIN inbox : inbox[j].task = t
       /\ \A j \in DOMAIN outPipe : Of(t, outPipe[j])

First == ~confused => \A t \in dismissed : FirstOf(t)

LEMMA ComesIsIgnored ==
  ASSUME NEW t \in Task, AwayFrom(t), Comes(t)
  PROVE  Ignores(sh, t) /\ InFlight(t)
<1>1. Ignores(sh, t)
  BY NoneAssumption DEF AwayFrom, Ignores, IsClosedEvent, IsCurrentEvent
<1>2. InFlight(t)
  BY DEF Comes, Holds, InFlight
<1> QED
  BY <1>1, <1>2

\* Nothing is sent that asks for a turn of t.
Unasked(t) ==
  \A i \in DOMAIN inPipe' : inPipe'[i].task = t /\ AsksTurn(inPipe'[i]) => i \in DOMAIN inPipe

LEMMA UnaskedOfOthers ==
  ASSUME AdapterTypeOK, LinksMove, NEW t,
         t \notin fresh \cup {sh.clarification, PendingTask(sh)}
  PROVE  Unasked(t)
  BY MovedIn DEF Unasked

LEMMA UnaskedInTurningAway ==
  ASSUME AdapterTypeOK, Wired, TurnsAway \/ Rejects \/ Fails, NEW t
  PROVE  Unasked(t) /\ LinksMove
<1>1. /\ sh.approval \in Command \cup {None} /\ Closing(sh) \in Task \cup {None}
      /\ inPipe \in Seq(Message) /\ outPipe \in Seq(Event)
  BY ClosingAt DEF AdapterTypeOK, Globals
<1>2. ASSUME NEW m \in Message, ~AsksTurn(m), Send(outPipe, m), Calm
      PROVE  Unasked(t) /\ LinksMove
  <2>1. /\ DOMAIN inPipe' = 1..(Len(inPipe) + 1) /\ DOMAIN inPipe = 1..Len(inPipe) /\ Len(inPipe) \in Nat
        /\ inPipe'[Len(inPipe) + 1] = m
    BY <1>1, <1>2, SendEffect
  <2>2. Unasked(t)
    BY <1>2, <2>1 DEF Unasked
  <2> QED
    BY <1>2, <2>2, SendMoves DEF Calm, coreVars
<1>3. CASE TurnsAway
  <2>1. CASE Still
    BY <1>3, <2>1 DEF TurnsAway, Still, linkVars, Calm, coreVars, Unasked, LinksMove
  <2>2. CASE Closing(sh) # None /\ Send(outPipe, About("abort", Closing(sh)))
    <3>1. About("abort", Closing(sh)) \in Message /\ ~AsksTurn(About("abort", Closing(sh)))
      BY <1>1, <2>2, MessageTyped DEF AsksTurn, About
    <3> QED
      BY <1>2, <1>3, <2>2, <3>1 DEF TurnsAway
  <2> QED
    BY <1>3, <2>1, <2>2 DEF TurnsAway
<1>4. CASE Rejects
  <2>1. Ask("rejected", sh.approval) \in Message /\ ~AsksTurn(Ask("rejected", sh.approval))
    BY <1>1, <1>4, MessageTyped DEF Rejects, AsksTurn, Ask
  <2> QED
    BY <1>2, <1>4, <2>1 DEF Rejects
<1>5. CASE Fails
  <2>1. DOMAIN <<>> = {}
    OBVIOUS
  <2> QED
    BY <1>5, <2>1 DEF Fails, Cut, Calm, coreVars, Unasked, LinksMove
<1> QED
  BY <1>3, <1>4, <1>5

LEMMA ComesStill ==
  ASSUME AdapterTypeOK, LinksMove, NEW t, Unasked(t), Comes(t)'
  PROVE  Comes(t)
<1>1. PICK k \in {"sent", "asked", "told"}, i \in Nat : Holds(t, k, i)'
  BY DEF Comes
<1>2. CASE k = "sent"
  <2>1. i \in DOMAIN inPipe' /\ inPipe'[i].task = t /\ AsksTurn(inPipe'[i])
    BY <1>1, <1>2 DEF Holds
  <2>2. i \in DOMAIN inPipe /\ inPipe'[i] = inPipe[i]
    BY <2>1, MovedIn DEF Unasked
  <2>3. Holds(t, "sent", i)
    BY <2>1, <2>2 DEF Holds
  <2> QED
    BY <2>3 DEF Comes
<1>3. CASE k = "asked"
  <2>1. i \in DOMAIN inbox' /\ inbox'[i].task = t /\ AsksTurn(inbox'[i])
    BY <1>1, <1>3 DEF Holds
  <2>2. i \in DOMAIN inbox /\ inbox' = inbox
    BY <2>1, MovedIn
  <2>3. Holds(t, "asked", i)
    BY <2>1, <2>2 DEF Holds
  <2> QED
    BY <2>3 DEF Comes
<1>4. CASE k = "told"
  <2>1. i \in DOMAIN outPipe' /\ outPipe'[i].task = t /\ GivesTurn(outPipe'[i])
    BY <1>1, <1>4 DEF Holds
  <2>2. PICK d \in {0, 1} : i + d \in DOMAIN outPipe /\ outPipe'[i] = outPipe[i + d]
    BY <2>1, MovedUp
  <2>3. Holds(t, "told", i + d) /\ i + d \in Nat
    BY <2>1, <2>2 DEF Holds
  <2> QED
    BY <2>3 DEF Comes
<1> QED
  BY <1>1, <1>2, <1>3, <1>4

\* After the first event was read, the turn of t still comes: that event was t's.
LEMMA ComesBehind ==
  ASSUME AdapterTypeOK, LinksMove, NEW t, FirstOf(t), outPipe # <<>>,
         outPipe' \in {Tail(outPipe), <<>>},
         Unasked(t), Comes(t)'
  PROVE  Of(t, Head(outPipe))
<1>0. 1 \in DOMAIN outPipe /\ Head(outPipe) = outPipe[1]
  BY TailEffect DEF AdapterTypeOK
<1>1. PICK k \in {"sent", "asked", "told"}, i \in Nat : Holds(t, k, i)'
  BY DEF Comes
<1>2. CASE k = "sent"
  <2>1. i \in DOMAIN inPipe' /\ inPipe'[i].task = t /\ AsksTurn(inPipe'[i])
    BY <1>1, <1>2 DEF Holds
  <2>2. i \in DOMAIN inPipe /\ inPipe'[i] = inPipe[i]
    BY <2>1, MovedIn DEF Unasked
  <2> QED
    BY <1>0, <2>1, <2>2 DEF FirstOf
<1>3. CASE k = "asked"
  <2>1. i \in DOMAIN inbox' /\ inbox'[i].task = t /\ AsksTurn(inbox'[i])
    BY <1>1, <1>3 DEF Holds
  <2>2. i \in DOMAIN inbox /\ inbox' = inbox
    BY <2>1, MovedIn
  <2> QED
    BY <1>0, <2>1, <2>2 DEF FirstOf
<1>4. CASE k = "told"
  <2>1. i \in DOMAIN outPipe' /\ outPipe'[i].task = t /\ GivesTurn(outPipe'[i])
    BY <1>1, <1>4 DEF Holds
  <2>2. i + 1 \in DOMAIN outPipe /\ outPipe'[i] = outPipe[i + 1] /\ 1 \in 1..(i + 1)
    BY <2>1, MovedUp
  <2> QED
    BY <1>0, <2>1, <2>2 DEF FirstOf
<1> QED
  BY <1>1, <1>2, <1>3, <1>4

LEMMA FirstStill ==
  ASSUME AdapterTypeOK, LinksMove, NEW t, FirstOf(t), Unasked(t)
  PROVE  FirstOf(t)'
<1>0. PICK d \in {0, 1} : \A j \in DOMAIN outPipe' :
              j + d \in DOMAIN outPipe /\ outPipe'[j] = outPipe[j + d]
  BY MovedUp
<1>1. ASSUME NEW i \in DOMAIN outPipe', outPipe'[i].task = t, GivesTurn(outPipe'[i])
      PROVE  \A j \in 1..i : Of(t, outPipe'[j])
  <2>1. i + d \in DOMAIN outPipe /\ outPipe'[i] = outPipe[i + d]
    BY <1>0
  <2>2. \A j \in 1..(i + d) : Of(t, outPipe[j])
    BY <1>1, <2>1 DEF FirstOf
  <2>3. PICK n \in Nat : DOMAIN outPipe' = 1..n
    BY MovedUp
  <2>4. \A j \in 1..i : j \in DOMAIN outPipe' /\ j + d \in 1..(i + d)
    BY <2>3
  <2> QED
    BY <1>0, <2>2, <2>4
<1>2. ASSUME \A j \in DOMAIN outPipe : Of(t, outPipe[j])
      PROVE  \A j \in DOMAIN outPipe' : Of(t, outPipe'[j])
  BY <1>0, <1>2
<1>3. ASSUME NEW i \in DOMAIN inbox', inbox'[i].task = t, AsksTurn(inbox'[i])
      PROVE  /\ \A j \in 1..i : inbox'[j].task = t
             /\ \A j \in DOMAIN outPipe' : Of(t, outPipe'[j])
  <2>1. i \in DOMAIN inbox /\ inbox' = inbox
    BY MovedIn
  <2> QED
    BY <1>2, <1>3, <2>1 DEF FirstOf
<1>4. ASSUME NEW i \in DOMAIN inPipe', inPipe'[i].task = t, AsksTurn(inPipe'[i])
      PROVE  /\ \A j \in 1..i : inPipe'[j].task = t
             /\ \A j \in DOMAIN inbox' : inbox'[j].task = t
             /\ \A j \in DOMAIN outPipe' : Of(t, outPipe'[j])
  <2>1. i \in DOMAIN inPipe /\ inPipe'[i] = inPipe[i] /\ \A j \in 1..i : inPipe'[j] = inPipe[j]
    BY <1>4, MovedIn DEF Unasked
  <2>2. \A j \in DOMAIN inbox' : j \in DOMAIN inbox /\ inbox'[j] = inbox[j]
    BY MovedIn
  <2>3. /\ \A j \in 1..i : inPipe[j].task = t
        /\ \A j \in DOMAIN inbox : inbox[j].task = t
        /\ \A j \in DOMAIN outPipe : Of(t, outPipe[j])
    BY <1>4, <2>1 DEF FirstOf
  <2> QED
    BY <1>2, <2>1, <2>2, <2>3
<1> QED
  BY <1>1, <1>3, <1>4 DEF FirstOf

LEMMA ForwardFirst ==
  ASSUME AdapterTypeOK, Forward, NEW t, FirstOf(t)
  PROVE  FirstOf(t)' /\ (Comes(t)' => Comes(t))
<1> DEFINE m == Head(inPipe)
<1>1. /\ m = inPipe[1] /\ Len(inPipe) \in Nat \ {0} /\ Len(inbox) \in Nat
      /\ DOMAIN inPipe = 1..Len(inPipe) /\ DOMAIN inPipe' = 1..(Len(inPipe) - 1)
      /\ \A i \in 1..(Len(inPipe) - 1) : inPipe'[i] = inPipe[i + 1]
      /\ DOMAIN inbox = 1..Len(inbox) /\ DOMAIN inbox' = 1..(Len(inbox) + 1)
      /\ \A i \in 1..Len(inbox) : inbox'[i] = inbox[i]
      /\ inbox'[Len(inbox) + 1] = m
  BY ForwardEffect
<1>2. /\ Len(outPipe) \in Nat /\ DOMAIN outPipe = 1..Len(outPipe)
      /\ \/ outPipe' = outPipe
         \/ /\ DOMAIN outPipe' = 1..(Len(outPipe) + 1)
            /\ \A i \in 1..Len(outPipe) : outPipe'[i] = outPipe[i]
            /\ outPipe'[Len(outPipe) + 1].event = "started"
  BY ForwardEffect
<1> HIDE DEF m
<1>3. \A i \in DOMAIN outPipe' :
        \/ i \in DOMAIN outPipe /\ outPipe'[i] = outPipe[i]
        \/ Of(t, outPipe'[i]) /\ ~GivesTurn(outPipe'[i])
  BY <1>2 DEF Of, GivesTurn
<1>4. ASSUME \A j \in DOMAIN outPipe : Of(t, outPipe[j])
      PROVE  \A j \in DOMAIN outPipe' : Of(t, outPipe'[j])
  BY <1>3, <1>4
<1>5. ASSUME NEW i \in DOMAIN outPipe', outPipe'[i].task = t, GivesTurn(outPipe'[i])
      PROVE  i \in DOMAIN outPipe /\ outPipe'[i] = outPipe[i] /\ \A j \in 1..i : Of(t, outPipe'[j])
  <2>1. i \in DOMAIN outPipe /\ outPipe'[i] = outPipe[i]
    BY <1>3, <1>5
  <2>2. \A j \in 1..i : j \in DOMAIN outPipe /\ outPipe'[j] = outPipe[j]
    BY <1>2, <2>1
  <2> QED
    BY <1>5, <2>1, <2>2 DEF FirstOf
<1>6. ASSUME NEW i \in DOMAIN inbox', inbox'[i].task = t, AsksTurn(inbox'[i])
      PROVE  /\ \A j \in 1..i : inbox'[j].task = t
             /\ \A j \in DOMAIN outPipe' : Of(t, outPipe'[j])
             /\ Comes(t)
  <2>1. CASE i \in DOMAIN inbox
    <3>1. inbox'[i] = inbox[i] /\ \A j \in 1..i : inbox'[j] = inbox[j]
      BY <1>1, <2>1
    <3>2. Holds(t, "asked", i) /\ i \in Nat
      BY <1>1, <1>6, <2>1, <3>1 DEF Holds
    <3> QED
      BY <1>4, <1>6, <2>1, <3>1, <3>2 DEF FirstOf, Comes
  <2>2. CASE i = Len(inbox) + 1
    <3>1. 1 \in DOMAIN inPipe /\ inPipe[1].task = t /\ AsksTurn(inPipe[1])
      BY <1>1, <1>6, <2>2
    <3>2. Holds(t, "sent", 1)
      BY <3>1 DEF Holds
    <3>3. /\ \A j \in DOMAIN inbox : inbox[j].task = t
          /\ \A j \in DOMAIN outPipe : Of(t, outPipe[j])
      BY <3>1 DEF FirstOf
    <3>4. inbox'[i].task = t /\ \A j \in DOMAIN inbox : inbox'[j].task = t
      BY <1>1, <1>6, <3>3
    <3>5. \A j \in 1..i : j = i \/ j \in DOMAIN inbox
      BY <1>1, <2>2
    <3>6. \A j \in DOMAIN outPipe' : Of(t, outPipe'[j])
      BY <1>4, <3>3
    <3> QED
      BY <3>2, <3>4, <3>5, <3>6 DEF Comes
  <2> QED
    BY <1>1, <2>1, <2>2
<1>7. ASSUME NEW i \in DOMAIN inPipe', inPipe'[i].task = t, AsksTurn(inPipe'[i])
      PROVE  /\ \A j \in 1..i : inPipe'[j].task = t
             /\ \A j \in DOMAIN inbox' : inbox'[j].task = t
             /\ \A j \in DOMAIN outPipe' : Of(t, outPipe'[j])
             /\ Comes(t)
  <2>1. i + 1 \in DOMAIN inPipe /\ inPipe'[i] = inPipe[i + 1] /\ 1 \in 1..(i + 1) /\ i \in Nat
        /\ \A j \in 1..i : inPipe'[j] = inPipe[j + 1] /\ j + 1 \in 1..(i + 1)
    BY <1>1
  <2>2. /\ \A j \in 1..(i + 1) : inPipe[j].task = t
        /\ \A j \in DOMAIN inbox : inbox[j].task = t
        /\ \A j \in DOMAIN outPipe : Of(t, outPipe[j])
    BY <1>7, <2>1 DEF FirstOf
  <2>3. Holds(t, "sent", i + 1) /\ i + 1 \in Nat
    BY <1>7, <2>1 DEF Holds
  <2>4. \A j \in DOMAIN outPipe' : Of(t, outPipe'[j])
    BY <1>4, <2>2
  <2>5. m.task = t
    BY <1>1, <2>1, <2>2
  <2>6. \A j \in DOMAIN inbox' : inbox'[j].task = t
    BY <1>1, <2>2, <2>5
  <2> QED
    BY <2>1, <2>2, <2>3, <2>4, <2>6 DEF Comes
<1>8. FirstOf(t)'
  BY <1>5, <1>6, <1>7 DEF FirstOf
<1>9. ASSUME Comes(t)' PROVE Comes(t)
  <2>1. PICK k \in {"sent", "asked", "told"}, i \in Nat : Holds(t, k, i)'
    BY <1>9 DEF Comes
  <2>2. CASE k = "told"
    <3>1. i \in DOMAIN outPipe' /\ outPipe'[i].task = t /\ GivesTurn(outPipe'[i])
      BY <2>1, <2>2 DEF Holds
    <3>2. Holds(t, "told", i)
      BY <1>5, <3>1 DEF Holds
    <3> QED
      BY <3>2 DEF Comes
  <2>3. CASE k = "asked"
    BY <1>6, <2>1, <2>3 DEF Holds
  <2>4. CASE k = "sent"
    BY <1>7, <2>1, <2>4 DEF Holds
  <2> QED
    BY <2>1, <2>2, <2>3, <2>4
<1> QED
  BY <1>8, <1>9

LEMMA ServeFirst ==
  ASSUME AdapterTypeOK, Serve, NEW t, FirstOf(t)
  PROVE  FirstOf(t)' /\ (Comes(t)' => Comes(t))
<1> DEFINE m == Head(inbox)
<1>1. PICK x \in Entry \cup {None}, ev \in Seq(Event) : Served(m, x, ev) /\ Answer(x, ev)
  BY ServeShape
<1>2. Answers(m, ev) /\ inbox # <<>>
  BY <1>1, ServeShape DEF Served
<1>3. /\ m = inbox[1] /\ Len(inbox) \in Nat \ {0} /\ Len(outPipe) \in Nat
      /\ DOMAIN inbox = 1..Len(inbox) /\ DOMAIN inbox' = 1..(Len(inbox) - 1)
      /\ \A i \in 1..(Len(inbox) - 1) : inbox'[i] = inbox[i + 1]
      /\ DOMAIN outPipe = 1..Len(outPipe) /\ DOMAIN outPipe' = 1..(Len(outPipe) + Len(ev))
      /\ \A i \in 1..Len(outPipe) : outPipe'[i] = outPipe[i]
      /\ \A i \in 1..Len(ev) : outPipe'[Len(outPipe) + i] = ev[i]
      /\ inPipe' = inPipe
  BY <1>1, <1>2, AnswerEffect, ZenonT(30)
<1> HIDE DEF m
<1>4. ASSUME NEW i \in DOMAIN outPipe'
      PROVE  \/ i \in DOMAIN outPipe /\ outPipe'[i] = outPipe[i]
             \/ /\ i \notin DOMAIN outPipe /\ outPipe'[i].task = m.task
                /\ GivesTurn(outPipe'[i]) => AsksTurn(m) /\ i = Len(outPipe) + 1
  <2>1. CASE i \in 1..Len(outPipe)
    BY <1>3, <2>1
  <2>2. CASE i \notin 1..Len(outPipe)
    <3>1. Len(ev) \in {0, 1, 2}
      BY <1>2 DEF Answers
    <3>2. i - Len(outPipe) \in 1..Len(ev) /\ outPipe'[i] = ev[i - Len(outPipe)]
      BY <1>3, <1>4, <2>2, <3>1
    <3>3. outPipe'[i].task = m.task /\ (GivesTurn(outPipe'[i]) => AsksTurn(m) /\ Len(ev) = 1)
      BY <1>2, <3>2 DEF Answers
    <3> QED
      BY <1>3, <2>2, <3>2, <3>3
  <2> QED
    BY <2>1, <2>2
<1>5. ASSUME m.task = t, \A j \in DOMAIN outPipe : Of(t, outPipe[j])
      PROVE  \A j \in DOMAIN outPipe' : Of(t, outPipe'[j])
  BY <1>4, <1>5 DEF Of
<1>6. ASSUME NEW i \in DOMAIN outPipe', outPipe'[i].task = t, GivesTurn(outPipe'[i])
      PROVE  Comes(t) /\ \A j \in 1..i : Of(t, outPipe'[j])
  <2>1. CASE i \in DOMAIN outPipe /\ outPipe'[i] = outPipe[i]
    <3>1. Holds(t, "told", i) /\ i \in Nat
      BY <1>3, <1>6, <2>1 DEF Holds
    <3>2. \A j \in 1..i : outPipe'[j] = outPipe[j]
      BY <1>3, <2>1
    <3> QED
      BY <1>6, <2>1, <3>1, <3>2 DEF FirstOf, Comes
  <2>2. CASE m.task = t /\ AsksTurn(m) /\ i = Len(outPipe) + 1
    <3>1. 1 \in DOMAIN inbox /\ inbox[1].task = t /\ AsksTurn(inbox[1])
      BY <1>3, <2>2
    <3>2. Holds(t, "asked", 1)
      BY <3>1 DEF Holds
    <3>3. \A j \in DOMAIN outPipe' : Of(t, outPipe'[j])
      BY <1>5, <2>2, <3>1 DEF FirstOf
    <3>4. \A j \in 1..i : j \in DOMAIN outPipe'
      BY <1>3, <1>6, <2>2
    <3> QED
      BY <3>2, <3>3, <3>4 DEF Comes
  <2> QED
    BY <1>4, <1>6, <2>1, <2>2
<1>7. ASSUME NEW i \in DOMAIN inbox', inbox'[i].task = t, AsksTurn(inbox'[i])
      PROVE  /\ \A j \in 1..i : inbox'[j].task = t
             /\ \A j \in DOMAIN outPipe' : Of(t, outPipe'[j])
             /\ Comes(t)
  <2>1. i + 1 \in DOMAIN inbox /\ inbox'[i] = inbox[i + 1] /\ 1 \in 1..(i + 1) /\ i \in Nat
        /\ \A j \in 1..i : inbox'[j] = inbox[j + 1] /\ j + 1 \in 1..(i + 1)
    BY <1>3
  <2>2. /\ \A j \in 1..(i + 1) : inbox[j].task = t
        /\ \A j \in DOMAIN outPipe : Of(t, outPipe[j])
    BY <1>7, <2>1 DEF FirstOf
  <2>3. Holds(t, "asked", i + 1) /\ i + 1 \in Nat
    BY <1>7, <2>1 DEF Holds
  <2>4. m.task = t
    BY <1>3, <2>1, <2>2
  <2> QED
    BY <1>5, <2>1, <2>2, <2>3, <2>4 DEF Comes
<1>8. ASSUME NEW i \in DOMAIN inPipe', inPipe'[i].task = t, AsksTurn(inPipe'[i])
      PROVE  /\ \A j \in 1..i : inPipe'[j].task = t
             /\ \A j \in DOMAIN inbox' : inbox'[j].task = t
             /\ \A j \in DOMAIN outPipe' : Of(t, outPipe'[j])
  <2>1. /\ \A j \in 1..i : inPipe[j].task = t
        /\ \A j \in DOMAIN inbox : inbox[j].task = t
        /\ \A j \in DOMAIN outPipe : Of(t, outPipe[j])
    BY <1>3, <1>8 DEF FirstOf
  <2>2. m.task = t
    BY <1>3, <2>1
  <2>3. \A j \in DOMAIN outPipe' : Of(t, outPipe'[j])
    BY <1>5, <2>1, <2>2
  <2>4. \A j \in DOMAIN inbox' : inbox'[j].task = t
    <3>1. \A j \in DOMAIN inbox' : j + 1 \in DOMAIN inbox /\ inbox'[j] = inbox[j + 1]
      BY <1>3
    <3> QED
      BY <2>1, <3>1
  <2> QED
    BY <1>3, <2>1, <2>3, <2>4
<1>9. FirstOf(t)'
  BY <1>6, <1>7, <1>8 DEF FirstOf
<1>10. ASSUME Comes(t)' PROVE Comes(t)
  <2>1. PICK k \in {"sent", "asked", "told"}, i \in Nat : Holds(t, k, i)'
    BY <1>10 DEF Comes
  <2>2. CASE k = "told"
    BY <1>6, <2>1, <2>2 DEF Holds
  <2>3. CASE k = "asked"
    BY <1>7, <2>1, <2>3 DEF Holds
  <2>4. CASE k = "sent"
    <3>1. Holds(t, "sent", i)
      BY <1>3, <2>1, <2>4 DEF Holds
    <3> QED
      BY <3>1 DEF Comes
  <2> QED
    BY <2>1, <2>2, <2>3, <2>4
<1> QED
  BY <1>9, <1>10

-----------------------------------------------------------------------------
(* What it is to turn away. *)

LEMMA DismissEffect ==
  ASSUME AdapterTypeOK, Dismiss, ~confused', NEW t \in dismissed'
  PROVE  /\ ~confused /\ t \in Task
         /\ t \notin dismissed => t = Closing(sh) /\ t # None /\ t \in confirmed
         /\ InFlight(t) => Closing(sh) \in {t, None}
         /\ Closing(sh) # None => \A u \in Task : InFlight(u) => u = Closing(sh)
<1>1. Closing(sh) \in Task \cup {None}
  BY ClosingAt DEF AdapterTypeOK
<1>2. t \in Task
  BY <1>1, HistoryTyped
<1> QED
  BY <1>1, <1>2 DEF Dismiss

\* If there is nothing of another task, nothing of another comes first.
LEMMA AloneFirst ==
  ASSUME AdapterTypeOK, NEW t, \A u \in Task : InFlight(u) => u = t
  PROVE  FirstOf(t)
<1>1. /\ inPipe \in Seq(Message) /\ inbox \in Seq(Message) /\ outPipe \in Seq(Event)
  BY DEF AdapterTypeOK
<1>2. /\ DOMAIN inPipe = 1..Len(inPipe) /\ DOMAIN inbox = 1..Len(inbox) /\ DOMAIN outPipe = 1..Len(outPipe)
      /\ Len(inPipe) \in Nat /\ Len(inbox) \in Nat /\ Len(outPipe) \in Nat
      /\ \A i \in DOMAIN inPipe : inPipe[i] \in Message
      /\ \A i \in DOMAIN inbox : inbox[i] \in Message
      /\ \A i \in DOMAIN outPipe : outPipe[i] \in Event
  BY <1>1
<1>3. /\ \A i \in DOMAIN inPipe : inPipe[i].task = t
      /\ \A i \in DOMAIN inbox : inbox[i].task = t
      /\ \A i \in DOMAIN outPipe : outPipe[i].task = t
  BY <1>2 DEF InFlight, Message, Event
<1> HIDE DEF AdapterTypeOK
<1>4. /\ \A i \in DOMAIN inPipe : \A j \in 1..i : j \in DOMAIN inPipe
      /\ \A i \in DOMAIN inbox : \A j \in 1..i : j \in DOMAIN inbox
      /\ \A i \in DOMAIN outPipe : \A j \in 1..i : j \in DOMAIN outPipe
  BY <1>2
<1> QED
  BY <1>3, <1>4 DEF FirstOf, Of

\* The user turns away and that cannot be told.
FailsAway == Fails /\ sh.pending = None /\ Dismiss /\ Away(sh'.closed)

LEMMA DismissedWhen ==
  ASSUME AdapterTypeOK, Wired, [Next]_vars
  PROVE  TurnsAway \/ Rejects \/ FailsAway \/ UNCHANGED <<dismissed, confused>>
<1>1. Idles \/ Replies \/ Acks => UNCHANGED <<dismissed, confused>>
  BY DEF Idles, Replies, Acks, histVars
<1>2. \A u \in Task : Begins(u) \/ Expire(u) => UNCHANGED <<dismissed, confused>>
  BY DEF Begins, Expire, histVars
<1>3. \A op \in {"approved", "edited"} : Agreed(op) => UNCHANGED <<dismissed, confused>>
  BY DEF Agreed, histVars
<1>4. Fails => FailsAway \/ UNCHANGED <<dismissed, confused>>
  BY DEF Fails, FailsAway, histVars
<1>5. Forward \/ HelperDies \/ ClearLost => UNCHANGED <<dismissed, confused>>
  BY DEF Forward, HelperDies, ClearLost, histVars
<1>6. Serve => UNCHANGED <<dismissed, confused>>
  <2> SUFFICES ASSUME Serve PROVE UNCHANGED <<dismissed, confused>>
    OBVIOUS
  <2>1. PICK x \in Entry \cup {None}, ev \in Seq(Event) : Answer(x, ev)
    BY ServeShape
  <2> QED
    BY <2>1 DEF Answer, histVars
<1>7. \A e : Hears(e) \/ Starts(e) \/ TakesTask(e) \/ TakesQuestion(e) \/ TakesProposal(e) \/ TakesEnd(e)
               => UNCHANGED <<dismissed, confused>>
  BY DEF Hears, Starts, TakesTask, TakesQuestion, TakesProposal, TakesEnd, Takes, histVars
<1> QED
  BY <1>1, <1>2, <1>3, <1>4, <1>5, <1>6, <1>7, StepShape

LEMMA FirstInvariant ==
  ASSUME AdapterTypeOK, Wired, StartsOnce, TurnedAway, First, [Next]_vars
  PROVE  First'
<1> SUFFICES ASSUME ~confused', NEW t \in dismissed'
             PROVE  FirstOf(t)'
  BY DEF First
<1>1. CASE TurnsAway \/ Rejects \/ FailsAway
  <2>1. /\ t \notin dismissed => t = Closing(sh) /\ t # None /\ t \in Task
        /\ Closing(sh) # None => \A u \in Task : InFlight(u) => u = Closing(sh)
        /\ ~confused
    BY <1>1, DismissEffect DEF TurnsAway, Rejects, FailsAway
  <2>2. FirstOf(t)
    <3>1. CASE t \in dismissed
      BY <2>1, <3>1 DEF First
    <3>2. CASE t \notin dismissed
      BY <2>1, <3>2, AloneFirst
    <3> QED
      BY <3>1, <3>2
  <2> QED
    BY <1>1, <2>2, FirstStill, UnaskedInTurningAway DEF FailsAway
<1>2. CASE UNCHANGED <<dismissed, confused>>
  <2>1. t \in dismissed /\ t \in Task /\ FirstOf(t) /\ AwayFrom(t)
    BY <1>2 DEF TurnedAway, First, AdapterTypeOK
  <2>2. t \notin fresh \cup {sh.clarification, PendingTask(sh)}
    BY <2>1 DEF AwayFrom, StartsOnce
  <2> QED
    BY <2>1, <2>2, FirstStill, UnaskedOfOthers, ForwardFirst, ServeFirst, StepMoves
<1>3. TurnsAway \/ Rejects \/ FailsAway \/ UNCHANGED <<dismissed, confused>>
  BY DismissedWhen
<1> QED
  BY <1>1, <1>2, <1>3

\* A step in which nothing the user sees of the task changes.
LEMMA AwayStill ==
  ASSUME NEW t, AwayFrom(t), t \in confirmed',
         sh'.clarification \in {sh.clarification, None}, sh'.approval \in {sh.approval, None},
         sh'.pending \in {sh.pending, None, sh.approval}, t # None,
         Comes(t)' => /\ Comes(t) /\ sh'.task # t
                      /\ sh'.closed = t \/ sh'.task # None
  PROVE  AwayFrom(t)'
  BY DEF AwayFrom, ApprovalTask, PendingTask

LEMMA TurnedAwayInDismissal ==
  ASSUME AdapterTypeOK, Wired, OneTurn, TurnedAway, First, ~confused', NEW t \in dismissed',
         TurnsAway \/ Rejects \/ FailsAway
  PROVE  AwayFrom(t)'
<1>1. /\ ~confused /\ t \in Task
      /\ t \notin dismissed => t = Closing(sh) /\ t # None /\ t \in confirmed
      /\ Closing(sh) # None => \A u \in Task : InFlight(u) => u = Closing(sh)
  BY DismissEffect DEF TurnsAway, Rejects, FailsAway
<1>2. None \notin Task /\ t # None
  BY <1>1, NoneAssumption
<1>3. t \in confirmed /\ t \in confirmed' /\ (t \in dismissed => AwayFrom(t))
  BY <1>1 DEF TurnedAway, AwayFrom, TurnsAway, Rejects, FailsAway, Dismiss
<1>4. Comes(t)' => Comes(t)
  BY ComesStill, UnaskedInTurningAway DEF FailsAway
<1>6. sh'.task = None /\ sh'.clarification = None /\ sh'.approval = None /\ sh'.pending = None
      /\ Closing(sh) \in Task \cup {None}
  BY ClosingAt DEF TurnsAway, Rejects, FailsAway, Away, AdapterTypeOK
<1>7. ASSUME Comes(t)' PROVE sh'.closed = t
  <2>1. Comes(t) /\ InFlight(t)
    BY <1>4, <1>7 DEF Comes, Holds, InFlight
  <2>2. CASE TurnsAway
    <3>1. CASE Closing(sh) = None
      <4>1. t \in dismissed /\ sh.task = None /\ sh'.closed = sh.closed
        BY <1>1, <2>2, <3>1 DEF TurnsAway, Away, Closing, FirstSet
      <4> QED
        BY <1>3, <2>1, <4>1 DEF AwayFrom
    <3>2. CASE Closing(sh) # None
      BY <1>1, <2>1, <2>2, <3>2 DEF TurnsAway, Away
    <3> QED
      BY <3>1, <3>2
  <2>3. CASE Rejects
    <3>1. sh.approval \in Command /\ sh.approval # None
      BY <2>3 DEF Rejects, AdapterTypeOK, Globals
    <3>2. ApprovalTask(sh) \in Task /\ ApprovalTask(sh) # None
      BY <1>2, <3>1 DEF ApprovalTask, Command
    <3>3. Closing(sh) # None /\ t = Closing(sh)
      BY <1>1, <2>1, <3>2 DEF Closing, FirstSet
    <3>4. t # ApprovalTask(sh)
      <4> SUFFICES ASSUME t = ApprovalTask(sh) PROVE FALSE
        OBVIOUS
      <4>1. Holds(t, "box", 0)
        BY DEF Holds
      <4>2. PICK k \in {"sent", "asked", "told"}, i \in Nat : Holds(t, k, i)
        BY <2>1 DEF Comes
      <4> QED
        BY <1>1, <4>1, <4>2 DEF OneTurn
    <3>5. sh.task = t
      BY <3>2, <3>3, <3>4 DEF Closing, FirstSet
    <3> QED
      BY <1>2, <2>3, <3>5 DEF Rejects, Away, FirstSet
  <2>4. CASE FailsAway
    <3>1. inPipe' = <<>> /\ inbox' = <<>> /\ outPipe' = <<>>
      BY <2>4 DEF FailsAway, Fails, Cut, Calm, coreVars, Wired
    <3>2. DOMAIN <<>> = {}
      OBVIOUS
    <3> QED
      BY <1>7, <3>1, <3>2 DEF Comes, Holds
  <2> QED
    BY <2>2, <2>3, <2>4
<1> QED
  BY <1>2, <1>3, <1>6, <1>7 DEF AwayFrom, ApprovalTask, PendingTask

LEMMA TurnedAwayInvariant ==
  ASSUME AdapterTypeOK, Wired, OneTurn, StartsOnce, TurnedAway, First, [Next]_vars
  PROVE  TurnedAway'
<1> SUFFICES ASSUME ~confused', NEW t \in dismissed'
             PROVE  AwayFrom(t)'
  BY DEF TurnedAway
<1>1. CASE TurnsAway \/ Rejects \/ FailsAway
  BY <1>1, TurnedAwayInDismissal
<1>2. ASSUME UNCHANGED <<dismissed, confused>>
      PROVE  AwayFrom(t)'
  <2>0. PICK e : e = Head(outPipe)
    OBVIOUS
  <2>1. /\ ~confused /\ t \in dismissed /\ t \in Task /\ FirstOf(t) /\ AwayFrom(t)
        /\ t \in confirmed /\ t \notin fresh /\ t # None /\ None \notin Task
        /\ t \notin fresh \cup {sh.clarification, PendingTask(sh)}
        /\ t # ApprovalTask(sh)
    <3>1. ~confused /\ t \in dismissed /\ t \in Task /\ FirstOf(t) /\ AwayFrom(t)
      BY <1>2 DEF TurnedAway, First, AdapterTypeOK
    <3> QED
      BY <3>1, NoneAssumption DEF AwayFrom, StartsOnce
  <2>2. /\ sh.clarification \in Task \cup {None} /\ sh.pending \in Command \cup {None}
        /\ sh.approval \in Command \cup {None}
    BY DEF AdapterTypeOK, Globals
  <2>3. LinksMove \/ Forward \/ Serve
    BY StepMoves
  <2>4. Comes(t)' => Comes(t)
    BY <2>1, <2>3, ComesStill, UnaskedOfOthers, ForwardFirst, ServeFirst
  <2>5. Comes(t) => /\ Ignores(sh, t) /\ sh.task # t /\ (sh.closed = t \/ sh.task # None)
    BY <2>1, ComesIsIgnored DEF AwayFrom
  <2>6. outPipe # <<>> => e.task \in Task /\ 1 \in DOMAIN outPipe /\ e = outPipe[1]
    BY <2>0, HeadTyped, TailEffect DEF AdapterTypeOK
  <2>7. ASSUME t \in confirmed', sh'.clarification = sh.clarification \/ sh'.clarification = None,
               sh'.approval = sh.approval \/ sh'.approval = None,
               sh'.pending \in {sh.pending, None, sh.approval},
               Comes(t) => /\ sh'.task # t
                           /\ (sh'.closed = t \/ sh'.task # None)
        PROVE  AwayFrom(t)'
    BY <2>1, <2>4, <2>7, AwayStill
  <2>8. CASE Idles
    BY <2>1, <2>5, <2>7, <2>8 DEF Idles, Same, Away, histVars
  <2>9. CASE Replies
    BY <2>1, <2>5, <2>7, <2>9 DEF Replies, histVars
  <2>10. CASE Acks
    BY <2>1, <2>5, <2>7, <2>10 DEF Acks, histVars
  <2>11. CASE Fails /\ UNCHANGED histVars
    <3>1. inPipe' = <<>> /\ inbox' = <<>> /\ outPipe' = <<>>
      BY <2>11 DEF Fails, Cut, Calm, coreVars, Wired
    <3>2. DOMAIN <<>> = {}
      OBVIOUS
    <3>3. ~Comes(t)'
      BY <3>1, <3>2 DEF Comes, Holds
    <3> QED
      BY <2>1, <2>11, <3>3, AwayStill DEF Fails, histVars
  <2>12. ASSUME NEW u \in Task, Begins(u) PROVE AwayFrom(t)'
    <3>1. u # t /\ u # None /\ sh'.task = u
      BY <2>1, <2>12 DEF Begins
    <3> QED
      BY <2>1, <2>7, <2>12, <3>1 DEF Begins, histVars
  <2>13. ASSUME NEW op \in {"approved", "edited"}, Agreed(op) PROVE AwayFrom(t)'
    BY <2>1, <2>5, <2>7, <2>13 DEF Agreed, histVars
  <2>14. CASE Hears(e)
    BY <2>1, <2>5, <2>7, <2>14 DEF Hears, Same, histVars
  <2>15. CASE Starts(e)
    <3>1. e.task # t /\ e.task # None
      BY <2>1, <2>6, <2>15 DEF Starts, Reads, StartsOnce
    <3> QED
      BY <2>1, <2>7, <2>15, <3>1 DEF Starts
  <2>16. CASE TakesTask(e)
    <3>1. e.task # None /\ (Comes(t) => e.task # t)
      BY <2>1, <2>5, <2>6, <2>16 DEF TakesTask, Takes, Reads
    <3> QED
      BY <2>1, <2>7, <2>16, <3>1 DEF TakesTask, Takes, histVars
  <2>17. ASSUME outPipe # <<>>, GivesTurn(e), e.task = t PROVE Ignores(sh, e.task)
    <3>1. Holds(t, "told", 1)
      BY <2>6, <2>17 DEF Holds
    <3> QED
      BY <2>5, <2>17, <3>1 DEF Comes
  <2>18. CASE TakesQuestion(e)
    <3>1. e.task # t /\ e.task # None
      BY <2>1, <2>6, <2>17, <2>18 DEF TakesQuestion, Takes, Reads, GivesTurn
    <3>2. t # sh'.clarification /\ t # ApprovalTask(sh)' /\ t # PendingTask(sh)'
      BY <2>1, <2>18, <3>1 DEF TakesQuestion, ApprovalTask, PendingTask
    <3> QED
      BY <2>1, <2>18, <3>1, <3>2 DEF TakesQuestion, Takes, histVars, AwayFrom
  <2>19. ASSUME outPipe # <<>>, outPipe' \in {Tail(outPipe), <<>>}, Comes(t)', LinksMove,
                e.event # "started"
         PROVE  e.task = t
    BY <2>0, <2>1, <2>19, ComesBehind, UnaskedOfOthers DEF Of
  <2>20. CASE TakesProposal(e)
    <3>1. e.task # t /\ e.task # None /\ outPipe # <<>> /\ UNCHANGED histVars
      BY <2>1, <2>6, <2>17, <2>20 DEF TakesProposal, Takes, Reads, GivesTurn
    <3>2. t # sh'.clarification /\ t # ApprovalTask(sh)' /\ t # PendingTask(sh)'
      BY <2>1, <2>20, <3>1 DEF TakesProposal, ApprovalTask, PendingTask
    <3>3. CASE sh'.task = e.task
      BY <2>1, <3>1, <3>2, <3>3 DEF AwayFrom, histVars
    <3>4. CASE Send(Tail(outPipe), About("abort", e.task))
      <4>1. outPipe' \in {Tail(outPipe), <<>>}
        BY <3>4 DEF Send
      <4>2. LinksMove
        <5>1. About("abort", e.task) \in Message /\ ~AsksTurn(About("abort", e.task))
          BY <2>6, <3>1, MessageTyped DEF AsksTurn, About
        <5>2. inbox' = inbox
          BY <2>20 DEF TakesProposal, Takes, Reads, Calm, coreVars
        <5> QED
          BY <3>1, <3>4, <5>1, <5>2, SendMoves
      <4>3. e.event # "started"
        BY <2>20 DEF TakesProposal, Takes
      <4>4. ~Comes(t)'
        BY <2>19, <3>1, <4>1, <4>2, <4>3
      <4> QED
        BY <2>1, <3>1, <3>2, <4>4 DEF AwayFrom, histVars
    <3> QED
      BY <2>20, <3>3, <3>4 DEF TakesProposal
  <2>21. CASE TakesEnd(e)
    <3>1. /\ outPipe # <<>> /\ outPipe' = Tail(outPipe) /\ UNCHANGED histVars
          /\ e.event # "started" /\ ~Ignores(sh, e.task) /\ inbox' = inbox /\ inPipe' = inPipe
          /\ sh'.clarification = None /\ sh'.approval = None /\ sh'.pending = sh.pending
      BY <2>21 DEF TakesEnd, Takes, Reads, Quiet, Calm, coreVars, Away
    <3>2. LinksMove
      BY <3>1 DEF LinksMove
    <3>3. ~Comes(t)'
      BY <2>4, <2>5, <2>19, <3>1, <3>2
    <3> QED
      BY <2>1, <3>1, <3>3, AwayStill DEF histVars
  <2>22. ASSUME sh' = sh, UNCHANGED histVars
         PROVE  AwayFrom(t)'
    BY <2>1, <2>5, <2>7, <2>22 DEF histVars
  <2>23. Forward \/ HelperDies \/ ClearLost => sh' = sh /\ UNCHANGED histVars
    BY DEF Forward, HelperDies, ClearLost
  <2>24. Serve => sh' = sh /\ UNCHANGED histVars
    <3> SUFFICES ASSUME Serve PROVE sh' = sh /\ UNCHANGED histVars
      OBVIOUS
    <3>1. PICK x \in Entry \cup {None}, ev \in Seq(Event) : Answer(x, ev)
      BY ServeShape
    <3> QED
      BY <3>1 DEF Answer
  <2>25. \A u \in Task : Expire(u) => sh' = sh /\ UNCHANGED histVars
    BY DEF Expire
  <2>26. Fails => FailsAway \/ UNCHANGED histVars
    BY DEF Fails, FailsAway
  <2> QED
    BY <1>1, <2>0, <2>8, <2>9, <2>10, <2>11, <2>12, <2>13, <2>14, <2>15, <2>16, <2>18, <2>20, <2>21,
       <2>22, <2>23, <2>24, <2>25, <2>26, StepShape
<1> QED
  BY <1>1, <1>2, DismissedWhen

-----------------------------------------------------------------------------
(* The theorems of any shell. *)

\* What holds of the dialogue whatever happens to the helper.
Dialogue == AdapterTypeOK /\ Wired /\ OneTurn /\ StartsOnce /\ TurnedAway /\ First

LEMMA DialogueAtFirst ==
  Init => Dialogue
<1> SUFFICES ASSUME Init PROVE Dialogue
  OBVIOUS
<1>1. /\ <<>> \in Seq(Message) /\ <<>> \in Seq(Event) /\ DOMAIN <<>> = {}
  OBVIOUS
<1>2. AdapterTypeOK
  <2>1. sh \in Globals
    BY DEF Init, Globals
  <2>2. entry \in [Task -> Entry \cup {None}]
    BY DEF Init
  <2>3. inPipe \in Seq(Message) /\ inbox \in Seq(Message) /\ outPipe \in Seq(Event)
    BY <1>1 DEF Init
  <2>4. deaths \in 0..MaxDeaths /\ expiries \in 0..MaxExpiries
    <3>1. 0 \in 0..MaxDeaths /\ 0 \in 0..MaxExpiries
      BY DEF BoundAssumption
    <3> QED
      BY <3>1 DEF Init
  <2>5. /\ helper \in {"up", "dead"} /\ lost \subseteq Task /\ fresh \subseteq Task
        /\ confirmed \subseteq Task /\ dismissed \subseteq Task /\ confused \in BOOLEAN
    BY DEF Init
  <2> QED
    BY <2>1, <2>2, <2>3, <2>4, <2>5 DEF AdapterTypeOK
<1>3. Wired
  BY <1>1 DEF Init, Wired
<1>4. OneTurn
  <2>1. \A t \in Task : \A k : \A i \in Nat : Holds(t, k, i) => k = "fresh" /\ i = 0
    BY <1>1, NoneAssumption DEF Init, Holds, ApprovalTask, PendingTask
  <2> QED
    BY <2>1 DEF OneTurn
<1>5. StartsOnce
  BY <1>1 DEF Init, StartsOnce
<1>6. TurnedAway /\ First
  BY DEF Init, TurnedAway, First
<1> QED
  BY <1>2, <1>3, <1>4, <1>5, <1>6 DEF Dialogue

LEMMA DialogueKept ==
  Spec => []Dialogue
<1>1. Dialogue /\ [Next]_vars => Dialogue'
  BY TypeInvariant, OneTurnInvariant, StartsInvariant, TurnedAwayInvariant, FirstInvariant DEF Dialogue
<1> QED
  BY <1>1, DialogueAtFirst, PTL DEF Spec

\* The adapter's globals, the pipes, the socket and the daemon's table have the
\* values their code gives them: termlm-start-task, termlm-handle-run-task-line.
THEOREM AdapterTypes ==
  Spec => []AdapterTypeOK
<1>1. Dialogue => AdapterTypeOK
  BY DEF Dialogue
<1> QED
  BY <1>1, DialogueKept, PTL

\* FR-15: a task that the user turned away from opens no box and runs no command,
\* however late its proposal comes (termlm-should-ignore-task-event).
THEOREM DismissedStays ==
  Spec => []DismissedStaysDismissed
<1>1. Dialogue => DismissedStaysDismissed
  BY DEF Dialogue, TurnedAway, AwayFrom, DismissedStaysDismissed
<1> QED
  BY <1>1, DialogueKept, PTL

-----------------------------------------------------------------------------
(* As long as the helper lives. *)

\* The messages on their way to the daemon, the next one first.
Queue == inbox \o inPipe

\* A helper that never ran has nothing to do with any task.
Unused ==
  helper = "dead" =>
    /\ outPipe = <<>> /\ sh.task = None /\ sh.closed = None
    /\ sh.approval = None /\ sh.clarification = None /\ sh.pending = None

\* The start of the task t was seen, or it is still to be.
Begun(t) ==
  \/ t \in confirmed
  \/ \E i \in DOMAIN outPipe : outPipe[i].event = "started" /\ outPipe[i].task = t
  \/ \E i \in DOMAIN inPipe : inPipe[i].op = "start" /\ inPipe[i].task = t

\* What is said of a task comes after its start.
Announced ==
  /\ \A i \in DOMAIN outPipe : outPipe[i].event # "started" =>
       \/ outPipe[i].task \in confirmed
       \/ \E j \in 1..(i - 1) : outPipe[j].event = "started" /\ outPipe[j].task = outPipe[i].task
  /\ \A i \in DOMAIN inbox :
       \/ inbox[i].task \in confirmed
       \/ \E j \in DOMAIN outPipe : outPipe[j].event = "started" /\ outPipe[j].task = inbox[i].task
  /\ \A i \in DOMAIN inPipe : inPipe[i].op # "start" =>
       \/ inPipe[i].task \in confirmed
       \/ \E j \in DOMAIN outPipe : outPipe[j].event = "started" /\ outPipe[j].task = inPipe[i].task
       \/ \E j \in 1..(i - 1) : inPipe[j].op = "start" /\ inPipe[j].task = inPipe[i].task

\* No start of another task comes after that of t.
Newest(t) ==
  /\ \A i \in DOMAIN inPipe : inPipe[i].op = "start" /\ inPipe[i].task = t =>
       \A j \in DOMAIN inPipe : inPipe[j].op = "start" => j <= i
  /\ \A i \in DOMAIN outPipe : outPipe[i].event = "started" /\ outPipe[i].task = t =>
       /\ \A j \in DOMAIN outPipe : outPipe[j].event = "started" => j <= i
       /\ \A j \in DOMAIN inPipe : inPipe[j].op # "start"

NoneStarts ==
  /\ \A i \in DOMAIN inPipe : inPipe[i].op # "start"
  /\ \A i \in DOMAIN outPipe : outPipe[i].event # "started"

\* The task whose box is open is not taken for a closed one.
Closes ==
  /\ sh.task # None => Begun(sh.task) /\ (sh.task \in confirmed \/ Newest(sh.task))
  /\ sh.closed # None => sh.closed \in confirmed \/ Newest(sh.closed)
  /\ sh.approval # None => sh.approval.task \in confirmed
  /\ sh.clarification # None => sh.clarification \in confirmed
  /\ sh.pending # None => sh.pending.task \in confirmed
  /\ sh.closed # None /\ sh.closed \in {sh.task, ApprovalTask(sh), sh.clarification} => NoneStarts
  /\ sh.closed # None /\ sh.closed = ApprovalTask(sh) => sh.task = sh.closed

\* The turn of t is over but for the end of its command.
Later(t) ==
  /\ \A i \in DOMAIN outPipe : outPipe[i].task = t => ~GivesTurn(outPipe[i])
  /\ ApprovalTask(sh) # t /\ sh.clarification # t /\ t \notin fresh

\* While a decision is on its way there is no other, and the end of the command
\* follows it.
DecidedOnce ==
  \A i \in DOMAIN Queue : Decides(Queue[i]) =>
    /\ Later(Queue[i].task)
    /\ \A j \in DOMAIN Queue : Queue[j].task = Queue[i].task /\ i # j =>
         /\ ~Decides(Queue[j]) /\ Queue[j].op \notin {"start", "reply"}
         /\ Queue[j].op = "ack" => i < j

Live(t) == entry[t] # None /\ entry[t].state # "expired"

\* If the daemon waits for the task, it is for what became of this command.
Expects(c, states) ==
  Live(c.task) => entry[c.task].round = c.round /\ entry[c.task].state \in states

\* The daemon knows the decision on the task's command, if it wanted one.
Settled(t) == entry[t].state = IF entry[t].gate THEN "decided" ELSE "offered"

\* The decision on the command of t is among the first n messages.
DecisionIn(t, n) ==
  entry[t].gate /\ \E j \in DOMAIN Queue : j <= n /\ Queue[j].task = t /\ Decides(Queue[j])

EndIsAfter(t, n) == \E j \in DOMAIN outPipe : j > n /\ Ends(outPipe[j]) /\ outPipe[j].task = t

OfferAgrees ==
  \A i \in DOMAIN outPipe : outPipe[i].event = "proposal" =>
    /\ Expects(outPipe[i], {"offered"})
    /\ Live(outPipe[i].task) => entry[outPipe[i].task].gate = outPipe[i].gate
    /\ entry[outPipe[i].task] = None => EndIsAfter(outPipe[i].task, i)

BoxAgrees ==
  sh.approval # None =>
    /\ Expects(sh.approval, {"offered"})
    /\ Live(sh.approval.task) => entry[sh.approval.task].gate
    /\ entry[sh.approval.task] = None => EndIsAfter(sh.approval.task, 0)

MessagesAgree ==
  \A i \in DOMAIN Queue :
    /\ Decides(Queue[i]) =>
         Expects(Queue[i], {"offered"}) /\ (Live(Queue[i].task) => entry[Queue[i].task].gate)
    /\ Queue[i].op = "ack" =>
         /\ Expects(Queue[i], {"offered", "decided"})
         /\ Live(Queue[i].task) => Settled(Queue[i].task) \/ DecisionIn(Queue[i].task, i - 1)

RunAgrees ==
  sh.pending # None =>
    /\ Expects(sh.pending, {"offered", "decided"})
    /\ Live(sh.pending.task) =>
         Settled(sh.pending.task) \/ DecisionIn(sh.pending.task, Len(Queue))

\* What is offered, shown, decided, run and acknowledged is what the daemon waits for.
Agrees == OfferAgrees /\ BoxAgrees /\ MessagesAgree /\ RunAgrees

Undisturbed ==
  deaths = 0 => Unused /\ lost = {} /\ Announced /\ Closes /\ DecidedOnce /\ Agrees

(* The queue. *)

LEMMA QueueTyped ==
  ASSUME AdapterTypeOK
  PROVE  /\ Len(inbox) \in Nat /\ Len(inPipe) \in Nat /\ Len(Queue) = Len(inbox) + Len(inPipe)
         /\ DOMAIN Queue = 1..Len(Queue) /\ DOMAIN inbox = 1..Len(inbox) /\ DOMAIN inPipe = 1..Len(inPipe)
         /\ \A i \in DOMAIN inbox : i \in DOMAIN Queue /\ Queue[i] = inbox[i]
         /\ \A i \in DOMAIN inPipe : Len(inbox) + i \in DOMAIN Queue /\ Queue[Len(inbox) + i] = inPipe[i]
         /\ \A i \in DOMAIN Queue :
              /\ i \in Nat \ {0}
              /\ \/ i \in DOMAIN inbox /\ Queue[i] = inbox[i]
                 \/ /\ i \notin DOMAIN inbox /\ i - Len(inbox) \in DOMAIN inPipe
                    /\ Queue[i] = inPipe[i - Len(inbox)]
              /\ Queue[i] \in Message /\ Queue[i].task \in Task
<1>1. inbox \in Seq(Message) /\ inPipe \in Seq(Message)
  BY DEF AdapterTypeOK
<1>2. /\ Len(inbox) \in Nat /\ Len(inPipe) \in Nat
      /\ DOMAIN inbox = 1..Len(inbox) /\ DOMAIN inPipe = 1..Len(inPipe)
      /\ \A i \in DOMAIN inbox : inbox[i] \in Message
      /\ \A i \in DOMAIN inPipe : inPipe[i] \in Message
  BY <1>1
<1>3. /\ Len(Queue) = Len(inbox) + Len(inPipe) /\ DOMAIN Queue = 1..Len(Queue)
      /\ \A i \in 1..Len(inbox) : Queue[i] = inbox[i]
      /\ \A i \in 1..Len(inPipe) : Queue[Len(inbox) + i] = inPipe[i]
  BY <1>1 DEF Queue
<1>4. ASSUME NEW i \in DOMAIN Queue
      PROVE  /\ i \in Nat \ {0}
             /\ \/ i \in DOMAIN inbox /\ Queue[i] = inbox[i]
                \/ /\ i \notin DOMAIN inbox /\ i - Len(inbox) \in DOMAIN inPipe
                   /\ Queue[i] = inPipe[i - Len(inbox)]
  <2>1. CASE i \in DOMAIN inbox
    BY <1>2, <1>3, <2>1
  <2>2. CASE i \notin DOMAIN inbox
    <3>1. i - Len(inbox) \in 1..Len(inPipe) /\ i = Len(inbox) + (i - Len(inbox)) /\ i \in Nat \ {0}
      BY <1>2, <1>3, <1>4, <2>2
    <3>2. Queue[Len(inbox) + (i - Len(inbox))] = inPipe[i - Len(inbox)]
      BY <1>3, <3>1
    <3> QED
      BY <1>2, <2>2, <3>1, <3>2
  <2> QED
    BY <2>1, <2>2
<1>5. \A m \in Message : m.task \in Task
  BY DEF Message
<1>6. \A i \in DOMAIN inbox : i \in DOMAIN Queue /\ Queue[i] = inbox[i]
  BY <1>2, <1>3
<1>7. \A i \in DOMAIN inPipe : Len(inbox) + i \in DOMAIN Queue /\ Queue[Len(inbox) + i] = inPipe[i]
  BY <1>2, <1>3
<1> QED
  BY <1>2, <1>3, <1>4, <1>5, <1>6, <1>7

LEMMA QueueSent ==
  ASSUME AdapterTypeOK, AdapterTypeOK', NEW m \in Message, inbox' = inbox, inPipe' = Append(inPipe, m)
  PROVE  /\ Len(Queue)' = Len(Queue) + 1 /\ Queue'[Len(Queue) + 1] = m
         /\ \A i \in DOMAIN Queue : i \in DOMAIN Queue' /\ Queue'[i] = Queue[i]
         /\ \A i \in DOMAIN Queue' : (i \in DOMAIN Queue /\ Queue'[i] = Queue[i]) \/ i = Len(Queue) + 1
         /\ Len(Queue) + 1 \in DOMAIN Queue'
<1>1. inbox \in Seq(Message) /\ inPipe \in Seq(Message)
  BY DEF AdapterTypeOK
<1>2. /\ Len(Queue) = Len(inbox) + Len(inPipe) /\ DOMAIN Queue = 1..Len(Queue) /\ Len(Queue) \in Nat
      /\ \A i \in 1..Len(inbox) : Queue[i] = inbox[i]
      /\ \A i \in 1..Len(inPipe) : Queue[Len(inbox) + i] = inPipe[i]
  BY <1>1 DEF Queue
<1>3. PICK q : q = inbox \o Append(inPipe, m)
  OBVIOUS
<1>4. /\ Len(q) = Len(Queue) + 1 /\ DOMAIN q = 1..Len(q)
      /\ q[Len(Queue) + 1] = m
      /\ \A i \in 1..Len(Queue) : q[i] = Queue[i]
  BY <1>1, <1>3 DEF Queue
<1>5. Queue' = q
  BY <1>3 DEF Queue
<1> QED
  BY <1>2, <1>4, <1>5

LEMMA QueueForwarded ==
  ASSUME AdapterTypeOK, AdapterTypeOK', Forward
  PROVE  /\ Len(Queue)' = Len(Queue) /\ DOMAIN Queue' = DOMAIN Queue
         /\ \A i \in DOMAIN Queue : Queue'[i] = Queue[i]
<1> DEFINE m == Head(inPipe)
<1>1. inbox \in Seq(Message) /\ inPipe \in Seq(Message) /\ inPipe # <<>>
  BY DEF AdapterTypeOK, Forward
<1>2. inbox' = Append(inbox, m) /\ inPipe' = Tail(inPipe)
  BY DEF Forward
<1>3. PICK q : q = Append(inbox, m) \o Tail(inPipe)
  OBVIOUS
<1>4. /\ Len(q) = Len(Queue) /\ DOMAIN q = DOMAIN Queue
      /\ \A i \in DOMAIN Queue : q[i] = Queue[i]
  <2>1. /\ Len(inbox) \in Nat /\ Len(inPipe) \in Nat \ {0}
        /\ Len(Append(inbox, m)) = Len(inbox) + 1 /\ Len(Tail(inPipe)) = Len(inPipe) - 1
        /\ Append(inbox, m) \in Seq(Message) /\ Tail(inPipe) \in Seq(Message)
        /\ \A i \in 1..Len(inbox) : Append(inbox, m)[i] = inbox[i]
        /\ Append(inbox, m)[Len(inbox) + 1] = inPipe[1]
        /\ \A i \in 1..(Len(inPipe) - 1) : Tail(inPipe)[i] = inPipe[i + 1]
    BY <1>1, TailEffect
  <2> HIDE DEF m
  <2>2. PICK a, b : a = Append(inbox, m) /\ b = Tail(inPipe)
    OBVIOUS
  <2>3. /\ Len(q) = Len(a) + Len(b) /\ DOMAIN q = 1..Len(q)
        /\ \A i \in 1..Len(a) : q[i] = a[i]
        /\ \A i \in 1..Len(b) : q[Len(a) + i] = b[i]
    BY <1>3, <2>1, <2>2
  <2>4. Len(Queue) = Len(inbox) + Len(inPipe) /\ DOMAIN Queue = 1..Len(Queue)
    BY QueueTyped
  <2>5. Len(q) = Len(Queue) /\ DOMAIN q = DOMAIN Queue
    BY <2>1, <2>2, <2>3, <2>4
  <2>6. ASSUME NEW i \in DOMAIN Queue PROVE q[i] = Queue[i]
    <3>1. CASE i \in DOMAIN inbox
      <4>1. i \in 1..Len(inbox) /\ i \in 1..Len(a) /\ Queue[i] = inbox[i]
        BY <2>1, <2>2, <3>1, QueueTyped
      <4>2. Len(inbox) \in Nat /\ i \in 1..Len(inbox)
        BY <2>1, <4>1
      <4>3. a[i] = inbox[i]
        BY <2>1, <2>2, <4>2
      <4> QED
        BY <2>3, <4>1, <4>3
    <3>2. CASE i \notin DOMAIN inbox
      <4>1. /\ i - Len(inbox) \in 1..Len(inPipe) /\ Queue[i] = inPipe[i - Len(inbox)]
            /\ i \in Nat
        BY <2>6, <3>2, QueueTyped
      <4>2. CASE i - Len(inbox) = 1
        BY <2>1, <2>2, <2>3, <4>1, <4>2
      <4>3. CASE i - Len(inbox) # 1
        <5>1. PICK j : j = i - Len(inbox) - 1
          OBVIOUS
        <5>2. Len(a) = Len(inbox) + 1 /\ Len(b) = Len(inPipe) - 1 /\ Len(inbox) \in Nat /\ Len(inPipe) \in Nat
          BY <2>1, <2>2
        <5>3. j \in 1..Len(b) /\ i = Len(a) + j /\ j + 1 = i - Len(inbox) /\ j \in 1..(Len(inPipe) - 1)
          BY <4>1, <4>3, <5>1, <5>2
        <5>4. b[j] = inPipe[j + 1]
          BY <2>1, <2>2, <5>3
        <5> QED
          BY <2>3, <4>1, <5>3, <5>4
      <4> QED
        BY <4>2, <4>3
    <3> QED
      BY <3>1, <3>2
  <2> QED
    BY <2>5, <2>6
<1>5. Queue' = q
  BY <1>2, <1>3 DEF Queue
<1> QED
  BY <1>4, <1>5

LEMMA QueueServed ==
  ASSUME AdapterTypeOK, AdapterTypeOK', inbox # <<>>, inbox' = Tail(inbox), inPipe' = inPipe
  PROVE  /\ 1 \in DOMAIN Queue /\ Queue[1] = Head(inbox) /\ Len(Queue)' = Len(Queue) - 1
         /\ \A i \in DOMAIN Queue' : i + 1 \in DOMAIN Queue /\ Queue'[i] = Queue[i + 1]
         /\ \A i \in DOMAIN Queue : i # 1 => i - 1 \in DOMAIN Queue' /\ Queue'[i - 1] = Queue[i]
<1>1. inbox \in Seq(Message) /\ inPipe \in Seq(Message)
  BY DEF AdapterTypeOK
<1>2. /\ Len(inbox) \in Nat \ {0} /\ Head(inbox) = inbox[1] /\ Tail(inbox) \in Seq(Message)
      /\ DOMAIN inbox = 1..Len(inbox) /\ Len(Tail(inbox)) = Len(inbox) - 1
      /\ \A i \in 1..(Len(inbox) - 1) : Tail(inbox)[i] = inbox[i + 1]
  BY <1>1, TailEffect
<1>3. PICK a, q : a = Tail(inbox) /\ q = a \o inPipe
  OBVIOUS
<1>4. /\ Len(q) = Len(a) + Len(inPipe) /\ DOMAIN q = 1..Len(q)
      /\ \A i \in 1..Len(a) : q[i] = a[i]
      /\ \A i \in 1..Len(inPipe) : q[Len(a) + i] = inPipe[i]
  BY <1>1, <1>2, <1>3
<1>5. /\ Len(Queue) = Len(inbox) + Len(inPipe) /\ DOMAIN Queue = 1..Len(Queue) /\ Len(inPipe) \in Nat
      /\ DOMAIN inPipe = 1..Len(inPipe)
  BY QueueTyped
<1>6. ASSUME NEW i \in 1..Len(q) PROVE i + 1 \in DOMAIN Queue /\ q[i] = Queue[i + 1]
  <2>1. CASE i \in 1..Len(a)
    <3>1. i + 1 \in DOMAIN inbox /\ i \in 1..(Len(inbox) - 1)
      BY <1>2, <1>3, <2>1
    <3>2. a[i] = inbox[i + 1]
      BY <1>2, <1>3, <3>1
    <3>3. i + 1 \in DOMAIN Queue /\ Queue[i + 1] = inbox[i + 1]
      BY <3>1, QueueTyped
    <3> QED
      BY <1>4, <2>1, <3>2, <3>3
  <2>2. CASE i \notin 1..Len(a)
    <3>1. PICK j : j = i - Len(a)
      OBVIOUS
    <3>4. Len(a) = Len(inbox) - 1 /\ Len(a) \in Nat /\ Len(inbox) \in Nat
      BY <1>2, <1>3
    <3>5. i \in 1..(Len(a) + Len(inPipe)) /\ Len(inPipe) \in Nat
      BY <1>4, <1>5
    <3>2. j \in 1..Len(inPipe) /\ i = Len(a) + j /\ i + 1 = Len(inbox) + j
      BY <2>2, <3>1, <3>4, <3>5
    <3>3. Len(inbox) + j \in DOMAIN Queue /\ Queue[Len(inbox) + j] = inPipe[j]
      BY <1>5, <3>2, QueueTyped
    <3> QED
      BY <1>4, <3>2, <3>3
  <2> QED
    BY <2>1, <2>2
<1>7. Queue' = q
  BY <1>3 DEF Queue
<1>8. 1 \in DOMAIN Queue /\ Queue[1] = Head(inbox)
  BY <1>2, QueueTyped
<1>9. Len(q) = Len(Queue) - 1 /\ Len(q) \in Nat
  BY <1>2, <1>3, <1>4, <1>5
<1>10. \A i \in DOMAIN Queue : i # 1 => i - 1 \in 1..Len(q) /\ (i - 1) + 1 = i
  BY <1>5, <1>9
<1>11. \A i \in DOMAIN Queue : i # 1 => i - 1 \in DOMAIN q /\ q[i - 1] = Queue[i]
  BY <1>4, <1>6, <1>10
<1> QED
  BY <1>4, <1>6, <1>7, <1>8, <1>9, <1>11

\* Of the places of a turn.
AskedOf(t) == \E i \in DOMAIN Queue : Queue[i].task = t /\ AsksTurn(Queue[i])
ToldOf(t) == \E i \in DOMAIN outPipe : outPipe[i].task = t /\ GivesTurn(outPipe[i])

LEMMA InQueue ==
  ASSUME AdapterTypeOK, NEW i \in DOMAIN Queue, AsksTurn(Queue[i])
  PROVE  \/ i \in DOMAIN inbox /\ Holds(Queue[i].task, "asked", i) /\ i \in Nat
         \/ /\ i \notin DOMAIN inbox /\ i - Len(inbox) \in Nat
            /\ Holds(Queue[i].task, "sent", i - Len(inbox))
<1>1. CASE i \in DOMAIN inbox
  BY <1>1, QueueTyped DEF Holds
<1>2. CASE i \notin DOMAIN inbox
  BY <1>2, QueueTyped DEF Holds
<1> QED
  BY <1>1, <1>2

LEMMA AsksOnce ==
  ASSUME AdapterTypeOK, OneTurn, NEW i \in DOMAIN Queue, NEW j \in DOMAIN Queue,
         AsksTurn(Queue[i]), AsksTurn(Queue[j]), Queue[i].task = Queue[j].task
  PROVE  i = j
<1>1. Queue[i].task \in Task /\ Len(inbox) \in Nat /\ i \in Nat /\ j \in Nat
  BY QueueTyped
<1>2. PICK t \in Task : t = Queue[i].task
  BY <1>1
<1>3. \/ i \in DOMAIN inbox /\ Holds(t, "asked", i) /\ i \in Nat
      \/ i \notin DOMAIN inbox /\ i - Len(inbox) \in Nat /\ Holds(t, "sent", i - Len(inbox))
  BY <1>2, InQueue
<1>4. \/ j \in DOMAIN inbox /\ Holds(t, "asked", j) /\ j \in Nat
      \/ j \notin DOMAIN inbox /\ j - Len(inbox) \in Nat /\ Holds(t, "sent", j - Len(inbox))
  BY <1>2, InQueue
<1>5. CASE i \in DOMAIN inbox
  BY <1>3, <1>4, <1>5 DEF OneTurn
<1>6. CASE i \notin DOMAIN inbox
  <2>1. j \notin DOMAIN inbox
    BY <1>3, <1>4, <1>6 DEF OneTurn
  <2>2. i - Len(inbox) = j - Len(inbox)
    BY <1>3, <1>4, <1>6, <2>1 DEF OneTurn
  <2> QED
    BY <1>1, <2>2
<1> QED
  BY <1>5, <1>6

LEMMA Alone ==
  ASSUME AdapterTypeOK, OneTurn, NEW t \in Task
  PROVE  /\ t \in fresh => /\ sh.clarification # t /\ ApprovalTask(sh) # t /\ PendingTask(sh) # t
                           /\ ~AskedOf(t) /\ ~ToldOf(t)
         /\ sh.clarification = t => /\ ApprovalTask(sh) # t /\ PendingTask(sh) # t
                                    /\ ~AskedOf(t) /\ ~ToldOf(t)
         /\ ApprovalTask(sh) = t => PendingTask(sh) # t /\ ~AskedOf(t) /\ ~ToldOf(t)
         /\ PendingTask(sh) = t => ~AskedOf(t) /\ ~ToldOf(t)
         /\ AskedOf(t) => ~ToldOf(t)
<1>1. AskedOf(t) => \E k \in {"asked", "sent"} : \E i \in Nat : Holds(t, k, i)
  BY InQueue DEF AskedOf
<1>2. ToldOf(t) => \E i \in Nat : Holds(t, "told", i)
  BY DEF ToldOf, Holds, AdapterTypeOK
<1>3. /\ t \in fresh => Holds(t, "fresh", 0)
      /\ sh.clarification = t => Holds(t, "question", 0)
      /\ ApprovalTask(sh) = t => Holds(t, "box", 0)
      /\ PendingTask(sh) = t => Holds(t, "run", 0)
  BY DEF Holds
<1>4. \A k, l : \A i, j \in Nat : Holds(t, k, i) /\ Holds(t, l, j) => k = l
  BY DEF OneTurn
<1> HIDE DEF Holds
<1> QED
  BY <1>1, <1>2, <1>3, <1>4

-----------------------------------------------------------------------------
(* A step of the shell while the helper lives: e is the event it reads, if any. *)

\* What holds of the dialogue before such a step.
Steady == AdapterTypeOK /\ Wired /\ OneTurn /\ StartsOnce /\ Unused /\ Announced /\ Closes

TakesUp(e) == outPipe # <<>> /\ e = Head(outPipe) /\ outPipe' = Tail(outPipe)

Sends(m) ==
  /\ inPipe' = Append(inPipe, m)
  /\ m.op # "start" => Begun(m.task)
  /\ \/ m.op = "start" /\ m.task \in fresh /\ m.task \notin fresh'
     \/ m.op = "reply" /\ m.task = sh.clarification
     \/ m.op = "ack" /\ sh.pending # None /\ m.task = sh.pending.task /\ m.round = sh.pending.round
     \/ /\ Decides(m) /\ sh.approval # None /\ m.task = sh.approval.task /\ m.round = sh.approval.round
        /\ sh'.approval = None
     \/ m.op = "abort"

Smooth(e) ==
  /\ inbox' = inbox /\ entry' = entry /\ fresh' \subseteq fresh
  /\ \/ outPipe' = outPipe /\ confirmed' = confirmed
     \/ /\ TakesUp(e)
        /\ confirmed' = IF e.event = "started" THEN confirmed \cup {e.task} ELSE confirmed
        /\ (sh.approval # None /\ Ends(e) /\ e.task = sh.approval.task) => sh'.approval = None
  /\ inPipe' = inPipe \/ \E m \in Message : Sends(m)
  /\ \/ sh'.approval \in {sh.approval, None}
     \/ TakesUp(e) /\ e.event = "proposal" /\ e.gate /\ sh'.approval = [task |-> e.task, round |-> e.round]
  /\ \/ sh'.pending \in {sh.pending, None}
     \/ /\ sh.approval # None /\ sh'.pending = sh.approval
        /\ \E m \in Message : Sends(m) /\ Decides(m) /\ m.task = sh.approval.task
     \/ TakesUp(e) /\ e.event = "proposal" /\ ~e.gate /\ sh'.pending = [task |-> e.task, round |-> e.round]
  /\ \/ sh'.clarification \in {sh.clarification, None}
     \/ TakesUp(e) /\ e.event = "question" /\ sh'.clarification = e.task

LEMMA BegunOf ==
  ASSUME Steady
  PROVE  /\ sh.task # None => Begun(sh.task)
         /\ Closing(sh) # None => Begun(Closing(sh))
         /\ sh.approval # None => Begun(sh.approval.task)
         /\ sh.pending # None => Begun(sh.pending.task)
         /\ sh.clarification # None => Begun(sh.clarification)
         /\ outPipe # <<>> => /\ Head(outPipe) \in Event /\ Head(outPipe).task \in Task
                              /\ Head(outPipe).event # "started" => Head(outPipe).task \in confirmed
<1>1. /\ sh.task # None => Begun(sh.task)
      /\ sh.approval # None => Begun(sh.approval.task)
      /\ sh.pending # None => Begun(sh.pending.task)
      /\ sh.clarification # None => Begun(sh.clarification)
  BY DEF Steady, Closes, Begun
<1>2. Closing(sh) # None => Begun(Closing(sh))
  BY <1>1 DEF Closing, FirstSet, ApprovalTask
<1>3. ASSUME outPipe # <<>>
      PROVE  /\ Head(outPipe) \in Event /\ Head(outPipe).task \in Task
             /\ Head(outPipe).event # "started" => Head(outPipe).task \in confirmed
  <2>1. 1 \in DOMAIN outPipe /\ Head(outPipe) = outPipe[1]
    BY <1>3, TailEffect DEF Steady, AdapterTypeOK
  <2>2. 1..(1 - 1) = {}
    OBVIOUS
  <2>3. outPipe[1].event # "started" => outPipe[1].task \in confirmed
    BY <2>1, <2>2 DEF Steady, Announced
  <2> QED
    BY <1>3, <2>1, <2>3, HeadTyped DEF Steady
<1> QED
  BY <1>1, <1>2, <1>3

\* What is sent is received, and what was to be read still is.
LEMMA SentToLive ==
  ASSUME Steady, NEW m \in Message, Calm,
         NEW rest, Send(rest, m), rest = outPipe \/ outPipe # <<>>
  PROVE  inPipe' = Append(inPipe, m) /\ outPipe' = rest /\ inbox' = inbox /\ entry' = entry
<1>1. Append(<<>>, m) = <<m>>
  OBVIOUS
<1>2. helper = "dead" => inPipe = <<>> /\ outPipe = <<>>
  BY DEF Steady, Wired, Unused
<1> QED
  BY <1>1, <1>2 DEF Send, Calm, coreVars

LEMMA StepSmooth ==
  ASSUME Steady, lost = {}, [Next]_vars, ~HelperDies
  PROVE  (\E e : Smooth(e)) \/ Forward \/ Serve \/ \E t \in Task : Expire(t)
<1>0. PICK e : e = Head(outPipe)
  OBVIOUS
<1>1. /\ AdapterTypeOK /\ Wired
      /\ sh.clarification \in Task \cup {None} /\ sh.pending \in Command \cup {None}
      /\ sh.approval \in Command \cup {None} /\ Closing(sh) \in Task \cup {None}
  BY ClosingAt DEF Steady, AdapterTypeOK, Globals
<1>2. /\ \A t \in Task : \A op \in {"start", "abort", "reply"} :
           About(op, t) \in Message /\ About(op, t).op = op /\ About(op, t).task = t
      /\ \A c \in Command : \A op \in {"approved", "edited", "rejected", "ack"} :
           /\ Ask(op, c) \in Message /\ Ask(op, c).op = op
           /\ Ask(op, c).task = c.task /\ Ask(op, c).round = c.round
  BY MessageTyped DEF About, Ask
<1>3. /\ outPipe # <<>> => /\ e \in Event /\ e.task \in Task
                           /\ e.event # "started" => e.task \in confirmed
      /\ Closing(sh) # None => Begun(Closing(sh))
      /\ sh.approval # None => Begun(sh.approval.task)
      /\ sh.pending # None => Begun(sh.pending.task)
      /\ sh.clarification # None => Begun(sh.clarification)
  BY <1>0, BegunOf
<1>4. CASE Idles
  BY <1>4 DEF Idles, Calm, coreVars, Still, linkVars, histVars, Same, Away, Smooth
<1>5. CASE TurnsAway
  <2>1. /\ sh'.approval = None /\ sh'.clarification = None /\ sh'.pending = sh.pending
        /\ confirmed' = confirmed /\ fresh' = fresh /\ Calm
    BY <1>5 DEF TurnsAway, Away, Dismiss
  <2>2. CASE Still
    BY <2>1, <2>2 DEF Calm, coreVars, Still, linkVars, Smooth
  <2>3. CASE Closing(sh) # None /\ Send(outPipe, About("abort", Closing(sh)))
    <3>1. PICK m \in Message : m = About("abort", Closing(sh))
      BY <1>1, <1>2, <2>3
    <3>2. inPipe' = Append(inPipe, m) /\ outPipe' = outPipe /\ inbox' = inbox /\ entry' = entry
      BY <2>1, <2>3, <3>1, SentToLive
    <3>3. Sends(m)
      BY <1>1, <1>2, <1>3, <2>3, <3>1, <3>2 DEF Sends
    <3> QED
      BY <2>1, <3>2, <3>3 DEF Smooth
  <2> QED
    BY <1>5, <2>2, <2>3 DEF TurnsAway
<1>6. CASE Rejects
  <2>1. /\ sh'.approval = None /\ sh'.clarification = None /\ sh'.pending = sh.pending
        /\ confirmed' = confirmed /\ fresh' = fresh /\ Calm /\ sh.approval # None
    BY <1>6 DEF Rejects, Away, Dismiss
  <2>2. PICK m \in Message : m = Ask("rejected", sh.approval)
    BY <1>1, <1>2, <2>1
  <2>3. inPipe' = Append(inPipe, m) /\ outPipe' = outPipe /\ inbox' = inbox /\ entry' = entry
    BY <1>6, <2>1, <2>2, SentToLive DEF Rejects
  <2>4. Sends(m)
    BY <1>1, <1>2, <1>3, <2>1, <2>2, <2>3 DEF Sends, Decides
  <2> QED
    BY <2>1, <2>3, <2>4 DEF Smooth
<1>7. CASE Replies
  <2>1. /\ sh'.approval = sh.approval /\ sh'.clarification = None /\ sh'.pending = sh.pending
        /\ confirmed' = confirmed /\ fresh' = fresh /\ Calm /\ sh.clarification # None
    BY <1>7 DEF Replies, histVars
  <2>2. PICK m \in Message : m = About("reply", sh.clarification)
    BY <1>1, <1>2, <2>1
  <2>3. inPipe' = Append(inPipe, m) /\ outPipe' = outPipe /\ inbox' = inbox /\ entry' = entry
    BY <1>7, <2>1, <2>2, SentToLive DEF Replies
  <2>4. Sends(m)
    BY <1>1, <1>2, <1>3, <2>1, <2>2, <2>3 DEF Sends
  <2> QED
    BY <2>1, <2>3, <2>4 DEF Smooth
<1>8. CASE Acks
  <2>1. /\ sh'.approval = sh.approval /\ sh'.clarification = sh.clarification /\ sh'.pending = None
        /\ confirmed' = confirmed /\ fresh' = fresh /\ Calm /\ sh.pending # None
    BY <1>8 DEF Acks, histVars
  <2>2. PICK m \in Message : m = Ask("ack", sh.pending)
    BY <1>1, <1>2, <2>1
  <2>3. inPipe' = Append(inPipe, m) /\ outPipe' = outPipe /\ inbox' = inbox /\ entry' = entry
    BY <1>8, <2>1, <2>2, SentToLive DEF Acks
  <2>4. Sends(m)
    BY <1>1, <1>2, <1>3, <2>1, <2>2, <2>3 DEF Sends
  <2> QED
    BY <2>1, <2>3, <2>4 DEF Smooth
<1>9. CASE Fails
  <2>1. inPipe' = inPipe /\ inbox' = inbox /\ outPipe' = outPipe /\ entry' = entry /\ confirmed' = confirmed
    BY <1>9 DEF Fails, Cut, Calm, coreVars, Steady, Wired, Unused, histVars, Dismiss
  <2> QED
    BY <1>9, <2>1 DEF Fails, Smooth
<1>10. ASSUME NEW t \in Task, Begins(t) PROVE Smooth(e)
  <2>1. /\ sh'.approval = sh.approval /\ sh'.clarification = sh.clarification /\ sh'.pending = sh.pending
        /\ confirmed' = confirmed /\ t \in fresh /\ fresh' = fresh \ {t} /\ Calm
    BY <1>10 DEF Begins, histVars
  <2>2. PICK m \in Message : m = About("start", t)
    BY <1>2
  <2>3. inPipe' = Append(inPipe, m) /\ outPipe' = outPipe /\ inbox' = inbox /\ entry' = entry
    BY <1>10, <2>1, <2>2, SentToLive DEF Begins
  <2>4. Sends(m)
    BY <1>2, <2>1, <2>2, <2>3 DEF Sends
  <2> QED
    BY <2>1, <2>3, <2>4 DEF Smooth
<1>11. ASSUME NEW op \in {"approved", "edited"}, Agreed(op) PROVE Smooth(e)
  <2>1. /\ sh'.approval = None /\ sh'.clarification = sh.clarification /\ sh'.pending = sh.approval
        /\ confirmed' = confirmed /\ fresh' = fresh /\ Calm /\ sh.approval # None
    BY <1>11 DEF Agreed, histVars
  <2>2. PICK m \in Message : m = Ask(op, sh.approval)
    BY <1>1, <1>2, <2>1
  <2>3. inPipe' = Append(inPipe, m) /\ outPipe' = outPipe /\ inbox' = inbox /\ entry' = entry
    BY <1>11, <2>1, <2>2, SentToLive DEF Agreed
  <2>4. Sends(m) /\ Decides(m) /\ m.task = sh.approval.task
    BY <1>1, <1>2, <1>3, <2>1, <2>2, <2>3 DEF Sends, Decides
  <2> QED
    BY <2>1, <2>3, <2>4 DEF Smooth
<1>12. ASSUME Ends(e), e.task = ApprovalTask(sh), e.task # None, Ignores(sh, e.task) PROVE FALSE
  BY <1>12 DEF Ignores, IsClosedEvent, IsCurrentEvent, Steady, Closes
<1>13. sh.approval # None => ApprovalTask(sh) = sh.approval.task
  BY DEF ApprovalTask
<1>14. ASSUME Reads(e), Quiet, outPipe' = Tail(outPipe), e.event = "started" \/ UNCHANGED histVars,
              e.event = "started" => confirmed' = confirmed \cup {e.task}
       PROVE  /\ TakesUp(e) /\ inPipe' = inPipe /\ inbox' = inbox /\ entry' = entry /\ fresh' = fresh
              /\ confirmed' = IF e.event = "started" THEN confirmed \cup {e.task} ELSE confirmed
              /\ e.task # None
  <2>1. e.task # None
    BY <1>3, <1>14, NoneAssumption DEF Reads
  <2> QED
    BY <1>14, <2>1 DEF Reads, Quiet, Calm, coreVars, TakesUp, histVars
<1>15. CASE Hears(e)
  <2>1. (sh.approval # None /\ Ends(e) /\ e.task = sh.approval.task) => sh'.approval = None
    BY <1>12, <1>13, <1>14, <1>15 DEF Hears
  <2> QED
    BY <1>14, <1>15, <2>1 DEF Hears, Same, Smooth
<1>16. CASE Starts(e)
  BY <1>14, <1>16 DEF Starts, Smooth, Ends
<1>17. CASE TakesTask(e)
  BY <1>14, <1>17 DEF TakesTask, Takes, Smooth
<1>18. CASE TakesQuestion(e)
  BY <1>14, <1>18 DEF TakesQuestion, Takes, Smooth, Ends
<1>19. CASE TakesEnd(e)
  BY <1>14, <1>19 DEF TakesEnd, Takes, Smooth, Away
<1>20. CASE TakesProposal(e)
  <2>1. Takes(e) /\ Reads(e) /\ e.event = "proposal" /\ sh'.clarification = sh.clarification
        /\ ~Ends(e) /\ UNCHANGED histVars
    BY <1>20 DEF TakesProposal, Takes, Ends
  <2>2. CASE Quiet /\ outPipe' = Tail(outPipe) /\ e.gate /\ sh'.pending = sh.pending
              /\ sh'.approval = [task |-> e.task, round |-> e.round]
    BY <1>14, <2>1, <2>2 DEF Smooth
  <2>3. CASE Quiet /\ outPipe' = Tail(outPipe) /\ ~e.gate /\ sh'.approval = sh.approval
              /\ sh'.pending = [task |-> e.task, round |-> e.round]
    BY <1>14, <2>1, <2>3 DEF Smooth
  <2>4. CASE sh'.approval = sh.approval /\ sh'.pending = sh.pending
              /\ Send(Tail(outPipe), About("abort", e.task))
    <3>1. PICK m \in Message : m = About("abort", e.task)
      BY <1>2, <1>3, <2>1 DEF Reads
    <3>2. outPipe # <<>> /\ Calm /\ fresh' = fresh /\ e = Head(outPipe) /\ confirmed' = confirmed
      BY <2>1 DEF Reads, histVars
    <3>3. inPipe' = Append(inPipe, m) /\ outPipe' = Tail(outPipe) /\ inbox' = inbox /\ entry' = entry
      BY <2>4, <3>1, <3>2, SentToLive
    <3>4. m.op = "abort" /\ Begun(m.task)
      BY <1>2, <1>3, <2>1, <3>1, <3>2 DEF Begun
    <3>5. Sends(m) /\ TakesUp(e)
      BY <3>2, <3>3, <3>4 DEF Sends, TakesUp
    <3> QED
      BY <2>1, <2>4, <3>2, <3>3, <3>5 DEF Smooth
  <2> QED
    BY <1>20, <2>2, <2>3, <2>4 DEF TakesProposal
<1>21. ~ClearLost
  BY DEF ClearLost
<1> QED
  BY <1>0, <1>4, <1>5, <1>6, <1>7, <1>8, <1>9, <1>10, <1>11, <1>15, <1>16, <1>17, <1>18, <1>19, <1>20,
     <1>21, <1>1, StepShape

LEMMA AppendEffect ==
  ASSUME NEW S, NEW s \in Seq(S), NEW x \in S
  PROVE  /\ Len(s) \in Nat /\ DOMAIN s = 1..Len(s) /\ DOMAIN Append(s, x) = 1..(Len(s) + 1)
         /\ Append(s, x)[Len(s) + 1] = x /\ \A i \in 1..Len(s) : Append(s, x)[i] = s[i]
  OBVIOUS

\* The start of the task t has come this far.
Seen(t) ==
  t \in confirmed \/ \E j \in DOMAIN outPipe : outPipe[j].event = "started" /\ outPipe[j].task = t

\* What was read of the events, and what is left.
LEMMA SmoothRead ==
  ASSUME AdapterTypeOK, NEW e, Smooth(e)
  PROVE  \/ outPipe' = outPipe /\ confirmed' = confirmed
         \/ /\ outPipe' = Tail(outPipe) /\ TakesUp(e)
            /\ Len(outPipe) \in Nat \ {0} /\ DOMAIN outPipe = 1..Len(outPipe)
            /\ DOMAIN outPipe' = 1..(Len(outPipe) - 1) /\ e = outPipe[1]
            /\ \A i \in DOMAIN outPipe' : i \in Nat /\ i + 1 \in DOMAIN outPipe /\ outPipe'[i] = outPipe[i + 1]
            /\ \A i \in DOMAIN outPipe : i # 1 => i - 1 \in DOMAIN outPipe' /\ outPipe'[i - 1] = outPipe[i]
            /\ confirmed' = IF e.event = "started" THEN confirmed \cup {e.task} ELSE confirmed
<1>1. CASE outPipe' = outPipe /\ confirmed' = confirmed
  BY <1>1
<1>2. CASE /\ TakesUp(e)
           /\ confirmed' = IF e.event = "started" THEN confirmed \cup {e.task} ELSE confirmed
  <2>1. /\ outPipe # <<>> /\ outPipe' = Tail(outPipe) /\ e = outPipe[1]
        /\ Len(outPipe) \in Nat \ {0} /\ DOMAIN outPipe = 1..Len(outPipe)
        /\ DOMAIN outPipe' = 1..(Len(outPipe) - 1)
        /\ \A i \in 1..(Len(outPipe) - 1) : outPipe'[i] = outPipe[i + 1]
    BY <1>2, TailEffect DEF TakesUp, AdapterTypeOK
  <2>2. \A i \in DOMAIN outPipe : i # 1 => i - 1 \in 1..(Len(outPipe) - 1) /\ (i - 1) + 1 = i
    BY <2>1
  <2>3. \A i \in DOMAIN outPipe' : i \in Nat /\ i + 1 \in DOMAIN outPipe /\ outPipe'[i] = outPipe[i + 1]
    BY <2>1
  <2>4. \A i \in DOMAIN outPipe : i # 1 => i - 1 \in DOMAIN outPipe' /\ outPipe'[i - 1] = outPipe[i]
    BY <2>1, <2>2
  <2> QED
    BY <1>2, <2>1, <2>3, <2>4
<1> QED
  BY <1>1, <1>2 DEF Smooth

LEMMA SeenStill ==
  ASSUME AdapterTypeOK, NEW e, Smooth(e), NEW t, Seen(t)
  PROVE  Seen(t)'
<1>1. CASE outPipe' = outPipe /\ confirmed' = confirmed
  BY <1>1 DEF Seen
<1>2. CASE ~(outPipe' = outPipe /\ confirmed' = confirmed)
  <2>1. /\ confirmed \subseteq confirmed' /\ e = outPipe[1]
        /\ e.event = "started" => e.task \in confirmed'
        /\ \A i \in DOMAIN outPipe : i # 1 => i - 1 \in DOMAIN outPipe' /\ outPipe'[i - 1] = outPipe[i]
    BY <1>2, SmoothRead
  <2>2. CASE t \in confirmed
    BY <2>1, <2>2 DEF Seen
  <2>3. ASSUME NEW j \in DOMAIN outPipe, outPipe[j].event = "started", outPipe[j].task = t
        PROVE  Seen(t)'
    <3>1. CASE j = 1
      BY <2>1, <2>3, <3>1 DEF Seen
    <3>2. CASE j # 1
      BY <2>1, <2>3, <3>2 DEF Seen
    <3> QED
      BY <3>1, <3>2
  <2> QED
    BY <2>2, <2>3 DEF Seen
<1> QED
  BY <1>1, <1>2

\* What there is of messages for the helper, one more at most.
LEMMA SmoothSent ==
  ASSUME AdapterTypeOK, NEW e, Smooth(e)
  PROVE  /\ DOMAIN inPipe = 1..Len(inPipe) /\ Len(inPipe) \in Nat
         /\ \A i \in DOMAIN inPipe : i \in Nat /\ i \in DOMAIN inPipe' /\ inPipe'[i] = inPipe[i]
         /\ \A i \in DOMAIN inPipe' :
              \/ i \in DOMAIN inPipe /\ inPipe'[i] = inPipe[i]
              \/ i = Len(inPipe) + 1 /\ inPipe'[i] \in Message /\ Sends(inPipe'[i])
         /\ inPipe' # inPipe => \E m \in Message : Sends(m)
<1>1. inPipe \in Seq(Message)
  BY DEF AdapterTypeOK
<1>2. DOMAIN inPipe = 1..Len(inPipe) /\ Len(inPipe) \in Nat
  BY <1>1
<1>3. CASE inPipe' = inPipe
  BY <1>2, <1>3
<1>4. ASSUME NEW m \in Message, Sends(m)
      PROVE  /\ \A i \in DOMAIN inPipe : i \in Nat /\ i \in DOMAIN inPipe' /\ inPipe'[i] = inPipe[i]
             /\ \A i \in DOMAIN inPipe' :
                  \/ i \in DOMAIN inPipe /\ inPipe'[i] = inPipe[i]
                  \/ i = Len(inPipe) + 1 /\ inPipe'[i] \in Message /\ Sends(inPipe'[i])
  <2>1. inPipe' = Append(inPipe, m)
    BY <1>4 DEF Sends
  <2>2. /\ DOMAIN inPipe' = 1..(Len(inPipe) + 1) /\ inPipe'[Len(inPipe) + 1] = m
        /\ \A i \in 1..Len(inPipe) : inPipe'[i] = inPipe[i]
    BY <1>1, <2>1, AppendEffect
  <2>3. \A i \in DOMAIN inPipe' : i \in DOMAIN inPipe \/ i = Len(inPipe) + 1
    BY <1>2, <2>2
  <2>4. \A i \in DOMAIN inPipe : i \in Nat /\ i \in DOMAIN inPipe'
    BY <1>2, <2>2
  <2> QED
    BY <1>2, <1>4, <2>2, <2>3, <2>4
<1> QED
  BY <1>2, <1>3, <1>4 DEF Smooth

LEMMA BegunStill ==
  ASSUME AdapterTypeOK, NEW e, Smooth(e), NEW t, Begun(t)
  PROVE  Begun(t)'
<1>1. Seen(t) => Begun(t)'
  BY SeenStill DEF Seen, Begun
<1> QED
  BY <1>1, SmoothSent DEF Begun, Seen

LEMMA AnnouncedSmoothly ==
  ASSUME AdapterTypeOK, Announced, NEW e, Smooth(e)
  PROVE  Announced'
<1>1. ASSUME NEW i \in DOMAIN outPipe', outPipe'[i].event # "started"
      PROVE  \/ outPipe'[i].task \in confirmed'
             \/ \E j \in 1..(i - 1) : outPipe'[j].event = "started" /\ outPipe'[j].task = outPipe'[i].task
  <2>1. CASE outPipe' = outPipe /\ confirmed' = confirmed
    BY <1>1, <2>1 DEF Announced
  <2>2. CASE ~(outPipe' = outPipe /\ confirmed' = confirmed)
    <3>1. /\ i \in Nat /\ i + 1 \in DOMAIN outPipe /\ outPipe'[i] = outPipe[i + 1]
          /\ confirmed \subseteq confirmed' /\ e = outPipe[1]
          /\ e.event = "started" => e.task \in confirmed'
          /\ DOMAIN outPipe = 1..Len(outPipe) /\ Len(outPipe) \in Nat
          /\ \A j \in DOMAIN outPipe : j # 1 => j - 1 \in DOMAIN outPipe' /\ outPipe'[j - 1] = outPipe[j]
      BY <2>2, SmoothRead
    <3>2. CASE outPipe[i + 1].task \in confirmed
      BY <3>1, <3>2
    <3>3. ASSUME NEW j \in 1..((i + 1) - 1), outPipe[j].event = "started", outPipe[j].task = outPipe[i + 1].task
          PROVE  \/ outPipe'[i].task \in confirmed'
                 \/ \E k \in 1..(i - 1) : outPipe'[k].event = "started" /\ outPipe'[k].task = outPipe'[i].task
      <4>1. CASE j = 1
        BY <3>1, <3>3, <4>1
      <4>2. CASE j # 1
        <5>1. j \in DOMAIN outPipe /\ j - 1 \in 1..(i - 1)
          BY <3>1, <4>2
        <5>2. outPipe'[j - 1] = outPipe[j]
          BY <3>1, <4>2, <5>1
        <5> QED
          BY <3>1, <3>3, <5>1, <5>2
      <4> QED
        BY <4>1, <4>2
    <3> QED
      BY <1>1, <3>1, <3>2, <3>3 DEF Announced
  <2> QED
    BY <2>1, <2>2
<1>2. ASSUME NEW i \in DOMAIN inbox'
      PROVE  \/ inbox'[i].task \in confirmed'
             \/ \E j \in DOMAIN outPipe' : outPipe'[j].event = "started" /\ outPipe'[j].task = inbox'[i].task
  <2>1. inbox' = inbox
    BY DEF Smooth
  <2>2. Seen(inbox[i].task)
    BY <1>2, <2>1 DEF Announced, Seen
  <2>3. PICK t : t = inbox[i].task
    OBVIOUS
  <2>4. Seen(t)'
    BY <2>2, <2>3, SeenStill
  <2> QED
    BY <2>1, <2>3, <2>4 DEF Seen
<1>3. ASSUME NEW i \in DOMAIN inPipe', inPipe'[i].op # "start"
      PROVE  \/ inPipe'[i].task \in confirmed'
             \/ \E j \in DOMAIN outPipe' : outPipe'[j].event = "started" /\ outPipe'[j].task = inPipe'[i].task
             \/ \E j \in 1..(i - 1) : inPipe'[j].op = "start" /\ inPipe'[j].task = inPipe'[i].task
  <2>1. /\ DOMAIN inPipe = 1..Len(inPipe) /\ Len(inPipe) \in Nat
        /\ \A j \in DOMAIN inPipe : inPipe'[j] = inPipe[j]
    BY SmoothSent
  <2>2. PICK t : t = inPipe'[i].task
    OBVIOUS
  <2>3. Seen(t) =>
          \/ inPipe'[i].task \in confirmed'
          \/ \E j \in DOMAIN outPipe' : outPipe'[j].event = "started" /\ outPipe'[j].task = inPipe'[i].task
    <3>1. Seen(t) => Seen(t)'
      BY SeenStill
    <3> QED
      BY <2>2, <3>1 DEF Seen
  <2>4. CASE i \in DOMAIN inPipe /\ inPipe'[i] = inPipe[i]
    <3>1. Seen(t) \/ \E j \in 1..(i - 1) : inPipe[j].op = "start" /\ inPipe[j].task = t
      BY <1>3, <2>2, <2>4 DEF Announced, Seen
    <3>2. \A j \in 1..(i - 1) : inPipe'[j] = inPipe[j]
      BY <2>1, <2>4
    <3> QED
      BY <2>2, <2>3, <3>1, <3>2
  <2>5. CASE i = Len(inPipe) + 1 /\ Sends(inPipe'[i])
    <3>1. Begun(t)
      BY <1>3, <2>2, <2>5 DEF Sends
    <3>2. Seen(t) \/ \E j \in 1..(i - 1) : inPipe[j].op = "start" /\ inPipe[j].task = t
      BY <2>1, <2>5, <3>1 DEF Begun, Seen
    <3>3. \A j \in 1..(i - 1) : inPipe'[j] = inPipe[j]
      BY <2>1, <2>5
    <3> QED
      BY <2>2, <2>3, <3>2, <3>3
  <2> QED
    BY <2>4, <2>5, SmoothSent
<1> QED
  BY <1>1, <1>2, <1>3 DEF Announced

\* What the helper forwards, in short.
LEMMA ForwardStarts ==
  ASSUME AdapterTypeOK, Forward, NEW t
  PROVE  /\ Seen(t) => Seen(t)'
         /\ Begun(t) => Begun(t)'
         /\ inPipe[1].op = "start" /\ inPipe[1].task = t => Seen(t)'
         /\ \A i \in DOMAIN outPipe : i \in DOMAIN outPipe' /\ outPipe'[i] = outPipe[i]
         /\ \A i \in DOMAIN outPipe' :
              \/ i \in DOMAIN outPipe /\ outPipe'[i] = outPipe[i]
              \/ /\ outPipe'[i].event = "started" /\ i = Len(outPipe) + 1
                 /\ inPipe[1].op = "start" /\ outPipe'[i].task = inPipe[1].task
         /\ 1 \in DOMAIN inPipe
         /\ \A i \in DOMAIN inPipe' : i \in Nat /\ i + 1 \in DOMAIN inPipe /\ inPipe'[i] = inPipe[i + 1]
         /\ \A i \in DOMAIN inPipe : i # 1 => i - 1 \in DOMAIN inPipe' /\ inPipe'[i - 1] = inPipe[i]
         /\ confirmed' = confirmed /\ sh' = sh
<1>1. /\ Head(inPipe) = inPipe[1] /\ Len(inPipe) \in Nat \ {0}
      /\ DOMAIN inPipe = 1..Len(inPipe) /\ DOMAIN inPipe' = 1..(Len(inPipe) - 1)
      /\ \A i \in 1..(Len(inPipe) - 1) : inPipe'[i] = inPipe[i + 1]
      /\ confirmed' = confirmed /\ sh' = sh
  BY ForwardEffect DEF histVars
<1>2. /\ Len(outPipe) \in Nat /\ DOMAIN outPipe = 1..Len(outPipe)
      /\ \/ outPipe' = outPipe /\ inPipe[1].op # "start"
         \/ /\ DOMAIN outPipe' = 1..(Len(outPipe) + 1)
            /\ \A i \in 1..Len(outPipe) : outPipe'[i] = outPipe[i]
            /\ outPipe'[Len(outPipe) + 1].event = "started"
            /\ outPipe'[Len(outPipe) + 1].task = inPipe[1].task /\ inPipe[1].op = "start"
  BY <1>1, ForwardEffect
<1>3. \A i \in DOMAIN inPipe : i # 1 => i - 1 \in 1..(Len(inPipe) - 1) /\ (i - 1) + 1 = i
  BY <1>1
<1>4. \A i \in DOMAIN inPipe : i # 1 => i - 1 \in DOMAIN inPipe' /\ inPipe'[i - 1] = inPipe[i]
  BY <1>1, <1>3
<1>5. \A i \in DOMAIN inPipe' : i \in Nat /\ i + 1 \in DOMAIN inPipe /\ inPipe'[i] = inPipe[i + 1]
  BY <1>1
<1>6. /\ \A i \in DOMAIN outPipe : i \in DOMAIN outPipe' /\ outPipe'[i] = outPipe[i]
      /\ \A i \in DOMAIN outPipe' :
           \/ i \in DOMAIN outPipe /\ outPipe'[i] = outPipe[i]
           \/ /\ outPipe'[i].event = "started" /\ i = Len(outPipe) + 1
              /\ inPipe[1].op = "start" /\ outPipe'[i].task = inPipe[1].task
  BY <1>2
<1>7. inPipe[1].op = "start" /\ inPipe[1].task = t => Seen(t)'
  <2> SUFFICES ASSUME inPipe[1].op = "start", inPipe[1].task = t PROVE Seen(t)'
    OBVIOUS
  <2>1. Len(outPipe) + 1 \in DOMAIN outPipe'
    BY <1>2
  <2> QED
    BY <1>2, <2>1 DEF Seen
<1>8. Seen(t) => Seen(t)'
  BY <1>1, <1>6 DEF Seen
<1>9. Begun(t) => Begun(t)'
  <2>1. Seen(t)' => Begun(t)'
    BY DEF Seen, Begun
  <2>2. ASSUME NEW i \in DOMAIN inPipe, inPipe[i].op = "start", inPipe[i].task = t PROVE Begun(t)'
    <3>1. CASE i = 1
      BY <1>7, <2>1, <2>2, <3>1
    <3>2. CASE i # 1
      BY <1>4, <2>2, <3>2 DEF Begun
    <3> QED
      BY <3>1, <3>2
  <2>3. Begun(t) => Seen(t) \/ \E i \in DOMAIN inPipe : inPipe[i].op = "start" /\ inPipe[i].task = t
    BY DEF Begun, Seen
  <2> QED
    BY <1>8, <2>1, <2>2, <2>3
<1>10. 1 \in DOMAIN inPipe
  BY <1>1
<1> QED
  BY <1>1, <1>4, <1>5, <1>6, <1>7, <1>8, <1>9, <1>10

LEMMA AnnouncedForward ==
  ASSUME AdapterTypeOK, Announced, Forward
  PROVE  Announced'
<1>1. /\ Len(inbox) \in Nat /\ DOMAIN inbox = 1..Len(inbox) /\ DOMAIN inbox' = 1..(Len(inbox) + 1)
      /\ \A i \in 1..Len(inbox) : inbox'[i] = inbox[i]
      /\ inbox'[Len(inbox) + 1] = inPipe[1]
      /\ Len(outPipe) \in Nat /\ DOMAIN outPipe = 1..Len(outPipe)
  BY ForwardEffect
<1>2. /\ \A i \in DOMAIN outPipe : i \in DOMAIN outPipe' /\ outPipe'[i] = outPipe[i]
      /\ \A i \in DOMAIN outPipe' :
           \/ i \in DOMAIN outPipe /\ outPipe'[i] = outPipe[i]
           \/ outPipe'[i].event = "started"
      /\ 1 \in DOMAIN inPipe
      /\ \A i \in DOMAIN inPipe' : i \in Nat /\ i + 1 \in DOMAIN inPipe /\ inPipe'[i] = inPipe[i + 1]
      /\ \A i \in DOMAIN inPipe : i # 1 => i - 1 \in DOMAIN inPipe' /\ inPipe'[i - 1] = inPipe[i]
      /\ confirmed' = confirmed
  BY ForwardStarts
<1>3. ASSUME NEW i \in DOMAIN outPipe', outPipe'[i].event # "started"
      PROVE  \/ outPipe'[i].task \in confirmed'
             \/ \E j \in 1..(i - 1) : outPipe'[j].event = "started" /\ outPipe'[j].task = outPipe'[i].task
  <2>1. i \in DOMAIN outPipe /\ outPipe'[i] = outPipe[i]
    BY <1>2, <1>3
  <2>2. \A j \in 1..(i - 1) : outPipe'[j] = outPipe[j]
    BY <1>1, <1>2, <2>1
  <2> QED
    BY <1>2, <1>3, <2>1, <2>2 DEF Announced
<1>4. \A t : Seen(t) => Seen(t)'
  BY ForwardStarts
<1>5. \A t : inPipe[1].task = t => Seen(t)'
  <2> SUFFICES ASSUME NEW t, inPipe[1].task = t PROVE Seen(t)'
    OBVIOUS
  <2>1. CASE inPipe[1].op = "start"
    BY <2>1, ForwardStarts
  <2>2. CASE inPipe[1].op # "start"
    <3>1. 1..(1 - 1) = {}
      OBVIOUS
    <3>2. Seen(t)
      BY <1>2, <2>2, <3>1 DEF Announced, Seen
    <3> QED
      BY <1>4, <3>2
  <2> QED
    BY <2>1, <2>2
<1>6. ASSUME NEW i \in DOMAIN inbox', NEW t, t = inbox'[i].task PROVE Seen(t)'
  <2>1. CASE i \in DOMAIN inbox
    <3>1. Seen(t)
      BY <1>1, <1>6, <2>1 DEF Announced, Seen
    <3> QED
      BY <1>4, <3>1
  <2>2. CASE i = Len(inbox) + 1
    BY <1>1, <1>5, <1>6, <2>2
  <2> QED
    BY <1>1, <2>1, <2>2
<1>7. ASSUME NEW i \in DOMAIN inPipe', inPipe'[i].op # "start", NEW t, t = inPipe'[i].task
      PROVE  Seen(t)' \/ \E j \in 1..(i - 1) : inPipe'[j].op = "start" /\ inPipe'[j].task = t
  <2>1. i \in Nat /\ i + 1 \in DOMAIN inPipe /\ inPipe'[i] = inPipe[i + 1]
    BY <1>2
  <2>2. Seen(t) \/ \E j \in 1..((i + 1) - 1) : inPipe[j].op = "start" /\ inPipe[j].task = t
    BY <1>7, <2>1 DEF Announced, Seen
  <2>3. ASSUME NEW j \in 1..((i + 1) - 1), inPipe[j].op = "start", inPipe[j].task = t
        PROVE  Seen(t)' \/ \E k \in 1..(i - 1) : inPipe'[k].op = "start" /\ inPipe'[k].task = t
    <3>1. CASE j = 1
      BY <1>5, <2>3, <3>1
    <3>2. CASE j # 1
      <4>1. j - 1 \in 1..(i - 1) /\ j \in DOMAIN inPipe
        <5>1. DOMAIN inPipe = 1..Len(inPipe) /\ Len(inPipe) \in Nat
          BY DEF AdapterTypeOK
        <5> QED
          BY <2>1, <3>2, <5>1
      <4> QED
        BY <1>2, <2>3, <3>2, <4>1
    <3> QED
      BY <3>1, <3>2
  <2> QED
    BY <1>4, <2>2, <2>3
<1>8. \A i \in DOMAIN inbox' :
       \/ inbox'[i].task \in confirmed'
       \/ \E j \in DOMAIN outPipe' : outPipe'[j].event = "started" /\ outPipe'[j].task = inbox'[i].task
  BY <1>6 DEF Seen
<1>9. \A i \in DOMAIN inPipe' : inPipe'[i].op # "start" =>
       \/ inPipe'[i].task \in confirmed'
       \/ \E j \in DOMAIN outPipe' : outPipe'[j].event = "started" /\ outPipe'[j].task = inPipe'[i].task
       \/ \E j \in 1..(i - 1) : inPipe'[j].op = "start" /\ inPipe'[j].task = inPipe'[i].task
  BY <1>7 DEF Seen
<1> QED
  BY <1>3, <1>8, <1>9 DEF Announced

\* What the daemon says, in short.
LEMMA ServeSays ==
  ASSUME AdapterTypeOK, NEW x \in Entry \cup {None}, NEW ev, inbox # <<>>,
         Served(Head(inbox), x, ev), Answer(x, ev)
  PROVE  /\ Len(outPipe) \in Nat /\ DOMAIN outPipe = 1..Len(outPipe) /\ Len(ev) \in Nat
         /\ \A i \in DOMAIN outPipe : i \in DOMAIN outPipe' /\ outPipe'[i] = outPipe[i]
         /\ \A i \in DOMAIN outPipe' :
              \/ i \in DOMAIN outPipe /\ outPipe'[i] = outPipe[i]
              \/ /\ i \notin DOMAIN outPipe /\ i \in Nat /\ i > Len(outPipe)
                 /\ outPipe'[i].task = Head(inbox).task /\ outPipe'[i].event # "started"
                 /\ GivesTurn(outPipe'[i]) => AsksTurn(Head(inbox))
                 /\ outPipe'[i].event = "proposal" =>
                      x = [state |-> "offered", round |-> outPipe'[i].round, gate |-> outPipe'[i].gate]
         /\ x = None => \E i \in DOMAIN outPipe' : /\ i > Len(outPipe) /\ Ends(outPipe'[i])
                                                   /\ outPipe'[i].task = Head(inbox).task
<1> DEFINE m == Head(inbox)
<1>1. /\ Answers(m, ev)
      /\ \A i \in 1..Len(ev) : ev[i].event = "proposal" =>
           x = [state |-> "offered", round |-> ev[i].round, gate |-> ev[i].gate]
      /\ x = None => \E i \in 1..Len(ev) : Ends(ev[i])
  BY DEF Served
<1>2. /\ Len(outPipe) \in Nat
      /\ DOMAIN outPipe = 1..Len(outPipe) /\ DOMAIN outPipe' = 1..(Len(outPipe) + Len(ev))
      /\ \A i \in 1..Len(outPipe) : outPipe'[i] = outPipe[i]
      /\ \A i \in 1..Len(ev) : outPipe'[Len(outPipe) + i] = ev[i]
  BY <1>1, AnswerEffect
<1>3. /\ Len(ev) \in Nat
      /\ \A i \in 1..Len(ev) : /\ ev[i].task = m.task /\ ev[i].event # "started"
                               /\ GivesTurn(ev[i]) => AsksTurn(m)
  BY <1>1 DEF Answers
<1> HIDE DEF m
<1>4. ASSUME NEW i \in DOMAIN outPipe'
      PROVE  \/ i \in DOMAIN outPipe /\ outPipe'[i] = outPipe[i]
             \/ /\ i \notin DOMAIN outPipe /\ i \in Nat /\ i > Len(outPipe)
                /\ outPipe'[i].task = m.task /\ outPipe'[i].event # "started"
                /\ GivesTurn(outPipe'[i]) => AsksTurn(m)
                /\ outPipe'[i].event = "proposal" =>
                     x = [state |-> "offered", round |-> outPipe'[i].round, gate |-> outPipe'[i].gate]
  <2>1. CASE i \in 1..Len(outPipe)
    BY <1>2, <2>1
  <2>2. CASE i \notin 1..Len(outPipe)
    <3>1. PICK j : j = i - Len(outPipe)
      OBVIOUS
    <3>2. j \in 1..Len(ev) /\ i = Len(outPipe) + j /\ i \in Nat /\ i > Len(outPipe)
      BY <1>2, <1>3, <1>4, <2>2, <3>1
    <3>3. outPipe'[i] = ev[j]
      BY <1>2, <3>2
    <3> QED
      BY <1>1, <1>2, <1>3, <2>2, <3>2, <3>3
  <2> QED
    BY <2>1, <2>2
<1>5. ASSUME x = None
      PROVE  \E i \in DOMAIN outPipe' : i > Len(outPipe) /\ Ends(outPipe'[i]) /\ outPipe'[i].task = m.task
  <2>1. PICK j \in 1..Len(ev) : Ends(ev[j])
    BY <1>1, <1>5
  <2>2. Len(outPipe) + j \in DOMAIN outPipe' /\ Len(outPipe) + j > Len(outPipe)
    BY <1>2, <1>3
  <2>3. Ends(outPipe'[Len(outPipe) + j]) /\ outPipe'[Len(outPipe) + j].task = m.task
    BY <1>2, <1>3, <2>1
  <2> QED
    BY <2>2, <2>3
<1>6. \A i \in DOMAIN outPipe : i \in DOMAIN outPipe' /\ outPipe'[i] = outPipe[i]
  BY <1>2, <1>3
<1> QED
  BY <1>2, <1>3, <1>4, <1>5, <1>6 DEF m

LEMMA AnnouncedServe ==
  ASSUME AdapterTypeOK, Announced, Serve
  PROVE  Announced'
<1>1. PICK x \in Entry \cup {None}, ev \in Seq(Event) : Served(Head(inbox), x, ev) /\ Answer(x, ev)
  BY ServeShape
<1>2. inbox # <<>>
  BY ServeShape
<1>3. PICK t : t = Head(inbox).task
  OBVIOUS
<1>4. /\ Len(outPipe) \in Nat /\ DOMAIN outPipe = 1..Len(outPipe)
      /\ \A i \in DOMAIN outPipe : i \in DOMAIN outPipe' /\ outPipe'[i] = outPipe[i]
      /\ \A i \in DOMAIN outPipe' :
           \/ i \in DOMAIN outPipe /\ outPipe'[i] = outPipe[i]
           \/ i \in Nat /\ i > Len(outPipe) /\ outPipe'[i].task = t
  BY <1>1, <1>2, <1>3, ServeSays
<1>5. inbox' = Tail(inbox) /\ inPipe' = inPipe /\ confirmed' = confirmed
  BY <1>1 DEF Answer, histVars
<1>6. /\ Len(inbox) \in Nat \ {0} /\ inbox[1] = Head(inbox) /\ 1 \in DOMAIN inbox
      /\ DOMAIN inbox = 1..Len(inbox) /\ DOMAIN inbox' = 1..(Len(inbox) - 1)
      /\ \A i \in 1..(Len(inbox) - 1) : inbox'[i] = inbox[i + 1]
  BY <1>2, <1>5, TailEffect DEF AdapterTypeOK
<1>7. Seen(t)
  BY <1>3, <1>6 DEF Announced, Seen
<1>8. \A i \in DOMAIN inbox' : i + 1 \in DOMAIN inbox /\ inbox'[i] = inbox[i + 1]
  BY <1>6
<1>9. ASSUME NEW i \in DOMAIN outPipe', outPipe'[i].event # "started"
      PROVE  \/ outPipe'[i].task \in confirmed'
             \/ \E j \in 1..(i - 1) : outPipe'[j].event = "started" /\ outPipe'[j].task = outPipe'[i].task
  <2>1. CASE i \in DOMAIN outPipe /\ outPipe'[i] = outPipe[i]
    <3>1. \A j \in 1..(i - 1) : outPipe'[j] = outPipe[j]
      BY <1>4, <2>1
    <3> QED
      BY <1>5, <1>9, <2>1, <3>1 DEF Announced
  <2>2. CASE i \in Nat /\ i > Len(outPipe) /\ outPipe'[i].task = t
    <3>1. \A j \in DOMAIN outPipe : j \in 1..(i - 1) /\ outPipe'[j] = outPipe[j]
      BY <1>4, <2>2
    <3> QED
      BY <1>5, <1>7, <2>2, <3>1 DEF Seen
  <2> QED
    BY <1>4, <2>1, <2>2
<1> QED
  BY <1>4, <1>5, <1>8, <1>9 DEF Announced

-----------------------------------------------------------------------------
(* The order of the starts. *)

\* The task x is no later one's predecessor.
Fine(x) == x \in confirmed \/ Newest(x)

\* No start is sent.
Unstarted == \A i \in DOMAIN inPipe' : inPipe'[i].op = "start" => i \in DOMAIN inPipe

KeepsStarts ==
  /\ \A x : (Begun(x) => Begun(x)') /\ (Fine(x) => Fine(x)')
  /\ NoneStarts => NoneStarts'
  /\ confirmed \subseteq confirmed'

LEMMA KeepsBySmooth ==
  ASSUME AdapterTypeOK, NEW e, Smooth(e), Unstarted
  PROVE  KeepsStarts
<1>1. \A i \in DOMAIN inPipe' : inPipe'[i].op = "start" =>
        i \in DOMAIN inPipe /\ inPipe[i] = inPipe'[i] /\ i \in Nat
  BY SmoothSent DEF Unstarted
<1>2. confirmed \subseteq confirmed'
  BY SmoothRead
<1>3. PICK d \in {0, 1} : \A i \in DOMAIN outPipe' :
        i \in Nat /\ i + d \in DOMAIN outPipe /\ outPipe'[i] = outPipe[i + d]
  <2>1. CASE outPipe' = outPipe
    <3>1. \A i \in DOMAIN outPipe' : i \in Nat /\ i + 0 \in DOMAIN outPipe /\ outPipe'[i] = outPipe[i + 0]
      BY <2>1 DEF AdapterTypeOK
    <3> QED
      BY <3>1
  <2>2. CASE outPipe' # outPipe
    <3>1. \A i \in DOMAIN outPipe' : i \in Nat /\ i + 1 \in DOMAIN outPipe /\ outPipe'[i] = outPipe[i + 1]
      BY <2>2, SmoothRead
    <3> QED
      BY <3>1
  <2> QED
    BY <2>1, <2>2
<1>4. NoneStarts => NoneStarts'
  BY <1>1, <1>3 DEF NoneStarts
<1>5. ASSUME NEW x, Newest(x) PROVE Newest(x)'
  <2>1. \A i \in DOMAIN inPipe' : inPipe'[i].op = "start" /\ inPipe'[i].task = x =>
          \A j \in DOMAIN inPipe' : inPipe'[j].op = "start" => j <= i
    BY <1>1, <1>5 DEF Newest
  <2>2. ASSUME NEW i \in DOMAIN outPipe', outPipe'[i].event = "started", outPipe'[i].task = x
        PROVE  /\ \A j \in DOMAIN outPipe' : outPipe'[j].event = "started" => j <= i
               /\ \A j \in DOMAIN inPipe' : inPipe'[j].op # "start"
    <3>1. i + d \in DOMAIN outPipe /\ outPipe'[i] = outPipe[i + d] /\ i \in Nat
      BY <1>3
    <3>2. /\ \A j \in DOMAIN outPipe : outPipe[j].event = "started" => j <= i + d
          /\ \A j \in DOMAIN inPipe : inPipe[j].op # "start"
      BY <1>5, <2>2, <3>1 DEF Newest
    <3>3. ASSUME NEW j \in DOMAIN outPipe', outPipe'[j].event = "started" PROVE j <= i
      <4>1. j \in Nat /\ j + d <= i + d
        BY <1>3, <3>2, <3>3
      <4> QED
        BY <3>1, <4>1
    <3> QED
      BY <1>1, <3>2, <3>3
  <2> QED
    BY <2>1, <2>2 DEF Newest
<1>6. \A x : Begun(x) => Begun(x)'
  BY BegunStill
<1>7. \A x : Fine(x) => Fine(x)'
  BY <1>2, <1>5 DEF Fine
<1> QED
  BY <1>2, <1>4, <1>6, <1>7 DEF KeepsStarts

LEMMA KeepsByForward ==
  ASSUME AdapterTypeOK, Forward
  PROVE  KeepsStarts
<1>1. /\ \A i \in DOMAIN outPipe' :
              \/ i \in DOMAIN outPipe /\ outPipe'[i] = outPipe[i]
              \/ /\ outPipe'[i].event = "started" /\ i = Len(outPipe) + 1
                 /\ inPipe[1].op = "start" /\ outPipe'[i].task = inPipe[1].task
      /\ 1 \in DOMAIN inPipe
      /\ \A i \in DOMAIN inPipe' : i \in Nat /\ i + 1 \in DOMAIN inPipe /\ inPipe'[i] = inPipe[i + 1]
      /\ confirmed' = confirmed
  BY ForwardStarts
<1>2. /\ Len(outPipe) \in Nat /\ DOMAIN outPipe = 1..Len(outPipe)
      /\ DOMAIN inPipe = 1..Len(inPipe) /\ Len(inPipe) \in Nat
  BY DEF AdapterTypeOK
<1>3. NoneStarts => NoneStarts'
  BY <1>1 DEF NoneStarts
<1>4. ASSUME NEW x, Newest(x) PROVE Newest(x)'
  <2>1. ASSUME NEW i \in DOMAIN inPipe', inPipe'[i].op = "start", inPipe'[i].task = x,
               NEW j \in DOMAIN inPipe', inPipe'[j].op = "start"
        PROVE  j <= i
    <3>1. j + 1 <= i + 1 /\ i \in Nat /\ j \in Nat
      BY <1>1, <1>4, <2>1 DEF Newest
    <3> QED
      BY <3>1
  <2>2. ASSUME NEW i \in DOMAIN outPipe', outPipe'[i].event = "started", outPipe'[i].task = x
        PROVE  /\ \A j \in DOMAIN outPipe' : outPipe'[j].event = "started" => j <= i
               /\ \A j \in DOMAIN inPipe' : inPipe'[j].op # "start"
    <3>1. CASE i \in DOMAIN outPipe /\ outPipe'[i] = outPipe[i]
      <4>1. /\ \A j \in DOMAIN outPipe : outPipe[j].event = "started" => j <= i
            /\ \A j \in DOMAIN inPipe : inPipe[j].op # "start"
        BY <1>4, <2>2, <3>1 DEF Newest
      <4> QED
        BY <1>1, <4>1
    <3>2. CASE i = Len(outPipe) + 1 /\ inPipe[1].op = "start" /\ outPipe'[i].task = inPipe[1].task
      <4>1. \A j \in DOMAIN inPipe : inPipe[j].op = "start" => j <= 1
        BY <1>1, <1>4, <2>2, <3>2 DEF Newest
      <4>2. \A j \in DOMAIN inPipe' : ~(j + 1 <= 1)
        BY <1>1, <1>2
      <4>3. \A j \in DOMAIN outPipe' : j <= i
        BY <1>1, <1>2, <3>2
      <4> QED
        BY <1>1, <4>1, <4>2, <4>3
    <3> QED
      BY <1>1, <3>1, <3>2
  <2> QED
    BY <2>1, <2>2 DEF Newest
<1>5. \A x : Begun(x) => Begun(x)'
  BY ForwardStarts
<1>6. \A x : Fine(x) => Fine(x)'
  BY <1>1, <1>4 DEF Fine
<1> QED
  BY <1>1, <1>3, <1>5, <1>6 DEF KeepsStarts

LEMMA KeepsByServe ==
  ASSUME AdapterTypeOK, Serve
  PROVE  KeepsStarts /\ sh' = sh /\ helper' = helper
<1>1. PICK x \in Entry \cup {None}, ev \in Seq(Event) : Served(Head(inbox), x, ev) /\ Answer(x, ev)
  BY ServeShape
<1>2. inbox # <<>>
  BY ServeShape
<1>3. /\ \A i \in DOMAIN outPipe : i \in DOMAIN outPipe' /\ outPipe'[i] = outPipe[i]
      /\ \A i \in DOMAIN outPipe' :
           (i \in DOMAIN outPipe /\ outPipe'[i] = outPipe[i]) \/ outPipe'[i].event # "started"
  BY <1>1, <1>2, ServeSays
<1>4. inPipe' = inPipe /\ confirmed' = confirmed /\ sh' = sh /\ helper' = helper
  BY <1>1 DEF Answer, histVars
<1>5. \A t : Begun(t) => Begun(t)'
  BY <1>3, <1>4 DEF Begun
<1>6. \A t : Fine(t) => Fine(t)'
  BY <1>3, <1>4 DEF Fine, Newest
<1>7. NoneStarts => NoneStarts'
  BY <1>3, <1>4 DEF NoneStarts
<1> QED
  BY <1>4, <1>5, <1>6, <1>7 DEF KeepsStarts

-----------------------------------------------------------------------------
(* A helper that never ran, and the closed task. *)

LEMMA UnusedInvariant ==
  ASSUME Steady, lost = {}, [Next]_vars, ~HelperDies
  PROVE  Unused'
<1> SUFFICES ASSUME helper' = "dead" PROVE Unused'
  BY DEF Unused
<1>0. PICK e : e = Head(outPipe)
  OBVIOUS
<1>1. AdapterTypeOK /\ Wired /\ helper \in {"up", "dead"}
  BY DEF Steady, AdapterTypeOK
<1>2. ASSUME helper = "dead"
      PROVE  /\ outPipe = <<>> /\ sh.task = None /\ sh.closed = None
             /\ sh.approval = None /\ sh.clarification = None /\ sh.pending = None
             /\ Closing(sh) = None /\ inbox = <<>> /\ inPipe = <<>>
  BY <1>2 DEF Steady, Wired, Unused, Closing, FirstSet, ApprovalTask
<1>3. ~Send(outPipe, About("abort", Closing(sh))) /\ (\A m : ~Send(outPipe, m)) /\ (\A m : ~Send(Tail(outPipe), m))
  BY DEF Send
<1>4. CASE Idles
  BY <1>2, <1>4 DEF Idles, Still, linkVars, Same, Away, Unused
<1>5. CASE TurnsAway
  BY <1>2, <1>3, <1>5 DEF TurnsAway, Still, linkVars, Away, Unused
<1>6. CASE Fails
  <2>1. outPipe' = <<>> /\ helper = "dead"
    BY <1>6 DEF Fails, Cut
  <2>2. sh'.closed = None
    BY <1>2, <1>6, <2>1 DEF Fails, ApprovalTask
  <2> QED
    BY <1>2, <1>6, <2>1, <2>2 DEF Fails, Unused
<1>7. ~Rejects /\ ~Replies /\ ~Acks
  BY <1>3 DEF Rejects, Replies, Acks
<1>8. ASSUME NEW t \in Task PROVE ~Begins(t)
  BY <1>3 DEF Begins
<1>9. ASSUME NEW op \in {"approved", "edited"} PROVE ~Agreed(op)
  BY <1>3 DEF Agreed
<1>10. ASSUME outPipe # <<>> PROVE ~Quiet
  BY <1>1, <1>2, <1>10 DEF Quiet
<1>11. ~Hears(e) /\ ~Starts(e) /\ ~TakesTask(e) /\ ~TakesQuestion(e) /\ ~TakesEnd(e)
  BY <1>10 DEF Hears, Starts, TakesTask, TakesQuestion, TakesEnd, Takes, Reads
<1>12. ~TakesProposal(e)
  BY <1>3, <1>10 DEF TakesProposal, Takes, Reads
<1>13. ~Forward
  BY <1>2 DEF Forward
<1>14. ~Serve
  <2> SUFFICES ASSUME Serve PROVE FALSE
    OBVIOUS
  <2>1. inbox # <<>> /\ helper' = helper
    BY <1>1, ServeShape, KeepsByServe
  <2> QED
    BY <1>2, <2>1
<1>15. ~ClearLost
  BY DEF ClearLost
<1>16. ASSUME NEW t \in Task, Expire(t) PROVE Unused'
  BY <1>2, <1>16 DEF Expire, linkVars, Unused
<1> QED
  BY <1>0, <1>1, <1>4, <1>5, <1>6, <1>7, <1>8, <1>9, <1>11, <1>12, <1>13, <1>14, <1>15, <1>16, StepShape

\* What becomes of the globals, and what has to be known of it.
LEMMA ClosesWhen ==
  ASSUME NEW a, NEW b, NEW c, NEW q, NEW p,
         a = sh'.task, b = ApprovalTask(sh)', c = sh'.closed, q = sh'.clarification, p = PendingTask(sh)',
         a # None => Begun(a)' /\ Fine(a)', c # None => Fine(c)',
         {b, q, p} \subseteq confirmed' \cup {None},
         c # None /\ c \in {a, b, q} => NoneStarts', c # None /\ c = b => a = c,
         None \notin confirmed',
         sh'.approval # None => sh'.approval.task \in Task,
         sh'.pending # None => sh'.pending.task \in Task
  PROVE  Closes'
<1>1. sh'.approval # None => sh'.approval.task = b /\ b # None
  BY NoneAssumption DEF ApprovalTask
<1>2. sh'.pending # None => sh'.pending.task = p /\ p # None
  BY NoneAssumption DEF PendingTask
<1>3. sh'.task # None => Begun(a)' /\ (a \in confirmed' \/ Newest(a)')
  BY DEF Fine
<1>4. c # None => (c \in confirmed' \/ Newest(c)')
  BY DEF Fine
<1>5. sh'.task # None => Begun(sh.task)' /\ (sh'.task \in confirmed' \/ Newest(sh.task)')
  BY <1>3
<1>6. sh'.closed # None => (sh'.closed \in confirmed' \/ Newest(sh.closed)')
  BY <1>4
<1> QED
  BY <1>1, <1>2, <1>5, <1>6 DEF Closes

LEMMA KeepsUnlessBegins ==
  ASSUME Steady, lost = {}, [Next]_vars, ~HelperDies, \A t \in Task : ~Begins(t)
  PROVE  KeepsStarts
<1>0. AdapterTypeOK /\ Wired
  BY DEF Steady
<1>1. CASE \E e : Smooth(e)
  <2>1. PICK e : Smooth(e)
    BY <1>1
  <2>3. ASSUME NEW i \in DOMAIN inPipe', inPipe'[i].op = "start", i \notin DOMAIN inPipe
        PROVE  FALSE
    <3>1. Sends(inPipe'[i])
      BY <1>0, <2>1, <2>3, SmoothSent
    <3>2. fresh' # fresh
      BY <2>3, <3>1 DEF Sends, Decides
    <3>3. inPipe' # <<>>
      <4>1. DOMAIN <<>> = {}
        OBVIOUS
      <4> QED
        BY <2>3, <4>1
    <3>4. Len(inPipe') > Len(inPipe)
      <4>1. i = Len(inPipe) + 1 /\ Len(inPipe) \in Nat
        BY <1>0, <2>1, <2>3, SmoothSent
      <4>2. inPipe' = Append(inPipe, inPipe'[i])
        BY <3>1 DEF Sends
      <4>3. inPipe \in Seq(Message) /\ inPipe'[i] \in Message
        BY <1>0, <2>1, <2>3, SmoothSent DEF AdapterTypeOK
      <4>4. PICK m \in Message : m = inPipe'[i]
        BY <4>3
      <4> QED
        BY <4>1, <4>2, <4>3, <4>4
    <3>5. ~Forward
      <4> SUFFICES ASSUME Forward PROVE FALSE
        OBVIOUS
      <4>1. inPipe # <<>> /\ inPipe' = Tail(inPipe) /\ inPipe \in Seq(Message)
        BY <1>0 DEF Forward, AdapterTypeOK
      <4> QED
        BY <3>4, <4>1
    <3>6. ~Serve
      <4> SUFFICES ASSUME Serve PROVE FALSE
        OBVIOUS
      <4>1. PICK x \in Entry \cup {None}, ev \in Seq(Event) : Answer(x, ev)
        BY <1>0, ServeShape
      <4> QED
        BY <3>2, <4>1 DEF Answer
    <3>7. ~ClearLost /\ \A t \in Task : ~Expire(t)
      BY <3>2 DEF ClearLost, Expire
    <3>8. ~Idles /\ ~TurnsAway /\ ~Rejects /\ ~Replies /\ ~Acks /\ ~Fails
      BY <3>2, <3>3 DEF Idles, TurnsAway, Rejects, Replies, Acks, Fails, Cut
    <3>9. \A op \in {"approved", "edited"} : ~Agreed(op)
      BY <3>2 DEF Agreed
    <3>10. \A x : /\ ~Hears(x) /\ ~Starts(x) /\ ~TakesTask(x) /\ ~TakesQuestion(x)
                  /\ ~TakesProposal(x) /\ ~TakesEnd(x)
      BY <3>2 DEF Hears, Starts, TakesTask, TakesQuestion, TakesProposal, TakesEnd, Takes, Reads
    <3> QED
      BY <1>0, <3>5, <3>6, <3>7, <3>8, <3>9, <3>10, StepShape
  <2>4. Unstarted
    BY <2>3 DEF Unstarted
  <2> QED
    BY <1>0, <2>1, <2>4, KeepsBySmooth
<1>2. CASE Forward
  BY <1>0, <1>2, KeepsByForward
<1>3. CASE Serve
  BY <1>0, <1>3, KeepsByServe
<1>4. ASSUME NEW t \in Task, Expire(t) PROVE KeepsStarts
  BY <1>4 DEF Expire, linkVars, histVars, KeepsStarts, Begun, Fine, Newest, NoneStarts
<1> QED
  BY <1>1, <1>2, <1>3, <1>4, StepSmooth

LEMMA ClosesKept ==
  ASSUME Steady, AdapterTypeOK', KeepsStarts, NEW a, NEW b, NEW c, NEW q, NEW p,
         a = sh'.task, b = ApprovalTask(sh)', c = sh'.closed, q = sh'.clarification, p = PendingTask(sh)',
         a \in {None, sh.task} \/ (a \in confirmed'),
         c \in {None, sh.closed, sh.task, ApprovalTask(sh), sh.clarification} \/ (c \in confirmed'),
         {b, q, p} \subseteq {None, ApprovalTask(sh), sh.clarification, PendingTask(sh)} \cup confirmed',
         c # None /\ c \in {a, b, q} => NoneStarts', c # None /\ c = b => a = c
  PROVE  Closes'
<1>1. /\ sh.task # None => Begun(sh.task) /\ Fine(sh.task)
      /\ sh.closed # None => Fine(sh.closed)
      /\ ApprovalTask(sh) # None => ApprovalTask(sh) \in confirmed
      /\ sh.clarification # None => sh.clarification \in confirmed
      /\ PendingTask(sh) # None => PendingTask(sh) \in confirmed
  BY DEF Steady, Closes, Fine, ApprovalTask, PendingTask
<1>2. confirmed \subseteq confirmed' /\ \A x : (Begun(x) => Begun(x)') /\ (Fine(x) => Fine(x)')
  BY DEF KeepsStarts
<1>3. \A x \in confirmed' : Begun(x)' /\ Fine(x)'
  BY DEF Begun, Fine
<1>4. a # None => Begun(a)' /\ Fine(a)'
  BY <1>1, <1>2, <1>3
<1>5. c # None => Fine(c)'
  BY <1>1, <1>2, <1>3
<1>6. {b, q, p} \subseteq confirmed' \cup {None}
  BY <1>1, <1>2
<1>7. /\ None \notin confirmed' /\ sh' \in Globals
  BY NoneAssumption DEF AdapterTypeOK
<1>8. /\ sh'.approval # None => sh'.approval.task \in Task
      /\ sh'.pending # None => sh'.pending.task \in Task
  BY <1>7 DEF Globals, Command
<1> QED
  BY <1>4, <1>5, <1>6, <1>7, <1>8, ClosesWhen

LEMMA ClosesAtStart ==
  ASSUME Steady, AdapterTypeOK', NEW t \in Task, Begins(t)
  PROVE  Closes'
<1>0. AdapterTypeOK /\ OneTurn /\ StartsOnce /\ t # None
  BY NoneAssumption DEF Steady
<1>1. PICK m \in Message : m = About("start", t)
  BY MessageTyped
<1>2. /\ Calm /\ Send(outPipe, m) /\ t \in fresh /\ m.op = "start" /\ m.task = t
      /\ sh'.task = t /\ sh'.closed = None /\ sh'.approval = None
      /\ sh'.clarification = None /\ sh'.pending = None
  BY <1>1 DEF Begins, About
<1>3. inPipe' = Append(inPipe, m) /\ outPipe' = outPipe
  BY <1>2, SentToLive
<1>4. /\ Len(inPipe) \in Nat /\ DOMAIN inPipe = 1..Len(inPipe)
      /\ DOMAIN inPipe' = 1..(Len(inPipe) + 1) /\ inPipe'[Len(inPipe) + 1] = m
      /\ \A i \in 1..Len(inPipe) : inPipe'[i] = inPipe[i]
  BY <1>0, <1>3, AppendEffect DEF AdapterTypeOK
<1>5. Begun(t)'
  <2>1. Len(inPipe) + 1 \in DOMAIN inPipe'
    BY <1>4
  <2> QED
    BY <1>2, <1>4, <2>1 DEF Begun
<1>6. \A i \in DOMAIN inPipe : ~(inPipe[i].op = "start" /\ inPipe[i].task = t)
  <2> SUFFICES ASSUME NEW i \in DOMAIN inPipe, inPipe[i].op = "start", inPipe[i].task = t PROVE FALSE
    OBVIOUS
  <2>1. i \in Nat /\ Holds(t, "sent", i) /\ Holds(t, "fresh", 0)
    BY <1>2, <1>4 DEF Holds, AsksTurn
  <2> QED
    BY <1>0, <2>1 DEF OneTurn
<1>7. \A i \in DOMAIN outPipe : ~(outPipe[i].event = "started" /\ outPipe[i].task = t)
  BY <1>0, <1>2 DEF StartsOnce
<1>8. ASSUME NEW i \in DOMAIN inPipe', inPipe'[i].op = "start", inPipe'[i].task = t,
             NEW j \in DOMAIN inPipe'
      PROVE  j <= i
  <2>1. i \notin DOMAIN inPipe
    BY <1>4, <1>6, <1>8
  <2> QED
    BY <1>4, <1>8, <2>1
<1>9. Newest(t)'
  BY <1>3, <1>7, <1>8 DEF Newest
<1>10. Fine(t)'
  BY <1>9 DEF Fine
<1>11. None \notin confirmed'
  BY NoneAssumption DEF AdapterTypeOK
<1>12. PICK a, b, c, q, p : a = t /\ b = None /\ c = None /\ q = None /\ p = None
  OBVIOUS
<1>13. /\ a = sh'.task /\ b = ApprovalTask(sh)' /\ c = sh'.closed /\ q = sh'.clarification
       /\ p = PendingTask(sh)'
  BY <1>2, <1>12 DEF ApprovalTask, PendingTask
<1>14. a # None => Begun(a)' /\ Fine(a)'
  BY <1>5, <1>10, <1>12
<1>15. c # None => Fine(c)'
  BY <1>12
<1>16. {b, q, p} \subseteq confirmed' \cup {None}
  BY <1>12
<1>17. (c # None /\ c \in {a, b, q} => NoneStarts') /\ (c # None /\ c = b => a = c)
  BY <1>12
<1> QED
  BY <1>2, <1>11, <1>13, <1>14, <1>15, <1>16, <1>17, ClosesWhen

LEMMA ClosesInvariant ==
  ASSUME Steady, AdapterTypeOK', lost = {}, [Next]_vars, ~HelperDies
  PROVE  Closes'
<1>1. CASE \E t \in Task : Begins(t)
  BY <1>1, ClosesAtStart
<1>2. CASE \A t \in Task : ~Begins(t)
  <2>0. PICK e, a, b, c, q, p :
          /\ e = Head(outPipe) /\ a = sh'.task /\ b = ApprovalTask(sh)' /\ c = sh'.closed
          /\ q = sh'.clarification /\ p = PendingTask(sh)'
    OBVIOUS
  <2>1. /\ AdapterTypeOK /\ Wired /\ OneTurn /\ StartsOnce /\ KeepsStarts
        /\ (NoneStarts => NoneStarts') /\ confirmed \subseteq confirmed'
    BY <1>2, KeepsUnlessBegins DEF Steady, KeepsStarts
  <2>2. ASSUME a \in {None, sh.task} \/ a \in confirmed',
               c \in {None, sh.closed, sh.task, ApprovalTask(sh), sh.clarification} \/ c \in confirmed',
               b \in {None, ApprovalTask(sh), sh.clarification, PendingTask(sh)} \/ b \in confirmed',
               q \in {None, ApprovalTask(sh), sh.clarification, PendingTask(sh)} \/ q \in confirmed',
               p \in {None, ApprovalTask(sh), sh.clarification, PendingTask(sh)} \/ p \in confirmed',
               c # None /\ c \in {a, b, q} => NoneStarts', c # None /\ c = b => a = c
        PROVE  Closes'
    BY <2>0, <2>1, <2>2, ClosesKept
  \* Where the globals stay or are emptied.
  <2>3. /\ sh.closed # None /\ sh.closed \in {sh.task, ApprovalTask(sh), sh.clarification} => NoneStarts'
        /\ sh.closed # None /\ sh.closed = ApprovalTask(sh) => sh.task = sh.closed
    BY <2>1 DEF Steady, Closes
  <2>4. /\ ApprovalTask(sh) # None => ApprovalTask(sh) \in confirmed'
        /\ sh.clarification # None => sh.clarification \in confirmed'
    BY <2>1 DEF Steady, Closes, ApprovalTask
  <2>5. CASE Same
    <3>1. a = sh.task /\ c = sh.closed /\ b = ApprovalTask(sh) /\ q = sh.clarification /\ p = PendingTask(sh)
      BY <2>0, <2>5 DEF Same, ApprovalTask, PendingTask
    <3> QED
      BY <2>2, <2>3, <3>1
  <2>6. ASSUME NEW x, Away(x),
               x \in {None, sh.closed, sh.task, ApprovalTask(sh), sh.clarification} \/ x \in confirmed'
        PROVE  Closes'
    <3>1. /\ a = None /\ b = None /\ q = None /\ p = PendingTask(sh)
          /\ c = IF x # None THEN x ELSE sh.closed
      BY <2>0, <2>6 DEF Away, ApprovalTask, PendingTask
    <3> QED
      BY <2>2, <2>6, <3>1
  <2>7. Closing(sh) \in {None, sh.task, ApprovalTask(sh), sh.clarification}
    BY DEF Closing, FirstSet
  <2>8. Idles \/ Hears(e) => Closes'
    BY <2>5, <2>6 DEF Idles, Hears
  <2>9. TurnsAway => Closes'
    BY <2>6, <2>7 DEF TurnsAway
  <2>10. Rejects => Closes'
    BY <2>6 DEF Rejects, FirstSet
  <2>11. CASE Fails
    <3>1. /\ sh'.task = None /\ sh'.closed = None /\ sh'.approval = None /\ sh'.clarification = None
          /\ sh'.pending = None
      BY <2>11 DEF Fails, Cut, Steady, Unused, ApprovalTask
    <3>2. a = None /\ b = None /\ c = None /\ q = None /\ p = None
      BY <2>0, <3>1 DEF ApprovalTask, PendingTask
    <3> QED
      BY <2>2, <3>2
  <2>12. CASE Replies
    <3>1. /\ a = sh.clarification /\ b = None /\ c = sh.closed /\ q = None /\ p = PendingTask(sh)
          /\ a # None
      BY <2>0, <2>12 DEF Replies, ApprovalTask, PendingTask
    <3> QED
      BY <2>2, <2>3, <2>4, <3>1
  <2>13. ASSUME NEW op \in {"approved", "edited"}, Agreed(op) PROVE Closes'
    <3>1. a = sh.task /\ b = None /\ c = sh.closed /\ q = sh.clarification /\ p = ApprovalTask(sh)
      BY <2>0, <2>13 DEF Agreed, ApprovalTask, PendingTask
    <3> QED
      BY <2>2, <2>3, <3>1
  <2>14. CASE Acks
    <3>1. a = sh.task /\ b = ApprovalTask(sh) /\ c = sh.closed /\ q = sh.clarification /\ p = None
      BY <2>0, <2>14 DEF Acks, ApprovalTask, PendingTask
    <3> QED
      BY <2>2, <2>3, <3>1
  <2>15. Forward \/ (\E t \in Task : Expire(t)) => Closes'
    BY <2>5 DEF Forward, Expire, Same
  <2>16. Serve => Closes'
    BY <2>1, <2>5, KeepsByServe DEF Same
  <2>17. ~ClearLost
    BY DEF ClearLost
  \* Where an event is read.
  <2>18. outPipe # <<>> => /\ e \in Event /\ e.task \in Task /\ e.task # None
                           /\ e.event # "started" => e.task \in confirmed
                           /\ 1 \in DOMAIN outPipe /\ e = outPipe[1]
    <3>1. outPipe # <<>> => 1 \in DOMAIN outPipe /\ e = outPipe[1]
      BY <2>0, <2>1, TailEffect DEF AdapterTypeOK
    <3> QED
      BY <2>0, <3>1, NoneAssumption, BegunOf
  <2>19. ASSUME Takes(e)
         PROVE  /\ outPipe # <<>> /\ e.task \in Task /\ e.task # None /\ e.task \in confirmed'
                /\ e.task = sh.closed => sh.task = sh.closed
                /\ sh.pending = None /\ UNCHANGED fresh
    BY <2>1, <2>18, <2>19 DEF Takes, Reads, Ignores, IsClosedEvent
  \* A question or a proposal is taken up while no box of the closed task is open.
  <2>20. ASSUME Takes(e), GivesTurn(e), sh.closed # None
         PROVE  sh.closed # ApprovalTask(sh)
    <3> SUFFICES ASSUME sh.closed = ApprovalTask(sh) PROVE FALSE
      OBVIOUS
    <3>1. ToldOf(e.task) /\ e.task \in Task /\ e.task # None
      BY <2>18, <2>19, <2>20 DEF ToldOf
    <3>2. ApprovalTask(sh) # e.task /\ PendingTask(sh) # e.task /\ sh.clarification # e.task
      BY <2>1, <3>1, Alone
    <3>3. sh.task = ApprovalTask(sh)
      BY <2>3, <2>20
    <3> QED
      BY <2>20, <3>1, <3>2, <3>3 DEF Takes, Ignores, IsCurrentEvent
  <2>21. CASE Starts(e)
    <3>1. /\ a = e.task /\ b = ApprovalTask(sh) /\ c = sh.closed /\ q = sh.clarification
          /\ p = PendingTask(sh) /\ outPipe # <<>> /\ e.event = "started" /\ e.task \in confirmed'
          /\ outPipe' = Tail(outPipe) /\ inPipe' = inPipe
      BY <2>0, <2>21 DEF Starts, Reads, Quiet, ApprovalTask, PendingTask
    <3>2. ~NoneStarts
      BY <2>18, <3>1 DEF NoneStarts
    <3>3. c # None => c \notin {b, q}
      BY <3>1, <3>2 DEF Steady, Closes
    <3>4. ASSUME c # None, c = a PROVE NoneStarts'
      <4>1. c \notin confirmed
        BY <2>1, <2>18, <3>1, <3>4 DEF StartsOnce
      <4>2. Newest(c)
        BY <3>1, <3>4, <4>1 DEF Steady, Closes
      <4>3. /\ \A j \in DOMAIN outPipe : outPipe[j].event = "started" => j <= 1
            /\ \A j \in DOMAIN inPipe : inPipe[j].op # "start"
        BY <2>18, <3>1, <3>4, <4>2 DEF Newest
      <4>4. /\ DOMAIN outPipe' = 1..(Len(outPipe) - 1) /\ Len(outPipe) \in Nat \ {0}
            /\ DOMAIN outPipe = 1..Len(outPipe)
            /\ \A i \in 1..(Len(outPipe) - 1) : outPipe'[i] = outPipe[i + 1]
        BY <2>1, <3>1, TailEffect DEF AdapterTypeOK
      <4>5. ASSUME NEW i \in DOMAIN outPipe' PROVE outPipe'[i].event # "started"
        <5>1. i + 1 \in DOMAIN outPipe /\ outPipe'[i] = outPipe[i + 1] /\ ~(i + 1 <= 1)
          BY <4>4
        <5> QED
          BY <4>3, <5>1
      <4> QED
        BY <3>1, <4>3, <4>5 DEF NoneStarts
    <3> QED
      BY <2>2, <3>1, <3>3, <3>4
  <2>22. CASE TakesTask(e)
    <3>1. /\ a = e.task /\ b = ApprovalTask(sh) /\ c = sh.closed /\ q = sh.clarification
          /\ p = PendingTask(sh) /\ sh.task = None /\ Takes(e)
      BY <2>0, <2>22 DEF TakesTask, ApprovalTask, PendingTask
    <3>2. c # None => c # e.task /\ c # b
      BY <2>3, <2>19, <3>1
    <3> QED
      BY <2>2, <2>3, <2>19, <3>1, <3>2
  <2>23. CASE TakesQuestion(e)
    <3>1. /\ a = e.task /\ b = ApprovalTask(sh) /\ c = sh.closed /\ q = e.task
          /\ p = PendingTask(sh) /\ Takes(e) /\ GivesTurn(e)
      BY <2>0, <2>23 DEF TakesQuestion, ApprovalTask, PendingTask, GivesTurn
    <3>2. c # None => c # b
      BY <2>20, <3>1
    <3> QED
      BY <2>2, <2>3, <2>19, <3>1, <3>2
  <2>24. CASE TakesProposal(e)
    <3>1. c = sh.closed /\ q = sh.clarification /\ Takes(e) /\ GivesTurn(e)
      BY <2>0, <2>24 DEF TakesProposal, GivesTurn
    <3>2. c # None => c # ApprovalTask(sh)
      BY <2>20, <3>1
    <3>3. \/ a = e.task /\ b = e.task /\ p = PendingTask(sh)
          \/ a = e.task /\ b = ApprovalTask(sh) /\ p = e.task
          \/ a = None /\ b = ApprovalTask(sh) /\ p = PendingTask(sh)
      <4>1. [task |-> e.task, round |-> e.round] # None
        <5>1. e.task \in Task /\ e \in Event /\ e.event = "proposal" /\ 1 \in DOMAIN outPipe /\ e = outPipe[1]
          BY <2>18, <2>19, <2>24, <3>1 DEF TakesProposal
        <5>2. e.round \in 0..MaxRounds /\ e.round # 0
          BY <2>1, <5>1 DEF Wired, Event
        <5>3. [task |-> e.task, round |-> e.round] \in Command
          BY <5>1, <5>2 DEF Command
        <5> QED
          BY <5>3, NoneAssumption
      <4> QED
        BY <2>0, <2>24, <4>1 DEF TakesProposal, ApprovalTask, PendingTask
    <3> QED
      BY <2>2, <2>3, <2>19, <3>1, <3>2, <3>3
  <2>25. CASE TakesEnd(e)
    <3>1. Takes(e) /\ (Away(Closing(sh)) \/ Away(e.task))
      BY <2>25 DEF TakesEnd
    <3> QED
      BY <2>6, <2>7, <2>19, <3>1
  <2> QED
    BY <1>2, <2>0, <2>1, <2>8, <2>9, <2>10, <2>11, <2>12, <2>13, <2>14, <2>15, <2>16, <2>17,
       <2>21, <2>22, <2>23, <2>24, <2>25, StepShape
<1> QED
  BY <1>1, <1>2

-----------------------------------------------------------------------------
(* A command is decided on once. *)

LEMMA SmoothQueue ==
  ASSUME AdapterTypeOK, AdapterTypeOK', NEW e, Smooth(e)
  PROVE  /\ Len(Queue) \in Nat /\ DOMAIN Queue = 1..Len(Queue)
         /\ \A i \in DOMAIN Queue : i \in DOMAIN Queue' /\ Queue'[i] = Queue[i]
         /\ \A i \in DOMAIN Queue' :
              \/ i \in DOMAIN Queue /\ Queue'[i] = Queue[i]
              \/ i = Len(Queue) + 1 /\ Queue'[i] \in Message /\ Sends(Queue'[i])
<1>0. Len(Queue) \in Nat /\ DOMAIN Queue = 1..Len(Queue)
  <2>1. Len(inbox) \in Nat /\ Len(inPipe) \in Nat /\ Len(Queue) = Len(inbox) + Len(inPipe)
    BY QueueTyped
  <2>2. DOMAIN Queue = 1..Len(Queue)
    BY QueueTyped
  <2> QED
    BY <2>1, <2>2
<1>1. CASE inPipe' = inPipe
  <2>1. Queue' = Queue
    BY <1>1 DEF Smooth, Queue
  <2> QED
    BY <1>0, <2>1
<1>2. ASSUME NEW m \in Message, Sends(m)
      PROVE  /\ \A i \in DOMAIN Queue : i \in DOMAIN Queue' /\ Queue'[i] = Queue[i]
             /\ \A i \in DOMAIN Queue' :
                  \/ i \in DOMAIN Queue /\ Queue'[i] = Queue[i]
                  \/ i = Len(Queue) + 1 /\ Queue'[i] \in Message /\ Sends(Queue'[i])
  <2>1. inbox' = inbox /\ inPipe' = Append(inPipe, m)
    BY <1>2 DEF Smooth, Sends
  <2>2. Queue'[Len(Queue) + 1] = m
    BY <2>1, QueueSent
  <2>3. /\ \A i \in DOMAIN Queue : i \in DOMAIN Queue' /\ Queue'[i] = Queue[i]
        /\ \A i \in DOMAIN Queue' : (i \in DOMAIN Queue /\ Queue'[i] = Queue[i]) \/ i = Len(Queue) + 1
    BY <2>1, QueueSent
  <2> QED
    BY <1>2, <2>2, <2>3
<1> QED
  BY <1>0, <1>1, <1>2 DEF Smooth

\* What the events are after such a step, the places apart.
LEMMA SmoothTold ==
  ASSUME AdapterTypeOK, NEW e, Smooth(e)
  PROVE  /\ \A i \in DOMAIN outPipe' : \E j \in DOMAIN outPipe : outPipe'[i] = outPipe[j]
         /\ TakesUp(e) => 1 \in DOMAIN outPipe /\ e = outPipe[1] /\ e \in Event /\ e.task \in Task
<1>1. \A i \in DOMAIN outPipe' : \E j \in DOMAIN outPipe : outPipe'[i] = outPipe[j]
  BY SmoothRead
<1>2. ASSUME TakesUp(e) PROVE 1 \in DOMAIN outPipe /\ e = outPipe[1] /\ e \in Event /\ e.task \in Task
  <2>1. outPipe # <<>> /\ e = Head(outPipe) /\ outPipe \in Seq(Event)
    BY <1>2 DEF TakesUp, AdapterTypeOK
  <2>2. 1 \in DOMAIN outPipe /\ e = outPipe[1]
    BY <2>1
  <2>3. e \in Event /\ e.task \in Task
    <3>1. outPipe[1] \in Event
      BY <2>1, <2>2
    <3> QED
      BY <2>2, <3>1 DEF Event
  <2> QED
    BY <2>2, <2>3
<1> QED
  BY <1>1, <1>2

LEMMA LaterStill ==
  ASSUME AdapterTypeOK, NEW e, Smooth(e), NEW t \in Task, ~ToldOf(t), sh.clarification # t, t \notin fresh,
         ApprovalTask(sh) # t \/ sh'.approval = None
  PROVE  Later(t)'
<1>1. /\ \A i \in DOMAIN outPipe' : \E j \in DOMAIN outPipe : outPipe'[i] = outPipe[j]
      /\ TakesUp(e) => 1 \in DOMAIN outPipe /\ e = outPipe[1] /\ e \in Event /\ e.task \in Task
  BY SmoothTold
<1>2. \A i \in DOMAIN outPipe' : outPipe'[i].task = t => ~GivesTurn(outPipe'[i])
  BY <1>1 DEF ToldOf
<1>3. TakesUp(e) /\ e.event \in {"question", "proposal"} => e.task # t
  BY <1>1 DEF ToldOf, GivesTurn
<1>4. ApprovalTask(sh)' # t
  <2>1. CASE sh'.approval \in {sh.approval, None}
    BY <2>1, NoneAssumption DEF ApprovalTask
  <2>2. CASE TakesUp(e) /\ e.event = "proposal" /\ sh'.approval = [task |-> e.task, round |-> e.round]
    BY <1>3, <2>2, NoneAssumption DEF ApprovalTask
  <2> QED
    BY <2>1, <2>2 DEF Smooth
<1>5. sh'.clarification # t
  <2>1. CASE sh'.clarification \in {sh.clarification, None}
    BY <2>1, NoneAssumption
  <2>2. CASE TakesUp(e) /\ e.event = "question" /\ sh'.clarification = e.task
    BY <1>3, <2>2
  <2> QED
    BY <2>1, <2>2 DEF Smooth
<1>6. t \notin fresh'
  BY DEF Smooth
<1> QED
  BY <1>2, <1>4, <1>5, <1>6 DEF Later

LEMMA DecidedSmoothly ==
  ASSUME AdapterTypeOK, AdapterTypeOK', OneTurn, DecidedOnce, NEW e, Smooth(e)
  PROVE  DecidedOnce'
<1>0. /\ Len(Queue) \in Nat /\ DOMAIN Queue = 1..Len(Queue)
      /\ \A i \in DOMAIN Queue' :
           \/ i \in DOMAIN Queue /\ Queue'[i] = Queue[i]
           \/ i = Len(Queue) + 1 /\ Queue'[i] \in Message /\ Sends(Queue'[i])
  BY SmoothQueue
<1>1. /\ \A i \in DOMAIN Queue : Queue[i] \in Message /\ Queue[i].task \in Task
      /\ \A m \in Message : m.task \in Task
  BY QueueTyped DEF Message
<1>2. /\ \A m : ~(Decides(m) /\ AsksTurn(m)) /\ (Decides(m) => m.op \notin {"abort"})
      /\ \A m : m.op \in {"start", "reply", "ack"} => AsksTurn(m)
  BY DEF Decides, AsksTurn
\* A decision that is sent.
<1>3. ASSUME NEW m \in Message, Sends(m), Decides(m)
      PROVE  /\ m.task \in Task /\ m.task = ApprovalTask(sh) /\ sh'.approval = None
             /\ ~ToldOf(m.task) /\ ~AskedOf(m.task) /\ sh.clarification # m.task /\ m.task \notin fresh
  <2>1. /\ sh.approval # None /\ m.task = sh.approval.task /\ sh'.approval = None
    BY <1>3 DEF Sends, Decides
  <2>2. m.task \in Task /\ m.task = ApprovalTask(sh)
    BY <1>1, <2>1 DEF ApprovalTask
  <2> QED
    BY <2>1, <2>2, Alone
<1>4. ASSUME NEW i \in DOMAIN Queue', Decides(Queue'[i]), NEW t, t = Queue'[i].task
      PROVE  /\ Later(t)'
             /\ \A j \in DOMAIN Queue' : Queue'[j].task = t /\ i # j =>
                  /\ ~Decides(Queue'[j]) /\ Queue'[j].op \notin {"start", "reply"}
                  /\ Queue'[j].op = "ack" => i < j
  <2>1. CASE i \in DOMAIN Queue /\ Queue'[i] = Queue[i]
    <3>1. t \in Task /\ Later(t)
      BY <1>1, <1>4, <2>1 DEF DecidedOnce
    <3>2. ~ToldOf(t) /\ sh.clarification # t /\ t \notin fresh /\ ApprovalTask(sh) # t
      BY <3>1 DEF Later, ToldOf
    <3>3. Later(t)'
      BY <3>1, <3>2, LaterStill
    <3>4. ASSUME NEW j \in DOMAIN Queue', Queue'[j].task = t, i # j
          PROVE  /\ ~Decides(Queue'[j]) /\ Queue'[j].op \notin {"start", "reply"}
                 /\ Queue'[j].op = "ack" => i < j
      <4>1. CASE j \in DOMAIN Queue /\ Queue'[j] = Queue[j]
        BY <1>4, <2>1, <3>4, <4>1 DEF DecidedOnce
      <4>2. CASE j = Len(Queue) + 1 /\ Queue'[j] \in Message /\ Sends(Queue'[j])
        <5>1. ~Decides(Queue'[j])
          BY <1>3, <3>2, <3>4, <4>2
        <5>2. Queue'[j].op \notin {"start", "reply"}
          BY <3>2, <3>4, <4>2 DEF Sends, Decides
        <5>3. i < j
          BY <1>0, <2>1, <4>2
        <5> QED
          BY <5>1, <5>2, <5>3
      <4> QED
        BY <1>0, <4>1, <4>2
    <3> QED
      BY <3>3, <3>4
  <2>2. CASE i = Len(Queue) + 1 /\ Queue'[i] \in Message /\ Sends(Queue'[i])
    <3>1. /\ t \in Task /\ t = ApprovalTask(sh) /\ sh'.approval = None
          /\ ~ToldOf(t) /\ ~AskedOf(t) /\ sh.clarification # t /\ t \notin fresh
      BY <1>3, <1>4, <2>2
    <3>2. Later(t)'
      BY <3>1, LaterStill
    <3>3. ASSUME NEW j \in DOMAIN Queue', Queue'[j].task = t, i # j
          PROVE  ~Decides(Queue'[j]) /\ ~AsksTurn(Queue'[j])
      <4>1. j \in DOMAIN Queue /\ Queue'[j] = Queue[j]
        BY <1>0, <2>2, <3>3
      <4>2. ~Decides(Queue[j])
        BY <3>1, <3>3, <4>1 DEF DecidedOnce, Later
      <4>3. ~AsksTurn(Queue[j])
        BY <3>1, <3>3, <4>1 DEF AskedOf
      <4> QED
        BY <4>1, <4>2, <4>3
    <3> QED
      BY <1>2, <3>2, <3>3
  <2> QED
    BY <1>0, <2>1, <2>2
<1>5. \A i \in DOMAIN Queue' : Decides(Queue'[i]) =>
        \E t : t = Queue'[i].task /\ Later(t)'
  BY <1>4
<1>6. \A i \in DOMAIN Queue' : Decides(Queue'[i]) => Later(Queue[i].task)'
  BY <1>5
<1> QED
  BY <1>4, <1>6 DEF DecidedOnce

LEMMA DecidedForward ==
  ASSUME AdapterTypeOK, AdapterTypeOK', DecidedOnce, Forward
  PROVE  DecidedOnce'
<1>1. /\ DOMAIN Queue' = DOMAIN Queue
      /\ \A i \in DOMAIN Queue : Queue'[i] = Queue[i]
  BY QueueForwarded
<1>2. /\ \A i \in DOMAIN outPipe' :
              \/ i \in DOMAIN outPipe /\ outPipe'[i] = outPipe[i]
              \/ outPipe'[i].event = "started"
      /\ sh' = sh
  BY ForwardStarts
<1>3. fresh' = fresh
  BY DEF Forward
<1>4. ASSUME NEW t, Later(t) PROVE Later(t)'
  BY <1>2, <1>3, <1>4 DEF Later, GivesTurn, ApprovalTask
<1>5. ASSUME NEW i \in DOMAIN Queue', Decides(Queue'[i])
      PROVE  Later(Queue[i].task)'
  BY <1>1, <1>4, <1>5 DEF DecidedOnce
<1> QED
  BY <1>1, <1>5 DEF DecidedOnce

\* The queue and the events once the daemon has answered.
LEMMA ServeQueue ==
  ASSUME AdapterTypeOK, AdapterTypeOK', NEW x \in Entry \cup {None}, NEW ev, inbox # <<>>,
         Served(Head(inbox), x, ev), Answer(x, ev)
  PROVE  /\ 1 \in DOMAIN Queue /\ Queue[1] = Head(inbox) /\ Queue[1].task \in Task
         /\ \A i \in DOMAIN Queue' : i \in Nat \ {0} /\ i + 1 \in DOMAIN Queue /\ Queue'[i] = Queue[i + 1]
         /\ \A i \in DOMAIN Queue : i # 1 => i - 1 \in DOMAIN Queue' /\ Queue'[i - 1] = Queue[i]
         /\ Len(Queue)' = Len(Queue) - 1
         /\ sh' = sh /\ fresh' = fresh /\ confirmed' = confirmed /\ helper' = helper /\ lost' = lost
         /\ entry'[Queue[1].task] = x
         /\ \A t \in Task : t # Queue[1].task => entry'[t] = entry[t]
<1>1. inbox' = Tail(inbox) /\ inPipe' = inPipe
  BY DEF Answer
<1>2. /\ 1 \in DOMAIN Queue /\ Queue[1] = Head(inbox)
      /\ \A i \in DOMAIN Queue' : i + 1 \in DOMAIN Queue /\ Queue'[i] = Queue[i + 1]
      /\ \A i \in DOMAIN Queue : i # 1 => i - 1 \in DOMAIN Queue' /\ Queue'[i - 1] = Queue[i]
  BY <1>1, QueueServed
<1>7. Len(Queue)' = Len(Queue) - 1
  BY <1>1, QueueServed
<1>3. Queue[1].task \in Task
  BY <1>2, QueueTyped
<1>4. \A i \in DOMAIN Queue' : i \in Nat \ {0}
  <2>1. PICK a, b, q : a = inbox' /\ b = inPipe' /\ q = a \o b
    OBVIOUS
  <2>2. a \in Seq(Message) /\ b \in Seq(Message)
    BY <2>1 DEF AdapterTypeOK
  <2>3. \A i \in DOMAIN q : i \in Nat \ {0}
    BY <2>1, <2>2
  <2> QED
    BY <2>1, <2>3 DEF Queue
<1>5. sh' = sh /\ fresh' = fresh /\ confirmed' = confirmed /\ helper' = helper /\ lost' = lost
  BY DEF Answer, histVars
<1>6. /\ entry'[Queue[1].task] = x
      /\ \A t \in Task : t # Queue[1].task => entry'[t] = entry[t]
  BY <1>2, <1>3 DEF Answer, AdapterTypeOK
<1> QED
  BY <1>2, <1>3, <1>4, <1>5, <1>6, <1>7

LEMMA DecidedServe ==
  ASSUME AdapterTypeOK, AdapterTypeOK', DecidedOnce, Serve
  PROVE  DecidedOnce'
<1>1. PICK x \in Entry \cup {None}, ev \in Seq(Event) : Served(Head(inbox), x, ev) /\ Answer(x, ev)
  BY ServeShape
<1>2. inbox # <<>>
  BY ServeShape
<1>3. /\ 1 \in DOMAIN Queue /\ Queue[1] = Head(inbox)
      /\ \A i \in DOMAIN Queue' : i \in Nat \ {0} /\ i + 1 \in DOMAIN Queue /\ Queue'[i] = Queue[i + 1]
      /\ sh' = sh /\ fresh' = fresh
  BY <1>1, <1>2, ServeQueue
<1>4. \A i \in DOMAIN outPipe' :
        \/ i \in DOMAIN outPipe /\ outPipe'[i] = outPipe[i]
        \/ outPipe'[i].task = Queue[1].task /\ (GivesTurn(outPipe'[i]) => AsksTurn(Queue[1]))
  BY <1>1, <1>2, <1>3, ServeSays
<1>5. ASSUME NEW i \in DOMAIN Queue', Decides(Queue'[i]), NEW t, t = Queue'[i].task
      PROVE  /\ Later(t)'
             /\ \A j \in DOMAIN Queue' : Queue'[j].task = t /\ i # j =>
                  /\ ~Decides(Queue'[j]) /\ Queue'[j].op \notin {"start", "reply"}
                  /\ Queue'[j].op = "ack" => i < j
  <2>1. /\ i \in Nat \ {0} /\ i + 1 \in DOMAIN Queue /\ Decides(Queue[i + 1]) /\ t = Queue[i + 1].task
    BY <1>3, <1>5
  <2>2. /\ Later(t)
        /\ \A j \in DOMAIN Queue : Queue[j].task = t /\ i + 1 # j =>
             /\ ~Decides(Queue[j]) /\ Queue[j].op \notin {"start", "reply"}
             /\ Queue[j].op = "ack" => i + 1 < j
    BY <2>1 DEF DecidedOnce
  <2>3. Queue[1].task = t => ~AsksTurn(Queue[1])
    <3>1. i + 1 # 1 /\ ~(i + 1 < 1)
      BY <2>1
    <3> QED
      BY <1>3, <2>2, <3>1 DEF AsksTurn
  <2>4. Later(t)'
    BY <1>3, <1>4, <2>2, <2>3 DEF Later, ApprovalTask
  <2>5. ASSUME NEW j \in DOMAIN Queue', Queue'[j].task = t, i # j
        PROVE  /\ ~Decides(Queue'[j]) /\ Queue'[j].op \notin {"start", "reply"}
               /\ Queue'[j].op = "ack" => i < j
    <3>1. j \in Nat /\ j + 1 \in DOMAIN Queue /\ Queue'[j] = Queue[j + 1] /\ i + 1 # j + 1
      BY <1>3, <2>1, <2>5
    <3>2. /\ ~Decides(Queue[j + 1]) /\ Queue[j + 1].op \notin {"start", "reply"}
          /\ Queue[j + 1].op = "ack" => i + 1 < j + 1
      BY <2>2, <2>5, <3>1
    <3> QED
      BY <2>1, <3>1, <3>2
  <2> QED
    BY <2>4, <2>5
<1>6. \A i \in DOMAIN Queue' : Decides(Queue'[i]) =>
        \E t : t = Queue'[i].task /\ Later(t)'
  BY <1>5
<1>7. \A i \in DOMAIN Queue' : Decides(Queue'[i]) => Later(Queue[i].task)'
  BY <1>6
<1> QED
  BY <1>5, <1>7 DEF DecidedOnce

-----------------------------------------------------------------------------
(* What the shell sends, reads and shows agrees with what the daemon waits for. *)

LEMMA SameEntries ==
  ASSUME entry' = entry
  PROVE  /\ \A t : Live(t)' <=> Live(t)
         /\ \A c, S : Expects(c, S)' <=> Expects(c, S)
         /\ \A t : Settled(t)' <=> Settled(t)
  BY DEF Live, Expects, Settled

LEMMA QueueLength ==
  ASSUME AdapterTypeOK'
  PROVE  Len(Queue)' \in Nat /\ DOMAIN Queue' = 1..Len(Queue)'
<1>1. PICK a, b, q : a = inbox' /\ b = inPipe' /\ q = a \o b
  OBVIOUS
<1>2. a \in Seq(Message) /\ b \in Seq(Message)
  BY <1>1 DEF AdapterTypeOK
<1>3. Len(q) \in Nat /\ DOMAIN q = 1..Len(q)
  BY <1>1, <1>2
<1> QED
  BY <1>1, <1>3 DEF Queue

LEMMA SmoothDecision ==
  ASSUME AdapterTypeOK, AdapterTypeOK', NEW e, Smooth(e), NEW t, NEW n \in Nat, DecisionIn(t, n)
  PROVE  DecisionIn(t, n)' /\ DecisionIn(t, Len(Queue))'
<1>1. PICK j \in DOMAIN Queue : j <= n /\ Queue[j].task = t /\ Decides(Queue[j])
  BY DEF DecisionIn
<1>2. j \in DOMAIN Queue' /\ Queue'[j] = Queue[j]
  BY <1>1, SmoothQueue
<1>3. entry[t].gate /\ entry' = entry
  BY DEF DecisionIn, Smooth
<1>4. j <= Len(Queue)'
  BY <1>2, QueueLength
<1>5. PICK k : k = Len(Queue)'
  OBVIOUS
<1>6. DecisionIn(t, n)' /\ DecisionIn(t, k)'
  BY <1>1, <1>2, <1>3, <1>4, <1>5 DEF DecisionIn
<1> QED
  BY <1>5, <1>6

\* The end of a task, once the first event is read.
LEMMA SmoothEnd ==
  ASSUME AdapterTypeOK, NEW e, Smooth(e), NEW t, NEW n \in Nat
  PROVE  /\ outPipe' = outPipe => (EndIsAfter(t, n) => EndIsAfter(t, n)')
         /\ outPipe' # outPipe => (EndIsAfter(t, n + 1) => EndIsAfter(t, n)')
         /\ outPipe' # outPipe /\ ~(Ends(e) /\ e.task = t) => (EndIsAfter(t, 0) => EndIsAfter(t, 0)')
<1>1. outPipe' = outPipe => (EndIsAfter(t, n) => EndIsAfter(t, n)')
  BY DEF EndIsAfter
<1>2. ASSUME outPipe' # outPipe
      PROVE  /\ DOMAIN outPipe = 1..Len(outPipe) /\ Len(outPipe) \in Nat /\ e = outPipe[1]
             /\ \A i \in DOMAIN outPipe : i # 1 => i - 1 \in DOMAIN outPipe' /\ outPipe'[i - 1] = outPipe[i]
  BY <1>2, SmoothRead
<1>3. ASSUME outPipe' # outPipe, NEW k \in Nat,
             NEW j \in DOMAIN outPipe, j > k + 1, Ends(outPipe[j]), outPipe[j].task = t
      PROVE  EndIsAfter(t, k)'
  <2>1. j - 1 \in DOMAIN outPipe' /\ outPipe'[j - 1] = outPipe[j] /\ j - 1 > k
    BY <1>2, <1>3
  <2> QED
    BY <1>3, <2>1 DEF EndIsAfter
<1>4. outPipe' # outPipe => (EndIsAfter(t, n + 1) => EndIsAfter(t, n)')
  BY <1>3 DEF EndIsAfter
<1>5. ASSUME outPipe' # outPipe, ~(Ends(e) /\ e.task = t), EndIsAfter(t, 0)
      PROVE  EndIsAfter(t, 0)'
  <2>1. PICK j \in DOMAIN outPipe : j > 0 /\ Ends(outPipe[j]) /\ outPipe[j].task = t
    BY <1>5 DEF EndIsAfter
  <2>2. j > 0 + 1
    BY <1>2, <1>5, <2>1
  <2> QED
    BY <1>3, <1>5, <2>1, <2>2
<1> QED
  BY <1>1, <1>4, <1>5

LEMMA AgreesSmoothly ==
  ASSUME AdapterTypeOK, AdapterTypeOK', Agrees, NEW e, Smooth(e)
  PROVE  Agrees'
<1>0. /\ entry' = entry
      /\ \A t : Live(t)' <=> Live(t)
      /\ \A c, S : Expects(c, S)' <=> Expects(c, S)
      /\ \A t : Settled(t)' <=> Settled(t)
  BY SameEntries DEF Smooth
<1>1. ASSUME TakesUp(e)
      PROVE  outPipe' # outPipe /\ 1 \in DOMAIN outPipe /\ e = outPipe[1]
  <2>1. outPipe # <<>> /\ outPipe' = Tail(outPipe) /\ outPipe \in Seq(Event)
    BY <1>1 DEF TakesUp, AdapterTypeOK
  <2>2. outPipe' # outPipe
    BY <2>1
  <2> QED
    BY <1>1, <2>2, SmoothTold
\* The offers.
<1>2. ASSUME NEW i \in DOMAIN outPipe', outPipe'[i].event = "proposal", NEW o, o = outPipe'[i]
      PROVE  /\ Expects(o, {"offered"})'
             /\ Live(o.task)' => entry'[o.task].gate = o.gate
             /\ entry'[o.task] = None => EndIsAfter(o.task, i)'
  <2>1. CASE outPipe' = outPipe
    <3>1. /\ Expects(o, {"offered"})
          /\ Live(o.task) => entry[o.task].gate = o.gate
          /\ entry[o.task] = None => EndIsAfter(o.task, i)
      BY <1>2, <2>1 DEF Agrees, OfferAgrees
    <3>2. i \in Nat
      BY <2>1 DEF AdapterTypeOK
    <3> QED
      BY <1>0, <2>1, <3>1, <3>2, SmoothEnd
  <2>2. CASE outPipe' # outPipe
    <3>1. i \in Nat /\ i + 1 \in DOMAIN outPipe /\ outPipe'[i] = outPipe[i + 1]
      BY <2>2, SmoothRead
    <3>2. /\ Expects(o, {"offered"})
          /\ Live(o.task) => entry[o.task].gate = o.gate
          /\ entry[o.task] = None => EndIsAfter(o.task, i + 1)
      BY <1>2, <3>1 DEF Agrees, OfferAgrees
    <3> QED
      BY <1>0, <2>2, <3>1, <3>2, SmoothEnd
  <2> QED
    BY <2>1, <2>2
<1>3. OfferAgrees'
  BY <1>2 DEF OfferAgrees
\* What is offered first.
<1>4. ASSUME TakesUp(e), e.event = "proposal", NEW c, c = [task |-> e.task, round |-> e.round]
      PROVE  /\ Expects(c, {"offered"})
             /\ Live(c.task) => entry[c.task].gate = e.gate
             /\ entry[c.task] = None => EndIsAfter(c.task, 0)'
  <2>1. /\ Expects(e, {"offered"})
        /\ Live(e.task) => entry[e.task].gate = e.gate
        /\ entry[e.task] = None => EndIsAfter(e.task, 1)
    BY <1>1, <1>4 DEF Agrees, OfferAgrees
  <2>2. c.task = e.task /\ c.round = e.round /\ 0 + 1 = 1 /\ 0 \in Nat
    BY <1>4
  <2>3. EndIsAfter(e.task, 1) => EndIsAfter(e.task, 0)'
    BY <1>1, <1>4, <2>2, SmoothEnd
  <2>4. Expects(c, {"offered"})
    BY <2>1, <2>2 DEF Expects
  <2> QED
    BY <2>1, <2>2, <2>3, <2>4
\* The box.
<1>5. ASSUME sh'.approval # None, NEW c, c = sh'.approval
      PROVE  /\ Expects(c, {"offered"})'
             /\ Live(c.task)' => entry'[c.task].gate
             /\ entry'[c.task] = None => EndIsAfter(c.task, 0)'
  <2>1. CASE c = sh.approval
    <3>1. /\ Expects(c, {"offered"})
          /\ Live(c.task) => entry[c.task].gate
          /\ entry[c.task] = None => EndIsAfter(c.task, 0)
      BY <1>5, <2>1 DEF Agrees, BoxAgrees
    <3>2. CASE outPipe' = outPipe
      BY <1>0, <3>1, <3>2, SmoothEnd
    <3>3. CASE outPipe' # outPipe
      <4>1. ~(Ends(e) /\ e.task = c.task)
        BY <1>5, <2>1, <3>3 DEF Smooth
      <4> QED
        BY <1>0, <3>1, <3>3, <4>1, SmoothEnd
    <3> QED
      BY <3>2, <3>3
  <2>2. CASE TakesUp(e) /\ e.event = "proposal" /\ e.gate /\ c = [task |-> e.task, round |-> e.round]
    BY <1>0, <1>4, <2>2
  <2> QED
    BY <1>5, <2>1, <2>2 DEF Smooth
<1>6. BoxAgrees'
  BY <1>5 DEF BoxAgrees
\* The messages.
<1>7. /\ Len(Queue) \in Nat /\ DOMAIN Queue = 1..Len(Queue)
      /\ \A i \in DOMAIN Queue' :
           \/ i \in DOMAIN Queue /\ Queue'[i] = Queue[i]
           \/ i = Len(Queue) + 1 /\ Queue'[i] \in Message /\ Sends(Queue'[i])
  BY SmoothQueue
<1>8. ASSUME NEW i \in DOMAIN Queue', NEW m, m = Queue'[i]
      PROVE  /\ Decides(m) => Expects(m, {"offered"})' /\ (Live(m.task)' => entry'[m.task].gate)
             /\ m.op = "ack" =>
                  /\ Expects(m, {"offered", "decided"})'
                  /\ Live(m.task)' => Settled(m.task)' \/ DecisionIn(m.task, i - 1)'
  <2>1. CASE i \in DOMAIN Queue /\ Queue'[i] = Queue[i]
    <3>1. /\ Decides(m) => Expects(m, {"offered"}) /\ (Live(m.task) => entry[m.task].gate)
          /\ m.op = "ack" =>
               /\ Expects(m, {"offered", "decided"})
               /\ Live(m.task) => Settled(m.task) \/ DecisionIn(m.task, i - 1)
      BY <1>8, <2>1 DEF Agrees, MessagesAgree
    <3>2. i - 1 \in Nat
      BY <1>7, <2>1
    <3>3. DecisionIn(m.task, i - 1) => DecisionIn(m.task, i - 1)'
      BY <3>2, SmoothDecision
    <3> QED
      BY <1>0, <3>1, <3>3
  <2>2. CASE i = Len(Queue) + 1 /\ Sends(m)
    <3>1. ASSUME Decides(m)
          PROVE  Expects(m, {"offered"}) /\ (Live(m.task) => entry[m.task].gate)
      <4>1. sh.approval # None /\ m.task = sh.approval.task /\ m.round = sh.approval.round
        BY <2>2, <3>1 DEF Sends, Decides
      <4> QED
        BY <4>1 DEF Agrees, BoxAgrees, Expects
    <3>2. ASSUME m.op = "ack"
          PROVE  /\ Expects(m, {"offered", "decided"})
                 /\ Live(m.task) => Settled(m.task) \/ DecisionIn(m.task, i - 1)'
      <4>1. sh.pending # None /\ m.task = sh.pending.task /\ m.round = sh.pending.round
        BY <2>2, <3>2 DEF Sends, Decides
      <4>2. /\ Expects(m, {"offered", "decided"})
            /\ Live(m.task) => Settled(m.task) \/ DecisionIn(m.task, Len(Queue))
        BY <4>1 DEF Agrees, RunAgrees, Expects
      <4>5. PICK n : n = Len(Queue)
        OBVIOUS
      <4>3. n \in Nat /\ n = Len(Queue) /\ n = i - 1
        BY <1>7, <2>2, <4>5
      <4>4. DecisionIn(m.task, n) => DecisionIn(m.task, n)'
        BY <4>3, SmoothDecision
      <4> QED
        BY <4>2, <4>3, <4>4
    <3> QED
      BY <1>0, <3>1, <3>2
  <2> QED
    BY <1>7, <1>8, <2>1, <2>2
<1>9. MessagesAgree'
  BY <1>8 DEF MessagesAgree
\* The command that runs.
<1>10. ASSUME sh'.pending # None, NEW c, c = sh'.pending
       PROVE  /\ Expects(c, {"offered", "decided"})'
              /\ Live(c.task)' => Settled(c.task)' \/ DecisionIn(c.task, Len(Queue))'
  <2>1. CASE c = sh.pending
    <3>1. /\ Expects(c, {"offered", "decided"})
          /\ Live(c.task) => Settled(c.task) \/ DecisionIn(c.task, Len(Queue))
      BY <1>10, <2>1 DEF Agrees, RunAgrees
    <3>2. DecisionIn(c.task, Len(Queue)) => DecisionIn(c.task, Len(Queue))'
      BY <1>7, SmoothDecision
    <3> QED
      BY <1>0, <3>1, <3>2
  <2>2. ASSUME sh.approval # None, c = sh.approval, NEW m \in Message, Sends(m), Decides(m), m.task = c.task
        PROVE  /\ Expects(c, {"offered", "decided"})'
               /\ Live(c.task)' => DecisionIn(c.task, Len(Queue))'
    <3>1. Expects(c, {"offered"}) /\ (Live(c.task) => entry[c.task].gate)
      BY <2>2 DEF Agrees, BoxAgrees
    <3>2. Expects(c, {"offered", "decided"})
      BY <3>1 DEF Expects
    <3>3. inbox' = inbox /\ inPipe' = Append(inPipe, m)
      BY <2>2 DEF Smooth, Sends
    <3>4. PICK k : k = Len(Queue)'
      OBVIOUS
    <3>5. k = Len(Queue) + 1 /\ Queue'[k] = m /\ k \in DOMAIN Queue'
      BY <1>7, <3>3, <3>4, QueueSent
    <3>6. k <= k
      BY <1>7, <3>5
    <3>7. entry'[c.task].gate => DecisionIn(c.task, k)'
      BY <2>2, <3>5, <3>6 DEF DecisionIn
    <3> QED
      BY <1>0, <3>1, <3>2, <3>4, <3>7
  <2>3. CASE TakesUp(e) /\ e.event = "proposal" /\ ~e.gate /\ c = [task |-> e.task, round |-> e.round]
    <3>1. Expects(c, {"offered"}) /\ (Live(c.task) => entry[c.task].gate = e.gate)
      BY <1>4, <2>3
    <3>2. Expects(c, {"offered", "decided"}) /\ (Live(c.task) => Settled(c.task))
      BY <2>3, <3>1 DEF Expects, Settled
    <3> QED
      BY <1>0, <3>2
  <2> QED
    BY <1>10, <2>1, <2>2, <2>3 DEF Smooth
<1>11. RunAgrees'
  BY <1>10 DEF RunAgrees
<1> QED
  BY <1>3, <1>6, <1>9, <1>11 DEF Agrees

\* The same of one task.
AgreesOn(t) ==
  /\ \A i \in DOMAIN outPipe : outPipe[i].event = "proposal" /\ outPipe[i].task = t =>
       /\ Expects(outPipe[i], {"offered"})
       /\ Live(t) => entry[t].gate = outPipe[i].gate
       /\ entry[t] = None => EndIsAfter(t, i)
  /\ sh.approval # None /\ sh.approval.task = t =>
       /\ Expects(sh.approval, {"offered"})
       /\ Live(t) => entry[t].gate
       /\ entry[t] = None => EndIsAfter(t, 0)
  /\ \A i \in DOMAIN Queue : Queue[i].task = t =>
       /\ Decides(Queue[i]) => Expects(Queue[i], {"offered"}) /\ (Live(t) => entry[t].gate)
       /\ Queue[i].op = "ack" =>
            /\ Expects(Queue[i], {"offered", "decided"})
            /\ Live(t) => Settled(t) \/ DecisionIn(t, i - 1)
  /\ sh.pending # None /\ sh.pending.task = t =>
       /\ Expects(sh.pending, {"offered", "decided"})
       /\ Live(t) => Settled(t) \/ DecisionIn(t, Len(Queue))

LEMMA AgreesByTask ==
  ASSUME AdapterTypeOK', \A t \in Task : AgreesOn(t)'
  PROVE  Agrees'
<1>1. /\ \A i \in DOMAIN outPipe' : outPipe'[i].task \in Task
      /\ sh'.approval # None => sh'.approval.task \in Task
      /\ sh'.pending # None => sh'.pending.task \in Task
  <2>1. sh' \in Globals /\ outPipe' \in Seq(Event)
    BY DEF AdapterTypeOK
  <2>2. \A i \in DOMAIN outPipe' : outPipe'[i] \in Event
    BY <2>1
  <2>3. \A i \in DOMAIN outPipe' : outPipe'[i].task \in Task
    BY <2>2 DEF Event
  <2>4. sh'.approval \in Command \cup {None} /\ sh'.pending \in Command \cup {None}
    BY <2>1 DEF Globals
  <2> QED
    BY <2>3, <2>4 DEF Command
<1>2. \A i \in DOMAIN Queue' : Queue'[i].task \in Task
  <2>1. PICK a, b, q : a = inbox' /\ b = inPipe' /\ q = a \o b
    OBVIOUS
  <2>2. a \in Seq(Message) /\ b \in Seq(Message)
    BY <2>1 DEF AdapterTypeOK
  <2>3. q \in Seq(Message)
    BY <2>1, <2>2
  <2>4. \A i \in DOMAIN q : q[i] \in Message
    BY <2>3
  <2>5. \A i \in DOMAIN q : q[i].task \in Task
    BY <2>4 DEF Message
  <2> QED
    BY <2>1, <2>5 DEF Queue
<1>3. OfferAgrees'
  BY <1>1 DEF AgreesOn, OfferAgrees
<1>4. BoxAgrees'
  BY <1>1 DEF AgreesOn, BoxAgrees
<1>5. MessagesAgree'
  BY <1>2 DEF AgreesOn, MessagesAgree
<1>6. RunAgrees'
  BY <1>1 DEF AgreesOn, RunAgrees
<1> QED
  BY <1>3, <1>4, <1>5, <1>6 DEF Agrees

\* A task whose entry stays, while the daemon takes d messages and says something.
LEMMA AgreesOnStays ==
  ASSUME AdapterTypeOK, AdapterTypeOK', Agrees, NEW t \in Task, entry'[t] = entry[t], sh' = sh,
         NEW d \in {0, 1},
         \A i \in DOMAIN outPipe : i \in DOMAIN outPipe' /\ outPipe'[i] = outPipe[i],
         \A i \in DOMAIN outPipe' :
           \/ i \in DOMAIN outPipe /\ outPipe'[i] = outPipe[i]
           \/ outPipe'[i].event # "proposal" \/ outPipe'[i].task # t,
         \A i \in DOMAIN Queue' : i + d \in DOMAIN Queue /\ Queue'[i] = Queue[i + d],
         \A i \in DOMAIN Queue : i # d => i - d \in DOMAIN Queue' /\ Queue'[i - d] = Queue[i],
         Len(Queue)' = Len(Queue) - d,
         d = 1 => Queue[1].task # t
  PROVE  AgreesOn(t)'
<1>1. /\ Live(t)' <=> Live(t)
      /\ Settled(t)' <=> Settled(t)
      /\ \A c, S : c.task = t => (Expects(c, S)' <=> Expects(c, S))
      /\ \A n : EndIsAfter(t, n) => EndIsAfter(t, n)'
  BY DEF Live, Settled, Expects, EndIsAfter
<1>0. /\ DOMAIN Queue = 1..Len(Queue) /\ Len(Queue) \in Nat
      /\ \A i \in DOMAIN Queue' : i \in Nat
  <2>1. DOMAIN Queue' = 1..Len(Queue)' /\ Len(Queue)' \in Nat
    BY QueueLength
  <2>2. \A i \in DOMAIN Queue' : i \in Nat
    BY <2>1
  <2>3. Len(inbox) \in Nat /\ Len(inPipe) \in Nat /\ Len(Queue) = Len(inbox) + Len(inPipe)
    BY QueueTyped
  <2>4. DOMAIN Queue = 1..Len(Queue)
    BY QueueTyped
  <2> QED
    BY <2>2, <2>3, <2>4
<1>2. ASSUME NEW n \in Nat, DecisionIn(t, n), NEW k, k = n - d PROVE DecisionIn(t, k)'
  <2>1. PICK j \in DOMAIN Queue : j <= n /\ Queue[j].task = t /\ Decides(Queue[j]) /\ entry[t].gate
    BY <1>2 DEF DecisionIn
  <2>2. j # d /\ j \in Nat
    BY <1>0, <2>1
  <2>3. j - d \in DOMAIN Queue' /\ Queue'[j - d] = Queue[j]
    BY <2>1, <2>2
  <2>4. j - d <= k
    BY <1>2, <2>1, <2>2
  <2> QED
    BY <2>1, <2>3, <2>4 DEF DecisionIn
<1>3. ASSUME NEW i \in DOMAIN outPipe', outPipe'[i].event = "proposal", outPipe'[i].task = t,
             NEW o, o = outPipe'[i]
      PROVE  /\ Expects(o, {"offered"})'
             /\ Live(t)' => entry'[t].gate = o.gate
             /\ entry'[t] = None => EndIsAfter(t, i)'
  <2>1. i \in DOMAIN outPipe /\ o = outPipe[i]
    BY <1>3
  <2>2. /\ Expects(o, {"offered"})
        /\ Live(t) => entry[t].gate = o.gate
        /\ entry[t] = None => EndIsAfter(t, i)
    BY <1>3, <2>1 DEF Agrees, OfferAgrees
  <2> QED
    BY <1>1, <1>3, <2>2
<1>4. ASSUME sh'.approval # None, sh'.approval.task = t, NEW c, c = sh'.approval
      PROVE  /\ Expects(c, {"offered"})'
             /\ Live(t)' => entry'[t].gate
             /\ entry'[t] = None => EndIsAfter(t, 0)'
  <2>1. /\ Expects(c, {"offered"})
        /\ Live(t) => entry[t].gate
        /\ entry[t] = None => EndIsAfter(t, 0)
    BY <1>4 DEF Agrees, BoxAgrees
  <2> QED
    BY <1>1, <1>4, <2>1
<1>5. ASSUME NEW i \in DOMAIN Queue', Queue'[i].task = t, NEW m, m = Queue'[i]
      PROVE  /\ Decides(m) => Expects(m, {"offered"})' /\ (Live(t)' => entry'[t].gate)
             /\ m.op = "ack" =>
                  /\ Expects(m, {"offered", "decided"})'
                  /\ Live(t)' => Settled(t)' \/ DecisionIn(t, i - 1)'
  <2>1. i \in Nat /\ i + d \in DOMAIN Queue /\ m = Queue[i + d]
    BY <1>0, <1>5
  <2>2. PICK n, k : n = (i + d) - 1 /\ k = i - 1
    OBVIOUS
  <2>3. n \in Nat /\ k = n - d
    BY <1>0, <2>1, <2>2
  <2>4. /\ Decides(m) => Expects(m, {"offered"}) /\ (Live(t) => entry[t].gate)
        /\ m.op = "ack" =>
             /\ Expects(m, {"offered", "decided"})
             /\ Live(t) => Settled(t) \/ DecisionIn(t, n)
    BY <1>5, <2>1, <2>2 DEF Agrees, MessagesAgree
  <2>5. DecisionIn(t, n) => DecisionIn(t, k)'
    BY <1>2, <2>3
  <2> QED
    BY <1>1, <1>5, <2>2, <2>4, <2>5
<1>6. ASSUME sh'.pending # None, sh'.pending.task = t, NEW c, c = sh'.pending
      PROVE  /\ Expects(c, {"offered", "decided"})'
             /\ Live(t)' => Settled(t)' \/ DecisionIn(t, Len(Queue))'
  <2>1. /\ Expects(c, {"offered", "decided"})
        /\ Live(t) => Settled(t) \/ DecisionIn(t, Len(Queue))
    BY <1>6 DEF Agrees, RunAgrees
  <2>2. PICK n, k : n = Len(Queue) /\ k = Len(Queue)'
    OBVIOUS
  <2>3. n \in Nat /\ k = n - d
    BY <1>0, <2>2
  <2>4. DecisionIn(t, n) => DecisionIn(t, k)'
    BY <1>2, <2>3
  <2> QED
    BY <1>1, <1>6, <2>1, <2>2, <2>4
<1> QED
  BY <1>3, <1>4, <1>5, <1>6 DEF AgreesOn

LEMMA AgreesForward ==
  ASSUME AdapterTypeOK, AdapterTypeOK', Agrees, Forward
  PROVE  Agrees'
<1>1. /\ Len(Queue)' = Len(Queue) /\ DOMAIN Queue' = DOMAIN Queue
      /\ \A i \in DOMAIN Queue : Queue'[i] = Queue[i]
  BY QueueForwarded
<1>2. /\ \A i \in DOMAIN outPipe : i \in DOMAIN outPipe' /\ outPipe'[i] = outPipe[i]
      /\ \A i \in DOMAIN outPipe' :
           \/ i \in DOMAIN outPipe /\ outPipe'[i] = outPipe[i]
           \/ outPipe'[i].event # "proposal"
      /\ sh' = sh
  <2>1. \A i \in DOMAIN outPipe' :
           \/ i \in DOMAIN outPipe /\ outPipe'[i] = outPipe[i]
           \/ outPipe'[i].event = "started"
    BY ForwardStarts
  <2>2. /\ \A i \in DOMAIN outPipe : i \in DOMAIN outPipe' /\ outPipe'[i] = outPipe[i]
        /\ sh' = sh
    BY ForwardStarts
  <2> QED
    BY <2>1, <2>2
<1>3. entry' = entry
  BY DEF Forward
<1>4. PICK d \in {0, 1} : d = 0
  OBVIOUS
<1>5. Len(Queue) \in Nat /\ \A i \in DOMAIN Queue : i \in Nat /\ i + d = i /\ i - d = i
  <2>1. Len(inbox) \in Nat /\ Len(inPipe) \in Nat /\ Len(Queue) = Len(inbox) + Len(inPipe)
    BY QueueTyped
  <2>2. DOMAIN Queue = 1..Len(Queue)
    BY QueueTyped
  <2> QED
    BY <1>4, <2>1, <2>2
<1>6. Len(Queue)' = Len(Queue) - d
  BY <1>1, <1>4, <1>5
<1>7. /\ \A i \in DOMAIN Queue' : i + d \in DOMAIN Queue /\ Queue'[i] = Queue[i + d]
      /\ \A i \in DOMAIN Queue : i # d => i - d \in DOMAIN Queue' /\ Queue'[i - d] = Queue[i]
  BY <1>1, <1>5
<1>8. ASSUME NEW t \in Task PROVE AgreesOn(t)'
  BY <1>2, <1>3, <1>4, <1>6, <1>7, AgreesOnStays
<1> QED
  BY <1>8, AgreesByTask

LEMMA AgreesExpiry ==
  ASSUME AdapterTypeOK, AdapterTypeOK', Agrees, NEW x \in Task, Expire(x)
  PROVE  Agrees'
<1>1. /\ sh' = sh /\ outPipe' = outPipe /\ inbox' = inbox /\ inPipe' = inPipe
      /\ entry'[x] = [state |-> "expired", round |-> 0, gate |-> FALSE]
      /\ \A t \in Task : t # x => entry'[t] = entry[t]
  BY DEF Expire, linkVars, AdapterTypeOK
<1>2. Queue' = Queue
  BY <1>1 DEF Queue
<1>3. ~Live(x)' /\ entry'[x] # None
  <2>1. [state |-> "expired", round |-> 0, gate |-> FALSE] \in Entry
    BY DEF Entry
  <2>2. entry'[x] # None
    BY <1>1, <2>1, NoneAssumption
  <2>3. entry'[x].state = "expired"
    BY <1>1
  <2> QED
    BY <2>2, <2>3 DEF Live
<1>4. AgreesOn(x)'
  <2>1. \A c, S : c.task = x => Expects(c, S)'
    BY <1>3 DEF Expects
  <2> QED
    BY <1>3, <2>1 DEF AgreesOn
<1>5. PICK d \in {0, 1} : d = 0
  OBVIOUS
<1>6. Len(Queue) \in Nat /\ \A i \in DOMAIN Queue : i \in Nat /\ i + d = i /\ i - d = i
  <2>1. Len(inbox) \in Nat /\ Len(inPipe) \in Nat /\ Len(Queue) = Len(inbox) + Len(inPipe)
    BY QueueTyped
  <2>2. DOMAIN Queue = 1..Len(Queue)
    BY QueueTyped
  <2> QED
    BY <1>5, <2>1, <2>2
<1>7. Len(Queue)' = Len(Queue) - d
  BY <1>2, <1>5, <1>6
<1>8. /\ \A i \in DOMAIN Queue' : i + d \in DOMAIN Queue /\ Queue'[i] = Queue[i + d]
      /\ \A i \in DOMAIN Queue : i # d => i - d \in DOMAIN Queue' /\ Queue'[i - d] = Queue[i]
  BY <1>2, <1>6
<1>9. ASSUME NEW t \in Task, t # x PROVE AgreesOn(t)'
  BY <1>1, <1>5, <1>7, <1>8, <1>9, AgreesOnStays
<1> QED
  BY <1>4, <1>9, AgreesByTask

LEMMA AgreesServe ==
  ASSUME AdapterTypeOK, AdapterTypeOK', OneTurn, DecidedOnce, Agrees, Serve
  PROVE  Agrees'
<1>1. PICK y \in Entry \cup {None}, ev \in Seq(Event) : Served(Head(inbox), y, ev) /\ Answer(y, ev)
  BY ServeShape
<1>2. inbox # <<>>
  BY ServeShape
<1>3. PICK m, x : m = Head(inbox) /\ x = Queue[1].task
  OBVIOUS
<1>4. /\ 1 \in DOMAIN Queue /\ Queue[1] = m /\ x \in Task /\ m.task = x
      /\ \A i \in DOMAIN Queue' : i \in Nat \ {0} /\ i + 1 \in DOMAIN Queue /\ Queue'[i] = Queue[i + 1]
      /\ \A i \in DOMAIN Queue : i # 1 => i - 1 \in DOMAIN Queue' /\ Queue'[i - 1] = Queue[i]
      /\ Len(Queue)' = Len(Queue) - 1 /\ sh' = sh
      /\ entry'[x] = y /\ \A t \in Task : t # x => entry'[t] = entry[t]
  BY <1>1, <1>2, <1>3, ServeQueue
<1>5. /\ Len(outPipe) \in Nat /\ DOMAIN outPipe = 1..Len(outPipe)
      /\ \A i \in DOMAIN outPipe : i \in DOMAIN outPipe' /\ outPipe'[i] = outPipe[i]
      /\ \A i \in DOMAIN outPipe' :
           \/ i \in DOMAIN outPipe /\ outPipe'[i] = outPipe[i]
           \/ /\ i \notin DOMAIN outPipe /\ i \in Nat /\ i > Len(outPipe)
              /\ outPipe'[i].task = x
              /\ GivesTurn(outPipe'[i]) => AsksTurn(m)
              /\ outPipe'[i].event = "proposal" =>
                   y = [state |-> "offered", round |-> outPipe'[i].round, gate |-> outPipe'[i].gate]
      /\ y = None => \E i \in DOMAIN outPipe' : /\ i > Len(outPipe) /\ Ends(outPipe'[i])
                                                /\ outPipe'[i].task = x
  BY <1>1, <1>2, <1>3, <1>4, ServeSays
\* The other tasks.
<1>6. ASSUME NEW t \in Task, t # x PROVE AgreesOn(t)'
  <2>1. PICK d \in {0, 1} : d = 1
    OBVIOUS
  <2>2. /\ \A i \in DOMAIN Queue' : i + d \in DOMAIN Queue /\ Queue'[i] = Queue[i + d]
        /\ \A i \in DOMAIN Queue : i # d => i - d \in DOMAIN Queue' /\ Queue'[i - d] = Queue[i]
        /\ Len(Queue)' = Len(Queue) - d /\ (d = 1 => Queue[1].task # t)
    BY <1>3, <1>4, <1>6, <2>1
  <2>3. /\ \A i \in DOMAIN outPipe : i \in DOMAIN outPipe' /\ outPipe'[i] = outPipe[i]
        /\ \A i \in DOMAIN outPipe' :
             \/ i \in DOMAIN outPipe /\ outPipe'[i] = outPipe[i]
             \/ outPipe'[i].event # "proposal" \/ outPipe'[i].task # t
    BY <1>5, <1>6
  <2>4. entry'[t] = entry[t] /\ sh' = sh
    BY <1>4, <1>6
  <2> QED
    BY <2>2, <2>3, <2>4, AgreesOnStays
\* The task whose turn was asked for: nothing else is known of it anywhere.
<1>7. CASE AsksTurn(m)
  <2>1. AskedOf(x)
    BY <1>4, <1>7 DEF AskedOf
  <2>2. ~ToldOf(x) /\ ApprovalTask(sh) # x /\ PendingTask(sh) # x
    BY <1>4, <2>1, Alone
  <2>3. ~(sh.approval # None /\ sh.approval.task = x) /\ ~(sh.pending # None /\ sh.pending.task = x)
    BY <2>2 DEF ApprovalTask, PendingTask
  <2>4. ASSUME NEW i \in DOMAIN Queue', Queue'[i].task = x
        PROVE  ~Decides(Queue'[i]) /\ Queue'[i].op # "ack"
    <3>1. i \in Nat \ {0} /\ i + 1 \in DOMAIN Queue /\ Queue'[i] = Queue[i + 1] /\ i + 1 # 1 /\ ~(i + 1 < 1)
      BY <1>4
    <3>2. ~AsksTurn(Queue[i + 1])
      BY <1>4, <1>7, <2>4, <3>1, AsksOnce
    <3>3. ~Decides(Queue[i + 1])
      BY <1>4, <1>7, <2>4, <3>1 DEF DecidedOnce, AsksTurn
    <3> QED
      BY <3>1, <3>2, <3>3 DEF AsksTurn
  <2>5. ASSUME NEW i \in DOMAIN outPipe', outPipe'[i].event = "proposal", outPipe'[i].task = x,
               NEW o, o = outPipe'[i]
        PROVE  /\ Expects(o, {"offered"})'
               /\ Live(x)' => entry'[x].gate = o.gate
               /\ entry'[x] # None
    <3>1. ~(i \in DOMAIN outPipe /\ outPipe'[i] = outPipe[i])
      BY <2>2, <2>5 DEF ToldOf, GivesTurn
    <3>2. y = [state |-> "offered", round |-> o.round, gate |-> o.gate]
      BY <1>5, <2>5, <3>1
    <3>3. o.round \in 0..MaxRounds /\ o.gate \in BOOLEAN
      <4>1. outPipe' \in Seq(Event)
        BY DEF AdapterTypeOK
      <4>2. o \in Event
        BY <2>5, <4>1
      <4> QED
        BY <4>2 DEF Event
    <3>4. y # None
      <4>1. y \in Entry
        BY <3>2, <3>3 DEF Entry
      <4> QED
        BY <4>1, NoneAssumption
    <3> QED
      BY <1>4, <2>5, <3>2, <3>4 DEF Expects
  <2>6. AgreesOn(x)'
    BY <1>4, <2>3, <2>4, <2>5 DEF AgreesOn
  <2> QED
    BY <1>6, <2>6, AgreesByTask
<1>8. ASSUME ~AsksTurn(m), NEW i \in DOMAIN outPipe', outPipe'[i].event = "proposal"
      PROVE  i \in DOMAIN outPipe /\ outPipe'[i] = outPipe[i]
  BY <1>5, <1>8 DEF GivesTurn
\* The task that has ended.
<1>9. CASE ~AsksTurn(m) /\ y = None
  <2>1. ~Live(x)'
    BY <1>4, <1>9 DEF Live
  <2>2. ASSUME NEW n \in Nat, n <= Len(outPipe) PROVE EndIsAfter(x, n)'
    <3>1. PICK i \in DOMAIN outPipe' : i > Len(outPipe) /\ Ends(outPipe'[i]) /\ outPipe'[i].task = x
      BY <1>5, <1>9
    <3>2. i \in Nat
      BY <1>5
    <3>3. i > n
      BY <1>5, <2>2, <3>1, <3>2
    <3> QED
      BY <3>1, <3>3 DEF EndIsAfter
  <2>3. \A i \in DOMAIN outPipe' : outPipe'[i].event = "proposal" => EndIsAfter(x, i)'
    BY <1>5, <1>8, <1>9, <2>2
  <2>4. EndIsAfter(x, 0)'
    BY <1>5, <2>2
  <2>5. AgreesOn(x)'
    BY <2>1, <2>3, <2>4 DEF AgreesOn, Expects
  <2> QED
    BY <1>6, <2>5, AgreesByTask
\* The task whose command was decided on.
<1>10. CASE ~AsksTurn(m) /\ y # None
  <2>1. /\ m.op \in {"approved", "edited"} /\ entry[x] # None /\ entry[x].state # "expired"
        /\ y = [entry[x] EXCEPT !.state = "decided"]
    BY <1>1, <1>3, <1>4, <1>10 DEF Served
  <2>2. Decides(m) /\ Live(x)
    BY <2>1 DEF Decides, Live
  <2>3. entry[x].state = "offered" /\ entry[x].gate
    BY <1>4, <2>2 DEF Agrees, MessagesAgree, Expects
  <2>4. entry[x] \in Entry
    BY <1>4, <2>1 DEF AdapterTypeOK
  <2>5. y.state = "decided" /\ y.round = entry[x].round /\ y.gate = entry[x].gate
    BY <2>1, <2>4 DEF Entry
  <2>6. /\ Settled(x)' /\ entry'[x] # None
    BY <1>4, <1>10, <2>3, <2>5 DEF Settled
  <2>7. Later(x) /\ \A j \in DOMAIN Queue : Queue[j].task = x /\ 1 # j => ~Decides(Queue[j])
    BY <1>3, <1>4, <2>2 DEF DecidedOnce
  <2>8. ~(sh.approval # None /\ sh.approval.task = x)
    BY <2>7 DEF Later, ApprovalTask
  <2>9. \A i \in DOMAIN outPipe' : outPipe'[i].event = "proposal" => outPipe'[i].task # x
    <3>1. \A i \in DOMAIN outPipe : outPipe[i].event = "proposal" => outPipe[i].task # x
      BY <2>7 DEF Later, GivesTurn
    <3> QED
      BY <1>8, <1>10, <3>1
  <2>10. ASSUME NEW c, c.task = x, Expects(c, {"offered", "decided"}) PROVE Expects(c, {"offered", "decided"})'
    BY <1>4, <2>2, <2>5, <2>10 DEF Expects
  <2>11. ASSUME NEW i \in DOMAIN Queue', Queue'[i].task = x, NEW a, a = Queue'[i]
         PROVE  ~Decides(a) /\ (a.op = "ack" => Expects(a, {"offered", "decided"})')
    <3>1. i + 1 \in DOMAIN Queue /\ a = Queue[i + 1] /\ 1 # i + 1
      BY <1>4, <2>11
    <3>2. ~Decides(a)
      BY <2>7, <2>11, <3>1
    <3>3. a.op = "ack" => Expects(a, {"offered", "decided"})
      BY <3>1 DEF Agrees, MessagesAgree
    <3> QED
      BY <2>10, <2>11, <3>2, <3>3
  <2>12. ASSUME sh'.pending # None, sh'.pending.task = x, NEW c, c = sh'.pending
         PROVE  Expects(c, {"offered", "decided"})'
    BY <1>4, <2>10, <2>12 DEF Agrees, RunAgrees
  <2>13. AgreesOn(x)'
    BY <1>4, <2>6, <2>8, <2>9, <2>11, <2>12 DEF AgreesOn
  <2> QED
    BY <1>6, <2>13, AgreesByTask
<1> QED
  BY <1>7, <1>9, <1>10

-----------------------------------------------------------------------------
(* The theorems of a shell whose helper lives. *)

LEMMA UndisturbedAtFirst ==
  Init => Undisturbed
<1> SUFFICES ASSUME Init PROVE Undisturbed
  OBVIOUS
<1>1. DOMAIN <<>> = {} /\ <<>> \o <<>> = <<>>
  OBVIOUS
<1>2. inPipe = <<>> /\ outPipe = <<>> /\ inbox = <<>> /\ Queue = <<>>
  BY <1>1 DEF Init, Queue
<1>3. Unused /\ lost = {} /\ Announced /\ Closes
  BY <1>1, <1>2 DEF Init, Unused, Announced, Closes
<1>4. DecidedOnce /\ Agrees
  BY <1>1, <1>2 DEF Init, DecidedOnce, Agrees, OfferAgrees, BoxAgrees, MessagesAgree, RunAgrees
<1> QED
  BY <1>3, <1>4 DEF Undisturbed

LEMMA StepCalm ==
  ASSUME AdapterTypeOK, Wired, [Next]_vars, ~HelperDies
  PROVE  deaths' = deaths /\ lost' \in {lost, {}}
<1>1. Calm => deaths' = deaths /\ lost' = lost
  BY DEF Calm, coreVars
<1>2. /\ Idles \/ TurnsAway \/ Rejects \/ Replies \/ Acks \/ Fails => Calm
      /\ \A t \in Task : Begins(t) => Calm
      /\ \A op \in {"approved", "edited"} : Agreed(op) => Calm
      /\ \A e : /\ Hears(e) \/ Starts(e) \/ TakesTask(e) => Calm
                /\ TakesQuestion(e) \/ TakesProposal(e) \/ TakesEnd(e) => Calm
  BY DEF Idles, TurnsAway, Rejects, Replies, Acks, Fails, Begins, Agreed, Hears, Starts, TakesTask,
         TakesQuestion, TakesProposal, TakesEnd, Takes, Reads
<1>3. Forward \/ ClearLost \/ (\E t \in Task : Expire(t)) => deaths' = deaths /\ lost' \in {lost, {}}
  BY DEF Forward, ClearLost, Expire
<1>4. Serve => deaths' = deaths /\ lost' = lost
  <2> SUFFICES ASSUME Serve PROVE deaths' = deaths /\ lost' = lost
    OBVIOUS
  <2>1. PICK x \in Entry \cup {None}, ev \in Seq(Event) : Answer(x, ev)
    BY ServeShape
  <2> QED
    BY <2>1 DEF Answer
<1> QED
  BY <1>1, <1>2, <1>3, <1>4, StepShape

LEMMA UndisturbedInvariant ==
  ASSUME Dialogue, Undisturbed, Dialogue', [Next]_vars
  PROVE  Undisturbed'
<1> SUFFICES ASSUME deaths' = 0
             PROVE  (Unused /\ lost = {} /\ Announced /\ Closes /\ DecidedOnce /\ Agrees)'
  BY DEF Undisturbed
<1>1. AdapterTypeOK /\ AdapterTypeOK' /\ OneTurn /\ Wired /\ StartsOnce
  BY DEF Dialogue
<1>2. deaths \in Nat
  BY <1>1 DEF AdapterTypeOK
<1>3. ~HelperDies
  BY <1>2 DEF HelperDies
<1>4. deaths = 0 /\ lost' \in {lost, {}}
  BY <1>1, <1>3, StepCalm
<1>5. Unused /\ lost = {} /\ Announced /\ Closes /\ DecidedOnce /\ Agrees
  BY <1>4 DEF Undisturbed
<1>6. Steady
  BY <1>1, <1>5 DEF Steady
<1>7. Unused' /\ Closes'
  BY <1>1, <1>3, <1>5, <1>6, UnusedInvariant, ClosesInvariant
<1>8. (\E e : Smooth(e)) \/ Forward \/ Serve \/ \E t \in Task : Expire(t)
  BY <1>3, <1>5, <1>6, StepSmooth
<1>9. lost' = {}
  BY <1>4, <1>5
<1>10. Announced'
  <2>1. \A e : Smooth(e) => Announced'
    BY <1>1, <1>5, AnnouncedSmoothly
  <2>2. (\E t \in Task : Expire(t)) => Announced'
    BY <1>5 DEF Expire, linkVars, histVars, Announced
  <2> QED
    BY <1>1, <1>5, <1>8, <2>1, <2>2, AnnouncedForward, AnnouncedServe
<1>11. DecidedOnce'
  <2>1. \A e : Smooth(e) => DecidedOnce'
    BY <1>1, <1>5, DecidedSmoothly
  <2>2. (\E t \in Task : Expire(t)) => DecidedOnce'
    BY <1>5 DEF Expire, linkVars, DecidedOnce, Queue, Later, ApprovalTask
  <2> QED
    BY <1>1, <1>5, <1>8, <2>1, <2>2, DecidedForward, DecidedServe
<1>12. Agrees'
  <2>1. \A e : Smooth(e) => Agrees'
    BY <1>1, <1>5, AgreesSmoothly
  <2>2. \A t \in Task : Expire(t) => Agrees'
    BY <1>1, <1>5, AgreesExpiry
  <2> QED
    BY <1>1, <1>5, <1>8, <2>1, <2>2, AgreesForward, AgreesServe
<1> QED
  BY <1>7, <1>9, <1>10, <1>11, <1>12

LEMMA UndisturbedKept ==
  Spec => []Undisturbed
<1>1. Dialogue /\ Undisturbed /\ Dialogue' /\ [Next]_vars => Undisturbed'
  BY UndisturbedInvariant
<1> QED
  BY <1>1, UndisturbedAtFirst, DialogueKept, PTL DEF Spec

\* FR-17: the box that is open is about the command the daemon wants decided, or
\* its end is on the way, or the daemon timed it out (termlm-show-approval).
THEOREM BoxBacked ==
  Spec => []BoxIsBacked
<1>1. Undisturbed => BoxIsBacked
  <2> SUFFICES ASSUME Undisturbed, sh.approval # None, deaths = 0, NEW t, t = sh.approval.task
               PROVE  \/ entry[t] # None /\ entry[t].state = "expired"
                      \/ entry[t] # None /\ entry[t].state = "offered" /\ entry[t].round = sh.approval.round
                      \/ \E i \in DOMAIN outPipe : /\ outPipe[i].task = t
                                                   /\ outPipe[i].event \in {"complete", "bad"}
    BY DEF BoxIsBacked
  <2>1. /\ Expects(sh.approval, {"offered"})
        /\ entry[t] = None => EndIsAfter(t, 0)
    BY DEF Undisturbed, Agrees, BoxAgrees
  <2> QED
    BY <2>1 DEF Expects, Live, EndIsAfter, Ends
<1> QED
  BY <1>1, UndisturbedKept, PTL

\* What the daemon is told of a command, that it was approved, edited, rejected or has
\* run, is about the command it offered last, and the end comes after the decision.
THEOREM AckExpected ==
  Spec => []AckIsExpected
<1>1. Dialogue /\ Undisturbed => AckIsExpected
  <2> SUFFICES ASSUME Dialogue, Undisturbed, inbox # <<>>, deaths = 0, NEW m, m = Head(inbox),
                      m.op \in {"approved", "edited", "rejected", "ack"},
                      entry[m.task] # None, entry[m.task].state # "expired"
               PROVE  /\ entry[m.task].round = m.round
                      /\ entry[m.task].state =
                           IF m.op = "ack" /\ entry[m.task].gate THEN "decided" ELSE "offered"
    BY DEF AckIsExpected
  <2>1. AdapterTypeOK
    BY DEF Dialogue
  <2>2. 1 \in DOMAIN Queue /\ Queue[1] = m
    <3>1. 1 \in DOMAIN inbox /\ inbox[1] = m
      BY <2>1, TailEffect DEF AdapterTypeOK
    <3> QED
      BY <2>1, <3>1, QueueTyped
  <2>3. Live(m.task)
    BY DEF Live
  <2>4. ~DecisionIn(m.task, 1 - 1)
    <3>1. \A j \in DOMAIN Queue : j \in Nat \ {0}
      BY <2>1, QueueTyped
    <3>2. \A j \in DOMAIN Queue : ~(j <= 1 - 1)
      BY <3>1
    <3> QED
      BY <3>2 DEF DecisionIn
  <2>5. CASE Decides(m)
    BY <2>2, <2>3, <2>5 DEF Undisturbed, Agrees, MessagesAgree, Expects, Decides
  <2>6. CASE m.op = "ack"
    BY <2>2, <2>3, <2>4, <2>6 DEF Undisturbed, Agrees, MessagesAgree, Expects, Settled
  <2> QED
    BY <2>5, <2>6 DEF Decides
<1> QED
  BY <1>1, DialogueKept, UndisturbedKept, PTL
=============================================================================
