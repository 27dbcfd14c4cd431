-------------------------- MODULE TaskTable_proofs --------------------------
(***************************************************************************)
(* The task table keeps up with its clients, for all sets of tasks and     *)
(* shells, all modes and all bounds: a client's open task is in the table, *)
(* a task acknowledges no more than max_tool_rounds commands, what a       *)
(* closed connection leaves behind the sweeper is about to drop, what a    *)
(* client is told keeps to TaskProtocol, and an approval of all that       *)
(* outlives its task is honoured in the next one.                          *)
(*                                                                         *)
(* Each of these relates the table to what a client was last told, and it  *)
(* holds because a client that waits has exactly one request under way:    *)
(* unread, or with the handler, which then knows the task's entry.         *)
(* TableInv says so, label by label.  ConvInv adds what becomes of the     *)
(* conversations, DialogueInv the order of the requests in a line,         *)
(* HonourInv where the approvals of a shell are kept.                      *)
(***************************************************************************)
EXTENDS TaskLifecycle_proofs

\* The handler of t's shell is at one of the labels, with t.
Doing(t, labels) == pc[ShellOf[t]] \in labels /\ cur[ShellOf[t]].task = t
Kind(t) == cur[ShellOf[t]].kind

(***************************************************************************)
(* The line to the daemon.  A demand is a request that is answered with    *)
(* something the client waits for; from its sending to its answer the      *)
(* client says it waits, unless it gave up, so there is one at a time.     *)
(***************************************************************************)
Demands == {"start", "clarification", "ack", "explained"}
Orchestrated ==
  {"orchestrate", "seed", "stream", "surface", "handled", "unhandled"}
BeforeAnswer == Busy \ {"handled", "failed"}

Answering(t) == Doing(t, BeforeAnswer) /\ Kind(t) \in Demands
Asked(t, i) ==
  LET queue == inbox[ShellOf[t]] IN
  i \in 1 .. Len(queue) /\ queue[i].task = t /\ queue[i].kind \in Demands
Pending(t) == \E i \in Nat : Asked(t, i)
PendingKind(t, kind) ==
  \E i \in Nat : Asked(t, i) /\ inbox[ShellOf[t]][i].kind = kind
Alone(t) == \A i, j \in Nat : Asked(t, i) /\ Asked(t, j) => i = j

LineOK(t) ==
  /\ Answering(t) => view[t] \in {"waiting", "done"} /\ ~Pending(t)
  /\ Pending(t) => view[t] \in {"waiting", "done"}
  /\ Alone(t)

(***************************************************************************)
(* OpenTaskIsKnown holds at every step, not only at rest; and a            *)
(* clarification finds its entry until it has been answered.               *)
(***************************************************************************)
Open == Proposed \cup {"asked", "running"}
AfterClarified == Orchestrated \ {"handled"}

KnownOK(t) ==
  t \notin everExpired =>
    /\ view[t] \in Open => tasks[t] # Absent
    /\ Doing(t, {"decide"}) /\ Kind(t) = "clarification" =>
         /\ tasks[t] # Absent
         /\ snap[ShellOf[t]].awaiting => tasks[t].awaiting
    /\ Doing(t, AfterClarified) /\ Kind(t) = "clarification" =>
         tasks[t] # Absent /\ tasks[t].awaiting

(***************************************************************************)
(* Rounds.  The entry that the next Ack will find has counted the Acks so  *)
(* far.  An entry that the model's question put there has not; but at the  *)
(* end of an Ack the handler corrects it, and at the end of a              *)
(* clarification it turns off awaiting, so that no Ack can follow.         *)
(***************************************************************************)
Spendable(t) ==
  \/ view[t] \in Proposed \cup {"running"}
  \/ PendingKind(t, "ack")
  \/ Doing(t, {"timed", "lookup"}) /\ Kind(t) = "ack"
Unsettled(t) ==
  \/ Doing(t, {"failed"})
  \/ /\ Doing(t, {"handled"})
     /\ Kind(t) = "ack" \/ (Kind(t) = "clarification" /\ tasks[t].awaiting)
Unstarted(t) ==
  view[t] = "new" \/ PendingKind(t, "start") \/ (Answering(t) /\ Kind(t) = "start")

Spent(t, round) == runs[t] <= round /\ runs[t] < MaxToolRounds
RoundsOK(t) ==
  /\ runs[t] <= MaxToolRounds
  /\ Unstarted(t) => runs[t] = 0
  /\ t \notin everExpired =>
       /\ tasks[t] # Absent /\ ~Unsettled(t) /\ (tasks[t].awaiting \/ Spendable(t))
          => Spent(t, tasks[t].round)
       /\ tasks[t] # Absent /\ tasks[t].awaiting /\ Doing(t, {"handled"})
          /\ Kind(t) = "clarification" => ~Spendable(t)
       /\ Doing(t, {"surface"}) /\ Kind(t) = "clarification"
          => Spent(t, prior[ShellOf[t]].round)
       /\ Doing(t, AfterLookup) /\ Kind(t) = "ack" => runs[t] <= NextRound(ShellOf[t])

\* A closed connection has taken its tasks along.
ClosedOK(t) == pc[ShellOf[t]] = "closed" => tasks[t] = Absent

TaskOK(t) == LineOK(t) /\ KnownOK(t) /\ RoundsOK(t) /\ ClosedOK(t)

(***************************************************************************)
(* Shells.  Only demands are orchestrated; a client that has gone waits    *)
(* for nothing; a refusal with a reason keeps the mutex, so that its own   *)
(* orchestration never gets past it.                                       *)
(***************************************************************************)
KindsOK == \A s \in Shell : pc[s] \in Orchestrated => cur[s].kind \in Demands
GoneOK ==
  /\ \A t \in Task : ~connected[ShellOf[t]] => view[t] = "done"
  /\ \A s \in Shell : pc[s] \in {"failed", "closing", "closed", "dropped"} => ~connected[s]
ReasonOK ==
  \A s \in Shell : pc[s] \in Busy /\ cur[s].kind = "explained" =>
    /\ pc[s] \notin {"stream", "surface"}
    /\ pc[s] \in Orchestrated => convLock = s

ShellsOK == KindsOK /\ GoneOK /\ ReasonOK
TableInv == ShellsOK /\ \A t \in Task : TaskOK(t)

\* What is known before a step, and what the lemmas of the types give after it.
Known == TypeInv /\ ApprovalInv /\ TableInv
-----------------------------------------------------------------------------
(* A handler that is at a task: what its step leaves alone *)

HandlerStep(s) ==
  /\ \A u \in Shell \ {s} :
       pc'[u] = pc[u] /\ cur'[u] = cur[u] /\ snap'[u] = snap[u] /\ prior'[u] = prior[u]
  /\ \A t \in Task \ {OnTask(s)} :
       tasks'[t] = tasks[t] /\ view'[t] = view[t] /\ runs'[t] = runs[t]
  /\ UNCHANGED <<inbox, connected, everExpired>>
  /\ pc'[s] \in Busy => cur'[s].task = OnTask(s)
  /\ pc'[s] \in Busy \cup {Idle, "closing"}

LEMMA GotoStep ==
  ASSUME StacksOK, NEW s \in Shell, NEW label \in Busy \cup {Idle, "closing"},
         pc[s] \in Busy, Goto(s, label), Keep
  PROVE  /\ pc'[s] = label /\ cur'[s] = cur[s] /\ snap'[s] = snap[s] /\ prior'[s] = prior[s]
         /\ \A u \in Shell \ {s} : /\ pc'[u] = pc[u] /\ cur'[u] = cur[u]
                                   /\ snap'[u] = snap[u] /\ prior'[u] = prior[u]
  BY DEF StacksOK, Goto, Keep

LEMMA ReturnStep ==
  ASSUME StacksOK, NEW s \in Shell, Return(s)
  PROVE  /\ pc'[s] = Idle
         /\ \A u \in Shell \ {s} : /\ pc'[u] = pc[u] /\ cur'[u] = cur[u]
                                   /\ snap'[u] = snap[u] /\ prior'[u] = prior[u]
  BY DEF StacksOK, Goto, Return

\* A reply: the handler goes on to the label, or fails if the client has gone.
LEMMA SendThenStep ==
  ASSUME StacksOK, ViewOK, NEW s \in Shell, NEW v, NEW label \in Busy,
         pc[s] \in Busy, SendThen(s, v, label)
  PROVE  /\ pc'[s] = IF connected[s] THEN label ELSE "failed"
         /\ cur'[s] = cur[s] /\ snap'[s] = snap[s] /\ prior'[s] = prior[s]
         /\ \A u \in Shell \ {s} : /\ pc'[u] = pc[u] /\ cur'[u] = cur[u]
                                   /\ snap'[u] = snap[u] /\ prior'[u] = prior[u]
         /\ \A t \in Task : view'[t] = IF t = OnTask(s) /\ connected[s] /\ view[t] # "done"
                                       THEN v ELSE view[t]
<1>1. "failed" \in Busy
  BY DEF Busy, PC, Idle
<1>2. /\ Sends(s, v) /\ Keep
      /\ Goto(s, IF connected[s] THEN label ELSE "failed")
  BY DEF SendThen
<1>3. \A t \in Task : view'[t] = IF t = OnTask(s) /\ connected[s] /\ view[t] # "done"
                                 THEN v ELSE view[t]
  BY <1>2 DEF Sends, Told, ViewOK
<1>4. (IF connected[s] THEN label ELSE "failed") \in Busy \cup {Idle, "closing"}
  BY <1>1
<1>5. QED BY <1>2, <1>3, <1>4, GotoStep

LEMMA SendAndReturnStep ==
  ASSUME StacksOK, ViewOK, NEW s \in Shell, NEW v, pc[s] \in Busy, SendAndReturn(s, v)
  PROVE  /\ pc'[s] = IF connected[s] THEN Idle ELSE "failed"
         /\ ~connected[s] => cur'[s] = cur[s] /\ snap'[s] = snap[s] /\ prior'[s] = prior[s]
         /\ \A u \in Shell \ {s} : /\ pc'[u] = pc[u] /\ cur'[u] = cur[u]
                                   /\ snap'[u] = snap[u] /\ prior'[u] = prior[u]
         /\ \A t \in Task : view'[t] = IF t = OnTask(s) /\ connected[s] /\ view[t] # "done"
                                       THEN v ELSE view[t]
<1>1. "failed" \in Busy
  BY DEF Busy, PC, Idle
<1>2. \A t \in Task : view'[t] = IF t = OnTask(s) /\ connected[s] /\ view[t] # "done"
                                 THEN v ELSE view[t]
  BY DEF SendAndReturn, Sends, Told, ViewOK
<1>3. CASE connected[s]
  BY <1>2, <1>3, ReturnStep DEF SendAndReturn
<1>4. CASE ~connected[s]
  BY <1>1, <1>2, <1>4, GotoStep DEF SendAndReturn
<1>5. QED BY <1>3, <1>4

\* The tasks that the handler is not at keep what is known of them.
LEMMA OthersKept ==
  ASSUME TypeInv, OwnerOK, NEW s \in Shell, pc[s] \in Busy, HandlerStep(s),
         NEW t \in Task, t # OnTask(s), TaskOK(t)
  PROVE  TaskOK(t)'
<1>1. ShellOf[t] \in Shell
  BY ConfigAssumption
<1>2. /\ tasks'[t] = tasks[t] /\ view'[t] = view[t] /\ runs'[t] = runs[t]
      /\ inbox' = inbox /\ everExpired' = everExpired
  BY DEF HandlerStep
<1>3. /\ Pending(t)' <=> Pending(t)
      /\ Alone(t)' <=> Alone(t)
      /\ \A kind : PendingKind(t, kind)' <=> PendingKind(t, kind)
  BY <1>2 DEF Pending, Alone, PendingKind, Asked
<1>4. CASE ShellOf[t] = s
  <2>1. pc[s] \in Busy /\ cur[s].task # t
    BY DEF OnTask
  <2>2. pc'[s] \in Busy => cur'[s].task # t
    BY DEF HandlerStep
  <2>3. \A labels : labels \subseteq Busy => ~Doing(t, labels) /\ ~Doing(t, labels)'
    BY <1>4, <2>1, <2>2 DEF Doing
  <2>4. /\ BeforeAnswer \subseteq Busy /\ AfterClarified \subseteq Busy
        /\ AfterLookup \subseteq Busy /\ {"decide"} \subseteq Busy
        /\ {"failed"} \subseteq Busy /\ {"handled"} \subseteq Busy
        /\ {"timed", "lookup"} \subseteq Busy /\ {"surface"} \subseteq Busy
    BY DEF Busy, PC, Idle, BeforeAnswer, AfterClarified, Orchestrated, AfterLookup
  <2>5. pc[s] # "closed" /\ pc'[s] # "closed"
    BY DEF HandlerStep, Busy, PC, Idle
  <2>6. LineOK(t)'
    BY <1>2, <1>3, <2>3, <2>4 DEF TaskOK, LineOK, Answering
  <2>7. KnownOK(t)'
    BY <1>2, <2>3, <2>4 DEF TaskOK, KnownOK
  <2>8. RoundsOK(t)'
    BY <1>2, <1>3, <2>3, <2>4
    DEF TaskOK, RoundsOK, Unstarted, Spendable, Unsettled, Answering, Spent
  <2>9. ClosedOK(t)'
    BY <1>4, <2>5 DEF ClosedOK
  <2>10. QED BY <2>6, <2>7, <2>8, <2>9 DEF TaskOK
<1>5. CASE ShellOf[t] # s
  <2>1. LET u == ShellOf[t] IN
        /\ pc'[u] = pc[u] /\ cur'[u] = cur[u]
        /\ snap'[u] = snap[u] /\ prior'[u] = prior[u]
    BY <1>1, <1>5 DEF HandlerStep
  <2>2. QED
    BY <1>2, <1>3, <2>1
    DEF TaskOK, LineOK, KnownOK, RoundsOK, ClosedOK, Unstarted, Spendable, Unsettled,
        Answering, Spent, Doing, Kind, NextRound
<1>6. QED BY <1>4, <1>5
-----------------------------------------------------------------------------
(* The handler's own task *)

LEMMA OwnFacts ==
  ASSUME Known, NEW s \in Shell, pc[s] \in Busy
  PROVE  LET t == OnTask(s) IN
         /\ t \in Task /\ ShellOf[t] = s
         /\ cur[s] \in Message /\ cur[s].task = t /\ cur[s].kind \in Decisions \cup {"start", "ack"}
         /\ tasks[t] \in Entry \cup {Absent} /\ view[t] \in View /\ runs[t] \in Nat
         /\ prior[s] \in Prior /\ pc[s] \in PC /\ connected[s] \in BOOLEAN
         /\ TaskOK(t)
         /\ ~connected[s] => view[t] = "done"
<1>1. cur[s] \in Message /\ OnTask(s) \in Task
  BY OnTaskType DEF Known, TypeInv
<1>2. ShellOf[OnTask(s)] = s
  BY DEF Known, ApprovalInv, OwnerOK, OnTask
<1>3. QED
  BY <1>1, <1>2
  DEF Known, TypeInv, TablesOK, ViewOK, HistoryOK, InboxOK, StacksOK, Message, OnTask,
      TableInv, ShellsOK, GoneOK

LEMMA LineKept ==
  ASSUME NEW t, UNCHANGED inbox
  PROVE  /\ Pending(t)' <=> Pending(t)
         /\ Alone(t)' <=> Alone(t)
         /\ PendingKind(t, "ack")' <=> PendingKind(t, "ack")
         /\ PendingKind(t, "start")' <=> PendingKind(t, "start")
  BY DEF Pending, Alone, PendingKind, Asked

LEMMA PendingOfKind ==
  ASSUME NEW t, NEW kind, ~Pending(t) PROVE ~PendingKind(t, kind)
  BY DEF Pending, PendingKind


\* The handler has done with the task, but for the failure of its client.
LEMMA RestsOK ==
  ASSUME Known, NEW s \in Shell, NEW t, t = OnTask(s), pc[s] \in Busy,
         pc'[s] \in {Idle, "failed", "closing"},
         UNCHANGED <<inbox, everExpired>>, runs'[t] = runs[t],
         view'[t] \in {view[t], "done"} \/ (Answering(t) /\ view'[t] = "asked"),
         t \notin everExpired /\ view'[t] \in Open => tasks'[t] # Absent,
         t \notin everExpired /\ tasks'[t] # Absent /\ (tasks'[t].awaiting \/ Spendable(t))
           => Spent(t, tasks'[t].round)
  PROVE  TaskOK(t)'
<1>1. /\ t \in Task /\ ShellOf[t] = s /\ TaskOK(t) /\ view[t] \in View
  BY OwnFacts
<1>2. /\ \A labels : labels \subseteq BeforeAnswer \cup {"handled"} => ~Doing(t, labels)'
      /\ ~Answering(t)' /\ pc'[s] # "closed"
  BY <1>1 DEF Doing, Answering, BeforeAnswer, Busy, PC, Idle
<1>3. /\ {"decide"} \subseteq BeforeAnswer /\ {"timed", "lookup"} \subseteq BeforeAnswer
      /\ {"surface"} \subseteq BeforeAnswer /\ AfterClarified \subseteq BeforeAnswer
      /\ AfterLookup \subseteq BeforeAnswer \cup {"handled"}
  BY DEF BeforeAnswer, Busy, PC, Idle, AfterClarified, Orchestrated, AfterLookup
<1>4. LineOK(t)'
  BY <1>1, <1>2, LineKept DEF TaskOK, LineOK
<1>5. KnownOK(t)'
  BY <1>2, <1>3 DEF KnownOK
<1>6. Unstarted(t)' => Unstarted(t)
  BY <1>2, LineKept DEF Unstarted
<1>7. Spendable(t)' => Spendable(t)
  BY <1>2, <1>3, LineKept DEF Spendable, Proposed
<1>8. RoundsOK(t)'
  BY <1>1, <1>2, <1>3, <1>6, <1>7 DEF TaskOK, RoundsOK, Spent
<1>9. ClosedOK(t)'
  BY <1>1, <1>2 DEF ClosedOK
<1>10. QED BY <1>4, <1>5, <1>8, <1>9 DEF TaskOK

\* The handler goes on, and nobody notices.
LEMMA MovesOK ==
  ASSUME Known, NEW s \in Shell, NEW t, t = OnTask(s),
         pc[s] \in BeforeAnswer, pc'[s] \in BeforeAnswer \ {"decide"}, cur'[s] = cur[s],
         snap'[s] = snap[s],
         UNCHANGED <<inbox, everExpired>>, runs'[t] = runs[t],
         tasks'[t] = tasks[t], view'[t] = view[t],
         pc'[s] = "lookup" => pc[s] = "timed",
         pc'[s] # "timed" /\ pc'[s] # "start",
         pc'[s] \in AfterLookup =>
           \/ pc[s] \in AfterClarified \/ cur[s].kind = "start"
           \/ pc[s] = "decide" /\ (cur[s].kind = "clarification" => snap[s].awaiting),
         pc'[s] = "surface" /\ cur[s].kind = "clarification" /\ t \notin everExpired
           => Spent(t, prior'[s].round)
  PROVE  TaskOK(t)'
<1>1. pc[s] \in Busy
  BY DEF BeforeAnswer
<1>2. /\ t \in Task /\ ShellOf[t] = s /\ TaskOK(t) /\ cur[s].task = t
  BY <1>1, OwnFacts
<1>3. Answering(t)' <=> Answering(t)
  BY <1>2 DEF Answering, Doing, Kind
<1>4. LineOK(t)'
  BY <1>2, <1>3, LineKept DEF TaskOK, LineOK
<1>5. KnownOK(t)'
  <2>1. pc[s] = "decide" => Doing(t, {"decide"})
    BY <1>2 DEF Doing
  <2>2. pc[s] \in AfterClarified => Doing(t, AfterClarified)
    BY <1>2 DEF Doing
  <2>3. ~Doing(t, {"decide"})'
    BY <1>2 DEF Doing
  <2>4. Doing(t, AfterClarified)' => pc'[s] \in AfterLookup
    BY <1>2 DEF Doing, AfterClarified, Orchestrated, AfterLookup
  <2>5. Kind(t)' = Kind(t) /\ Kind(t) = cur[s].kind
    BY <1>2 DEF Kind
  <2>6. QED
    BY <1>2, <2>1, <2>2, <2>3, <2>4, <2>5 DEF TaskOK, KnownOK
<1>6. Unstarted(t)' <=> Unstarted(t)
  BY <1>2, <1>3, LineKept DEF Unstarted, Kind
<1>7. Spendable(t)' => Spendable(t)
  BY <1>2, LineKept DEF Spendable, Doing, Kind
<1>8. ~Unsettled(t) /\ ~Doing(t, {"handled"})'
  BY <1>2 DEF Unsettled, Doing, BeforeAnswer
<1>9. RoundsOK(t)'
  <2>1. t \notin everExpired /\ Doing(t, {"surface"})' /\ Kind(t)' = "clarification"
        => Spent(t, prior'[s].round)
    BY <1>2 DEF Doing, Kind
  <2>2. Doing(t, AfterLookup)' /\ Kind(t)' = "ack" => Doing(t, AfterLookup) /\ Kind(t) = "ack"
    BY <1>2 DEF Doing, Kind, AfterLookup, AfterClarified, Orchestrated
  <2>3. NextRound(s)' = NextRound(s)
    BY DEF NextRound
  <2>4. QED
    BY <1>2, <1>6, <1>7, <1>8, <2>1, <2>2, <2>3 DEF TaskOK, RoundsOK, Spent
<1>10. ClosedOK(t)'
  BY <1>2 DEF ClosedOK, BeforeAnswer, Busy
<1>11. QED BY <1>4, <1>5, <1>9, <1>10 DEF TaskOK

\* A demand has been answered; what follows is up to its kind.
LEMMA AnsweredOK ==
  ASSUME Known, NEW s \in Shell, NEW t, t = OnTask(s),
         pc[s] \in AfterClarified, pc'[s] \in {"handled", "failed"}, cur'[s] = cur[s],
         snap'[s] = snap[s],
         UNCHANGED <<inbox, everExpired>>, runs'[t] = runs[t],
         tasks'[t] \in Entry \cup {Absent}, view'[t] # "new",
         t \notin everExpired /\ view'[t] \in Open => tasks'[t] # Absent,
         t \notin everExpired /\ tasks'[t] # Absent /\ tasks'[t].awaiting
           => view'[t] \notin Proposed \cup {"running"},
         t \notin everExpired /\ tasks'[t] # Absent
           /\ (cur[s].kind = "explained"
               \/ (cur[s].kind = "clarification" /\ ~tasks'[t].awaiting))
           /\ (tasks'[t].awaiting \/ view'[t] \in Proposed \cup {"running"})
           => Spent(t, tasks'[t].round)
  PROVE  TaskOK(t)'
<1>1. pc[s] \in Busy /\ pc[s] \in BeforeAnswer /\ pc[s] \in AfterLookup
  BY DEF AfterClarified, Orchestrated, BeforeAnswer, Busy, PC, Idle, AfterLookup
<1>2. /\ t \in Task /\ ShellOf[t] = s /\ TaskOK(t) /\ cur[s].task = t /\ runs[t] \in Nat
  BY <1>1, OwnFacts
<1>3. cur[s].kind \in Demands
  BY DEF Known, TableInv, ShellsOK, KindsOK, AfterClarified
<1>4. Answering(t) /\ ~Pending(t)
  BY <1>1, <1>2, <1>3 DEF Answering, Doing, Kind, TaskOK, LineOK
<1>5. ~Answering(t)' /\ Kind(t)' = cur[s].kind
  BY <1>2 DEF Answering, Doing, BeforeAnswer, Kind
<1>6. LineOK(t)'
  BY <1>2, <1>4, <1>5, LineKept DEF TaskOK, LineOK
<1>7. KnownOK(t)'
  BY <1>2 DEF KnownOK, Doing, AfterClarified, Orchestrated
<1>8. cur[s].kind = "start" => runs[t] = 0
  BY <1>2, <1>4 DEF TaskOK, RoundsOK, Unstarted, Kind
<1>9. ~Unstarted(t)'
  BY <1>4, <1>5, LineKept, PendingOfKind DEF Unstarted
<1>10. Spendable(t)' => view'[t] \in Proposed \cup {"running"}
  BY <1>2, <1>4, LineKept, PendingOfKind DEF Spendable, Doing
<1>11. tasks'[t] # Absent /\ cur[s].kind = "start" => Spent(t, tasks[t].round)'
  <2>1. tasks'[t] # Absent => tasks'[t].round \in Nat
    BY ConfigAssumption DEF Entry, Rounds
  <2>2. QED BY <1>8, <2>1, ConfigAssumption DEF Spent
<1>12. ~Unsettled(t)' =>
         /\ pc'[s] = "handled"
         /\ cur[s].kind = "start" \/ cur[s].kind = "explained"
            \/ (cur[s].kind = "clarification" /\ ~tasks'[t].awaiting)
  BY <1>2, <1>3, <1>5 DEF Unsettled, Doing, Demands
<1>13. t \notin everExpired /\ Kind(t)' = "ack" => runs[t] <= NextRound(s)
  BY <1>1, <1>2 DEF TaskOK, RoundsOK, Doing, Kind
<1>14. RoundsOK(t)'
  <2>1. runs'[t] <= MaxToolRounds
    BY <1>2 DEF TaskOK, RoundsOK
  <2>2. t \notin everExpired /\ tasks'[t] # Absent /\ ~Unsettled(t)'
          /\ (tasks'[t].awaiting \/ Spendable(t)') => Spent(t, tasks[t].round)'
    <3> SUFFICES ASSUME t \notin everExpired, tasks'[t] # Absent, ~Unsettled(t)',
                        tasks'[t].awaiting \/ Spendable(t)'
                 PROVE  Spent(t, tasks[t].round)'
      OBVIOUS
    <3>1. tasks'[t].awaiting \/ view'[t] \in Proposed \cup {"running"}
      BY <1>10
    <3>2. CASE cur[s].kind = "start"
      BY <1>11, <3>2
    <3>3. CASE cur[s].kind # "start"
      <4>1. Spent(t, tasks'[t].round)
        <5>1. CASE cur[s].kind = "explained"
          BY <3>1, <5>1
        <5>2. CASE cur[s].kind = "clarification" /\ ~tasks'[t].awaiting
          BY <3>1, <5>2
        <5>3. QED BY <1>12, <3>3, <5>1, <5>2
      <4>2. QED BY <4>1 DEF Spent
    <3>4. QED BY <3>2, <3>3
  <2>3. ~Doing(t, {"surface"})'
    BY <1>2 DEF Doing
  <2>4. NextRound(s)' = NextRound(s)
    BY DEF NextRound
  <2>5. QED
    BY <1>2, <1>9, <1>10, <1>13, <2>1, <2>2, <2>3, <2>4 DEF RoundsOK
<1>15. ClosedOK(t)'
  BY <1>2 DEF ClosedOK
<1>16. QED BY <1>6, <1>7, <1>14, <1>15 DEF TaskOK
-----------------------------------------------------------------------------
(* A whole step of a handler *)

\* The mutex stays with whoever has it, unless that is this handler or nobody.
LockKept(s) == convLock' = convLock \/ {convLock, convLock'} \subseteq {s, Nobody}

LEMMA ShellsStep ==
  ASSUME Known, NEW s \in Shell, pc[s] \in Busy, HandlerStep(s), LockKept(s),
         pc'[s] \in Orchestrated => cur'[s].kind \in Demands,
         pc'[s] \in {"failed", "closing"} => ~connected[s],
         ~connected[s] => view'[OnTask(s)] = view[OnTask(s)],
         pc'[s] \in Busy /\ cur'[s].kind = "explained" =>
           /\ pc'[s] \notin {"stream", "surface"}
           /\ pc'[s] \in Orchestrated => convLock' = s
  PROVE  ShellsOK'
<1>1. ShellOf[OnTask(s)] = s
  BY OwnFacts
<1>2. KindsOK'
  BY DEF Known, TableInv, ShellsOK, KindsOK, HandlerStep
<1>3. GoneOK'
  <2>1. ASSUME NEW t \in Task, ~connected'[ShellOf[t]] PROVE view'[t] = "done"
    <3>1. view[t] = "done"
      BY <2>1 DEF Known, TableInv, ShellsOK, GoneOK, HandlerStep
    <3>2. QED BY <1>1, <2>1, <3>1 DEF HandlerStep
  <2>2. ASSUME NEW u \in Shell, pc'[u] \in {"failed", "closing", "closed", "dropped"}
        PROVE  ~connected'[u]
    BY <2>2 DEF Known, TableInv, ShellsOK, GoneOK, HandlerStep, Busy, PC, Idle
  <2>3. QED BY <2>1, <2>2 DEF GoneOK
<1>4. ReasonOK'
  <2>1. ASSUME NEW u \in Shell, u # s, convLock = u PROVE convLock' = u
    BY <2>1, NoneAssumption DEF LockKept
  <2>2. QED
    BY <2>1 DEF Known, TableInv, ShellsOK, ReasonOK, HandlerStep
<1>5. QED BY <1>2, <1>3, <1>4 DEF ShellsOK

LEMMA StepOK ==
  ASSUME Known, NEW s \in Shell, NEW t, t = OnTask(s), pc[s] \in Busy, HandlerStep(s),
         ShellsOK', TaskOK(t)'
  PROVE  TableInv'
<1>1. ASSUME NEW u \in Task PROVE TaskOK(u)'
  <2>1. CASE u = t
    BY <2>1
  <2>2. CASE u # t
    BY <2>2, OthersKept DEF Known, TableInv, ApprovalInv
  <2>3. QED BY <2>1, <2>2
<1>2. QED BY <1>1 DEF TableInv

\* What a handler's step leaves alone in any case.
Beside(s) ==
  /\ \A t \in Task \ {OnTask(s)} : tasks'[t] = tasks[t] /\ runs'[t] = runs[t]
  /\ Unshared /\ everExpired' = everExpired

LEMMA ReplyAndReturnOK ==
  ASSUME Known, NEW s \in Shell, NEW v, NEW t, t = OnTask(s), pc[s] \in Busy,
         SendAndReturn(s, v), Beside(s), LockKept(s), TaskOK(t)'
  PROVE  TableInv'
<1>1. /\ pc'[s] = IF connected[s] THEN Idle ELSE "failed"
      /\ ~connected[s] => cur'[s] = cur[s]
      /\ \A u \in Shell \ {s} : /\ pc'[u] = pc[u] /\ cur'[u] = cur[u]
                                /\ snap'[u] = snap[u] /\ prior'[u] = prior[u]
      /\ \A r \in Task : view'[r] = IF r = OnTask(s) /\ connected[s] /\ view[r] # "done"
                                    THEN v ELSE view[r]
  BY SendAndReturnStep DEF Known, TypeInv
<1>2. HandlerStep(s)
  BY <1>1 DEF HandlerStep, Beside, Unshared, OnTask, Busy, Idle, PC
<1>3. OnTask(s) \in Task
  BY OwnFacts
<1>4. ShellsOK'
  BY <1>1, <1>2, <1>3, ShellsStep DEF Orchestrated, Busy, Idle, PC
<1>5. QED BY <1>2, <1>4, StepOK

LEMMA ReplyAndGoOnOK ==
  ASSUME Known, NEW s \in Shell, NEW v, NEW t, t = OnTask(s), pc[s] \in AfterClarified,
         SendThen(s, v, "handled"), Beside(s), convLock' = convLock, TaskOK(t)'
  PROVE  TableInv'
<1>1. pc[s] \in Busy /\ pc[s] \in Orchestrated /\ "handled" \in Busy
  BY DEF AfterClarified, Orchestrated, Busy, PC, Idle
<1>2. /\ pc'[s] = IF connected[s] THEN "handled" ELSE "failed"
      /\ cur'[s] = cur[s]
      /\ \A u \in Shell \ {s} : /\ pc'[u] = pc[u] /\ cur'[u] = cur[u]
                                /\ snap'[u] = snap[u] /\ prior'[u] = prior[u]
      /\ \A r \in Task : view'[r] = IF r = OnTask(s) /\ connected[s] /\ view[r] # "done"
                                    THEN v ELSE view[r]
  BY <1>1, SendThenStep DEF Known, TypeInv
<1>3. HandlerStep(s)
  BY <1>2 DEF HandlerStep, Beside, Unshared, OnTask, Busy, Idle, PC
<1>4. OnTask(s) \in Task
  BY <1>1, OwnFacts
<1>5. /\ cur[s].kind \in Demands
      /\ cur[s].kind = "explained" => convLock = s
  BY <1>1 DEF Known, TableInv, ShellsOK, KindsOK, ReasonOK
<1>6. ShellsOK'
  BY <1>1, <1>2, <1>3, <1>4, <1>5, ShellsStep DEF LockKept, Orchestrated
<1>7. QED BY <1>1, <1>3, <1>6, StepOK

LEMMA GoOnOK ==
  ASSUME Known, NEW s \in Shell, NEW label \in BeforeAnswer, pc[s] \in BeforeAnswer,
         Goto(s, label), UNCHANGED <<cur, snap, view, tasks, runs, inbox, connected, everExpired>>,
         \A u \in Shell \ {s} : prior'[u] = prior[u],
         LockKept(s), label \notin {"start", "timed", "decide"},
         label = "lookup" => pc[s] = "timed",
         label \in AfterLookup =>
           \/ pc[s] \in AfterClarified \/ cur[s].kind = "start"
           \/ pc[s] = "decide" /\ (cur[s].kind = "clarification" => snap[s].awaiting),
         label \in Orchestrated => cur[s].kind \in Demands,
         label = "surface" /\ cur[s].kind = "clarification" /\ OnTask(s) \notin everExpired
           => Spent(OnTask(s), prior'[s].round),
         cur[s].kind = "explained" =>
           /\ label \notin {"stream", "surface"}
           /\ label \in Orchestrated => convLock' = s
  PROVE  TableInv'
<1>1. pc[s] \in Busy /\ label \in Busy /\ label # "failed"
  BY DEF BeforeAnswer
<1>2. pc'[s] = label /\ \A u \in Shell \ {s} : pc'[u] = pc[u]
  BY DEF Goto, Known, TypeInv, StacksOK
<1>3. OnTask(s) \in Task
  BY <1>1, OwnFacts
<1>4. HandlerStep(s)
  BY <1>1, <1>2 DEF HandlerStep, OnTask
<1>5. ShellsOK'
  BY <1>1, <1>2, <1>4, ShellsStep DEF Busy
<1>6. PICK t \in Task : t = OnTask(s)
  BY <1>3
<1>7. TaskOK(t)'
  BY <1>1, <1>2, <1>6, MovesOK
<1>8. QED BY <1>1, <1>4, <1>5, <1>6, <1>7, StepOK
-----------------------------------------------------------------------------
(* Replies that end the task for its client, and those that do not *)

LEMMA UnsettledNot ==
  ASSUME Known, NEW s \in Shell, NEW t, t = OnTask(s), pc[s] \in BeforeAnswer
  PROVE  ~Unsettled(t)
<1>1. pc[s] \in Busy
  BY DEF BeforeAnswer
<1>2. ShellOf[t] = s
  BY <1>1, OwnFacts
<1>3. QED BY <1>2 DEF Unsettled, Doing, BeforeAnswer

LEMMA RepliesDone ==
  ASSUME Known, NEW s \in Shell, NEW t, t = OnTask(s), pc[s] \in BeforeAnswer,
         SendAndReturn(s, "done"), Beside(s), LockKept(s), runs'[t] = runs[t],
         tasks'[t] \in {tasks[t], Absent}
  PROVE  TableInv'
<1>1. pc[s] \in Busy
  BY DEF BeforeAnswer
<1>2. t \in Task /\ TaskOK(t) /\ (~connected[s] => view[t] = "done")
  BY <1>1, OwnFacts
<1>3. /\ pc'[s] \in {Idle, "failed"}
      /\ view'[t] = "done"
  BY <1>1, <1>2, SendAndReturnStep DEF Known, TypeInv
<1>4. t \notin everExpired /\ tasks'[t] # Absent /\ (tasks'[t].awaiting \/ Spendable(t))
        => Spent(t, tasks'[t].round)
  BY <1>2, UnsettledNot DEF TaskOK, RoundsOK
<1>5. TaskOK(t)'
  BY <1>1, <1>3, <1>4, RestsOK DEF Beside, Unshared, Open, Proposed
<1>6. QED BY <1>1, <1>5, ReplyAndReturnOK

LEMMA ReturnsOK ==
  ASSUME Known, NEW s \in Shell, NEW t, t = OnTask(s), pc[s] \in Busy,
         Acknowledged(s) \/ (Return(s) /\ UNCHANGED view), Beside(s), LockKept(s),
         TaskOK(t)'
  PROVE  TableInv'
<1>1. "failed" \in Busy
  BY DEF Busy, PC, Idle
<1>2. /\ pc'[s] = Idle \/ (pc'[s] = "failed" /\ ~connected[s] /\ cur'[s] = cur[s])
      /\ \A u \in Shell \ {s} : /\ pc'[u] = pc[u] /\ cur'[u] = cur[u]
                                /\ snap'[u] = snap[u] /\ prior'[u] = prior[u]
      /\ view' = view
  BY <1>1, ReturnStep, GotoStep DEF Acknowledged, Known, TypeInv
<1>3. HandlerStep(s)
  BY <1>2 DEF HandlerStep, Beside, Unshared, OnTask, Busy, Idle, PC
<1>4. ShellsOK'
  BY <1>2, <1>3, ShellsStep DEF Orchestrated, Busy, Idle, PC
<1>5. QED BY <1>3, <1>4, StepOK

\* The entry is amended, and no more awaits anything than before.
LEMMA AmendsOK ==
  ASSUME Known, NEW s \in Shell, NEW t, t = OnTask(s), pc[s] \in Busy,
         Acknowledged(s) \/ (Return(s) /\ UNCHANGED view), Beside(s), LockKept(s),
         runs'[t] = runs[t], ~Unsettled(t),
         tasks'[t] = Absent <=> tasks[t] = Absent,
         tasks[t] # Absent => /\ tasks'[t].round = tasks[t].round
                              /\ tasks'[t].awaiting => tasks[t].awaiting
  PROVE  TableInv'
<1>1. t \in Task /\ TaskOK(t)
  BY OwnFacts
<1>2. pc'[s] \in {Idle, "failed"} /\ view' = view
  BY DEF Acknowledged, Return, Goto, Known, TypeInv, StacksOK
<1>3. t \notin everExpired /\ tasks'[t] # Absent /\ (tasks'[t].awaiting \/ Spendable(t))
        => Spent(t, tasks'[t].round)
  BY <1>1 DEF TaskOK, RoundsOK
<1>4. t \notin everExpired /\ view'[t] \in Open => tasks'[t] # Absent
  BY <1>1, <1>2 DEF TaskOK, KnownOK
<1>5. TaskOK(t)'
  BY <1>1, <1>2, <1>3, <1>4, RestsOK DEF Beside, Unshared
<1>6. QED BY <1>5, ReturnsOK

\* Another question to the client that waits.
LEMMA AsksOK ==
  ASSUME Known, NEW s \in Shell, NEW t, t = OnTask(s), pc[s] \in BeforeAnswer,
         cur[s].kind \in Demands, SendAndReturn(s, "asked"), Beside(s), LockKept(s),
         runs'[t] = runs[t], t \notin everExpired => tasks'[t] # Absent,
         t \notin everExpired /\ tasks'[t] # Absent => Spent(t, tasks'[t].round)
  PROVE  TableInv'
<1>1. pc[s] \in Busy
  BY DEF BeforeAnswer
<1>2. /\ t \in Task /\ TaskOK(t) /\ ShellOf[t] = s /\ cur[s].task = t
  BY <1>1, OwnFacts
<1>3. /\ pc'[s] \in {Idle, "failed"}
      /\ view'[t] \in {view[t], "asked"}
  BY <1>1, <1>2, SendAndReturnStep DEF Known, TypeInv
<1>4. Answering(t)
  BY <1>2 DEF Answering, Doing, Kind
<1>5. TaskOK(t)'
  BY <1>1, <1>3, <1>4, RestsOK DEF Beside, Unshared
<1>6. QED BY <1>1, <1>5, ReplyAndReturnOK
-----------------------------------------------------------------------------
(* The actions *)

LEMMA AwaitingFields ==
  ASSUME NEW override \in BOOLEAN, NEW again \in BOOLEAN, NEW round \in Rounds
  PROVE  LET e == AwaitingEntry(override, again, round) IN
         e \in Entry /\ e # Absent /\ e.round = round /\ e.awaiting
<1>1. AwaitingEntry(override, again, round) \in Entry
  BY AwaitingType
<1>2. QED BY <1>1, NoneAssumption DEF AwaitingEntry

LEMMA StartingTable ==
  ASSUME Known, NEW s \in Shell, Starting(s)
  PROVE  TableInv'
<1>1. /\ pc[s] = "start" /\ pc[s] \in BeforeAnswer /\ pc[s] \in Busy
      /\ cur[s].kind = "start" /\ cur[s].kind \in Demands
  BY DEF Starting, StartAnswered, StartAmbiguous, StartOrchestration, At, Busy, PC, Idle,
         BeforeAnswer, Known, TypeInv, StacksOK, Ready, Demands
<1>2. PICK t \in Task : t = OnTask(s)
  BY <1>1, OwnFacts
<1>3. /\ runs[t] = 0
      /\ TaskOK(t)
  <2>1. TaskOK(t) /\ ShellOf[t] = s /\ cur[s].task = t
    BY <1>1, <1>2, OwnFacts
  <2>2. QED
    BY <1>1, <2>1 DEF TaskOK, RoundsOK, Unstarted, Answering, Doing, Kind
<1>4. CASE StartAnswered(s)
  BY <1>1, <1>2, <1>4, RepliesDone
  DEF StartAnswered, Beside, LockKept, daemonVars, historyVars
<1>5. CASE StartAmbiguous(s)
  <2>1. /\ tasks'[t] = AwaitingEntry(ShellOverride(s), FALSE, 0)
        /\ \A u \in Task \ {t} : tasks'[u] = tasks[u]
    BY <1>2, <1>5 DEF StartAmbiguous, AskedAtStart, Insert, Known, TypeInv, TablesOK
  <2>2. tasks'[t] # Absent /\ Spent(t, tasks'[t].round)
    <3>1. 0 \in Rounds
      BY ConfigAssumption DEF Rounds
    <3>2. PICK override \in BOOLEAN, again \in BOOLEAN :
            override = ShellOverride(s) /\ again = FALSE
      BY ShellOverrideType
    <3>3. tasks'[t] = AwaitingEntry(override, again, 0)
      BY <2>1, <3>2
    <3>4. tasks'[t] # Absent /\ tasks'[t].round = 0
      BY <3>1, <3>3, AwaitingFields
    <3>5. QED BY <1>3, <3>4, ConfigAssumption DEF Spent
  <2>3. QED
    <3>1. Beside(s) /\ LockKept(s) /\ SendAndReturn(s, "asked") /\ runs' = runs
      BY <1>2, <1>5, <2>1 DEF StartAmbiguous, AskedAtStart, Beside, LockKept, historyVars
    <3>2. QED BY <1>1, <1>2, <2>2, <3>1, AsksOK
<1>6. CASE StartOrchestration(s)
  BY <1>1, <1>6, GoOnOK
  DEF StartOrchestration, Keep, Unshared, LockKept, daemonVars, historyVars, BeforeAnswer,
      Busy, PC, Idle, AfterLookup
<1>7. QED BY <1>4, <1>5, <1>6 DEF Starting

\* What clear_task_state does to the table.
LEMMA ClearStep ==
  ASSUME TablesOK, NEW s \in Shell, NEW t \in Task, t = OnTask(s), ClearTaskState(s)
  PROVE  /\ tasks'[t] = Absent /\ \A u \in Task \ {t} : tasks'[u] = tasks[u]
         /\ convLock' = convLock
  BY DEF ClearTaskState, Remove, TablesOK

LEMMA LookingUpTable ==
  ASSUME Known, NEW s \in Shell, LookingUp(s)
  PROVE  TableInv'
<1>1. pc[s] \in {"timed", "lookup"} /\ pc[s] \in BeforeAnswer /\ pc[s] \in Busy
  BY DEF LookingUp, AnswerTimedOut, LookupUnknown, LookupStale, LookupFound, At, Busy, PC,
         Idle, BeforeAnswer
<1>2. PICK t \in Task : t = OnTask(s)
  BY <1>1, OwnFacts
<1>3. CASE AnswerTimedOut(s)
  <2>1. CASE t \in timedOut
    BY <1>1, <1>2, <1>3, <2>1, RepliesDone
    DEF AnswerTimedOut, Beside, LockKept, historyVars
  <2>2. CASE t \notin timedOut
    BY <1>1, <1>2, <1>3, <2>2, GoOnOK
    DEF AnswerTimedOut, At, Keep, Unshared, LockKept, historyVars, BeforeAnswer, Busy, PC,
        Idle, AfterLookup, Orchestrated
  <2>3. QED BY <2>1, <2>2
<1>4. CASE LookupUnknown(s)
  BY <1>1, <1>2, <1>4, RepliesDone
  DEF LookupUnknown, Beside, LockKept, daemonVars, historyVars
<1>5. CASE LookupStale(s)
  <2>1. /\ tasks'[t] = Absent /\ \A u \in Task \ {t} : tasks'[u] = tasks[u]
        /\ convLock' = convLock
    BY <1>2, <1>5, ClearStep DEF LookupStale, Remove, Known, TypeInv, TablesOK
  <2>2. QED
    BY <1>1, <1>2, <1>5, <2>1, RepliesDone DEF LookupStale, Beside, LockKept, historyVars
<1>6. CASE LookupFound(s)
  <2>1. /\ ShellOf[t] = s /\ cur[s].task = t /\ TaskOK(t) /\ tasks[t] \in Entry
        /\ runs[t] \in Nat /\ pc[s] = "lookup"
    BY <1>1, <1>2, <1>6, OwnFacts DEF LookupFound, At
  <2>2. /\ pc'[s] = "decide" /\ cur' = cur /\ view' = view /\ snap'[s] = tasks[t]
        /\ \A u \in Shell \ {s} : pc'[u] = pc[u] /\ snap'[u] = snap[u]
        /\ prior' = prior /\ inbox' = inbox /\ connected' = connected
        /\ everExpired' = everExpired /\ convLock' = convLock
    BY <1>2, <1>6 DEF LookupFound, Goto, Unshared, Known, TypeInv, StacksOK
  <2>3. /\ tasks'[t] = IF cur[s].kind = "ack" THEN Absent ELSE tasks[t]
        /\ \A u \in Task \ {t} : tasks'[u] = tasks[u]
        /\ runs'[t] = IF cur[s].kind = "ack" /\ t \notin everExpired
                      THEN runs[t] + 1 ELSE runs[t]
        /\ \A u \in Task \ {t} : runs'[u] = runs[u]
    BY <1>2, <1>6
    DEF LookupFound, Remove, Known, TypeInv, TablesOK, HistoryOK
  <2>4. HandlerStep(s)
    BY <1>2, <2>2, <2>3 DEF HandlerStep, OnTask, Busy, PC, Idle
  <2>5. ShellsOK'
    BY <1>1, <1>2, <2>2, <2>4, ShellsStep DEF LockKept, Orchestrated
  <2>6. TaskOK(t)'
    <3>1. tasks[t] # Absent /\ ~Unsettled(t) /\ tasks[t].round \in Nat
      BY <1>1, <1>2, <2>1, NoneAssumption, UnsettledNot, ConfigAssumption DEF Entry, Rounds
    <3>2. Answering(t)' <=> Answering(t)
      BY <2>1, <2>2 DEF Answering, Doing, Kind, BeforeAnswer, Busy, PC, Idle
    <3>3. LineOK(t)'
      BY <2>1, <2>2, <3>2, LineKept DEF TaskOK, LineOK
    <3>4. cur[s].kind = "ack" => /\ Answering(t) /\ ~Pending(t)
                                 /\ view[t] \in {"waiting", "done"}
      BY <1>1, <2>1 DEF TaskOK, LineOK, Answering, Doing, Kind, Demands
    <3>5. KnownOK(t)'
      BY <2>1, <2>2, <2>3, <3>1, <3>4
      DEF TaskOK, KnownOK, Doing, Kind, AfterClarified, Orchestrated, Open, Proposed
    <3>6. cur[s].kind = "ack" => Spendable(t)
      BY <2>1 DEF Spendable, Doing, Kind
    <3>7. cur[s].kind = "ack" /\ t \notin everExpired
          => runs[t] <= tasks[t].round /\ runs[t] < MaxToolRounds
      BY <2>1, <3>1, <3>6 DEF TaskOK, RoundsOK, Spent
    <3>8. runs'[t] <= MaxToolRounds
      BY <2>1, <2>3, <3>7, ConfigAssumption DEF TaskOK, RoundsOK
    <3>9. Unstarted(t)' => runs'[t] = 0
      <4>1. Unstarted(t)' <=> Unstarted(t)
        BY <2>1, <2>2, <3>2, LineKept DEF Unstarted, Kind
      <4>2. cur[s].kind = "ack" => ~Unstarted(t)
        BY <2>1, <3>4, PendingOfKind DEF Unstarted, Kind
      <4>3. QED BY <2>1, <2>3, <4>1, <4>2 DEF TaskOK, RoundsOK
    <3>10. t \notin everExpired' /\ tasks'[t] # Absent /\ (tasks'[t].awaiting \/ Spendable(t)')
           => Spent(t, tasks[t].round)'
      <4>1. SUFFICES ASSUME t \notin everExpired', tasks'[t] # Absent,
                            tasks'[t].awaiting \/ Spendable(t)'
                     PROVE  Spent(t, tasks[t].round)'
        OBVIOUS
      <4>2. cur[s].kind # "ack" /\ tasks'[t] = tasks[t] /\ runs'[t] = runs[t]
        BY <2>3, <4>1
      <4>3. Spendable(t)' => Spendable(t)
        BY <2>1, <2>2, LineKept DEF Spendable, Doing
      <4>4. QED BY <2>1, <2>2, <3>1, <4>1, <4>2, <4>3 DEF TaskOK, RoundsOK, Spent
    <3>11. cur[s].kind = "ack" /\ t \notin everExpired' => runs'[t] <= NextRound(s)'
      BY <2>1, <2>2, <2>3, <3>1, <3>7 DEF NextRound
    <3>12. /\ ~Doing(t, {"handled"})' /\ ~Doing(t, {"surface"})' /\ Kind(t)' = cur[s].kind
      BY <2>1, <2>2 DEF Doing, Kind
    <3>13. RoundsOK(t)'
      BY <2>1, <3>8, <3>9, <3>10, <3>11, <3>12 DEF RoundsOK
    <3>14. ClosedOK(t)'
      BY <2>1, <2>2 DEF ClosedOK
    <3>15. QED BY <3>3, <3>5, <3>13, <3>14 DEF TaskOK
  <2>7. QED BY <1>1, <1>2, <2>4, <2>5, <2>6, StepOK
<1>7. QED BY <1>3, <1>4, <1>5, <1>6 DEF LookingUp

LEMMA AmendStep ==
  ASSUME TablesOK, NEW t \in Task, NEW entry, tasks[t] # Absent => entry \in Entry,
         Amend(t, entry)
  PROVE  /\ tasks'[t] = IF tasks[t] = Absent THEN Absent ELSE entry
         /\ tasks'[t] = Absent <=> tasks[t] = Absent
         /\ \A u \in Task \ {t} : tasks'[u] = tasks[u]
  BY NoneAssumption DEF Amend, TablesOK

LEMMA DecidingTable ==
  ASSUME Known, NEW s \in Shell, Deciding(s)
  PROVE  TableInv'
<1>1. pc[s] = "decide" /\ pc[s] \in BeforeAnswer /\ pc[s] \in Busy
  BY DEF Deciding, Approve, ApproveAll, EditRefused, EditAccepted, Reject, RejectWithReason,
         Abort, NotAwaiting, ClarificationAmbiguous, Clarified, AckLast, AckContinue,
         Decides, At, Busy, PC, Idle, BeforeAnswer
<1>2. PICK t \in Task : t = OnTask(s)
  BY <1>1, OwnFacts
<1>3. /\ ShellOf[t] = s /\ cur[s].task = t /\ TaskOK(t) /\ tasks[t] \in Entry \cup {Absent}
      /\ runs[t] \in Nat /\ ~Unsettled(t)
  BY <1>1, <1>2, OwnFacts, UnsettledNot
<1>4. CASE Approve(s) \/ EditAccepted(s) \/ ApproveAll(s)
  <2>1. /\ tasks'[t] = Absent <=> tasks[t] = Absent
        /\ tasks[t] # Absent => tasks'[t].round = tasks[t].round /\ ~tasks'[t].awaiting
        /\ \A u \in Task \ {t} : tasks'[u] = tasks[u]
    <3>1. CASE Approve(s) \/ EditAccepted(s)
      <4>1. Amend(t, [tasks[t] EXCEPT !.awaiting = FALSE, !.stale = FALSE])
        BY <1>2, <3>1 DEF Approve, EditAccepted
      <4>2. tasks[t] # Absent =>
              LET e == [tasks[t] EXCEPT !.awaiting = FALSE, !.stale = FALSE] IN
              e \in Entry /\ e.round = tasks[t].round /\ ~e.awaiting
        BY <1>3 DEF Entry
      <4>3. QED BY <4>1, <4>2, AmendStep DEF Known, TypeInv
    <3>2. CASE ApproveAll(s)
      <4>1. Amend(t, [tasks[t] EXCEPT !.override = TRUE, !.awaiting = FALSE, !.stale = FALSE])
        BY <1>2, <3>2 DEF ApproveAll
      <4>2. tasks[t] # Absent =>
              LET e == [tasks[t] EXCEPT !.override = TRUE, !.awaiting = FALSE, !.stale = FALSE] IN
              e \in Entry /\ e.round = tasks[t].round /\ ~e.awaiting
        BY <1>3 DEF Entry
      <4>3. QED BY <4>1, <4>2, AmendStep DEF Known, TypeInv
    <3>3. QED BY <1>4, <3>1, <3>2
  <2>2. /\ Acknowledged(s) /\ Beside(s) /\ LockKept(s) /\ runs'[t] = runs[t]
    BY <1>2, <1>4, <2>1
    DEF Approve, EditAccepted, ApproveAll, Beside, LockKept, historyVars
  <2>3. QED BY <1>1, <1>2, <1>3, <2>1, <2>2, AmendsOK
<1>5. CASE EditRefused(s) \/ Reject(s) \/ Abort(s) \/ NotAwaiting(s)
  <2>1. /\ tasks'[t] \in {tasks[t], Absent} /\ \A u \in Task \ {t} : tasks'[u] = tasks[u]
        /\ convLock' = convLock
    BY <1>2, <1>5, ClearStep
    DEF EditRefused, Reject, Abort, NotAwaiting, daemonVars, Known, TypeInv
  <2>2. SendAndReturn(s, "done") /\ UNCHANGED historyVars /\ Unshared
    BY <1>5 DEF EditRefused, Reject, Abort, NotAwaiting
  <2>3. QED
    BY <1>1, <1>2, <2>1, <2>2, RepliesDone DEF Beside, LockKept, historyVars
<1>6. CASE RejectWithReason(s)
  BY <1>1, <1>2, <1>6, GoOnOK, NoneAssumption
  DEF RejectWithReason, Decides, ConversationsFree, Keep, Unshared, LockKept, historyVars,
      BeforeAnswer, Busy, PC, Idle, Demands
<1>7. CASE ClarificationAmbiguous(s)
  <2>1. cur[s].kind = "clarification" /\ snap[s].awaiting
    BY <1>7 DEF ClarificationAmbiguous, Decides
  <2>2. t \notin everExpired => tasks[t] # Absent /\ tasks[t].awaiting
    BY <1>1, <1>3, <2>1 DEF TaskOK, KnownOK, Doing, Kind
  <2>3. t \notin everExpired => Spent(t, tasks[t].round)
    BY <1>3, <2>2 DEF TaskOK, RoundsOK
  <2>4. /\ tasks[t] # Absent => tasks'[t] # Absent /\ tasks'[t].round = tasks[t].round
        /\ \A u \in Task \ {t} : tasks'[u] = tasks[u]
    BY <1>2, <1>3, <1>7, NoneAssumption
    DEF ClarificationAmbiguous, Reawait, Amend, Entry, Known, TypeInv, TablesOK
  <2>5. QED
    BY <1>1, <1>2, <1>7, <2>1, <2>2, <2>3, <2>4, AsksOK
    DEF ClarificationAmbiguous, Beside, LockKept, historyVars, Demands
<1>8. CASE Clarified(s)
  BY <1>1, <1>2, <1>8, GoOnOK
  DEF Clarified, Decides, Keep, Unshared, LockKept, daemonVars, historyVars,
      BeforeAnswer, Busy, PC, Idle, Demands
<1>9. CASE AckLast(s)
  BY <1>1, <1>2, <1>9, RepliesDone DEF AckLast, Beside, LockKept, historyVars
<1>10. CASE AckContinue(s)
  BY <1>1, <1>2, <1>10, GoOnOK
  DEF AckContinue, Decides, Keep, Unshared, LockKept, historyVars,
      BeforeAnswer, Busy, PC, Idle, Demands
<1>11. QED BY <1>4, <1>5, <1>6, <1>7, <1>8, <1>9, <1>10 DEF Deciding

\* Of an entry with a question, or of none, AnsweredOK asks little.
LEMMA AnswersOK ==
  ASSUME Known, NEW s \in Shell, NEW v, NEW t, t = OnTask(s), pc[s] \in AfterClarified,
         SendThen(s, v, "handled"), Beside(s), convLock' = convLock, runs'[t] = runs[t],
         tasks'[t] \in Entry \cup {Absent},
         \/ v = "done" /\ tasks'[t] \in {tasks[t], Absent}
         \/ /\ v = "asked" /\ tasks'[t] # Absent /\ tasks'[t].awaiting
            /\ cur[s].kind # "explained"
  PROVE  TableInv'
<1>1. pc[s] \in Busy /\ pc[s] \in BeforeAnswer /\ "handled" \in Busy
  BY DEF AfterClarified, Orchestrated, Busy, PC, Idle, BeforeAnswer
<1>2. /\ t \in Task /\ TaskOK(t) /\ (~connected[s] => view[t] = "done")
      /\ ShellOf[t] = s /\ cur[s].task = t
  BY <1>1, OwnFacts
<1>3. /\ pc'[s] \in {"handled", "failed"} /\ cur'[s] = cur[s] /\ snap'[s] = snap[s]
      /\ view'[t] = IF connected[s] /\ view[t] # "done" THEN v ELSE view[t]
  BY <1>1, <1>2, SendThenStep DEF Known, TypeInv
<1>4. view'[t] \in {v, "done"}
  BY <1>2, <1>3
<1>5. t \notin everExpired /\ tasks[t] # Absent /\ tasks[t].awaiting => Spent(t, tasks[t].round)
  BY <1>1, <1>2, UnsettledNot DEF TaskOK, RoundsOK
<1>6. TaskOK(t)'
  BY <1>3, <1>4, <1>5, AnsweredOK DEF Beside, Unshared, Open, Proposed
<1>7. QED BY <1>6, ReplyAndGoOnOK

LEMMA OrchestrationTable ==
  ASSUME Known, NEW s \in Shell, Orchestration(s)
  PROVE  TableInv'
<1>1. /\ pc[s] \in {"orchestrate", "seed", "stream", "surface"}
      /\ pc[s] \in BeforeAnswer /\ pc[s] \in Busy /\ pc[s] \in AfterClarified
      /\ pc[s] \in Orchestrated
  BY DEF Orchestration, DirectAnswer, NoTools, ExposeTools, SeedConversation, Complete,
         Clarify, GiveUp, Orchestrating, At, Busy, PC, Idle, BeforeAnswer, AfterClarified,
         Orchestrated
<1>2. PICK t \in Task : t = OnTask(s)
  BY <1>1, OwnFacts
<1>3. /\ TaskOK(t) /\ tasks[t] \in Entry \cup {Absent}
      /\ cur[s].kind \in Demands
      /\ cur[s].kind = "explained" => convLock = s /\ pc[s] \notin {"stream", "surface"}
  BY <1>1, <1>2, OwnFacts DEF Known, TableInv, ShellsOK, KindsOK, ReasonOK
<1>4. CASE DirectAnswer(s)
  BY <1>1, <1>2, <1>3, <1>4, AnswersOK
  DEF DirectAnswer, Beside, daemonVars, historyVars
<1>5. CASE NoTools(s) \/ ExposeTools(s)
  <2>1. CASE NoTools(s)
    BY <1>1, <1>2, <1>3, <2>1, GoOnOK
    DEF NoTools, Keep, Unshared, LockKept, daemonVars, historyVars, BeforeAnswer, Busy, PC, Idle
  <2>2. CASE ExposeTools(s)
    BY <1>1, <1>2, <1>3, <2>2, GoOnOK
    DEF ExposeTools, Keep, Unshared, LockKept, daemonVars, historyVars, BeforeAnswer, Busy, PC, Idle
  <2>3. QED BY <1>5, <2>1, <2>2
<1>6. CASE SeedConversation(s)
  <2>1. cur[s].kind # "explained"
    BY <1>3, <1>6, NoneAssumption DEF SeedConversation, ConversationsFree
  <2>2. QED
    BY <1>1, <1>2, <1>3, <1>6, <2>1, GoOnOK
    DEF SeedConversation, Keep, Unshared, LockKept, historyVars, BeforeAnswer, Busy, PC, Idle
<1>7. CASE Complete(s)
  BY <1>1, <1>2, <1>3, <1>7, AnswersOK DEF Complete, Beside, historyVars
<1>8. CASE Clarify(s)
  <2>1. cur[s].kind # "explained"
    BY <1>3, <1>8 DEF Clarify, Orchestrating
  <2>2. PICK round \in Rounds : Insert(t, AwaitingEntry(ShellOverride(s), TRUE, round))
    BY <1>2, <1>8 DEF Clarify
  <2>3. /\ tasks'[t] = AwaitingEntry(ShellOverride(s), TRUE, round)
        /\ \A u \in Task \ {t} : tasks'[u] = tasks[u]
    BY <1>2, <2>2 DEF Insert, Known, TypeInv, TablesOK
  <2>4. tasks'[t] \in Entry /\ tasks'[t] # Absent /\ tasks'[t].awaiting
    <3>1. PICK override \in BOOLEAN : override = ShellOverride(s)
      BY ShellOverrideType
    <3>2. tasks'[t] = AwaitingEntry(override, TRUE, round)
      BY <2>3, <3>1
    <3>3. QED BY <3>2, AwaitingFields
  <2>5. QED
    BY <1>1, <1>2, <1>8, <2>1, <2>3, <2>4, AnswersOK DEF Clarify, Beside, historyVars
<1>9. CASE GiveUp(s)
  <2>1. /\ pc[s] = "stream" /\ Goto(s, "unhandled")
        /\ UNCHANGED <<cur, snap, prior, view, tasks, runs, inbox, connected, everExpired>>
        /\ LockKept(s)
    BY <1>9 DEF GiveUp, At, Keep, Unshared, LockKept, historyVars
  <2>2. QED
    BY <1>1, <1>2, <1>3, <2>1, GoOnOK DEF BeforeAnswer, Busy, PC, Idle
<1>10. QED BY <1>4, <1>5, <1>6, <1>7, <1>8, <1>9 DEF Orchestration

LEMMA PlanningTable ==
  ASSUME Known, NEW s \in Shell, Planning(s)
  PROVE  TableInv'
<1>1. /\ pc[s] \in {"stream", "surface"}
      /\ pc[s] \in BeforeAnswer /\ pc[s] \in Busy /\ pc[s] \in AfterClarified
      /\ pc[s] \in Orchestrated
  BY DEF Planning, Propose, FallbackFailed, FloorRefused, Unvalidated, Surface,
         Orchestrating, At, Busy, PC, Idle, BeforeAnswer, AfterClarified, Orchestrated
<1>2. PICK t \in Task : t = OnTask(s)
  BY <1>1, OwnFacts
<1>3. /\ TaskOK(t) /\ tasks[t] \in Entry \cup {Absent} /\ ShellOf[t] = s /\ cur[s].task = t
      /\ prior[s] \in Prior /\ (~connected[s] => view[t] = "done")
      /\ cur[s].kind \in Demands /\ cur[s].kind # "explained" /\ ~Unsettled(t)
  BY <1>1, <1>2, OwnFacts, UnsettledNot DEF Known, TableInv, ShellsOK, KindsOK, ReasonOK
<1>4. prior[s].override \in BOOLEAN /\ prior[s].round \in Rounds
  BY <1>3 DEF Prior
<1>5. CASE Propose(s)
  <2>1. cur[s].kind = "clarification" /\ t \notin everExpired
        => tasks[t] # Absent /\ Spent(t, tasks[t].round)
    <3>1. cur[s].kind = "clarification" /\ t \notin everExpired
          => tasks[t] # Absent /\ tasks[t].awaiting
      BY <1>1, <1>3 DEF TaskOK, KnownOK, Doing, Kind
    <3>2. QED BY <1>3, <3>1 DEF TaskOK, RoundsOK
  <2>2. /\ tasks[t] # Absent => prior'[s].round = tasks[t].round
        /\ \A u \in Shell \ {s} : prior'[u] = prior[u]
    BY <1>2, <1>5 DEF Propose, Known, TypeInv, StacksOK
  <2>3. QED
    BY <1>1, <1>2, <1>3, <1>5, <2>1, <2>2, GoOnOK
    DEF Propose, Unshared, LockKept, daemonVars, historyVars, BeforeAnswer, Busy, PC, Idle
<1>6. CASE FallbackFailed(s)
  <2>1. pc[s] = "surface" /\ UNCHANGED handlerVars
    BY <1>6 DEF FallbackFailed, At
  <2>2. Goto(s, "surface")
    BY <2>1 DEF Goto, handlerVars, Known, TypeInv, StacksOK
  <2>3. cur[s].kind = "clarification" /\ t \notin everExpired => Spent(t, prior[s].round)
    BY <1>3, <2>1 DEF TaskOK, RoundsOK, Doing, Kind
  <2>4. QED
    BY <1>1, <1>2, <1>3, <1>6, <2>1, <2>2, <2>3, GoOnOK
    DEF FallbackFailed, Unshared, LockKept, handlerVars, historyVars, BeforeAnswer, Busy, PC, Idle
<1>7. CASE FloorRefused(s)
  <2>1. CASE AllowClarifications
    <3>1. Insert(t, AwaitingEntry(prior[s].override, TRUE, prior[s].round))
      BY <1>2, <1>7, <2>1 DEF FloorRefused
    <3>2. /\ tasks'[t] = AwaitingEntry(prior[s].override, TRUE, prior[s].round)
          /\ \A u \in Task \ {t} : tasks'[u] = tasks[u]
      BY <3>1 DEF Insert, Known, TypeInv, TablesOK
    <3>3. tasks'[t] \in Entry /\ tasks'[t] # Absent /\ tasks'[t].awaiting
      BY <1>4, <3>2, AwaitingFields
    <3>4. QED
      BY <1>1, <1>2, <1>3, <1>7, <2>1, <3>2, <3>3, AnswersOK
      DEF FloorRefused, Beside, historyVars
  <2>2. CASE ~AllowClarifications
    BY <1>1, <1>2, <1>3, <1>7, <2>2, ClearStep, AnswersOK
    DEF FloorRefused, Beside, historyVars, Known, TypeInv
  <2>3. QED BY <2>1, <2>2
<1>8. CASE Unvalidated(s)
  <2>1. CASE AllowClarifications
    <3>1. PICK again \in BOOLEAN :
            Insert(t, AwaitingEntry(prior[s].override, again, prior[s].round))
      BY <1>2, <1>8, <2>1 DEF Unvalidated
    <3>2. /\ tasks'[t] = AwaitingEntry(prior[s].override, again, prior[s].round)
          /\ \A u \in Task \ {t} : tasks'[u] = tasks[u]
      BY <3>1 DEF Insert, Known, TypeInv, TablesOK
    <3>3. tasks'[t] \in Entry /\ tasks'[t] # Absent /\ tasks'[t].awaiting
      BY <1>4, <3>1, <3>2, AwaitingFields
    <3>4. QED
      BY <1>1, <1>2, <1>3, <1>8, <2>1, <3>2, <3>3, AnswersOK
      DEF Unvalidated, Beside, historyVars
  <2>2. CASE ~AllowClarifications
    BY <1>1, <1>2, <1>3, <1>8, <2>2, AnswersOK
    DEF Unvalidated, Beside, historyVars
  <2>3. QED BY <2>1, <2>2
<1>9. CASE Surface(s)
  <2>1. PICK critical \in BOOLEAN, again \in BOOLEAN :
          /\ Insert(t, [override |-> prior[s].override, awaiting |-> FALSE,
                        continuation |-> again, round |-> prior[s].round, stale |-> FALSE])
          /\ SendThen(s, ProposalView(RequiresApproval(prior[s].override, critical), critical),
                      "handled")
    BY <1>2, <1>9 DEF Surface
  <2>2. /\ tasks'[t] = [override |-> prior[s].override, awaiting |-> FALSE,
                        continuation |-> again, round |-> prior[s].round, stale |-> FALSE]
        /\ \A u \in Task \ {t} : tasks'[u] = tasks[u]
    BY <2>1 DEF Insert, Known, TypeInv, TablesOK
  <2>3. /\ tasks'[t] \in Entry /\ tasks'[t] # Absent /\ ~tasks'[t].awaiting
        /\ tasks'[t].round = prior[s].round
    <3>1. tasks'[t] \in Entry
      BY <1>4, <2>2 DEF Entry
    <3>2. tasks'[t] # Absent
      BY <3>1, NoneAssumption
    <3>3. ~tasks'[t].awaiting /\ tasks'[t].round = prior[s].round
      BY <2>2
    <3>4. QED BY <3>1, <3>2, <3>3
  <2>4. pc[s] = "surface" /\ UNCHANGED historyVars /\ Unshared /\ convLock' = convLock
    BY <1>9 DEF Surface, At
  <2>5. cur[s].kind = "clarification" /\ t \notin everExpired => Spent(t, prior[s].round)
    BY <1>3, <2>4 DEF TaskOK, RoundsOK, Doing, Kind
  <2>6. "handled" \in Busy
    BY DEF Busy, PC, Idle
  <2>7. /\ pc'[s] \in {"handled", "failed"} /\ cur'[s] = cur[s] /\ snap'[s] = snap[s]
        /\ view'[t] \in Proposed \cup {"done"}
    BY <1>1, <1>2, <1>3, <2>1, <2>6, SendThenStep DEF Known, TypeInv, ProposalView, Proposed
  <2>8. TaskOK(t)'
    BY <1>1, <1>2, <1>3, <2>3, <2>4, <2>5, <2>7, AnsweredOK
    DEF Unshared, historyVars, Proposed
  <2>9. QED
    BY <1>1, <1>2, <2>1, <2>2, <2>4, <2>8, ReplyAndGoOnOK DEF Beside, historyVars
<1>10. QED BY <1>5, <1>6, <1>7, <1>8, <1>9 DEF Planning

LEMMA ReawaitStep ==
  ASSUME TablesOK, NEW s \in Shell, NEW t \in Task, t = OnTask(s), NEW awaiting \in BOOLEAN,
         Reawait(s, awaiting)
  PROVE  /\ tasks'[t] = Absent <=> tasks[t] = Absent
         /\ tasks[t] # Absent => tasks'[t].round = tasks[t].round /\ tasks'[t].awaiting = awaiting
         /\ \A u \in Task \ {t} : tasks'[u] = tasks[u]
<1> DEFINE e == [tasks[t] EXCEPT !.awaiting = awaiting, !.continuation = TRUE, !.stale = FALSE]
<1>1. tasks[t] # Absent => e \in Entry /\ e.round = tasks[t].round /\ e.awaiting = awaiting
  BY DEF TablesOK, Entry
<1>2. Amend(t, e)
  BY DEF Reawait
<1> HIDE DEF e
<1>3. QED BY <1>1, <1>2, AmendStep

LEMMA ConcludingTable ==
  ASSUME Known, NEW s \in Shell, Concluding(s)
  PROVE  TableInv'
<1>1. /\ pc[s] \in {"handled", "unhandled"} /\ pc[s] \in Busy /\ pc[s] \in Orchestrated
      /\ pc[s] \in AfterDecision
  BY DEF Concluding, StartHandled, StartUnhandled, ClarificationHandled,
         ClarificationUnhandled, RejectionHandled, RejectionUnhandled, AckHandled,
         AckUnhandled, After, At, Busy, PC, Idle, Orchestrated, AfterDecision, AfterLookup
<1>2. PICK t \in Task : t = OnTask(s)
  BY <1>1, OwnFacts
<1>3. /\ TaskOK(t) /\ tasks[t] \in Entry \cup {Absent} /\ ShellOf[t] = s /\ cur[s].task = t
      /\ cur[s] \in Message /\ runs[t] \in Nat /\ cur[s].kind \in Demands
      /\ cur[s].kind = "explained" => convLock = s
  BY <1>1, <1>2, OwnFacts DEF Known, TableInv, ShellsOK, KindsOK, ReasonOK
<1>4. pc[s] = "unhandled" => pc[s] \in BeforeAnswer
  BY DEF BeforeAnswer, Busy, PC, Idle
<1>5. CASE StartHandled(s)
  <2>1. ~Unsettled(t)
    BY <1>3, <1>5 DEF StartHandled, After, At, Unsettled, Doing, Kind
  <2>2. QED
    BY <1>1, <1>2, <1>5, <2>1, AmendsOK
    DEF StartHandled, Beside, LockKept, daemonVars, historyVars
<1>6. CASE StartUnhandled(s)
  <2>1. pc[s] = "unhandled" /\ cur[s].kind = "start"
    BY <1>6 DEF StartUnhandled, After, At
  <2>2. runs[t] = 0
    BY <1>1, <1>3, <1>4, <2>1 DEF TaskOK, RoundsOK, Unstarted, Answering, Doing, Kind, Demands
  <2>3. /\ tasks'[t] = AwaitingEntry(ShellOverride(s), TRUE, 0)
        /\ \A u \in Task \ {t} : tasks'[u] = tasks[u]
    BY <1>2, <1>6 DEF StartUnhandled, AskedAtStart, Insert, Known, TypeInv, TablesOK
  <2>4. tasks'[t] # Absent /\ Spent(t, tasks'[t].round)
    <3>1. 0 \in Rounds
      BY ConfigAssumption DEF Rounds
    <3>2. ShellOverride(s) \in BOOLEAN /\ TRUE \in BOOLEAN
      BY ShellOverrideType
    <3>3. LET e == AwaitingEntry(ShellOverride(s), TRUE, 0) IN e # Absent /\ e.round = 0
      BY <3>1, <3>2, AwaitingFields
    <3>4. tasks'[t] # Absent /\ tasks'[t].round = 0
      BY <2>3, <3>3
    <3>5. QED BY <2>2, <3>4, ConfigAssumption DEF Spent
  <2>5. QED
    BY <1>2, <1>3, <1>4, <1>6, <2>1, <2>3, <2>4, AsksOK
    DEF StartUnhandled, AskedAtStart, Beside, LockKept, historyVars
<1>7. CASE ClarificationHandled(s)
  <2>1. pc[s] = "handled" /\ cur[s].kind = "clarification"
    BY <1>7 DEF ClarificationHandled, After, At
  <2>2. /\ tasks'[t] = Absent <=> tasks[t] = Absent
        /\ tasks[t] # Absent => tasks'[t].round = tasks[t].round /\ ~tasks'[t].awaiting
        /\ \A u \in Task \ {t} : tasks'[u] = tasks[u]
    BY <1>2, <1>7, ReawaitStep DEF ClarificationHandled, Known, TypeInv
  <2>3. pc'[s] = Idle /\ Return(s) /\ view' = view /\ UNCHANGED historyVars /\ Unshared
        /\ convLock' = convLock
    BY <1>7 DEF ClarificationHandled, Return, Goto, Known, TypeInv, StacksOK
  <2>4. t \notin everExpired /\ tasks[t] # Absent /\ Spendable(t) => Spent(t, tasks[t].round)
    <3>1. Doing(t, {"handled"}) /\ Kind(t) = "clarification"
      BY <1>3, <2>1 DEF Doing, Kind
    <3>2. CASE tasks[t].awaiting
      BY <1>3, <3>1, <3>2 DEF TaskOK, RoundsOK
    <3>3. CASE ~tasks[t].awaiting
      BY <1>3, <2>1, <3>1, <3>3 DEF TaskOK, RoundsOK, Unsettled, Doing
    <3>4. QED BY <3>2, <3>3
  <2>5. t \notin everExpired /\ view'[t] \in Open => tasks'[t] # Absent
    BY <1>3, <2>2, <2>3 DEF TaskOK, KnownOK
  <2>6. TaskOK(t)'
    BY <1>1, <1>2, <2>2, <2>3, <2>4, <2>5, RestsOK DEF Unshared, historyVars
  <2>7. QED
    BY <1>1, <1>2, <2>2, <2>3, <2>6, ReturnsOK DEF Beside, LockKept, historyVars
<1>8. CASE ClarificationUnhandled(s)
  <2>1. pc[s] = "unhandled" /\ cur[s].kind = "clarification"
    BY <1>8 DEF ClarificationUnhandled, After, At
  <2>2. /\ tasks'[t] = Absent <=> tasks[t] = Absent
        /\ tasks[t] # Absent => tasks'[t].round = tasks[t].round
        /\ \A u \in Task \ {t} : tasks'[u] = tasks[u]
    BY <1>2, <1>8, ReawaitStep DEF ClarificationUnhandled, Known, TypeInv
  <2>3. t \notin everExpired => tasks[t] # Absent /\ tasks[t].awaiting
    BY <1>3, <2>1 DEF TaskOK, KnownOK, Doing, Kind, AfterClarified, Orchestrated
  <2>4. t \notin everExpired => Spent(t, tasks[t].round)
    BY <1>2, <1>3, <1>4, <2>1, <2>3, UnsettledNot DEF TaskOK, RoundsOK
  <2>5. QED
    BY <1>2, <1>3, <1>4, <1>8, <2>1, <2>2, <2>3, <2>4, AsksOK
    DEF ClarificationUnhandled, Beside, LockKept, historyVars
<1>9. CASE RejectionHandled(s)
  <2>1. ~Unsettled(t) /\ convLock = s /\ cur[s].kind = "explained"
    BY <1>3, <1>9 DEF RejectionHandled, After, At, Unsettled, Doing, Kind
  <2>2. /\ tasks'[t] = Absent <=> tasks[t] = Absent
        /\ tasks[t] # Absent => /\ tasks'[t].round = tasks[t].round
                                /\ tasks'[t].awaiting = tasks[t].awaiting
        /\ \A u \in Task \ {t} : tasks'[u] = tasks[u]
    <3>1. Amend(t, [tasks[t] EXCEPT !.continuation = TRUE])
      BY <1>2, <1>9 DEF RejectionHandled
    <3>2. tasks[t] # Absent =>
            LET e == [tasks[t] EXCEPT !.continuation = TRUE] IN
            e \in Entry /\ e.round = tasks[t].round /\ e.awaiting = tasks[t].awaiting
      BY <1>3 DEF Entry
    <3>3. QED BY <3>1, <3>2, AmendStep DEF Known, TypeInv
  <2>3. /\ Return(s) /\ view' = view /\ UNCHANGED historyVars /\ Unshared
        /\ convLock' = Nobody
    BY <1>9 DEF RejectionHandled
  <2>4. QED
    BY <1>1, <1>2, <2>1, <2>2, <2>3, AmendsOK DEF Beside, LockKept, historyVars
<1>10. CASE RejectionUnhandled(s)
  <2>1. pc[s] = "unhandled" /\ cur[s].kind = "explained" /\ convLock = s
    BY <1>3, <1>10 DEF RejectionUnhandled, After, At
  <2>2. /\ pc'[s] = "decide" /\ cur'[s].kind = "rejected" /\ cur'[s].task = t
        /\ \A u \in Shell \ {s} : pc'[u] = pc[u] /\ cur'[u] = cur[u]
        /\ snap' = snap /\ prior' = prior /\ tasks' = tasks /\ view' = view /\ runs' = runs
        /\ inbox' = inbox /\ connected' = connected /\ everExpired' = everExpired
        /\ convLock' = Nobody
    BY <1>3, <1>10
    DEF RejectionUnhandled, Goto, Unshared, historyVars, Known, TypeInv, StacksOK, Message
  <2>3. HandlerStep(s)
    BY <1>2, <2>2 DEF HandlerStep, Busy, PC, Idle
  <2>4. ShellsOK'
    BY <1>1, <1>2, <2>1, <2>2, <2>3, ShellsStep DEF LockKept, Orchestrated
  <2>5. TaskOK(t)'
    <3>1. Kind(t)' = "rejected" /\ ~Answering(t)' /\ pc'[ShellOf[t]] = "decide"
      BY <1>3, <2>2 DEF Kind, Answering, Demands
    <3>2. LineOK(t)'
      BY <1>3, <2>2, <3>1, LineKept DEF TaskOK, LineOK
    <3>3. KnownOK(t)'
      BY <1>3, <2>2, <3>1 DEF TaskOK, KnownOK
    <3>4. ~Unsettled(t)
      BY <1>2, <1>4, <2>1, UnsettledNot
    <3>5. Unstarted(t)' => Unstarted(t)
      BY <2>2, <3>1, LineKept DEF Unstarted
    <3>6. Spendable(t)' => Spendable(t)
      BY <2>2, <3>1, LineKept DEF Spendable
    <3>7. ~Doing(t, {"surface"})'
      BY <3>1 DEF Doing
    <3>8. RoundsOK(t)'
      BY <1>3, <2>2, <3>1, <3>4, <3>5, <3>6, <3>7 DEF TaskOK, RoundsOK, Spent
    <3>9. ClosedOK(t)'
      BY <3>1 DEF ClosedOK
    <3>10. QED BY <3>2, <3>3, <3>8, <3>9 DEF TaskOK
  <2>6. QED BY <1>1, <1>2, <2>3, <2>4, <2>5, StepOK
<1>11. CASE AckHandled(s)
  <2>1. pc[s] = "handled" /\ cur[s].kind = "ack"
    BY <1>11 DEF AckHandled, After, At
  <2>2. /\ snap[s] \in Entry /\ ~RoundLimitReached(s)
    BY <1>1, <2>1 DEF Known, TypeInv, StacksOK, Ready, AfterDecision, AfterLookup
  <2>3. NextRound(s) \in Rounds /\ NextRound(s) < MaxToolRounds
    BY <2>2, ConfigAssumption DEF RoundLimitReached, NextRound, Entry, Rounds
  <2>4. t \notin everExpired => Spent(t, NextRound(s))
    BY <1>3, <2>1, <2>3, ConfigAssumption
    DEF TaskOK, RoundsOK, Doing, Kind, AfterLookup, Spent, Rounds
  <2>5. /\ tasks'[t] = Absent <=> tasks[t] = Absent
        /\ tasks[t] # Absent => tasks'[t].round = NextRound(s)
        /\ \A u \in Task \ {t} : tasks'[u] = tasks[u]
    <3>1. Amend(t, [tasks[t] EXCEPT !.round = NextRound(s), !.continuation = TRUE])
      BY <1>2, <1>11 DEF AckHandled
    <3>2. tasks[t] # Absent =>
            LET e == [tasks[t] EXCEPT !.round = NextRound(s), !.continuation = TRUE] IN
            e \in Entry /\ e.round = NextRound(s)
      BY <1>3, <2>3 DEF Entry
    <3>3. QED BY <3>1, <3>2, AmendStep DEF Known, TypeInv
  <2>6. pc'[s] = Idle /\ Return(s) /\ view' = view /\ UNCHANGED historyVars /\ Unshared
        /\ convLock' = convLock
    BY <1>11 DEF AckHandled, Return, Goto, Known, TypeInv, StacksOK
  <2>7. t \notin everExpired /\ view'[t] \in Open => tasks'[t] # Absent
    BY <1>3, <2>5, <2>6 DEF TaskOK, KnownOK
  <2>8. TaskOK(t)'
    BY <1>1, <1>2, <2>4, <2>5, <2>6, <2>7, RestsOK DEF Unshared, historyVars
  <2>9. QED
    BY <1>1, <1>2, <2>5, <2>6, <2>8, ReturnsOK DEF Beside, LockKept, historyVars
<1>12. CASE AckUnhandled(s)
  BY <1>1, <1>2, <1>4, <1>12, RepliesDone
  DEF AckUnhandled, After, At, Beside, LockKept, historyVars
<1>13. QED
  BY <1>5, <1>6, <1>7, <1>8, <1>9, <1>10, <1>11, <1>12 DEF Concluding
-----------------------------------------------------------------------------
(* Steps that no handler takes at a task: the end of a connection, the     *)
(* client, the sweeper and time.                                           *)

SameDoing(t) ==
  LET s == ShellOf[t] IN
  \/ pc'[s] = pc[s] /\ cur'[s] = cur[s] /\ snap'[s] = snap[s] /\ prior'[s] = prior[s]
  \/ pc[s] \notin Busy /\ pc'[s] \notin Busy

SameEntry(t) ==
  \/ tasks'[t] = tasks[t]
  \/ /\ tasks[t] # Absent /\ tasks'[t] # Absent
     /\ tasks'[t].round = tasks[t].round /\ tasks'[t].awaiting = tasks[t].awaiting

NoneAsked(t) ==
  \A i \in Nat : Asked(t, i)' =>
    Asked(t, i) /\ inbox'[ShellOf[t]][i].kind = inbox[ShellOf[t]][i].kind

LEMMA SameLabels ==
  ASSUME NEW t, SameDoing(t), NEW labels, labels \subseteq Busy
  PROVE  Doing(t, labels)' <=> Doing(t, labels)
  BY DEF SameDoing, Doing

LEMMA BusyLabels ==
  /\ BeforeAnswer \subseteq Busy /\ AfterClarified \subseteq Busy /\ AfterLookup \subseteq Busy
  /\ {"decide"} \subseteq Busy /\ {"failed"} \subseteq Busy /\ {"handled"} \subseteq Busy
  /\ {"timed", "lookup"} \subseteq Busy /\ {"surface"} \subseteq Busy /\ Orchestrated \subseteq Busy
  BY DEF Busy, PC, Idle, BeforeAnswer, AfterClarified, Orchestrated, AfterLookup

\* What an entry, a handler and an unread request were they still are.
LEMMA TaskKept ==
  ASSUME NEW t, TaskOK(t), SameDoing(t), NoneAsked(t),
         everExpired \subseteq everExpired', runs'[t] = runs[t],
         view'[t] \in {view[t], "done"},
         \/ t \in everExpired'
         \/ SameEntry(t)
         \/ tasks'[t] = Absent /\ view'[t] = "done" /\ pc'[ShellOf[t]] \notin Busy,
         pc'[ShellOf[t]] = "closed" => tasks'[t] = Absent
  PROVE  TaskOK(t)'
<1> DEFINE u == ShellOf[t]
<1>1. /\ Pending(t)' => Pending(t)
      /\ Alone(t) => Alone(t)'
      /\ PendingKind(t, "ack")' => PendingKind(t, "ack")
      /\ PendingKind(t, "start")' => PendingKind(t, "start")
  BY DEF NoneAsked, Pending, Alone, PendingKind
<1>2. /\ Doing(t, BeforeAnswer)' <=> Doing(t, BeforeAnswer)
      /\ Doing(t, AfterClarified)' <=> Doing(t, AfterClarified)
      /\ Doing(t, AfterLookup)' <=> Doing(t, AfterLookup)
      /\ Doing(t, {"decide"})' <=> Doing(t, {"decide"})
      /\ Doing(t, {"failed"})' <=> Doing(t, {"failed"})
      /\ Doing(t, {"handled"})' <=> Doing(t, {"handled"})
      /\ Doing(t, {"timed", "lookup"})' <=> Doing(t, {"timed", "lookup"})
      /\ Doing(t, {"surface"})' <=> Doing(t, {"surface"})
  BY SameLabels, BusyLabels
<1>3. \/ /\ Kind(t)' = Kind(t) /\ snap'[u] = snap[u] /\ prior'[u] = prior[u]
         /\ NextRound(u)' = NextRound(u)
      \/ pc[u] \notin Busy /\ pc'[u] \notin Busy
  BY DEF SameDoing, Kind, NextRound
<1>4. pc[u] \notin Busy => /\ ~Doing(t, BeforeAnswer) /\ ~Doing(t, AfterClarified)
                           /\ ~Doing(t, AfterLookup) /\ ~Doing(t, {"decide"})
                           /\ ~Doing(t, {"failed"}) /\ ~Doing(t, {"handled"})
                           /\ ~Doing(t, {"timed", "lookup"}) /\ ~Doing(t, {"surface"})
  BY BusyLabels DEF Doing
<1>5. /\ Answering(t)' <=> Answering(t)
      /\ Answering(t)' => Kind(t)' = Kind(t)
  BY <1>2, <1>3, <1>4 DEF Answering
<1>6. LineOK(t)'
  BY <1>1, <1>5 DEF TaskOK, LineOK
<1>7. Unstarted(t)' => Unstarted(t)
  BY <1>1, <1>5 DEF Unstarted
<1>8. Spendable(t)' => Spendable(t)
  BY <1>1, <1>2, <1>3, <1>4 DEF Spendable, Proposed
<1>9. ClosedOK(t)'
  BY DEF ClosedOK
<1>10. CASE t \in everExpired'
  <2>1. KnownOK(t)'
    BY <1>10 DEF KnownOK
  <2>2. RoundsOK(t)'
    BY <1>7, <1>10 DEF RoundsOK, TaskOK
  <2>3. QED BY <1>6, <1>9, <2>1, <2>2 DEF TaskOK
<1>11. CASE t \notin everExpired' /\ SameEntry(t)
  <2>1. t \notin everExpired
    BY <1>11
  <2>2. KnownOK(t)'
    BY <1>2, <1>3, <1>4, <1>11, <2>1 DEF KnownOK, TaskOK, SameEntry, Open, Proposed
  <2>3. Unsettled(t)' <=> Unsettled(t)
    <3>1. CASE pc[u] \notin Busy /\ pc'[u] \notin Busy
      BY <1>2, <1>4, <3>1 DEF Unsettled
    <3>2. CASE tasks'[t] = tasks[t] /\ Kind(t)' = Kind(t)
      BY <1>2, <3>2 DEF Unsettled
    <3>3. CASE tasks'[t].awaiting = tasks[t].awaiting /\ Kind(t)' = Kind(t)
      BY <1>2, <3>3 DEF Unsettled
    <3>4. QED BY <1>3, <1>11, <3>1, <3>2, <3>3 DEF SameEntry
  <2>4. tasks'[t] # Absent => /\ tasks[t] # Absent
                              /\ tasks'[t].round = tasks[t].round
                              /\ tasks'[t].awaiting <=> tasks[t].awaiting
    BY <1>11 DEF SameEntry
  <2>5. RoundsOK(t)'
    BY <1>2, <1>3, <1>4, <1>7, <1>8, <2>1, <2>3, <2>4 DEF RoundsOK, TaskOK, Spent
  <2>6. QED BY <1>6, <1>9, <2>2, <2>5 DEF TaskOK
<1>12. CASE /\ t \notin everExpired' /\ tasks'[t] = Absent /\ view'[t] = "done"
            /\ pc'[u] \notin Busy
  <2>1. /\ ~Doing(t, BeforeAnswer)' /\ ~Doing(t, AfterClarified)' /\ ~Doing(t, AfterLookup)'
        /\ ~Doing(t, {"decide"})' /\ ~Doing(t, {"surface"})'
    BY <1>12, BusyLabels DEF Doing
  <2>2. KnownOK(t)'
    BY <1>12, <2>1 DEF KnownOK, Open, Proposed
  <2>3. RoundsOK(t)'
    BY <1>7, <1>12, <2>1 DEF RoundsOK, TaskOK
  <2>4. QED BY <1>6, <1>9, <2>2, <2>3 DEF TaskOK
<1>13. QED BY <1>10, <1>11, <1>12

LEMMA ShellsKept ==
  ASSUME Known, convLock' = convLock,
         \A s \in Shell :
           /\ \/ pc'[s] = pc[s] /\ cur'[s] = cur[s]
              \/ /\ pc[s] \notin Busy /\ pc'[s] \notin Busy
                 /\ pc'[s] \in {"closing", "closed", "dropped"} => ~connected[s]
           /\ connected'[s] => connected[s],
         \A t \in Task : ~connected'[ShellOf[t]] => view'[t] \in {view[t], "done"},
         \A t \in Task : ~connected'[ShellOf[t]] /\ connected[ShellOf[t]] => view'[t] = "done"
  PROVE  ShellsOK'
<1>1. KindsOK'
  BY BusyLabels DEF Known, TableInv, ShellsOK, KindsOK
<1>2. GoneOK'
  <2>1. ASSUME NEW t \in Task, ~connected'[ShellOf[t]] PROVE view'[t] = "done"
    BY <2>1 DEF Known, TableInv, ShellsOK, GoneOK
  <2>2. ASSUME NEW s \in Shell, pc'[s] \in {"failed", "closing", "closed", "dropped"}
        PROVE  ~connected'[s]
    BY <2>2, BusyLabels DEF Known, TableInv, ShellsOK, GoneOK
  <2>3. QED BY <2>1, <2>2 DEF GoneOK
<1>3. ReasonOK'
  BY BusyLabels DEF Known, TableInv, ShellsOK, ReasonOK
<1>4. QED BY <1>1, <1>2, <1>3 DEF ShellsOK

LEMMA SameInbox == ASSUME NEW t, inbox' = inbox PROVE NoneAsked(t)
  BY DEF NoneAsked, Asked

LEMMA ClosingTable ==
  ASSUME Known, NEW s \in Shell, Closing(s)
  PROVE  TableInv'
<1>1. CASE Fail(s)
  <2>1. pc[s] = "failed" /\ pc[s] \in Busy /\ "closing" \in Busy \cup {Idle, "closing"}
    BY <1>1 DEF Fail, At, Busy, PC, Idle
  <2>2. PICK t \in Task : t = OnTask(s)
    BY <2>1, OwnFacts
  <2>3. /\ pc'[s] = "closing" /\ cur'[s] = cur[s]
        /\ \A u \in Shell \ {s} : /\ pc'[u] = pc[u] /\ cur'[u] = cur[u]
                                  /\ snap'[u] = snap[u] /\ prior'[u] = prior[u]
    BY <1>1, <2>1, GotoStep DEF Fail, Known, TypeInv
  <2>4. /\ tasks'[t] = Absent /\ \A u \in Task \ {t} : tasks'[u] = tasks[u]
        /\ convLock' = convLock
    BY <1>1, <2>2, ClearStep DEF Fail, Known, TypeInv
  <2>5. view' = view /\ UNCHANGED historyVars /\ Unshared
    BY <1>1 DEF Fail
  <2>6. HandlerStep(s)
    BY <2>2, <2>3, <2>4, <2>5 DEF HandlerStep, Unshared, historyVars, OnTask, Busy, PC, Idle
  <2>7. ~connected[s] /\ view[t] = "done"
    BY <2>1, <2>2, OwnFacts DEF Known, TableInv, ShellsOK, GoneOK
  <2>8. ShellsOK'
    BY <2>1, <2>2, <2>3, <2>4, <2>5, <2>6, <2>7, ShellsStep
    DEF LockKept, Orchestrated, Busy, PC, Idle
  <2>9. TaskOK(t)'
    BY <2>1, <2>2, <2>3, <2>4, <2>5, <2>7, RestsOK DEF Unshared, historyVars, Open, Proposed
  <2>10. QED BY <2>1, <2>2, <2>6, <2>8, <2>9, StepOK
<1>2. CASE EndOfStream(s) \/ DropConnection(s) \/ CloseShell(s)
  <2>1. /\ ~connected[s] /\ pc[s] \in {Idle, "closing"}
        /\ pc'[s] \in {"closing", "closed", "dropped"} /\ (pc'[s] = "closed" => CloseShell(s))
        /\ \A u \in Shell \ {s} : /\ pc'[u] = pc[u] /\ cur'[u] = cur[u]
                                  /\ snap'[u] = snap[u] /\ prior'[u] = prior[u]
    BY <1>2
    DEF EndOfStream, DropConnection, CloseShell, At, Goto, Keep, Known, TypeInv, StacksOK,
        TableInv, ShellsOK, GoneOK
  <2>2. convLock' = convLock /\ view' = view /\ UNCHANGED historyVars /\ Unshared
    BY <1>2 DEF EndOfStream, DropConnection, CloseShell, daemonVars
  <2>3. pc[s] \notin Busy /\ pc'[s] \notin Busy
    BY <2>1 DEF Busy, PC, Idle
  <2>4. ShellsOK'
    BY <2>1, <2>2, <2>3, ShellsKept DEF Unshared
  <2>5. ASSUME NEW t \in Task PROVE TaskOK(t)'
    <3>1. ShellOf[t] \in Shell /\ TaskOK(t)
      BY ConfigAssumption DEF Known, TableInv
    <3>2. SameDoing(t)
      BY <2>1, <2>3, <3>1 DEF SameDoing
    <3>3. /\ tasks'[t] = tasks[t] \/ (CloseShell(s) /\ ShellOf[t] = s /\ tasks'[t] = Absent)
          /\ CloseShell(s) /\ ShellOf[t] = s => tasks'[t] = Absent
      BY <1>2
      DEF EndOfStream, DropConnection, CloseShell, OpenTasks, daemonVars, Known, TypeInv, TablesOK
    <3>4. ShellOf[t] = s => view'[t] = "done"
      BY <2>1, <2>2 DEF Known, TableInv, ShellsOK, GoneOK
    <3>5. pc'[ShellOf[t]] = "closed" => tasks'[t] = Absent
      BY <2>1, <3>1, <3>3 DEF TaskOK, ClosedOK
    <3>6. \/ SameEntry(t)
          \/ tasks'[t] = Absent /\ view'[t] = "done" /\ pc'[ShellOf[t]] \notin Busy
      BY <2>3, <3>3, <3>4 DEF SameEntry
    <3>7. QED
      BY <2>2, <3>1, <3>2, <3>5, <3>6, SameInbox, TaskKept DEF historyVars, Unshared
  <2>6. QED BY <2>4, <2>5 DEF TableInv
<1>3. QED BY <1>1, <1>2 DEF Closing

LEMMA SweepTable == ASSUME Known, Sweep \/ Time PROVE TableInv'
<1>1. /\ UNCHANGED <<handlerVars, clientVars, convLock, runs>>
      /\ everExpired \subseteq everExpired'
  BY DEF Sweep, SweepTasks, SweepConversations, SweepTimedOut, Time, GoStale, Forget,
         historyVars
<1>2. ShellsOK'
  BY <1>1, ShellsKept DEF handlerVars, clientVars
<1>3. ASSUME NEW t \in Task PROVE TaskOK(t)'
  <2>1. t \in everExpired' \/ SameEntry(t)
    <3>1. CASE SweepTasks
      BY <3>1 DEF SweepTasks, SameEntry
    <3>2. ASSUME NEW u \in Task, GoStale(u) PROVE SameEntry(t)
      <4>1. CASE t = u
        <5>1. tasks[t] \in Entry /\ tasks[t] # Absent
              /\ tasks'[t] = [tasks[t] EXCEPT !.stale = TRUE]
          BY <3>2, <4>1 DEF GoStale, Known, TypeInv, TablesOK
        <5>2. [tasks[t] EXCEPT !.stale = TRUE] \in Entry
          BY <5>1 DEF Entry
        <5>3. tasks'[t] # Absent
          BY <5>1, <5>2, NoneAssumption
        <5>4. tasks'[t].round = tasks[t].round /\ tasks'[t].awaiting = tasks[t].awaiting
          BY <5>1 DEF Entry
        <5>5. QED BY <5>1, <5>3, <5>4 DEF SameEntry
      <4>2. CASE t # u
        BY <3>2, <4>2 DEF GoStale, SameEntry, Known, TypeInv, TablesOK
      <4>3. QED BY <4>1, <4>2
    <3>3. CASE SweepConversations \/ SweepTimedOut \/ \E u \in Task : Forget(u)
      BY <3>3 DEF SweepConversations, SweepTimedOut, Forget, SameEntry
    <3>4. QED BY <3>1, <3>2, <3>3 DEF Sweep, Time
  <2>2. TaskOK(t) /\ SameDoing(t)
    BY <1>1 DEF Known, TableInv, SameDoing, handlerVars
  <2>3. pc'[ShellOf[t]] = "closed" => tasks'[t] = Absent
    <3>1. pc[ShellOf[t]] = "closed" => tasks[t] = Absent
      BY <2>2 DEF TaskOK, ClosedOK
    <3>2. tasks[t] = Absent => tasks'[t] = Absent
      BY DEF Sweep, SweepTasks, SweepConversations, SweepTimedOut, Time, GoStale, Forget,
             Known, TypeInv, TablesOK
    <3>3. QED BY <1>1, <3>1, <3>2 DEF handlerVars
  <2>4. QED BY <1>1, <2>1, <2>2, <2>3, SameInbox, TaskKept DEF clientVars
<1>4. QED BY <1>2, <1>3 DEF TableInv

\* handle_connection takes the request at the head of its line: if that is the
\* one its client waits for, no other is left.
LEMMA ReceiveTable ==
  ASSUME Known, NEW s \in Shell, Receive(s)
  PROVE  TableInv'
<1>1. /\ Len(inbox[s]) \in Nat \ {0}
      /\ Head(inbox[s]) = inbox[s][1]
      /\ Len(Tail(inbox[s])) = Len(inbox[s]) - 1
      /\ \A i \in 1 .. Len(inbox[s]) - 1 : Tail(inbox[s])[i] = inbox[s][i + 1]
  BY DEF Receive, Known, TypeInv, InboxOK
<1>2. /\ inbox'[s] = Tail(inbox[s]) /\ \A u \in Shell \ {s} : inbox'[u] = inbox[u]
      /\ pc[s] = Idle /\ pc'[s] \in {"start", "timed"} /\ cur'[s] = Head(inbox[s])
      /\ \A u \in Shell \ {s} : pc'[u] = pc[u] /\ cur'[u] = cur[u]
      /\ UNCHANGED <<daemonVars, snap, prior, connected, view, historyVars>>
  BY DEF Receive, At, Goto, Known, TypeInv, InboxOK, StacksOK
<1>3. ShellsOK'
  <2>1. KindsOK'
    BY <1>2 DEF Known, TableInv, ShellsOK, KindsOK, Orchestrated
  <2>2. GoneOK'
    BY <1>2 DEF Known, TableInv, ShellsOK, GoneOK
  <2>3. ReasonOK'
    BY <1>2 DEF Known, TableInv, ShellsOK, ReasonOK, Orchestrated, daemonVars
  <2>4. QED BY <2>1, <2>2, <2>3 DEF ShellsOK
<1>4. ASSUME NEW t \in Task PROVE TaskOK(t)'
  <2>1. TaskOK(t) /\ ShellOf[t] \in Shell
    BY ConfigAssumption DEF Known, TableInv
  <2>2. CASE ShellOf[t] # s
    <3>1. SameDoing(t) /\ SameEntry(t) /\ NoneAsked(t)
      BY <1>2, <2>1, <2>2 DEF SameDoing, SameEntry, NoneAsked, Asked, daemonVars
    <3>2. pc'[ShellOf[t]] = "closed" => tasks'[t] = Absent
      BY <1>2, <2>1, <2>2 DEF TaskOK, ClosedOK, daemonVars
    <3>3. QED BY <1>2, <2>1, <3>1, <3>2, TaskKept DEF historyVars
  <2>3. CASE ShellOf[t] = s
    <3>1. ASSUME NEW i \in Nat, Asked(t, i)'
          PROVE  Asked(t, i + 1) /\ i + 1 # 1 /\ inbox[s][i + 1] = inbox'[s][i]
      <4>1. /\ i \in 1 .. Len(inbox'[s]) /\ inbox'[s][i].task = t
            /\ inbox'[s][i].kind \in Demands
        BY <2>3, <3>1 DEF Asked
      <4>2. i \in 1 .. Len(inbox[s]) - 1 /\ inbox'[s][i] = Tail(inbox[s])[i]
        BY <1>1, <1>2, <4>1
      <4>3. inbox[s][i + 1] = inbox'[s][i] /\ i + 1 \in 1 .. Len(inbox[s]) /\ i + 1 # 1
        BY <1>1, <4>2
      <4>4. QED BY <2>3, <4>1, <4>3 DEF Asked
    <3>2. Answering(t)' => Asked(t, 1)
      BY <1>1, <1>2, <2>3 DEF Answering, Doing, Kind, Asked
    <3>3. Pending(t)' => Pending(t)
      <4>1. ASSUME NEW i \in Nat, Asked(t, i)' PROVE Pending(t)
        <5>1. Asked(t, i + 1) /\ i + 1 \in Nat
          BY <3>1, <4>1
        <5>2. QED BY <5>1 DEF Pending
      <4>2. QED BY <4>1 DEF Pending
    <3>4. Answering(t)' => Pending(t) /\ ~Pending(t)'
      <4>1. ASSUME Asked(t, 1), NEW i \in Nat, Asked(t, i)' PROVE FALSE
        <5>1. Asked(t, i + 1) /\ i + 1 \in Nat /\ i + 1 # 1 /\ 1 \in Nat
          BY <3>1, <4>1
        <5>2. QED BY <2>1, <4>1, <5>1 DEF TaskOK, LineOK, Alone
      <4>2. QED BY <3>2, <4>1 DEF Pending
    <3>5. \A kind : PendingKind(t, kind)' => PendingKind(t, kind)
      <4>1. ASSUME NEW kind, NEW i \in Nat, Asked(t, i)', inbox'[s][i].kind = kind
            PROVE  PendingKind(t, kind)
        <5>1. Asked(t, i + 1) /\ i + 1 \in Nat /\ inbox[s][i + 1].kind = kind
          BY <3>1, <4>1
        <5>2. QED BY <2>3, <5>1 DEF PendingKind
      <4>2. QED BY <2>3, <4>1 DEF PendingKind
    <3>6. Alone(t)'
      <4>1. ASSUME NEW i \in Nat, NEW j \in Nat, Asked(t, i)', Asked(t, j)' PROVE i = j
        <5>1. Asked(t, i + 1) /\ Asked(t, j + 1) /\ i + 1 \in Nat /\ j + 1 \in Nat
          BY <3>1, <4>1
        <5>2. i + 1 = j + 1
          BY <2>1, <5>1 DEF TaskOK, LineOK, Alone
        <5>3. QED BY <5>2
      <4>2. QED BY <4>1 DEF Alone
    <3>7. LineOK(t)'
      BY <1>2, <2>1, <3>3, <3>4, <3>6 DEF TaskOK, LineOK
    <3>8. /\ ~Doing(t, {"decide"})' /\ ~Doing(t, AfterClarified)' /\ ~Doing(t, AfterLookup)'
          /\ ~Doing(t, {"surface"})' /\ ~Doing(t, {"handled"})' /\ ~Doing(t, {"failed"})'
          /\ ~Doing(t, {"handled"}) /\ ~Doing(t, {"failed"})
      BY <1>2, <2>3 DEF Doing, AfterClarified, Orchestrated, AfterLookup, Idle
    <3>9. KnownOK(t)'
      BY <1>2, <2>1, <3>8 DEF TaskOK, KnownOK, daemonVars, historyVars
    <3>10. Doing(t, {"start", "timed", "lookup"})' /\ Kind(t)' \in Demands
           => PendingKind(t, Kind(t)')
      <4>1. Doing(t, {"start", "timed", "lookup"})' /\ Kind(t)' \in Demands
            => Asked(t, 1) /\ inbox[s][1].kind = Kind(t)'
        BY <1>1, <1>2, <2>3 DEF Doing, Kind, Asked
      <4>2. QED BY <2>3, <4>1 DEF PendingKind
    <3>11. Answering(t)' => Doing(t, {"start", "timed", "lookup"})'
      BY <1>2, <2>3 DEF Answering, Doing
    <3>12. Unstarted(t)' => Unstarted(t)
      BY <1>2, <3>5, <3>10, <3>11 DEF Unstarted, Demands
    <3>13. Doing(t, {"timed", "lookup"})' => Doing(t, {"start", "timed", "lookup"})'
      BY DEF Doing
    <3>14. Spendable(t)' => Spendable(t)
      BY <1>2, <3>5, <3>10, <3>13 DEF Spendable, Demands
    <3>15. ~Unsettled(t) /\ ~Unsettled(t)'
      BY <3>8 DEF Unsettled
    <3>16. RoundsOK(t)'
      BY <1>2, <2>1, <3>8, <3>12, <3>14, <3>15
      DEF TaskOK, RoundsOK, Spent, daemonVars, historyVars
    <3>17. ClosedOK(t)'
      BY <1>2, <2>3 DEF ClosedOK
    <3>18. QED BY <3>7, <3>9, <3>16, <3>17 DEF TaskOK
  <2>4. QED BY <2>2, <2>3
<1>5. QED BY <1>3, <1>4 DEF TableInv

\* A client sends a demand only when it waits for nothing.
LEMMA ClientSendsTable ==
  ASSUME Known, NEW t \in Task, NEW kind, NEW from, NEW to,
         ClientSends(t, kind, from, to),
         kind \in Demands => to = "waiting" /\ from \subseteq Open \cup {"new"},
         kind \notin Demands => to = "done" \/ (to = "running" /\ from \subseteq Proposed),
         kind = "start" => from = {"new"},
         kind = "ack" => from \subseteq Proposed \cup {"running"}
  PROVE  TableInv'
<1> DEFINE s == ShellOf[t]
           m == [kind |-> kind, task |-> t]
<1>1. s \in Shell /\ connected[s] /\ view[t] \in from /\ TaskOK(t)
  BY ConfigAssumption DEF ClientSends, Known, TableInv
<1>2. /\ inbox'[s] = Append(inbox[s], m) /\ \A u \in Shell \ {s} : inbox'[u] = inbox[u]
      /\ view'[t] = to /\ \A u \in Task \ {t} : view'[u] = view[u]
      /\ UNCHANGED <<daemonVars, handlerVars, connected, historyVars>>
  BY <1>1 DEF ClientSends, Known, TypeInv, InboxOK, ViewOK
<1>3. inbox[s] \in Seq(Message) /\ Len(inbox[s]) \in Nat
  BY <1>1 DEF Known, TypeInv, InboxOK
<1>4. /\ Len(inbox'[s]) = Len(inbox[s]) + 1
      /\ \A i \in 1 .. Len(inbox[s]) : inbox'[s][i] = inbox[s][i]
      /\ inbox'[s][Len(inbox[s]) + 1] = m
  BY <1>2, <1>3
<1> HIDE DEF m
<1>5. m.kind = kind /\ m.task = t
  BY DEF m
<1>6. ShellsOK'
  BY <1>1, <1>2, ShellsKept DEF handlerVars, daemonVars
<1>7. \A u \in Task : SameDoing(u) /\ SameEntry(u)
                      /\ (pc'[ShellOf[u]] = "closed" => tasks'[u] = Absent)
  BY <1>2 DEF SameDoing, SameEntry, handlerVars, daemonVars, Known, TableInv, TaskOK, ClosedOK
<1>8. ASSUME NEW u \in Task, u # t PROVE TaskOK(u)'
  <2>1. TaskOK(u) /\ ShellOf[u] \in Shell
    BY ConfigAssumption DEF Known, TableInv
  <2>2. NoneAsked(u)
    <3>1. CASE ShellOf[u] = s
      <4>1. ASSUME NEW i \in Nat, Asked(u, i)'
            PROVE  Asked(u, i) /\ inbox'[s][i].kind = inbox[s][i].kind
        <5>1. /\ i \in 1 .. Len(inbox'[s]) /\ inbox'[s][i].task = u
              /\ inbox'[s][i].kind \in Demands
          BY <3>1, <4>1 DEF Asked
        <5>2. i # Len(inbox[s]) + 1
          BY <1>4, <1>5, <1>8, <5>1
        <5>3. i \in 1 .. Len(inbox[s]) /\ inbox'[s][i] = inbox[s][i]
          BY <1>3, <1>4, <5>1, <5>2
        <5>4. QED BY <3>1, <5>1, <5>3 DEF Asked
      <4>2. QED BY <3>1, <4>1 DEF NoneAsked
    <3>2. CASE ShellOf[u] # s
      BY <1>2, <2>1, <3>2 DEF NoneAsked, Asked
    <3>3. QED BY <3>1, <3>2
  <2>3. QED BY <1>2, <1>7, <1>8, <2>1, <2>2, TaskKept DEF historyVars
<1>9. TaskOK(t)'
  <2>1. ASSUME NEW i \in Nat, Asked(t, i)'
        PROVE  \/ Asked(t, i) /\ inbox'[s][i] = inbox[s][i]
               \/ i = Len(inbox[s]) + 1 /\ kind \in Demands
    BY <1>3, <1>4, <1>5, <2>1 DEF Asked
  <2>2. kind \in Demands => ~Answering(t) /\ ~Pending(t)
    BY <1>1 DEF TaskOK, LineOK, Open, Proposed
  <2>3. \A i \in Nat : Asked(t, i)' =>
          IF kind \in Demands THEN i = Len(inbox[s]) + 1
          ELSE Asked(t, i) /\ inbox'[s][i] = inbox[s][i]
    BY <2>1, <2>2 DEF Pending
  <2>4. Pending(t)' => kind \in Demands \/ Pending(t)
    BY <2>3 DEF Pending
  <2>5. Alone(t)'
    BY <1>1, <2>3 DEF Alone, TaskOK, LineOK
  <2>6. \A k : PendingKind(t, k)' => (kind \in Demands /\ k = kind) \/ PendingKind(t, k)
    BY <1>4, <1>5, <2>3 DEF PendingKind
  <2>7. Answering(t)' <=> Answering(t)
    BY <1>2 DEF Answering, Doing, Kind, handlerVars
  <2>8. LineOK(t)'
    BY <1>1, <1>2, <2>2, <2>4, <2>5, <2>7 DEF TaskOK, LineOK, Open, Proposed
  <2>9. KnownOK(t)'
    BY <1>1, <1>2
    DEF TaskOK, KnownOK, Doing, Kind, Open, Proposed, handlerVars, daemonVars, historyVars
  <2>10. Unstarted(t)' => Unstarted(t)
    BY <1>1, <1>2, <2>6, <2>7 DEF Unstarted, Kind, handlerVars
  <2>11. Spendable(t)' => Spendable(t)
    BY <1>1, <1>2, <2>6 DEF Spendable, Doing, Kind, handlerVars, Proposed
  <2>12. Unsettled(t)' <=> Unsettled(t)
    BY <1>2 DEF Unsettled, Doing, Kind, handlerVars, daemonVars
  <2>13. RoundsOK(t)'
    BY <1>1, <1>2, <2>10, <2>11, <2>12
    DEF TaskOK, RoundsOK, Spent, Doing, Kind, NextRound, handlerVars, daemonVars, historyVars
  <2>14. ClosedOK(t)'
    BY <1>7 DEF ClosedOK
  <2>15. QED BY <2>8, <2>9, <2>13, <2>14 DEF TaskOK
<1>10. QED BY <1>6, <1>8, <1>9 DEF TableInv

LEMMA ClientTable == ASSUME Known, Client PROVE TableInv'
<1> USE DEF Demands, Open, Proposed
<1>1. ASSUME NEW t \in Task, SendStart(t) PROVE TableInv'
  BY <1>1, ClientSendsTable DEF SendStart
<1>2. ASSUME NEW t \in Task, SendApproval(t) PROVE TableInv'
  BY <1>2, ClientSendsTable DEF SendApproval
<1>3. ASSUME NEW t \in Task, SendRejection(t) PROVE TableInv'
  BY <1>3, ClientSendsTable DEF SendRejection
<1>4. ASSUME NEW t \in Task, SendClarification(t) PROVE TableInv'
  BY <1>4, ClientSendsTable DEF SendClarification
<1>5. ASSUME NEW t \in Task, SendAbort(t) PROVE TableInv'
  BY <1>5, ClientSendsTable DEF SendAbort
<1>6. ASSUME NEW t \in Task, SendAck(t) PROVE TableInv'
  BY <1>6, ClientSendsTable DEF SendAck
<1>7. ASSUME NEW s \in Shell, Disconnect(s) PROVE TableInv'
  <2>1. /\ connected'[s] = FALSE /\ \A u \in Shell \ {s} : connected'[u] = connected[u]
        /\ \A t \in Task : view'[t] = IF ShellOf[t] = s THEN "done" ELSE view[t]
        /\ UNCHANGED <<daemonVars, handlerVars, inbox, historyVars>>
    BY <1>7 DEF Disconnect, Known, TypeInv, InboxOK
  <2>2. ShellsOK'
    BY <2>1, ConfigAssumption, ShellsKept DEF handlerVars, daemonVars
  <2>3. ASSUME NEW t \in Task PROVE TaskOK(t)'
    <3>1. /\ TaskOK(t) /\ SameDoing(t) /\ SameEntry(t)
          /\ pc'[ShellOf[t]] = "closed" => tasks'[t] = Absent
      BY <2>1
      DEF Known, TableInv, SameDoing, SameEntry, handlerVars, daemonVars, TaskOK, ClosedOK
    <3>2. QED BY <2>1, <3>1, SameInbox, TaskKept DEF historyVars
  <2>4. QED BY <2>2, <2>3 DEF TableInv
<1>8. QED
  BY <1>1, <1>2, <1>3, <1>4, <1>5, <1>6, <1>7 DEF Client
-----------------------------------------------------------------------------
LEMMA TableInvInit == ASSUME Init PROVE TableInv
<1>1. ShellsOK
  BY ConfigAssumption DEF Init, ShellsOK, KindsOK, GoneOK, ReasonOK, Orchestrated, Busy, Idle
<1>2. ASSUME NEW t \in Task PROVE TaskOK(t)
  <2>1. /\ ShellOf[t] \in Shell /\ view[t] = "new" /\ tasks[t] = Absent /\ runs[t] = 0
        /\ pc[ShellOf[t]] = Idle /\ inbox[ShellOf[t]] = <<>>
    BY ConfigAssumption DEF Init
  <2>2. /\ \A labels : Idle \notin labels => ~Doing(t, labels)
        /\ ~Pending(t) /\ Alone(t)
    BY <2>1 DEF Doing, Pending, Alone, Asked
  <2>3. LineOK(t)
    BY <2>1, <2>2 DEF LineOK, Answering, BeforeAnswer, Busy
  <2>4. KnownOK(t)
    BY <2>1, <2>2 DEF KnownOK, Open, Proposed, AfterClarified, Orchestrated, Idle
  <2>5. RoundsOK(t)
    BY <2>1, <2>2, ConfigAssumption DEF RoundsOK, AfterLookup, Idle
  <2>6. ClosedOK(t)
    BY <2>1 DEF ClosedOK, Idle
  <2>7. QED BY <2>3, <2>4, <2>5, <2>6 DEF TaskOK
<1>3. QED BY <1>1, <1>2 DEF TableInv

LEMMA TableInvStep == ASSUME Known, [Next]_vars PROVE TableInv'
<1>1. ASSUME NEW s \in Shell, Handler(s) PROVE TableInv'
  BY <1>1, ReceiveTable, StartingTable, LookingUpTable, DecidingTable, OrchestrationTable,
     PlanningTable, ConcludingTable, ClosingTable DEF Handler
<1>2. CASE UNCHANGED vars
  <2>1. UNCHANGED <<handlerVars, clientVars, convLock, runs, everExpired, tasks>>
    BY <1>2 DEF vars, daemonVars, historyVars
  <2>2. ShellsOK'
    BY <2>1, ShellsKept DEF handlerVars, clientVars
  <2>3. ASSUME NEW t \in Task PROVE TaskOK(t)'
    <3>1. /\ TaskOK(t) /\ SameDoing(t) /\ SameEntry(t)
          /\ pc'[ShellOf[t]] = "closed" => tasks'[t] = Absent
      BY <2>1 DEF Known, TableInv, SameDoing, SameEntry, handlerVars, TaskOK, ClosedOK
    <3>2. QED BY <2>1, <3>1, SameInbox, TaskKept DEF clientVars
  <2>4. QED BY <2>2, <2>3 DEF TableInv
<1>3. QED
  BY <1>1, <1>2, ClientTable, SweepTable DEF Next

\* A client that waits has one request under way, and the table holds what its
\* answer will need, along every interleaving of handlers, clients, sweeper and
\* time.
THEOREM KnownInvariant == Spec => []Known
<1>1. Init => Known
  BY TypeInvInit, ApprovalInvInit, TableInvInit DEF Known
<1>2. Known /\ [Next]_vars => Known'
  BY TypeInvStep, ApprovalInvStep, TableInvStep DEF Known
<1>3. QED BY <1>1, <1>2, PTL DEF Spec

\* A client that holds a proposal, a question or a running command is never
\* forgotten, unless its time was up: process_ack takes the entry out of the
\* table, and whatever try_provider_orchestration then tells the client it has
\* put another in its place.
THEOREM OpenTaskCorrect == Spec => []OpenTaskIsKnown
<1>1. Known => OpenTaskIsKnown
  BY DEF Known, TableInv, TaskOK, KnownOK, OpenTaskIsKnown, Open
<1>2. QED BY <1>1, KnownInvariant, PTL

\* FR-24: max_tool_rounds bounds the commands that a task acknowledges, although
\* the count travels from the entry that process_ack takes out, through its
\* stack and the entry that planning writes, back to the entry it amends.
THEOREM ToolRoundsCorrect == Spec => []ToolRoundsBounded
<1>1. Known => ToolRoundsBounded
  BY DEF Known, TableInv, TaskOK, RoundsOK, ToolRoundsBounded
<1>2. QED BY <1>1, KnownInvariant, PTL
-----------------------------------------------------------------------------
(***************************************************************************)
(* Histories.  A conversation without an entry has a handler that is about *)
(* to write the entry, or to drop the conversation; or the sweeper has it. *)
(* This needs clients that reject without a text: a refusal with a reason  *)
(* writes to the conversation after the sweeper may have taken the entry,  *)
(* and if its orchestration ends without a proposal nobody drops it.       *)
(***************************************************************************)
HoldsHistory == {"failed", "seed", "stream", "surface"}
AckHoldsHistory == {"decide", "orchestrate", "unhandled"}
Loose(t) == Doing(t, HoldsHistory) \/ (Doing(t, AckHoldsHistory) /\ Kind(t) = "ack")
Swept(t) == sweep.step = "conversations" /\ t \in sweep.found
HistoryKnown(t) == t \in conversations => tasks[t] # Absent \/ Swept(t) \/ Loose(t)

NoReasons ==
  \A s \in Shell :
    /\ pc[s] \in Busy => cur[s].kind # "explained"
    /\ \A i \in 1 .. Len(inbox[s]) : inbox[s][i].kind # "explained"

ConvInv == NoReasons /\ \A t \in Task : HistoryKnown(t)

Clarifying == AllowClarifications /\ ~ReasonedRejections

\* What a handler at a task does to other shells and other tasks.
HistoryStep(s) ==
  /\ \A u \in Shell \ {s} : pc'[u] = pc[u] /\ cur'[u] = cur[u]
  /\ pc'[s] \in Busy => cur'[s] = cur[s]
  /\ \A t \in Task \ {OnTask(s)} :
       tasks'[t] = tasks[t] /\ (t \in conversations' => t \in conversations)
  /\ UNCHANGED <<sweep, inbox>>

\* Why its own task's conversation does not outlive the entry unnoticed.
OwnHistory(s, t) ==
  \/ t \notin conversations'
  \/ tasks'[t] # Absent
  \/ pc'[s] \in HoldsHistory \/ (pc'[s] \in AckHoldsHistory /\ cur[s].kind = "ack")
  \/ /\ t \in conversations
     /\ tasks[t] # Absent => tasks'[t] # Absent
     /\ pc[s] \notin HoldsHistory
     /\ pc[s] \in AckHoldsHistory => cur[s].kind # "ack"

LEMMA HistoryStepOK ==
  ASSUME Known, ConvInv, NEW s \in Shell, NEW t, t = OnTask(s), pc[s] \in Busy,
         HistoryStep(s), OwnHistory(s, t)
  PROVE  ConvInv'
<1>1. t \in Task /\ ShellOf[t] = s /\ cur[s].task = t
  BY OwnFacts
<1>2. HoldsHistory \subseteq Busy /\ AckHoldsHistory \subseteq Busy
  BY DEF HoldsHistory, AckHoldsHistory, Busy, PC, Idle
<1>3. NoReasons'
  BY DEF ConvInv, NoReasons, HistoryStep
<1>4. HistoryKnown(t)'
  <2>1. /\ pc'[s] \in HoldsHistory => Loose(t)'
        /\ pc'[s] \in AckHoldsHistory /\ cur[s].kind = "ack" => Loose(t)'
    BY <1>1, <1>2 DEF HistoryStep, Loose, Doing, Kind
  <2>2. CASE /\ t \in conversations
             /\ tasks[t] # Absent => tasks'[t] # Absent
             /\ pc[s] \notin HoldsHistory
             /\ pc[s] \in AckHoldsHistory => cur[s].kind # "ack"
    <3>1. ~Loose(t)
      BY <1>1, <2>2 DEF Loose, Doing, Kind
    <3>2. QED
      BY <1>1, <2>2, <3>1 DEF ConvInv, HistoryKnown, HistoryStep, Swept
  <2>3. QED BY <2>1, <2>2 DEF OwnHistory, HistoryKnown
<1>5. ASSUME NEW u \in Task, u # t PROVE HistoryKnown(u)'
  <2>1. Loose(u)' <=> Loose(u)
    BY <1>1, <1>2, <1>5, ConfigAssumption DEF HistoryStep, Loose, Doing, Kind
  <2>2. QED BY <1>5, <2>1 DEF ConvInv, HistoryKnown, HistoryStep, Swept
<1>6. QED BY <1>3, <1>4, <1>5 DEF ConvInv

LEMMA StackStep ==
  ASSUME StacksOK, NEW s \in Shell, NEW v, NEW label, pc[s] \in Busy,
         \/ SendAndReturn(s, v) \/ SendThen(s, v, label) \/ (Goto(s, label) /\ Keep)
         \/ Return(s) \/ Acknowledged(s)
  PROVE  /\ \A u \in Shell \ {s} : pc'[u] = pc[u] /\ cur'[u] = cur[u]
         /\ pc'[s] \in Busy => cur'[s] = cur[s]
         /\ SendAndReturn(s, v) => pc'[s] \in {Idle, "failed"}
         /\ SendThen(s, v, label) => pc'[s] \in {label, "failed"}
         /\ Goto(s, label) => pc'[s] = label
<1>1. Idle \notin Busy
  BY DEF Busy
<1>2. Return(s) => /\ pc'[s] = Idle
                   /\ \A u \in Shell \ {s} : pc'[u] = pc[u] /\ cur'[u] = cur[u]
  BY DEF Return, Goto, StacksOK
<1>3. ASSUME NEW l, Goto(s, l)
      PROVE  pc'[s] = l /\ \A u \in Shell \ {s} : pc'[u] = pc[u]
  BY <1>3 DEF Goto, StacksOK
<1>4. QED
  BY <1>1, <1>2, <1>3 DEF SendAndReturn, SendThen, Acknowledged, Keep

LEMMA StartingHistory ==
  ASSUME Known, ConvInv, NEW s \in Shell, Starting(s)
  PROVE  ConvInv'
<1> USE DEF HoldsHistory, AckHoldsHistory
<1>1. pc[s] = "start" /\ pc[s] \in Busy /\ cur[s].kind = "start"
  BY DEF Starting, StartAnswered, StartAmbiguous, StartOrchestration, At, Busy, PC, Idle,
         Known, TypeInv, StacksOK, Ready
<1>2. PICK t \in Task : t = OnTask(s)
  BY <1>1, OwnFacts
<1>3. /\ UNCHANGED <<sweep, inbox, conversations>>
      /\ \A u \in Task \ {t} : tasks'[u] = tasks[u]
  BY <1>2
  DEF Starting, StartAnswered, StartAmbiguous, StartOrchestration, AskedAtStart, Insert,
      Unshared, daemonVars, Known, TypeInv, TablesOK
<1>4. \/ SendAndReturn(s, "done") \/ SendAndReturn(s, "asked")
      \/ Goto(s, "orchestrate") /\ Keep
  BY DEF Starting, StartAnswered, StartAmbiguous, StartOrchestration, AskedAtStart
<1>5. HistoryStep(s)
  BY <1>1, <1>2, <1>3, <1>4, StackStep DEF HistoryStep, Known, TypeInv
<1>6. tasks[t] # Absent => tasks'[t] # Absent
  <2>1. CASE StartAmbiguous(s)
    <3>1. 0 \in Rounds /\ ShellOverride(s) \in BOOLEAN /\ FALSE \in BOOLEAN
      BY ConfigAssumption, ShellOverrideType DEF Rounds
    <3>2. AwaitingEntry(ShellOverride(s), FALSE, 0) # Absent
      BY <3>1, AwaitingFields
    <3>3. QED
      BY <1>2, <2>1, <3>2
      DEF StartAmbiguous, AskedAtStart, Insert, Known, TypeInv, TablesOK
  <2>2. CASE StartAnswered(s) \/ StartOrchestration(s)
    BY <2>2 DEF StartAnswered, StartOrchestration, daemonVars
  <2>3. QED BY <2>1, <2>2 DEF Starting
<1>7. OwnHistory(s, t)
  BY <1>1, <1>3, <1>6 DEF OwnHistory
<1>8. QED BY <1>1, <1>2, <1>5, <1>7, HistoryStepOK

LEMMA LookingUpHistory ==
  ASSUME Known, ConvInv, NEW s \in Shell, LookingUp(s)
  PROVE  ConvInv'
<1> USE DEF HoldsHistory, AckHoldsHistory
<1>1. pc[s] \in {"timed", "lookup"} /\ pc[s] \in Busy
  BY DEF LookingUp, AnswerTimedOut, LookupUnknown, LookupStale, LookupFound, At, Busy, PC, Idle
<1>2. PICK t \in Task : t = OnTask(s)
  BY <1>1, OwnFacts
<1>3. CASE AnswerTimedOut(s) \/ LookupUnknown(s)
  <2>1. UNCHANGED <<sweep, inbox, conversations, tasks>>
    BY <1>3 DEF AnswerTimedOut, LookupUnknown, Unshared, daemonVars
  <2>2. SendAndReturn(s, "done") \/ (Goto(s, "lookup") /\ Keep)
    BY <1>3 DEF AnswerTimedOut, LookupUnknown
  <2>3. HistoryStep(s)
    BY <1>1, <2>1, <2>2, StackStep DEF HistoryStep, Known, TypeInv
  <2>4. OwnHistory(s, t)
    BY <1>1, <2>1 DEF OwnHistory
  <2>5. QED BY <1>1, <1>2, <2>3, <2>4, HistoryStepOK
<1>4. CASE LookupStale(s)
  <2>1. /\ UNCHANGED <<sweep, inbox>> /\ conversations' = conversations \ {t}
        /\ \A u \in Task \ {t} : tasks'[u] = tasks[u]
        /\ SendAndReturn(s, "done")
    BY <1>2, <1>4
    DEF LookupStale, ClearTaskState, Remove, Unshared, Known, TypeInv, TablesOK
  <2>2. HistoryStep(s)
    BY <1>1, <1>2, <2>1, StackStep DEF HistoryStep, Known, TypeInv
  <2>3. OwnHistory(s, t)
    BY <2>1 DEF OwnHistory
  <2>4. QED BY <1>1, <1>2, <2>2, <2>3, HistoryStepOK
<1>5. CASE LookupFound(s)
  <2>1. /\ UNCHANGED <<sweep, inbox, conversations, cur>> /\ pc'[s] = "decide"
        /\ \A u \in Shell \ {s} : pc'[u] = pc[u]
        /\ \A u \in Task \ {t} : tasks'[u] = tasks[u]
        /\ cur[s].kind # "ack" => tasks'[t] = tasks[t]
    BY <1>2, <1>5
    DEF LookupFound, Remove, Goto, Unshared, Known, TypeInv, TablesOK, StacksOK
  <2>2. HistoryStep(s)
    BY <1>2, <2>1 DEF HistoryStep
  <2>3. OwnHistory(s, t)
    BY <1>1, <2>1 DEF OwnHistory
  <2>4. QED BY <1>1, <1>2, <2>2, <2>3, HistoryStepOK
<1>6. QED BY <1>3, <1>4, <1>5 DEF LookingUp

LEMMA DecidingHistory ==
  ASSUME Known, ConvInv, NEW s \in Shell, Deciding(s)
  PROVE  ConvInv'
<1> USE DEF HoldsHistory, AckHoldsHistory
<1>1. pc[s] = "decide" /\ pc[s] \in Busy /\ cur[s].kind # "explained"
  <2>1. pc[s] = "decide"
    BY DEF Deciding, Approve, ApproveAll, EditRefused, EditAccepted, Reject,
           RejectWithReason, Abort, NotAwaiting, ClarificationAmbiguous, Clarified, AckLast,
           AckContinue, Decides, At
  <2>2. pc[s] \in Busy
    BY <2>1 DEF Busy, PC, Idle
  <2>3. QED BY <2>1, <2>2 DEF ConvInv, NoReasons
<1>2. PICK t \in Task : t = OnTask(s)
  BY <1>1, OwnFacts
<1>3. tasks[t] \in Entry \cup {Absent}
  BY <1>1, <1>2, OwnFacts
<1>4. CASE Approve(s) \/ EditAccepted(s) \/ ApproveAll(s) \/ ClarificationAmbiguous(s)
  <2>1. \E e : (tasks[t] # Absent => e \in Entry) /\ Amend(t, e)
    <3>1. tasks[t] # Absent =>
            /\ [tasks[t] EXCEPT !.awaiting = FALSE, !.stale = FALSE] \in Entry
            /\ [tasks[t] EXCEPT !.override = TRUE, !.awaiting = FALSE, !.stale = FALSE] \in Entry
            /\ [tasks[t] EXCEPT !.awaiting = TRUE, !.continuation = TRUE, !.stale = FALSE] \in Entry
      BY <1>3 DEF Entry
    <3>2. CASE Approve(s) \/ EditAccepted(s)
      <4>1. Amend(t, [tasks[t] EXCEPT !.awaiting = FALSE, !.stale = FALSE])
        BY <1>2, <3>2 DEF Approve, EditAccepted
      <4>2. QED BY <3>1, <4>1
    <3>3. CASE ApproveAll(s)
      <4>1. Amend(t, [tasks[t] EXCEPT !.override = TRUE, !.awaiting = FALSE, !.stale = FALSE])
        BY <1>2, <3>3 DEF ApproveAll
      <4>2. QED BY <3>1, <4>1
    <3>4. CASE ClarificationAmbiguous(s)
      <4>1. Amend(t, [tasks[t] EXCEPT !.awaiting = TRUE, !.continuation = TRUE, !.stale = FALSE])
        BY <1>2, <3>4 DEF ClarificationAmbiguous, Reawait
      <4>2. QED BY <3>1, <4>1
    <3>5. QED BY <1>4, <3>2, <3>3, <3>4
  <2>2. /\ tasks'[t] = Absent <=> tasks[t] = Absent
        /\ \A u \in Task \ {t} : tasks'[u] = tasks[u]
    BY <2>1, AmendStep DEF Known, TypeInv
  <2>3. UNCHANGED <<sweep, inbox, conversations>> /\ (Acknowledged(s) \/ SendAndReturn(s, "asked"))
    BY <1>4 DEF Approve, EditAccepted, ApproveAll, ClarificationAmbiguous, Unshared
  <2>4. HistoryStep(s)
    BY <1>1, <1>2, <2>2, <2>3, StackStep DEF HistoryStep, Known, TypeInv
  <2>5. cur[s].kind # "ack"
    BY <1>4 DEF Approve, EditAccepted, ApproveAll, ClarificationAmbiguous, Decides
  <2>6. OwnHistory(s, t)
    BY <1>1, <2>2, <2>3, <2>5 DEF OwnHistory
  <2>7. QED BY <1>1, <1>2, <2>4, <2>6, HistoryStepOK
<1>5. CASE EditRefused(s) \/ Reject(s) \/ Abort(s) \/ NotAwaiting(s) \/ AckLast(s)
  <2>1. /\ UNCHANGED <<sweep, inbox>> /\ SendAndReturn(s, "done")
        /\ \A u \in Task \ {t} : tasks'[u] = tasks[u]
        /\ \/ conversations' = conversations \ {t}
           \/ conversations' = conversations /\ tasks' = tasks /\ cur[s].kind # "ack"
    BY <1>2, <1>5
    DEF EditRefused, Reject, Abort, NotAwaiting, AckLast, ClearTaskState, Remove, Decides,
        daemonVars, Unshared, Known, TypeInv, TablesOK
  <2>2. HistoryStep(s)
    BY <1>1, <1>2, <2>1, StackStep DEF HistoryStep, Known, TypeInv
  <2>3. OwnHistory(s, t)
    BY <1>1, <2>1 DEF OwnHistory
  <2>4. QED BY <1>1, <1>2, <2>2, <2>3, HistoryStepOK
<1>6. CASE Clarified(s) \/ AckContinue(s)
  <2>1. /\ UNCHANGED <<sweep, inbox, tasks>> /\ Goto(s, "orchestrate") /\ Keep
        /\ \/ conversations' = conversations /\ cur[s].kind = "clarification"
           \/ conversations' = conversations \cup {t} /\ cur[s].kind = "ack"
    BY <1>2, <1>6 DEF Clarified, AckContinue, Decides, daemonVars, Unshared
  <2>2. HistoryStep(s) /\ pc'[s] = "orchestrate"
    BY <1>1, <1>2, <2>1, StackStep DEF HistoryStep, Known, TypeInv
  <2>3. OwnHistory(s, t)
    BY <1>1, <2>1, <2>2 DEF OwnHistory
  <2>4. QED BY <1>1, <1>2, <2>2, <2>3, HistoryStepOK
<1>7. ~RejectWithReason(s)
  BY <1>1 DEF RejectWithReason, Decides
<1>8. QED BY <1>4, <1>5, <1>6, <1>7 DEF Deciding

LEMMA OrchestrationHistory ==
  ASSUME Known, ConvInv, NEW s \in Shell, Orchestration(s)
  PROVE  ConvInv'
<1> USE DEF HoldsHistory, AckHoldsHistory
<1>1. /\ pc[s] \in {"orchestrate", "seed", "stream", "surface"} /\ pc[s] \in Busy
      /\ "handled" \in Busy
  BY DEF Orchestration, DirectAnswer, NoTools, ExposeTools, SeedConversation, Complete,
         Clarify, GiveUp, Orchestrating, At, Busy, PC, Idle
<1>2. PICK t \in Task : t = OnTask(s)
  BY <1>1, OwnFacts
<1>3. CASE DirectAnswer(s) \/ NoTools(s) \/ ExposeTools(s)
  <2>1. /\ UNCHANGED <<sweep, inbox, tasks, conversations>> /\ pc[s] = "orchestrate"
        /\ \/ SendThen(s, "done", "handled") /\ cur[s].kind # "ack"
           \/ Goto(s, "unhandled") /\ Keep
           \/ Goto(s, "seed") /\ Keep
    BY <1>3 DEF DirectAnswer, NoTools, ExposeTools, At, Unshared, daemonVars
  <2>2. /\ HistoryStep(s)
        /\ pc'[s] \in {"unhandled", "seed"} \/ cur[s].kind # "ack"
    BY <1>1, <1>2, <2>1, StackStep DEF HistoryStep, Known, TypeInv
  <2>3. OwnHistory(s, t)
    BY <2>1, <2>2 DEF OwnHistory
  <2>4. QED BY <1>1, <1>2, <2>2, <2>3, HistoryStepOK
<1>4. CASE SeedConversation(s)
  <2>1. /\ UNCHANGED <<sweep, inbox, tasks>> /\ conversations' = conversations \cup {t}
        /\ Goto(s, "stream") /\ Keep
    BY <1>2, <1>4 DEF SeedConversation, Unshared
  <2>2. HistoryStep(s) /\ pc'[s] = "stream"
    BY <1>1, <1>2, <2>1, StackStep DEF HistoryStep, Known, TypeInv
  <2>3. OwnHistory(s, t)
    BY <2>2 DEF OwnHistory
  <2>4. QED BY <1>1, <1>2, <2>2, <2>3, HistoryStepOK
<1>5. CASE Complete(s) \/ GiveUp(s)
  <2>1. /\ UNCHANGED <<sweep, inbox, tasks>> /\ conversations' = conversations \ {t}
        /\ \/ SendThen(s, "done", "handled")
           \/ Goto(s, "unhandled") /\ Keep
    BY <1>2, <1>5 DEF Complete, GiveUp, Unshared
  <2>2. HistoryStep(s)
    BY <1>1, <1>2, <2>1, StackStep DEF HistoryStep, Known, TypeInv
  <2>3. OwnHistory(s, t)
    BY <2>1 DEF OwnHistory
  <2>4. QED BY <1>1, <1>2, <2>2, <2>3, HistoryStepOK
<1>6. CASE Clarify(s)
  <2>1. PICK round \in Rounds : Insert(t, AwaitingEntry(ShellOverride(s), TRUE, round))
    BY <1>2, <1>6 DEF Clarify
  <2>2. AwaitingEntry(ShellOverride(s), TRUE, round) # Absent
    BY AwaitingFields, ShellOverrideType
  <2>3. tasks'[t] # Absent /\ \A u \in Task \ {t} : tasks'[u] = tasks[u]
    BY <2>1, <2>2 DEF Insert, Known, TypeInv, TablesOK
  <2>4. UNCHANGED <<sweep, inbox, conversations>> /\ SendThen(s, "asked", "handled")
    BY <1>6 DEF Clarify, Unshared
  <2>5. HistoryStep(s)
    BY <1>1, <1>2, <2>3, <2>4, StackStep DEF HistoryStep, Known, TypeInv
  <2>6. OwnHistory(s, t)
    BY <2>3 DEF OwnHistory
  <2>7. QED BY <1>1, <1>2, <2>5, <2>6, HistoryStepOK
<1>7. QED BY <1>3, <1>4, <1>5, <1>6 DEF Orchestration

LEMMA PlanningHistory ==
  ASSUME Known, ConvInv, AllowClarifications, NEW s \in Shell, Planning(s)
  PROVE  ConvInv'
<1> USE DEF HoldsHistory, AckHoldsHistory
<1>1. pc[s] \in {"stream", "surface"} /\ pc[s] \in Busy /\ "handled" \in Busy
  BY DEF Planning, Propose, FallbackFailed, FloorRefused, Unvalidated, Surface,
         Orchestrating, At, Busy, PC, Idle
<1>2. PICK t \in Task : t = OnTask(s)
  BY <1>1, OwnFacts
<1>3. prior[s].override \in BOOLEAN /\ prior[s].round \in Rounds
  BY <1>1, OwnFacts DEF Prior
<1>4. CASE Propose(s)
  <2>1. /\ UNCHANGED <<sweep, inbox, tasks, conversations, cur>> /\ pc'[s] = "surface"
        /\ \A u \in Shell \ {s} : pc'[u] = pc[u]
    BY <1>4 DEF Propose, Goto, Unshared, daemonVars, Known, TypeInv, StacksOK
  <2>2. HistoryStep(s)
    BY <2>1 DEF HistoryStep
  <2>3. OwnHistory(s, t)
    BY <2>1 DEF OwnHistory
  <2>4. QED BY <1>1, <1>2, <2>2, <2>3, HistoryStepOK
<1>5. CASE FallbackFailed(s)
  <2>1. UNCHANGED <<sweep, inbox, tasks, pc, cur>> /\ conversations' = conversations \ {t}
    BY <1>2, <1>5 DEF FallbackFailed, Unshared, handlerVars
  <2>2. HistoryStep(s)
    BY <1>2, <2>1 DEF HistoryStep
  <2>3. OwnHistory(s, t)
    BY <2>1 DEF OwnHistory
  <2>4. QED BY <1>1, <1>2, <2>2, <2>3, HistoryStepOK
<1>6. CASE FloorRefused(s) \/ Unvalidated(s) \/ Surface(s)
  <2>1. \E e \in Entry : Insert(t, e)
    <3>1. CASE FloorRefused(s) \/ Unvalidated(s)
      <4>1. PICK again \in BOOLEAN :
              Insert(t, AwaitingEntry(prior[s].override, again, prior[s].round))
        BY <1>2, <3>1 DEF FloorRefused, Unvalidated
      <4>2. AwaitingEntry(prior[s].override, again, prior[s].round) \in Entry
        BY <1>3, AwaitingFields
      <4>3. QED BY <4>1, <4>2
    <3>2. CASE Surface(s)
      <4>1. PICK again \in BOOLEAN :
              Insert(t, [override |-> prior[s].override, awaiting |-> FALSE,
                         continuation |-> again, round |-> prior[s].round, stale |-> FALSE])
        BY <1>2, <3>2 DEF Surface
      <4>2. [override |-> prior[s].override, awaiting |-> FALSE, continuation |-> again,
             round |-> prior[s].round, stale |-> FALSE] \in Entry
        BY <1>3 DEF Entry
      <4>3. QED BY <4>1, <4>2
    <3>3. QED BY <1>6, <3>1, <3>2
  <2>2. tasks'[t] # Absent /\ \A u \in Task \ {t} : tasks'[u] = tasks[u]
    BY <2>1, NoneAssumption DEF Insert, Known, TypeInv, TablesOK
  <2>3. /\ UNCHANGED <<sweep, inbox>> /\ conversations' \subseteq conversations \cup {t}
        /\ \E v : SendThen(s, v, "handled")
    BY <1>2, <1>6 DEF FloorRefused, Unvalidated, Surface, Unshared
  <2>4. HistoryStep(s)
    BY <1>1, <1>2, <2>2, <2>3, StackStep DEF HistoryStep, Known, TypeInv
  <2>5. OwnHistory(s, t)
    BY <2>2 DEF OwnHistory
  <2>6. QED BY <1>1, <1>2, <2>4, <2>5, HistoryStepOK
<1>7. QED BY <1>4, <1>5, <1>6 DEF Planning

LEMMA ConcludingHistory ==
  ASSUME Known, ConvInv, NEW s \in Shell, Concluding(s)
  PROVE  ConvInv'
<1> USE DEF HoldsHistory, AckHoldsHistory
<1>1. pc[s] \in {"handled", "unhandled"} /\ pc[s] \in Busy /\ cur[s].kind # "explained"
  <2>1. pc[s] \in {"handled", "unhandled"}
    BY DEF Concluding, StartHandled, StartUnhandled, ClarificationHandled,
           ClarificationUnhandled, RejectionHandled, RejectionUnhandled, AckHandled,
           AckUnhandled, After, At
  <2>2. pc[s] \in Busy
    BY <2>1 DEF Busy, PC, Idle
  <2>3. QED BY <2>1, <2>2 DEF ConvInv, NoReasons
<1>2. PICK t \in Task : t = OnTask(s)
  BY <1>1, OwnFacts
<1>3. tasks[t] \in Entry \cup {Absent} /\ ~RejectionHandled(s) /\ ~RejectionUnhandled(s)
  BY <1>1, <1>2, OwnFacts DEF RejectionHandled, RejectionUnhandled, After
<1>4. CASE StartHandled(s) \/ StartUnhandled(s)
  <2>1. 0 \in Rounds /\ ShellOverride(s) \in BOOLEAN /\ TRUE \in BOOLEAN
    BY ConfigAssumption, ShellOverrideType DEF Rounds
  <2>2. AwaitingEntry(ShellOverride(s), TRUE, 0) # Absent
    BY <2>1, AwaitingFields
  <2>3. /\ UNCHANGED <<sweep, inbox, conversations>> /\ cur[s].kind = "start"
        /\ Return(s) \/ SendAndReturn(s, "asked")
        /\ tasks[t] # Absent => tasks'[t] # Absent
        /\ \A u \in Task \ {t} : tasks'[u] = tasks[u]
    BY <1>2, <1>4, <2>2
    DEF StartHandled, StartUnhandled, AskedAtStart, Insert, After, Unshared, daemonVars,
        Known, TypeInv, TablesOK
  <2>4. HistoryStep(s)
    BY <1>1, <1>2, <2>3, StackStep DEF HistoryStep, Known, TypeInv
  <2>5. OwnHistory(s, t)
    BY <1>1, <2>3 DEF OwnHistory
  <2>6. QED BY <1>1, <1>2, <2>4, <2>5, HistoryStepOK
<1>5. CASE ClarificationHandled(s) \/ ClarificationUnhandled(s)
  <2>1. PICK awaiting \in BOOLEAN : Reawait(s, awaiting)
    BY <1>5 DEF ClarificationHandled, ClarificationUnhandled
  <2>2. /\ tasks'[t] = Absent <=> tasks[t] = Absent
        /\ \A u \in Task \ {t} : tasks'[u] = tasks[u]
    BY <1>2, <2>1, ReawaitStep DEF Known, TypeInv
  <2>3. /\ UNCHANGED <<sweep, inbox, conversations>> /\ cur[s].kind = "clarification"
        /\ Return(s) \/ SendAndReturn(s, "asked")
    BY <1>5 DEF ClarificationHandled, ClarificationUnhandled, After, Unshared
  <2>4. HistoryStep(s)
    BY <1>1, <1>2, <2>2, <2>3, StackStep DEF HistoryStep, Known, TypeInv
  <2>5. OwnHistory(s, t)
    BY <1>1, <2>2, <2>3 DEF OwnHistory
  <2>6. QED BY <1>1, <1>2, <2>4, <2>5, HistoryStepOK
<1>6. CASE AckHandled(s)
  <2>1. /\ UNCHANGED <<sweep, inbox, conversations>> /\ Return(s) /\ pc[s] = "handled"
        /\ Amend(t, [tasks[t] EXCEPT !.round = NextRound(s), !.continuation = TRUE])
        /\ cur[s].kind = "ack"
    BY <1>2, <1>6 DEF AckHandled, After, At, Unshared
  <2>2. snap[s] \in Entry /\ ~RoundLimitReached(s)
    BY <2>1
    DEF Known, TypeInv, StacksOK, Ready, AfterDecision, AfterLookup
  <2>3. NextRound(s) \in Rounds
    BY <2>2, ConfigAssumption DEF RoundLimitReached, NextRound, Entry, Rounds
  <2>4. tasks[t] # Absent =>
          [tasks[t] EXCEPT !.round = NextRound(s), !.continuation = TRUE] \in Entry
    BY <1>3, <2>3 DEF Entry
  <2>5. /\ tasks'[t] = Absent <=> tasks[t] = Absent
        /\ \A u \in Task \ {t} : tasks'[u] = tasks[u]
    BY <2>1, <2>4, AmendStep DEF Known, TypeInv
  <2>6. HistoryStep(s)
    BY <1>1, <1>2, <2>1, <2>5, StackStep DEF HistoryStep, Known, TypeInv
  <2>7. OwnHistory(s, t)
    BY <2>1, <2>5 DEF OwnHistory
  <2>8. QED BY <1>1, <1>2, <2>6, <2>7, HistoryStepOK
<1>7. CASE AckUnhandled(s)
  <2>1. /\ UNCHANGED <<sweep, inbox, tasks>> /\ conversations' = conversations \ {t}
        /\ SendAndReturn(s, "done")
    BY <1>2, <1>7 DEF AckUnhandled, Unshared
  <2>2. HistoryStep(s)
    BY <1>1, <1>2, <2>1, StackStep DEF HistoryStep, Known, TypeInv
  <2>3. OwnHistory(s, t)
    BY <2>1 DEF OwnHistory
  <2>4. QED BY <1>1, <1>2, <2>2, <2>3, HistoryStepOK
<1>8. QED BY <1>3, <1>4, <1>5, <1>6, <1>7 DEF Concluding

\* A step at no task of the handler's: nothing is added to the conversations.
LEMMA ConversationKept ==
  ASSUME NEW t, HistoryKnown(t), Loose(t) => Loose(t)' \/ t \notin conversations',
         t \in conversations' => t \in conversations,
         tasks[t] # Absent => tasks'[t] # Absent \/ Swept(t)' \/ t \notin conversations',
         Swept(t) => Swept(t)' \/ t \notin conversations'
  PROVE  HistoryKnown(t)'
  BY DEF HistoryKnown

LEMMA ClosingHistory ==
  ASSUME Known, ConvInv, NEW s \in Shell, Closing(s)
  PROVE  ConvInv'
<1>1. CASE Fail(s)
  <2>1. pc[s] \in Busy
    BY <1>1 DEF Fail, At, Busy, PC, Idle
  <2>2. PICK t \in Task : t = OnTask(s)
    BY <2>1, OwnFacts
  <2>3. /\ UNCHANGED <<sweep, inbox>> /\ conversations' = conversations \ {t}
        /\ Goto(s, "closing") /\ Keep /\ \A u \in Task \ {t} : tasks'[u] = tasks[u]
    BY <1>1, <2>2
    DEF Fail, ClearTaskState, Remove, Unshared, Known, TypeInv, TablesOK
  <2>4. HistoryStep(s)
    BY <2>1, <2>2, <2>3, StackStep DEF HistoryStep, Known, TypeInv
  <2>5. OwnHistory(s, t)
    BY <2>3 DEF OwnHistory
  <2>6. QED BY <2>1, <2>2, <2>4, <2>5, HistoryStepOK
<1>2. CASE EndOfStream(s) \/ DropConnection(s) \/ CloseShell(s)
  <2>1. /\ UNCHANGED <<sweep, inbox>> /\ pc[s] \in {Idle, "closing"}
        /\ pc'[s] \in {"closing", "closed", "dropped"}
        /\ \A u \in Shell \ {s} : pc'[u] = pc[u] /\ cur'[u] = cur[u]
    BY <1>2
    DEF EndOfStream, DropConnection, CloseShell, At, Goto, Keep, Unshared, Known, TypeInv,
        StacksOK
  <2>2. pc[s] \notin Busy /\ pc'[s] \notin Busy
    BY <2>1 DEF Busy, PC, Idle
  <2>3. NoReasons'
    BY <2>1, <2>2 DEF ConvInv, NoReasons
  <2>4. ASSUME NEW t \in Task PROVE HistoryKnown(t)'
    <3>1. /\ t \in conversations' => t \in conversations
          /\ tasks[t] # Absent => tasks'[t] # Absent \/ t \notin conversations'
      BY <1>2
      DEF EndOfStream, DropConnection, CloseShell, OpenTasks, daemonVars, Known, TypeInv,
          TablesOK
    <3>2. HoldsHistory \subseteq Busy /\ AckHoldsHistory \subseteq Busy
      BY DEF HoldsHistory, AckHoldsHistory, Busy, PC, Idle
    <3>3. Loose(t) => Loose(t)'
      BY <2>1, <2>2, <3>2, ConfigAssumption DEF Loose, Doing, Kind
    <3>4. HistoryKnown(t) /\ (Swept(t) <=> Swept(t)')
      BY <2>1 DEF ConvInv, Swept
    <3>5. QED BY <3>1, <3>3, <3>4, ConversationKept
  <2>5. QED BY <2>3, <2>4 DEF ConvInv
<1>3. QED BY <1>1, <1>2 DEF Closing

LEMMA ReceiveHistory ==
  ASSUME Known, ConvInv, NEW s \in Shell, Receive(s)
  PROVE  ConvInv'
<1>1. /\ Len(inbox[s]) \in Nat \ {0}
      /\ Head(inbox[s]) = inbox[s][1]
      /\ Len(Tail(inbox[s])) = Len(inbox[s]) - 1
      /\ \A i \in 1 .. Len(inbox[s]) - 1 : Tail(inbox[s])[i] = inbox[s][i + 1]
  BY DEF Receive, Known, TypeInv, InboxOK
<1>2. /\ inbox'[s] = Tail(inbox[s]) /\ \A u \in Shell \ {s} : inbox'[u] = inbox[u]
      /\ pc[s] = Idle /\ pc'[s] \in {"start", "timed"} /\ cur'[s] = Head(inbox[s])
      /\ \A u \in Shell \ {s} : pc'[u] = pc[u] /\ cur'[u] = cur[u]
      /\ UNCHANGED <<tasks, conversations, sweep>>
  BY DEF Receive, At, Goto, daemonVars, Known, TypeInv, InboxOK, StacksOK
<1>3. NoReasons'
  <2>1. cur'[s].kind # "explained"
    <3>1. 1 \in 1 .. Len(inbox[s])
      BY <1>1
    <3>2. QED BY <1>1, <1>2, <3>1 DEF ConvInv, NoReasons
  <2>2. ASSUME NEW i \in 1 .. Len(inbox'[s]) PROVE inbox'[s][i].kind # "explained"
    <3>1. i + 1 \in 1 .. Len(inbox[s]) /\ inbox'[s][i] = inbox[s][i + 1]
      BY <1>1, <1>2, <2>2
    <3>2. QED BY <3>1 DEF ConvInv, NoReasons
  <2>3. QED BY <1>2, <2>1, <2>2 DEF ConvInv, NoReasons
<1>4. ASSUME NEW t \in Task PROVE HistoryKnown(t)'
  <2>1. Loose(t) => Loose(t)'
    BY <1>2, ConfigAssumption DEF Loose, Doing, Kind, HoldsHistory, AckHoldsHistory, Idle
  <2>2. HistoryKnown(t) /\ (Swept(t) <=> Swept(t)')
    BY <1>2 DEF ConvInv, Swept
  <2>3. QED BY <1>2, <2>1, <2>2, ConversationKept
<1>5. QED BY <1>3, <1>4 DEF ConvInv

LEMMA ClientSendsHistory ==
  ASSUME Known, ConvInv, NEW t \in Task, NEW kind, kind # "explained", NEW from, NEW to,
         ClientSends(t, kind, from, to)
  PROVE  ConvInv'
<1> DEFINE s == ShellOf[t]
           m == [kind |-> kind, task |-> t]
<1>1. s \in Shell /\ inbox[s] \in Seq(Message)
  BY ConfigAssumption DEF Known, TypeInv, InboxOK
<1>2. /\ inbox'[s] = Append(inbox[s], m) /\ \A u \in Shell \ {s} : inbox'[u] = inbox[u]
      /\ UNCHANGED <<tasks, conversations, sweep, pc, cur>>
  BY <1>1 DEF ClientSends, handlerVars, daemonVars, Known, TypeInv, InboxOK
<1>3. /\ Len(inbox'[s]) = Len(inbox[s]) + 1 /\ Len(inbox[s]) \in Nat
      /\ \A i \in 1 .. Len(inbox[s]) : inbox'[s][i] = inbox[s][i]
      /\ inbox'[s][Len(inbox[s]) + 1] = m
  BY <1>1, <1>2
<1>4. ASSUME NEW i \in 1 .. Len(inbox'[s]) PROVE inbox'[s][i].kind # "explained"
  <2>1. CASE i = Len(inbox[s]) + 1
    BY <1>3, <2>1
  <2>2. CASE i # Len(inbox[s]) + 1
    <3>1. i \in 1 .. Len(inbox[s])
      BY <1>3, <1>4, <2>2
    <3>2. QED BY <1>1, <1>3, <3>1 DEF ConvInv, NoReasons
  <2>3. QED BY <2>1, <2>2
<1>5. NoReasons'
  BY <1>2, <1>4 DEF ConvInv, NoReasons
<1>6. ASSUME NEW u \in Task PROVE HistoryKnown(u)'
  BY <1>2 DEF ConvInv, HistoryKnown, Swept, Loose, Doing, Kind
<1>7. QED BY <1>5, <1>6 DEF ConvInv

LEMMA ClientHistory == ASSUME Known, ConvInv, ~ReasonedRejections, Client PROVE ConvInv'
<1>1. ASSUME NEW t \in Task, SendStart(t) PROVE ConvInv'
  BY <1>1, ClientSendsHistory DEF SendStart
<1>2. ASSUME NEW t \in Task, SendApproval(t) PROVE ConvInv'
  BY <1>2, ClientSendsHistory DEF SendApproval
<1>3. ASSUME NEW t \in Task, SendRejection(t) PROVE ConvInv'
  BY <1>3, ClientSendsHistory DEF SendRejection
<1>4. ASSUME NEW t \in Task, SendClarification(t) PROVE ConvInv'
  BY <1>4, ClientSendsHistory DEF SendClarification
<1>5. ASSUME NEW t \in Task, SendAbort(t) PROVE ConvInv'
  BY <1>5, ClientSendsHistory DEF SendAbort
<1>6. ASSUME NEW t \in Task, SendAck(t) PROVE ConvInv'
  BY <1>6, ClientSendsHistory DEF SendAck
<1>7. ASSUME NEW s \in Shell, Disconnect(s) PROVE ConvInv'
  BY <1>7
  DEF Disconnect, daemonVars, handlerVars, ConvInv, NoReasons, HistoryKnown, Swept, Loose,
      Doing, Kind
<1>8. QED
  BY <1>1, <1>2, <1>3, <1>4, <1>5, <1>6, <1>7 DEF Client

LEMMA SweepHistory == ASSUME Known, ConvInv, Sweep \/ Time PROVE ConvInv'
<1>1. UNCHANGED <<pc, cur, inbox>>
  BY DEF Sweep, SweepTasks, SweepConversations, SweepTimedOut, Time, GoStale, Forget,
         handlerVars, clientVars
<1>2. NoReasons'
  BY <1>1 DEF ConvInv, NoReasons
<1>3. ASSUME NEW t \in Task PROVE HistoryKnown(t)'
  <2>1. HistoryKnown(t) /\ (Loose(t)' <=> Loose(t))
    BY <1>1 DEF ConvInv, Loose, Doing, Kind
  <2>2. CASE SweepTasks
    <3>1. /\ conversations' = conversations /\ sweep' = [step |-> "conversations", found |-> Stale]
          /\ tasks'[t] = IF t \in Stale THEN Absent ELSE tasks[t]
          /\ ~Swept(t)
      BY <2>2 DEF SweepTasks, Swept
    <3>2. t \in Stale => Swept(t)'
      BY <3>1 DEF Swept
    <3>3. QED BY <2>1, <3>1, <3>2, ConversationKept
  <2>3. CASE SweepConversations
    BY <2>1, <2>3, ConversationKept DEF SweepConversations, Swept
  <2>4. CASE SweepTimedOut
    BY <2>1, <2>4, ConversationKept DEF SweepTimedOut, Swept
  <2>5. ASSUME NEW u \in Task, GoStale(u) PROVE HistoryKnown(t)'
    <3>1. tasks[u] \in Entry
      BY <2>5 DEF GoStale, Known, TypeInv, TablesOK
    <3>2. [tasks[u] EXCEPT !.stale = TRUE] \in Entry
      BY <3>1 DEF Entry
    <3>3. [tasks[u] EXCEPT !.stale = TRUE] # Absent
      BY <3>2, NoneAssumption
    <3>4. tasks[t] # Absent => tasks'[t] # Absent
      BY <2>5, <3>3 DEF GoStale, Known, TypeInv, TablesOK
    <3>5. QED BY <2>1, <2>5, <3>4, ConversationKept DEF GoStale, Swept
  <2>6. ASSUME NEW u \in Task, Forget(u) PROVE HistoryKnown(t)'
    BY <2>1, <2>6, ConversationKept DEF Forget, Swept
  <2>7. QED BY <2>2, <2>3, <2>4, <2>5, <2>6 DEF Sweep, Time
<1>4. QED BY <1>2, <1>3 DEF ConvInv

LEMMA ConvInvInit == ASSUME Init PROVE ConvInv
  BY DEF Init, ConvInv, NoReasons, HistoryKnown, Busy, Idle

LEMMA ConvInvStep ==
  ASSUME Known, ConvInv, Clarifying, [Next]_vars
  PROVE  ConvInv'
<1>1. AllowClarifications /\ ~ReasonedRejections
  BY DEF Clarifying
<1>2. ASSUME NEW s \in Shell, Handler(s) PROVE ConvInv'
  BY <1>1, <1>2, ReceiveHistory, StartingHistory, LookingUpHistory, DecidingHistory,
     OrchestrationHistory, PlanningHistory, ConcludingHistory, ClosingHistory DEF Handler
<1>3. CASE UNCHANGED vars
  BY <1>3
  DEF vars, daemonVars, handlerVars, clientVars, ConvInv, NoReasons, HistoryKnown, Swept,
      Loose, Doing, Kind
<1>4. QED
  BY <1>1, <1>2, <1>3, ClientHistory, SweepHistory DEF Next

LEMMA ConvInvInvariant == Clarifying => (Spec => []ConvInv)
<1>1. Init => ConvInv
  BY ConvInvInit
<1>2. SUFFICES ASSUME Clarifying PROVE Spec => []ConvInv
  OBVIOUS
<1>3. Known /\ ConvInv /\ [Next]_vars => ConvInv'
  BY <1>2, ConvInvStep
<1>4. QED BY <1>1, <1>3, KnownInvariant, PTL DEF Spec

\* As long as no client rejects with a text (the adapter sends none), a task's
\* conversation outlives its entry only while its handler works on the task or
\* the sweeper is about to drop it.  (Otherwise it may be left behind: the
\* sweeper can take the entry between a handler's lookup and the note of the
\* refusal.)
THEOREM NoOrphanCorrect ==
  ~ReasonedRejections => (Spec => []NoOrphanConversation)
<1> SUFFICES ASSUME ~ReasonedRejections PROVE Spec => []NoOrphanConversation
  OBVIOUS
<1>1. ASSUME Known, ConvInv PROVE NoOrphanConversation
  <2>1. ASSUME NEW t \in Task, Loose(t) PROVE Working(t)
    <3>1. pc[ShellOf[t]] \in Busy /\ cur[ShellOf[t]].task = t /\ ShellOf[t] \in Shell
      BY <2>1, ConfigAssumption DEF Loose, Doing, HoldsHistory, AckHoldsHistory, Busy, PC, Idle
    <3>2. cur[ShellOf[t]] # Absent
      BY <1>1, <3>1, OwnFacts, NoneAssumption
    <3>3. QED BY <3>1, <3>2 DEF Working, Busy
  <2>2. conversations \subseteq Task
    BY <1>1 DEF Known, TypeInv, TablesOK
  <2>3. QED
    BY <1>1, <2>1, <2>2 DEF NoOrphanConversation, ConvInv, HistoryKnown, Swept
<1>2. CASE AllowClarifications
  <2>1. Spec => []ConvInv
    BY <1>2, ConvInvInvariant DEF Clarifying
  <2>2. Known /\ ConvInv => NoOrphanConversation
    BY <1>1
  <2>3. QED BY <2>1, <2>2, KnownInvariant, PTL
<1>3. CASE ~AllowClarifications
  <2>1. Known => NoOrphanConversation
    BY <1>3 DEF NoOrphanConversation
  <2>2. QED BY <2>1, KnownInvariant, PTL
<1>4. QED BY <1>2, <1>3

\* cancel_and_clear_shell_tasks is complete: a connection that ended through the
\* loop's exit leaves none of its shell's tasks in the table, and their
\* conversations to the sweeper only if it already has them.
THEOREM ClosedShellCorrect ==
  ~ReasonedRejections => (Spec => []ClosedShellIsClean)
<1> SUFFICES ASSUME ~ReasonedRejections PROVE Spec => []ClosedShellIsClean
  OBVIOUS
<1>1. ASSUME Known, ~AllowClarifications \/ ConvInv PROVE ClosedShellIsClean
  <2>1. ASSUME NEW t \in Task, pc[ShellOf[t]] = "closed"
        PROVE  tasks[t] = Absent /\ ~Loose(t)
    <3>1. tasks[t] = Absent
      BY <1>1, <2>1 DEF Known, TableInv, TaskOK, ClosedOK
    <3>2. ~Loose(t)
      BY <2>1 DEF Loose, Doing, HoldsHistory, AckHoldsHistory
    <3>3. QED BY <3>1, <3>2
  <2>2. QED
    BY <1>1, <2>1 DEF ClosedShellIsClean, At, ConvInv, HistoryKnown, Swept
<1>2. CASE AllowClarifications
  <2>1. Spec => []ConvInv
    BY <1>2, ConvInvInvariant DEF Clarifying
  <2>2. Known /\ ConvInv => ClosedShellIsClean
    BY <1>1
  <2>3. QED BY <2>1, <2>2, KnownInvariant, PTL
<1>3. CASE ~AllowClarifications
  <2>1. Known => ClosedShellIsClean
    BY <1>1, <1>3
  <2>2. QED BY <2>1, KnownInvariant, PTL
<1>4. QED BY <1>2, <1>3
-----------------------------------------------------------------------------
(***************************************************************************)
(* The dialogue.  TaskProtocol lets the daemon speak to a client only when *)
(* it was asked to.  That every reply is one to a client that waits, or    *)
(* that runs the command which the reply refuses, depends on the order of  *)
(* the line: the adapter runs an approved command at once, so its decision *)
(* and the Ack may both be under way, the decision first.                  *)
(***************************************************************************)
Approvals == {"approved", "approve_all", "edited"}
Partings == {"rejected", "abort"}
Taken == {"waiting", "running", "done"}

InLine(t, i, kinds) ==
  LET queue == inbox[ShellOf[t]] IN
  i \in 1 .. Len(queue) /\ queue[i].task = t /\ queue[i].kind \in kinds

DialogueOK(t) ==
  /\ Doing(t, BeforeAnswer) => view[t] \in Taken
  /\ \A i \in Nat : InLine(t, i, Approvals) =>
       /\ view[t] \in Taken /\ ~Answering(t)
       /\ \A j \in Nat : Asked(t, j) => i < j
  /\ \A i \in Nat : InLine(t, i, Partings) => view[t] = "done"

DialogueInv == \A t \in Task : DialogueOK(t)

\* A step of the protocol, or one that nobody outside the daemon sees.
ProtocolStep == Protocol!Next \/ UNCHANGED Protocol!vars

LEMMA DialogueKept ==
  ASSUME NEW t, DialogueOK(t), inbox'[ShellOf[t]] = inbox[ShellOf[t]],
         Doing(t, BeforeAnswer)' => Doing(t, BeforeAnswer),
         Answering(t)' => Answering(t),
         \/ view'[t] \in {view[t], "done"}
         \/ view[t] # "done" /\ Answering(t) /\ ~Doing(t, BeforeAnswer)'
  PROVE  DialogueOK(t)'
<1>1. \A i \in Nat : /\ InLine(t, i, Approvals)' <=> InLine(t, i, Approvals)
                     /\ InLine(t, i, Partings)' <=> InLine(t, i, Partings)
                     /\ Asked(t, i)' <=> Asked(t, i)
  BY DEF InLine, Asked
<1>2. Doing(t, BeforeAnswer)' => view'[t] \in Taken
  BY DEF DialogueOK, Taken
<1>3. ASSUME NEW i \in Nat, InLine(t, i, Approvals)'
      PROVE  /\ view'[t] \in Taken /\ ~Answering(t)'
             /\ \A j \in Nat : Asked(t, j)' => i < j
  BY <1>1, <1>3 DEF DialogueOK, Taken
<1>4. ASSUME NEW i \in Nat, InLine(t, i, Partings)' PROVE view'[t] = "done"
  BY <1>1, <1>4 DEF DialogueOK
<1>5. QED BY <1>2, <1>3, <1>4 DEF DialogueOK

\* A command is shown in a way that the approval mode and the approvals allow.
LEMMA OfferFits ==
  ASSUME NEW t, NEW override \in BOOLEAN, NEW critical \in BOOLEAN,
         override => Approver(t), view[t] = "waiting", UNCHANGED <<connected, granted>>,
         view' = [view EXCEPT
           ![t] = ProposalView(RequiresApproval(override, critical), critical)]
  PROVE  Protocol!Answer(t)
<1>1. Approver(t) = Protocol!Covered(t)
  BY DEF Approver, Protocol!Covered
<1>2. CASE RequiresApproval(override, critical)
  <2>1. ApprovalMode # "auto"
    BY <1>2 DEF RequiresApproval
  <2>2. ProposalView(RequiresApproval(override, critical), critical) \in
          (IF ApprovalMode = "manual_critical" THEN {"offered_critical"} ELSE Protocol!Offers)
    BY <1>2 DEF RequiresApproval, ProposalView, Protocol!Offers
  <2>3. Protocol!Offer(t)
    BY <2>1, <2>2 DEF Protocol!Offer, Protocol!Moves
  <2>4. QED BY <2>3 DEF Protocol!Answer
<1>3. CASE ~RequiresApproval(override, critical) /\ ~critical
  <2>1. ApprovalMode = "manual" => Protocol!Covered(t)
    BY <1>1, <1>3 DEF RequiresApproval
  <2>2. ProposalView(RequiresApproval(override, critical), critical) = "auto"
    BY <1>3 DEF ProposalView
  <2>3. Protocol!Run(t)
    BY <2>1, <2>2 DEF Protocol!Run, Protocol!Moves
  <2>4. QED BY <2>3 DEF Protocol!Answer
<1>4. CASE ~RequiresApproval(override, critical) /\ critical
  <2>1. ApprovalMode = "auto"
    BY <1>4, ConfigAssumption DEF RequiresApproval
  <2>2. ProposalView(RequiresApproval(override, critical), critical) = "auto_critical"
    BY <1>4 DEF ProposalView
  <2>3. Protocol!Run(t)
    BY <2>1, <2>2 DEF Protocol!Run, Protocol!Moves
  <2>4. QED BY <2>3 DEF Protocol!Answer
<1>5. QED BY <1>2, <1>3, <1>4

\* What a handler may say while it is at the task.
Fits(s, v) ==
  \/ v = "done"
  \/ /\ cur[s].kind \in Demands
     /\ \/ v = "asked"
        \/ /\ pc[s] = "surface"
           /\ \E critical \in BOOLEAN :
                v = ProposalView(RequiresApproval(prior[s].override, critical), critical)

Speaks(s, t) ==
  /\ \A u \in Shell \ {s} : pc'[u] = pc[u] /\ cur'[u] = cur[u]
  /\ UNCHANGED <<inbox, connected>>
  /\ pc'[s] \in Busy => cur'[s].task = t
  /\ pc'[s] \in BeforeAnswer => /\ pc[s] \in BeforeAnswer /\ view' = view
                                /\ cur'[s].kind \in {cur[s].kind, "rejected"}
  /\ \/ view' = view /\ granted' = granted
     \/ view' = view /\ granted' = granted \cup {t} /\ pc[s] \in BeforeAnswer
     \/ /\ granted' = granted /\ pc[s] \in BeforeAnswer
        /\ connected[s] /\ view[t] # "done"
        /\ \E v : Fits(s, v) /\ view' = [view EXCEPT ![t] = v]

LEMMA SpokenOK ==
  ASSUME Known, DialogueInv, NEW s \in Shell, NEW t, t = OnTask(s), pc[s] \in Busy,
         Speaks(s, t)
  PROVE  DialogueInv' /\ ProtocolStep
<1>1. /\ t \in Task /\ ShellOf[t] = s /\ cur[s].task = t /\ TaskOK(t) /\ DialogueOK(t)
      /\ view \in [Task -> View] /\ prior[s].override \in BOOLEAN
  BY OwnFacts DEF DialogueInv, Known, TypeInv, ViewOK, Prior
<1>2. BeforeAnswer \subseteq Busy
  BY BusyLabels
<1>3. pc[s] \in BeforeAnswer => /\ view[t] \in Taken
                                /\ cur[s].kind \in Demands => Answering(t)
                                /\ cur[s].kind \in Demands /\ view[t] # "done"
                                   => view[t] = "waiting"
  BY <1>1 DEF DialogueOK, Doing, Answering, Kind, TaskOK, LineOK
<1>4. ProtocolStep
  <2>1. CASE view' = view /\ granted' = granted
    BY <2>1 DEF Speaks, ProtocolStep, Protocol!vars
  <2>2. CASE view' = view /\ granted' = granted \cup {t} /\ pc[s] \in BeforeAnswer
    <3>1. Protocol!Grant(t)
      BY <1>3, <2>2 DEF Speaks, Protocol!Grant, Taken
    <3>2. QED BY <1>1, <3>1 DEF ProtocolStep, Protocol!Next
  <2>3. CASE /\ granted' = granted /\ pc[s] \in BeforeAnswer
             /\ connected[s] /\ view[t] # "done"
             /\ \E v : Fits(s, v) /\ view' = [view EXCEPT ![t] = v]
    <3>1. PICK v : Fits(s, v) /\ view' = [view EXCEPT ![t] = v]
      BY <2>3
    <3>2. UNCHANGED <<connected, granted>>
      BY <2>3 DEF Speaks
    <3>3. CASE v = "done"
      <4>1. Protocol!Finish(t)
        BY <1>3, <2>3, <3>1, <3>2, <3>3 DEF Protocol!Finish, Protocol!Moves, Taken
      <4>2. QED BY <1>1, <4>1 DEF ProtocolStep, Protocol!Next, Protocol!Answer
    <3>4. CASE cur[s].kind \in Demands /\ v = "asked"
      <4>1. Protocol!Ask(t)
        BY <1>3, <2>3, <3>1, <3>2, <3>4 DEF Protocol!Ask, Protocol!Moves, Protocol!Questions
      <4>2. QED BY <1>1, <4>1 DEF ProtocolStep, Protocol!Next, Protocol!Answer
    <3>5. CASE cur[s].kind \in Demands /\ pc[s] = "surface" /\ \E critical \in BOOLEAN :
                 v = ProposalView(RequiresApproval(prior[s].override, critical), critical)
      <4>1. PICK critical \in BOOLEAN :
              v = ProposalView(RequiresApproval(prior[s].override, critical), critical)
        BY <3>5
      <4>2. prior[s].override => Approver(t)
        BY <1>1, <3>5 DEF Known, ApprovalInv, PriorEarned
      <4>3. view[t] = "waiting"
        BY <1>3, <2>3, <3>5
      <4>4. Protocol!Answer(t)
        BY <1>1, <3>1, <3>2, <4>1, <4>2, <4>3, OfferFits
      <4>5. QED BY <1>1, <4>4 DEF ProtocolStep, Protocol!Next
    <3>6. QED BY <3>1, <3>3, <3>4, <3>5 DEF Fits
  <2>4. QED BY <2>1, <2>2, <2>3 DEF Speaks
<1>5. DialogueOK(t)'
  <2>1. Doing(t, BeforeAnswer)' => Doing(t, BeforeAnswer)
    BY <1>1, <1>2 DEF Doing, Speaks
  <2>2. Answering(t)' => Answering(t)
    BY <1>1, <1>2 DEF Answering, Doing, Kind, Speaks, Demands
  <2>3. view' = view \/ \E v : Fits(s, v) /\ view'[t] = v /\ view[t] # "done"
                               /\ pc[s] \in BeforeAnswer
    BY <1>1 DEF Speaks
  <2>4. view' # view => ~Doing(t, BeforeAnswer)'
    BY <1>1 DEF Doing, Speaks
  <2>5. \/ view'[t] \in {view[t], "done"}
        \/ view[t] # "done" /\ Answering(t) /\ ~Doing(t, BeforeAnswer)'
    BY <1>3, <2>3, <2>4 DEF Fits
  <2>6. inbox'[ShellOf[t]] = inbox[ShellOf[t]]
    BY DEF Speaks
  <2>7. QED BY <1>1, <2>1, <2>2, <2>5, <2>6, DialogueKept
<1>6. ASSUME NEW u \in Task, u # t PROVE DialogueOK(u)'
  <2>1. DialogueOK(u) /\ ShellOf[u] \in Shell /\ inbox'[ShellOf[u]] = inbox[ShellOf[u]]
    BY ConfigAssumption DEF DialogueInv, Speaks
  <2>2. view'[u] = view[u]
    BY <1>1, <1>6 DEF Speaks
  <2>3. Doing(u, BeforeAnswer)' => Doing(u, BeforeAnswer) /\ Kind(u)' = Kind(u)
    BY <1>2, <1>6, <2>1 DEF Speaks, Doing, Kind
  <2>4. Answering(u)' => Answering(u)
    BY <2>3 DEF Answering
  <2>5. QED BY <2>1, <2>2, <2>3, <2>4, DialogueKept
<1>7. QED BY <1>4, <1>5, <1>6 DEF DialogueInv

LEMMA ReplySpoken ==
  ASSUME Known, DialogueInv, NEW s \in Shell, pc[s] \in BeforeAnswer, NEW v, Fits(s, v),
         SendAndReturn(s, v) \/ SendThen(s, v, "handled"), Unshared, granted' = granted
  PROVE  DialogueInv' /\ ProtocolStep
<1>1. pc[s] \in Busy /\ Idle \notin BeforeAnswer /\ Idle \notin Busy
  BY BusyLabels DEF BeforeAnswer, Busy
<1>2. PICK t \in Task : t = OnTask(s)
  BY <1>1, OwnFacts
<1>3. /\ \A u \in Shell \ {s} : pc'[u] = pc[u] /\ cur'[u] = cur[u]
      /\ pc'[s] \in Busy => cur'[s] = cur[s]
      /\ pc'[s] \in {Idle, "handled", "failed"}
  BY <1>1, StackStep DEF Known, TypeInv
<1>4. pc'[s] \notin BeforeAnswer
  BY <1>1, <1>3 DEF BeforeAnswer
<1>5. view' = view \/ (connected[s] /\ view[t] # "done" /\ view' = [view EXCEPT ![t] = v])
  BY <1>2 DEF SendAndReturn, SendThen, Sends, Told, Known, TypeInv, ViewOK
<1>6. Speaks(s, t)
  BY <1>2, <1>3, <1>4, <1>5 DEF Speaks, Unshared, OnTask
<1>7. QED BY <1>1, <1>2, <1>6, SpokenOK

LEMMA MoveSpoken ==
  ASSUME Known, DialogueInv, NEW s \in Shell, pc[s] \in BeforeAnswer, NEW label,
         Goto(s, label), cur' = cur, view' = view, Unshared, granted' = granted
  PROVE  DialogueInv' /\ ProtocolStep
<1>1. pc[s] \in Busy
  BY BusyLabels
<1>2. PICK t \in Task : t = OnTask(s)
  BY <1>1, OwnFacts
<1>3. \A u \in Shell \ {s} : pc'[u] = pc[u]
  BY DEF Goto, Known, TypeInv, StacksOK
<1>4. Speaks(s, t)
  BY <1>2, <1>3 DEF Speaks, Unshared, OnTask
<1>5. QED BY <1>1, <1>2, <1>4, SpokenOK

LEMMA ReturnSpoken ==
  ASSUME Known, DialogueInv, NEW s \in Shell, pc[s] \in Busy, Return(s) \/ Acknowledged(s),
         view' = view, Unshared,
         \/ granted' = granted
         \/ granted' = granted \cup {OnTask(s)} /\ pc[s] \in BeforeAnswer
  PROVE  DialogueInv' /\ ProtocolStep
<1>1. PICK t \in Task : t = OnTask(s)
  BY OwnFacts
<1>2. /\ \A u \in Shell \ {s} : pc'[u] = pc[u] /\ cur'[u] = cur[u]
      /\ pc'[s] \in Busy => cur'[s] = cur[s]
  BY StackStep DEF Known, TypeInv
<1>3. pc'[s] \in {Idle, "failed"}
  BY DEF Acknowledged, Return, Goto, Known, TypeInv, StacksOK
<1>4. pc'[s] \notin BeforeAnswer
  BY <1>3 DEF BeforeAnswer, Busy
<1>5. Speaks(s, t)
  BY <1>1, <1>2, <1>4 DEF Speaks, Unshared, OnTask
<1>6. QED BY <1>1, <1>5, SpokenOK

LEMMA StartingSpoken ==
  ASSUME Known, DialogueInv, NEW s \in Shell, Starting(s)
  PROVE  DialogueInv' /\ ProtocolStep
<1>1. pc[s] = "start" /\ pc[s] \in BeforeAnswer /\ cur[s].kind = "start"
  BY DEF Starting, StartAnswered, StartAmbiguous, StartOrchestration, At, Busy, PC, Idle,
         BeforeAnswer, Known, TypeInv, StacksOK, Ready
<1>2. Fits(s, "done") /\ Fits(s, "asked")
  BY <1>1 DEF Fits, Demands
<1>3. CASE StartAnswered(s)
  BY <1>1, <1>2, <1>3, ReplySpoken DEF StartAnswered, historyVars
<1>4. CASE StartAmbiguous(s)
  BY <1>1, <1>2, <1>4, ReplySpoken DEF StartAmbiguous, AskedAtStart, historyVars
<1>5. CASE StartOrchestration(s)
  BY <1>1, <1>5, MoveSpoken DEF StartOrchestration, Keep, historyVars
<1>6. QED BY <1>3, <1>4, <1>5 DEF Starting

LEMMA LookingUpSpoken ==
  ASSUME Known, DialogueInv, NEW s \in Shell, LookingUp(s)
  PROVE  DialogueInv' /\ ProtocolStep
<1>1. pc[s] \in BeforeAnswer
  BY DEF LookingUp, AnswerTimedOut, LookupUnknown, LookupStale, LookupFound, At, Busy, PC,
         Idle, BeforeAnswer
<1>2. Fits(s, "done")
  BY DEF Fits
<1>3. CASE AnswerTimedOut(s) /\ OnTask(s) \in timedOut
  BY <1>1, <1>2, <1>3, ReplySpoken DEF AnswerTimedOut, historyVars
<1>4. CASE AnswerTimedOut(s) /\ OnTask(s) \notin timedOut
  BY <1>1, <1>4, MoveSpoken DEF AnswerTimedOut, Keep, historyVars
<1>5. CASE LookupUnknown(s)
  BY <1>1, <1>2, <1>5, ReplySpoken DEF LookupUnknown, historyVars
<1>6. CASE LookupStale(s)
  BY <1>1, <1>2, <1>6, ReplySpoken DEF LookupStale, historyVars
<1>7. CASE LookupFound(s)
  BY <1>1, <1>7, MoveSpoken DEF LookupFound
<1>8. QED BY <1>3, <1>4, <1>5, <1>6, <1>7 DEF LookingUp

LEMMA DecidingSpoken ==
  ASSUME Known, DialogueInv, NEW s \in Shell, Deciding(s)
  PROVE  DialogueInv' /\ ProtocolStep
<1>1. pc[s] \in BeforeAnswer /\ pc[s] \in Busy
  BY DEF Deciding, Approve, ApproveAll, EditRefused, EditAccepted, Reject,
         RejectWithReason, Abort, NotAwaiting, ClarificationAmbiguous, Clarified, AckLast,
         AckContinue, Decides, At, BeforeAnswer, Busy, PC, Idle
<1>2. Fits(s, "done")
  BY DEF Fits
<1>3. CASE Approve(s) \/ EditAccepted(s)
  BY <1>1, <1>3, ReturnSpoken DEF Approve, EditAccepted, Acknowledged, historyVars
<1>4. CASE ApproveAll(s)
  <2>1. /\ Acknowledged(s) /\ Unshared /\ view' = view
        /\ granted' \in {granted, granted \cup {OnTask(s)}}
    BY <1>4 DEF ApproveAll, Acknowledged
  <2>2. QED BY <1>1, <2>1, ReturnSpoken
<1>5. CASE EditRefused(s) \/ Reject(s) \/ Abort(s) \/ NotAwaiting(s) \/ AckLast(s)
  <2>1. SendAndReturn(s, "done") /\ Unshared /\ granted' = granted
    BY <1>5 DEF EditRefused, Reject, Abort, NotAwaiting, AckLast, historyVars
  <2>2. QED BY <1>1, <1>2, <2>1, ReplySpoken
<1>6. CASE RejectWithReason(s) \/ Clarified(s) \/ AckContinue(s)
  <2>1. Goto(s, "orchestrate") /\ cur' = cur /\ view' = view /\ Unshared /\ granted' = granted
    BY <1>6 DEF RejectWithReason, Clarified, AckContinue, Keep, historyVars
  <2>2. QED BY <1>1, <2>1, MoveSpoken
<1>7. CASE ClarificationAmbiguous(s)
  <2>1. Fits(s, "asked")
    BY <1>7 DEF ClarificationAmbiguous, Decides, Fits, Demands
  <2>2. QED BY <1>1, <1>7, <2>1, ReplySpoken DEF ClarificationAmbiguous, historyVars
<1>8. QED BY <1>3, <1>4, <1>5, <1>6, <1>7 DEF Deciding

LEMMA OrchestrationSpoken ==
  ASSUME Known, DialogueInv, NEW s \in Shell, Orchestration(s)
  PROVE  DialogueInv' /\ ProtocolStep
<1>1. pc[s] \in BeforeAnswer /\ pc[s] \in Orchestrated
  BY DEF Orchestration, DirectAnswer, NoTools, ExposeTools, SeedConversation, Complete,
         Clarify, GiveUp, Orchestrating, At, BeforeAnswer, Busy, PC, Idle, Orchestrated
<1>2. Fits(s, "done") /\ Fits(s, "asked")
  BY <1>1 DEF Fits, Known, TableInv, ShellsOK, KindsOK
<1>3. CASE DirectAnswer(s) \/ Complete(s) \/ Clarify(s)
  <2>1. /\ SendThen(s, "done", "handled") \/ SendThen(s, "asked", "handled")
        /\ Unshared /\ granted' = granted
    BY <1>3 DEF DirectAnswer, Complete, Clarify, historyVars
  <2>2. QED BY <1>1, <1>2, <2>1, ReplySpoken
<1>4. CASE NoTools(s) \/ ExposeTools(s) \/ SeedConversation(s) \/ GiveUp(s)
  <2>1. /\ \E label : Goto(s, label)
        /\ cur' = cur /\ view' = view /\ Unshared /\ granted' = granted
    BY <1>4 DEF NoTools, ExposeTools, SeedConversation, GiveUp, Keep, historyVars
  <2>2. QED BY <1>1, <2>1, MoveSpoken
<1>5. QED BY <1>3, <1>4 DEF Orchestration

LEMMA PlanningSpoken ==
  ASSUME Known, DialogueInv, NEW s \in Shell, Planning(s)
  PROVE  DialogueInv' /\ ProtocolStep
<1>1. pc[s] \in BeforeAnswer /\ pc[s] \in Orchestrated
  BY DEF Planning, Propose, FallbackFailed, FloorRefused, Unvalidated, Surface,
         Orchestrating, At, BeforeAnswer, Busy, PC, Idle, Orchestrated
<1>2. Fits(s, "done") /\ Fits(s, "asked")
  BY <1>1 DEF Fits, Known, TableInv, ShellsOK, KindsOK
<1>3. CASE Propose(s)
  BY <1>1, <1>3, MoveSpoken DEF Propose, historyVars
<1>4. CASE FallbackFailed(s)
  <2>1. /\ Goto(s, pc[s]) /\ cur' = cur /\ view' = view /\ Unshared /\ granted' = granted
    BY <1>4 DEF FallbackFailed, Goto, handlerVars, historyVars, Known, TypeInv, StacksOK
  <2>2. QED BY <1>1, <2>1, MoveSpoken
<1>5. CASE FloorRefused(s) \/ Unvalidated(s)
  <2>1. /\ SendThen(s, "done", "handled") \/ SendThen(s, "asked", "handled")
        /\ Unshared /\ granted' = granted
    BY <1>5 DEF FloorRefused, Unvalidated, historyVars
  <2>2. QED BY <1>1, <1>2, <2>1, ReplySpoken
<1>6. CASE Surface(s)
  <2>1. PICK critical \in BOOLEAN :
          SendThen(s, ProposalView(RequiresApproval(prior[s].override, critical), critical),
                   "handled")
    BY <1>6 DEF Surface
  <2>2. Fits(s, ProposalView(RequiresApproval(prior[s].override, critical), critical))
    BY <1>1, <1>6 DEF Fits, Surface, At, Known, TableInv, ShellsOK, KindsOK
  <2>3. Unshared /\ granted' = granted
    BY <1>6 DEF Surface, historyVars
  <2>4. QED BY <1>1, <2>1, <2>2, <2>3, ReplySpoken
<1>7. QED BY <1>3, <1>4, <1>5, <1>6 DEF Planning

LEMMA ConcludingSpoken ==
  ASSUME Known, DialogueInv, NEW s \in Shell, Concluding(s)
  PROVE  DialogueInv' /\ ProtocolStep
<1>1. pc[s] \in {"handled", "unhandled"} /\ pc[s] \in Busy
  BY DEF Concluding, StartHandled, StartUnhandled, ClarificationHandled,
         ClarificationUnhandled, RejectionHandled, RejectionUnhandled, AckHandled,
         AckUnhandled, After, At, Busy, PC, Idle
<1>2. pc[s] = "unhandled" => pc[s] \in BeforeAnswer
  BY DEF BeforeAnswer, Busy, PC, Idle
<1>3. CASE StartHandled(s) \/ ClarificationHandled(s) \/ RejectionHandled(s) \/ AckHandled(s)
  <2>1. Return(s) /\ view' = view /\ Unshared /\ granted' = granted
    BY <1>3 DEF StartHandled, ClarificationHandled, RejectionHandled, AckHandled, historyVars
  <2>2. QED BY <1>1, <2>1, ReturnSpoken
<1>4. CASE StartUnhandled(s) \/ ClarificationUnhandled(s) \/ AckUnhandled(s)
  <2>1. /\ pc[s] = "unhandled" /\ Unshared /\ granted' = granted
        /\ \/ SendAndReturn(s, "asked") /\ cur[s].kind \in Demands
           \/ SendAndReturn(s, "done")
    BY <1>4
    DEF StartUnhandled, AskedAtStart, ClarificationUnhandled, AckUnhandled, After, At,
        Demands, historyVars
  <2>2. Fits(s, "done") /\ (cur[s].kind \in Demands => Fits(s, "asked"))
    BY DEF Fits
  <2>3. QED BY <1>2, <2>1, <2>2, ReplySpoken
<1>5. CASE RejectionUnhandled(s)
  <2>1. pc[s] \in BeforeAnswer /\ UNCHANGED <<view, granted>> /\ Unshared
    BY <1>2, <1>5 DEF RejectionUnhandled, After, At, historyVars
  <2>2. PICK t \in Task : t = OnTask(s)
    BY <1>1, OwnFacts
  <2>3. cur[s] \in Message
    BY <1>1, OwnFacts
  <2>4. /\ \A u \in Shell \ {s} : pc'[u] = pc[u] /\ cur'[u] = cur[u]
        /\ cur'[s] = [cur[s] EXCEPT !.kind = "rejected"]
    BY <1>5 DEF RejectionUnhandled, Goto, Known, TypeInv, StacksOK
  <2>5. cur'[s].task = cur[s].task /\ cur'[s].kind = "rejected"
    BY <2>3, <2>4 DEF Message
  <2>6. Speaks(s, t)
    BY <2>1, <2>2, <2>4, <2>5 DEF Speaks, Unshared, OnTask
  <2>7. QED BY <1>1, <2>2, <2>6, SpokenOK
<1>6. QED BY <1>3, <1>4, <1>5 DEF Concluding

\* A step that says nothing to a client and starts no answer.
LEMMA SilentSpoken ==
  ASSUME DialogueInv, UNCHANGED <<clientVars, granted>>,
         \A s \in Shell : \/ pc'[s] = pc[s] /\ cur'[s] = cur[s]
                          \/ pc'[s] \notin Busy
  PROVE  DialogueInv' /\ ProtocolStep
<1>1. ProtocolStep
  BY DEF clientVars, ProtocolStep, Protocol!vars
<1>2. ASSUME NEW t \in Task PROVE DialogueOK(t)'
  <2>1. DialogueOK(t) /\ ShellOf[t] \in Shell
    BY ConfigAssumption DEF DialogueInv
  <2>2. Doing(t, BeforeAnswer)' => Doing(t, BeforeAnswer) /\ Kind(t)' = Kind(t)
    BY <2>1, BusyLabels DEF Doing, Kind
  <2>3. Answering(t)' => Answering(t)
    BY <2>2 DEF Answering
  <2>4. inbox' = inbox /\ view' = view
    BY DEF clientVars
  <2>5. QED BY <2>1, <2>2, <2>3, <2>4, DialogueKept
<1>3. QED BY <1>1, <1>2 DEF DialogueInv

LEMMA ClosingSpoken ==
  ASSUME Known, DialogueInv, NEW s \in Shell, Closing(s)
  PROVE  DialogueInv' /\ ProtocolStep
<1>1. UNCHANGED <<clientVars, granted>>
  BY DEF Closing, Fail, EndOfStream, DropConnection, CloseShell, Unshared, historyVars,
         clientVars
<1>2. /\ \A u \in Shell \ {s} : pc'[u] = pc[u] /\ cur'[u] = cur[u]
      /\ pc'[s] \in {"closing", "closed", "dropped"}
  BY DEF Closing, Fail, EndOfStream, DropConnection, CloseShell, Goto, Keep, Known, TypeInv,
         StacksOK
<1>3. pc'[s] \notin Busy
  BY <1>2 DEF Busy
<1>4. QED BY <1>1, <1>2, <1>3, SilentSpoken

LEMMA SweepSpoken ==
  ASSUME Known, DialogueInv, Sweep \/ Time
  PROVE  DialogueInv' /\ ProtocolStep
<1>1. UNCHANGED <<clientVars, granted, handlerVars>>
  BY DEF Sweep, SweepTasks, SweepConversations, SweepTimedOut, Time, GoStale, Forget,
         historyVars
<1>2. QED BY <1>1, SilentSpoken DEF handlerVars

\* The handler takes the head of the line: what follows it is one step nearer,
\* and if the head is a demand no approval follows.
LEMMA ReceiveSpoken ==
  ASSUME Known, DialogueInv, NEW s \in Shell, Receive(s)
  PROVE  DialogueInv' /\ ProtocolStep
<1>1. /\ Len(inbox[s]) \in Nat \ {0}
      /\ Head(inbox[s]) = inbox[s][1]
      /\ Len(Tail(inbox[s])) = Len(inbox[s]) - 1
      /\ \A i \in 1 .. Len(inbox[s]) - 1 : Tail(inbox[s])[i] = inbox[s][i + 1]
      /\ inbox[s][1] \in Message
  BY DEF Receive, Known, TypeInv, InboxOK
<1>2. /\ inbox'[s] = Tail(inbox[s]) /\ \A u \in Shell \ {s} : inbox'[u] = inbox[u]
      /\ cur'[s] = Head(inbox[s])
      /\ \A u \in Shell \ {s} : pc'[u] = pc[u] /\ cur'[u] = cur[u]
      /\ UNCHANGED <<connected, view, granted>>
  BY DEF Receive, At, Goto, historyVars, Known, TypeInv, InboxOK, StacksOK
<1>3. ProtocolStep
  BY <1>2 DEF ProtocolStep, Protocol!vars
<1>4. ASSUME NEW t \in Task PROVE DialogueOK(t)'
  <2>1. TaskOK(t) /\ DialogueOK(t) /\ ShellOf[t] \in Shell
    BY ConfigAssumption DEF Known, TableInv, DialogueInv
  <2>2. CASE ShellOf[t] # s
    <3>1. inbox'[ShellOf[t]] = inbox[ShellOf[t]] /\ view'[t] = view[t]
      BY <1>2, <2>1, <2>2
    <3>2. Doing(t, BeforeAnswer)' => Doing(t, BeforeAnswer) /\ Kind(t)' = Kind(t)
      BY <1>2, <2>1, <2>2 DEF Doing, Kind
    <3>3. Answering(t)' => Answering(t)
      BY <3>2 DEF Answering
    <3>4. QED BY <2>1, <3>1, <3>2, <3>3, DialogueKept
  <2>3. CASE ShellOf[t] = s
    <3>1. ASSUME NEW kinds, NEW i \in Nat, InLine(t, i, kinds)'
          PROVE  InLine(t, i + 1, kinds)
      <4>1. i \in 1 .. Len(inbox'[s]) /\ inbox'[s][i].task = t /\ inbox'[s][i].kind \in kinds
        BY <2>3, <3>1 DEF InLine
      <4>2. i \in 1 .. Len(inbox[s]) - 1
        BY <1>1, <1>2, <4>1
      <4>3. i + 1 \in 1 .. Len(inbox[s]) /\ inbox[s][i + 1] = inbox'[s][i]
        BY <1>1, <1>2, <4>2
      <4>4. QED BY <2>3, <4>1, <4>3 DEF InLine
    <3>2. /\ \A j \in Nat : Asked(t, j) <=> InLine(t, j, Demands)
          /\ \A j \in Nat : Asked(t, j)' <=> InLine(t, j, Demands)'
      BY DEF Asked, InLine
    <3>3. Doing(t, BeforeAnswer)' =>
            \E kinds \in {Demands, Approvals, Partings} :
              InLine(t, 1, kinds) /\ (Kind(t)' \in Demands => kinds = Demands)
      <4>1. SUFFICES ASSUME Doing(t, BeforeAnswer)'
                     PROVE  \E kinds \in {Demands, Approvals, Partings} :
                              InLine(t, 1, kinds) /\ (Kind(t)' \in Demands => kinds = Demands)
        OBVIOUS
      <4>2. inbox[s][1].task = t /\ Kind(t)' = inbox[s][1].kind /\ 1 \in 1 .. Len(inbox[s])
        BY <1>1, <1>2, <2>3, <4>1 DEF Doing, Kind
      <4>3. inbox[s][1].kind \in Demands \cup Approvals \cup Partings
        BY <1>1 DEF Message, Decisions, Demands, Approvals, Partings
      <4>4. CASE inbox[s][1].kind \in Demands
        BY <2>3, <4>2, <4>4 DEF InLine
      <4>5. CASE inbox[s][1].kind \in Approvals /\ inbox[s][1].kind \notin Demands
        BY <2>3, <4>2, <4>5 DEF InLine
      <4>6. CASE inbox[s][1].kind \in Partings /\ inbox[s][1].kind \notin Demands
        BY <2>3, <4>2, <4>6 DEF InLine
      <4>7. QED BY <4>3, <4>4, <4>5, <4>6
    <3>4. /\ InLine(t, 1, Demands) => view[t] \in Taken
          /\ InLine(t, 1, Approvals) => view[t] \in Taken
          /\ InLine(t, 1, Partings) => view[t] \in Taken
      <4>1. InLine(t, 1, Demands) => Pending(t)
        BY <3>2 DEF Pending
      <4>2. QED BY <2>1, <4>1 DEF TaskOK, LineOK, DialogueOK, Taken
    <3>5. Doing(t, BeforeAnswer)' => view'[t] \in Taken
      BY <1>2, <3>3, <3>4
    <3>6. ASSUME NEW i \in Nat, InLine(t, i, Approvals)'
          PROVE  /\ view'[t] \in Taken /\ ~Answering(t)'
                 /\ \A j \in Nat : Asked(t, j)' => i < j
      <4>1. InLine(t, i + 1, Approvals) /\ i + 1 \in Nat
        BY <3>1, <3>6
      <4>2. view[t] \in Taken /\ \A j \in Nat : InLine(t, j, Demands) => i + 1 < j
        BY <2>1, <3>2, <4>1 DEF DialogueOK
      <4>3. ~InLine(t, 1, Demands)
        BY <4>2
      <4>4. ~Answering(t)'
        BY <3>3, <4>3 DEF Answering
      <4>5. ASSUME NEW j \in Nat, Asked(t, j)' PROVE i < j
        <5>1. InLine(t, j + 1, Demands) /\ j + 1 \in Nat
          BY <3>1, <3>2, <4>5
        <5>2. QED BY <4>2, <5>1
      <4>6. QED BY <1>2, <4>2, <4>4, <4>5
    <3>7. ASSUME NEW i \in Nat, InLine(t, i, Partings)' PROVE view'[t] = "done"
      <4>1. InLine(t, i + 1, Partings) /\ i + 1 \in Nat
        BY <3>1, <3>7
      <4>2. QED BY <1>2, <2>1, <4>1 DEF DialogueOK
    <3>8. QED BY <3>5, <3>6, <3>7 DEF DialogueOK
  <2>4. QED BY <2>2, <2>3
<1>5. QED BY <1>3, <1>4 DEF DialogueInv

\* A client's message goes to the end of its line.  It asks for an answer only
\* when it waits for none, and it decides only on an offer.
LEMMA ClientSendsSpoken ==
  ASSUME Known, DialogueInv, NEW t \in Task, NEW kind \in Decisions \cup {"start", "ack"},
         NEW from, NEW to, ClientSends(t, kind, from, to), "done" \notin from,
         \/ kind \in Demands /\ to = "waiting"
         \/ kind \in Approvals /\ to = "running" /\ from \subseteq Proposed
         \/ kind \in Partings /\ to = "done"
  PROVE  /\ DialogueInv'
         /\ connected[ShellOf[t]] /\ view[t] \in from /\ view' = [view EXCEPT ![t] = to]
         /\ UNCHANGED <<connected, granted>>
<1> DEFINE s == ShellOf[t]
           m == [kind |-> kind, task |-> t]
           end == Len(inbox[s]) + 1
<1>1. /\ s \in Shell /\ connected[s] /\ view[t] \in from /\ view' = [view EXCEPT ![t] = to]
      /\ UNCHANGED <<pc, cur, connected, granted>>
  BY ConfigAssumption DEF ClientSends, handlerVars, historyVars
<1>2. /\ inbox'[s] = Append(inbox[s], m) /\ \A u \in Shell \ {s} : inbox'[u] = inbox[u]
      /\ view'[t] = to /\ \A u \in Task \ {t} : view'[u] = view[u]
  BY <1>1 DEF ClientSends, Known, TypeInv, InboxOK, ViewOK
<1>3. inbox[s] \in Seq(Message) /\ Len(inbox[s]) \in Nat
  BY <1>1 DEF Known, TypeInv, InboxOK
<1>4. /\ Len(inbox'[s]) = end
      /\ \A i \in 1 .. Len(inbox[s]) : inbox'[s][i] = inbox[s][i]
      /\ inbox'[s][end] = m
  BY <1>2, <1>3
<1> HIDE DEF m
<1>5. m.kind = kind /\ m.task = t
  BY DEF m
<1>6. ASSUME NEW u \in Task, NEW kinds, NEW i \in Nat, InLine(u, i, kinds)'
      PROVE  \/ InLine(u, i, kinds) /\ (ShellOf[u] = s => i < end)
             \/ u = t /\ i = end /\ kind \in kinds
  <2>1. CASE ShellOf[u] = s
    <3>1. i \in 1 .. end /\ inbox'[s][i].task = u /\ inbox'[s][i].kind \in kinds
      BY <1>4, <1>6, <2>1 DEF InLine
    <3>2. CASE i = end
      BY <1>4, <1>5, <3>1, <3>2
    <3>3. CASE i # end
      <4>1. i \in 1 .. Len(inbox[s]) /\ i < end /\ inbox'[s][i] = inbox[s][i]
        BY <1>3, <1>4, <3>1, <3>3
      <4>2. QED BY <2>1, <3>1, <4>1 DEF InLine
    <3>4. QED BY <3>2, <3>3
  <2>2. CASE ShellOf[u] # s
    BY <1>2, <1>6, <2>2, ConfigAssumption DEF InLine
  <2>3. QED BY <2>1, <2>2
<1>7. \A u \in Task, i \in Nat : /\ Asked(u, i) <=> InLine(u, i, Demands)
                                 /\ Asked(u, i)' <=> InLine(u, i, Demands)'
  BY DEF Asked, InLine
<1>8. \A u \in Task : /\ Doing(u, BeforeAnswer)' <=> Doing(u, BeforeAnswer)
                      /\ Answering(u)' <=> Answering(u)
  BY <1>1 DEF Answering, Doing, Kind
<1>9. ASSUME NEW u \in Task, u # t PROVE DialogueOK(u)'
  <2>1. DialogueOK(u) /\ view'[u] = view[u]
    BY <1>2, <1>9 DEF DialogueInv
  <2>2. \A kinds : \A i \in Nat : InLine(u, i, kinds)' => InLine(u, i, kinds)
    BY <1>6, <1>9
  <2>3. QED BY <1>7, <1>8, <2>1, <2>2 DEF DialogueOK
<1>10. DialogueOK(t)'
  <2>1. /\ TaskOK(t) /\ DialogueOK(t) /\ end \in Nat
        /\ Approvals \cap Demands = {} /\ Partings \cap Demands = {}
        /\ Approvals \cap Partings = {}
    BY <1>3 DEF Known, TableInv, DialogueInv, Approvals, Partings, Demands
  <2>2. view'[t] \in Taken
    BY <1>2 DEF Taken
  <2>3. ASSUME NEW i \in Nat, InLine(t, i, Approvals)'
        PROVE  ~Answering(t)' /\ \A j \in Nat : Asked(t, j)' => i < j
    <3>1. CASE InLine(t, i, Approvals) /\ i < end
      <4>1. ~Answering(t) /\ \A j \in Nat : InLine(t, j, Demands) => i < j
        BY <1>7, <2>1, <3>1 DEF DialogueOK
      <4>2. \A j \in Nat : InLine(t, j, Demands)' => i < j
        BY <1>6, <3>1, <4>1
      <4>3. QED BY <1>7, <1>8, <4>1, <4>2
    <3>2. CASE i = end /\ kind \in Approvals
      <4>1. view[t] \in Proposed
        BY <1>1, <2>1, <3>2 DEF Approvals, Partings
      <4>2. ~Answering(t) /\ ~Pending(t)
        BY <2>1, <4>1 DEF TaskOK, LineOK, Proposed
      <4>3. \A j \in Nat : ~InLine(t, j, Demands)
        BY <1>7, <4>2 DEF Pending
      <4>4. \A j \in Nat : ~InLine(t, j, Demands)'
        BY <1>6, <2>1, <3>2, <4>3
      <4>5. QED BY <1>7, <1>8, <4>2, <4>4
    <3>3. QED BY <1>6, <2>3, <3>1, <3>2
  <2>4. ASSUME NEW i \in Nat, InLine(t, i, Partings)' PROVE view'[t] = "done"
    <3>1. ~InLine(t, i, Partings)
      BY <1>1, <2>1 DEF DialogueOK
    <3>2. kind \in Partings
      BY <1>6, <2>4, <3>1
    <3>3. QED BY <1>2, <2>1, <3>2
  <2>5. QED BY <2>2, <2>3, <2>4 DEF DialogueOK
<1>11. QED BY <1>1, <1>9, <1>10 DEF DialogueInv

LEMMA ClientSpoken ==
  ASSUME Known, DialogueInv, Client
  PROVE  DialogueInv' /\ ProtocolStep
<1> USE DEF Demands, Approvals, Partings, Decisions, Proposed
<1>1. ASSUME NEW t \in Task, NEW kind, NEW from, NEW to, ClientSends(t, kind, from, to),
             \/ kind = "start" /\ from = {"new"} /\ to = "waiting"
             \/ /\ kind \in {"approved", "approve_all", "edited"}
                /\ from = {"offered", "offered_critical"} /\ to = "running"
             \/ kind = "rejected" /\ from = {"offered", "offered_critical"} /\ to = "done"
             \/ kind = "explained" /\ from = {"offered", "offered_critical"} /\ to = "waiting"
             \/ kind = "clarification" /\ from = {"asked"} /\ to = "waiting"
             \/ /\ kind = "abort" /\ from = {"waiting", "asked", "offered", "offered_critical"}
                /\ to = "done"
             \/ kind = "ack" /\ from = {"running", "auto", "auto_critical"} /\ to = "waiting"
      PROVE  DialogueInv' /\ ProtocolStep
  <2>1. /\ DialogueInv'
        /\ connected[ShellOf[t]] /\ view[t] \in from /\ view' = [view EXCEPT ![t] = to]
        /\ UNCHANGED <<connected, granted>>
    BY <1>1, ClientSendsSpoken
  <2>2. Protocol!Act(t, from, {to})
    BY <2>1 DEF Protocol!Act, Protocol!Moves
  <2>3. \/ Protocol!Start(t) \/ Protocol!Decide(t) \/ Protocol!Reply(t) \/ Protocol!GiveUp(t)
        \/ Protocol!Ack(t)
    BY <1>1, <2>1
    DEF Protocol!Act, Protocol!Moves, Protocol!Start, Protocol!Decide, Protocol!Reply,
        Protocol!GiveUp, Protocol!Ack, Protocol!Questions, Protocol!Offers, Protocol!Runnable
  <2>4. QED BY <2>1, <2>3 DEF ProtocolStep, Protocol!Next
<1>2. ASSUME NEW s \in Shell, Disconnect(s) PROVE DialogueInv' /\ ProtocolStep
  <2>1. Protocol!Leave(s)
    BY <1>2 DEF Disconnect, Protocol!Leave, historyVars
  <2>2. ASSUME NEW t \in Task PROVE DialogueOK(t)'
    <3>1. DialogueOK(t) /\ UNCHANGED <<inbox, pc, cur>> /\ view'[t] \in {view[t], "done"}
      BY <1>2 DEF Disconnect, DialogueInv, handlerVars
    <3>2. /\ Doing(t, BeforeAnswer)' <=> Doing(t, BeforeAnswer)
          /\ Answering(t)' <=> Answering(t)
      BY <3>1 DEF Doing, Kind, Answering
    <3>3. QED BY <3>1, <3>2, DialogueKept
  <2>3. QED BY <2>1, <2>2 DEF DialogueInv, ProtocolStep, Protocol!Next
<1>3. ASSUME NEW t \in Task,
             \/ SendStart(t) \/ SendApproval(t) \/ SendRejection(t)
             \/ SendClarification(t) \/ SendAbort(t) \/ SendAck(t)
      PROVE  DialogueInv' /\ ProtocolStep
  <2>1. CASE SendStart(t)
    BY <1>1, <2>1 DEF SendStart
  <2>2. CASE SendApproval(t)
    BY <1>1, <2>2 DEF SendApproval
  <2>3. CASE SendRejection(t)
    BY <1>1, <2>3 DEF SendRejection
  <2>4. CASE SendClarification(t)
    BY <1>1, <2>4 DEF SendClarification
  <2>5. CASE SendAbort(t)
    BY <1>1, <2>5 DEF SendAbort
  <2>6. CASE SendAck(t)
    BY <1>1, <2>6 DEF SendAck
  <2>7. QED BY <1>3, <2>1, <2>2, <2>3, <2>4, <2>5, <2>6
<1>4. QED BY <1>2, <1>3 DEF Client

LEMMA DialogueInvInit == ASSUME Init PROVE DialogueInv /\ Protocol!Init
<1>1. Protocol!Init
  BY DEF Init, Protocol!Init
<1>2. ASSUME NEW t \in Task PROVE DialogueOK(t)
  <2>1. pc[ShellOf[t]] = Idle /\ inbox[ShellOf[t]] = <<>>
    BY ConfigAssumption DEF Init
  <2>2. ~Doing(t, BeforeAnswer) /\ \A i \in Nat : \A kinds : ~InLine(t, i, kinds)
    BY <2>1 DEF Doing, BeforeAnswer, Busy, InLine
  <2>3. QED BY <2>2 DEF DialogueOK
<1>3. QED BY <1>1, <1>2 DEF DialogueInv

LEMMA DialogueStep ==
  ASSUME Known, DialogueInv, [Next]_vars
  PROVE  DialogueInv' /\ ProtocolStep
<1>1. ASSUME NEW s \in Shell, Handler(s) PROVE DialogueInv' /\ ProtocolStep
  BY <1>1, ReceiveSpoken, StartingSpoken, LookingUpSpoken, DecidingSpoken,
     OrchestrationSpoken, PlanningSpoken, ConcludingSpoken, ClosingSpoken DEF Handler
<1>2. CASE UNCHANGED vars
  BY <1>2, SilentSpoken DEF vars, handlerVars, historyVars
<1>3. QED
  BY <1>1, <1>2, ClientSpoken, SweepSpoken DEF Next

\* What a shell sees of a task keeps to TaskProtocol, whatever the table, the
\* handlers, the sweeper and the other shells do: an answer comes only to a
\* client that waits, or that runs the command which the answer refuses; nothing
\* replaces a question or an offer the user has before him; and the approval
\* mode and the approvals given decide which commands need one.
THEOREM ProtocolKept == Spec => Protocol!Safe
<1>1. Init => DialogueInv /\ Protocol!Init
  BY DialogueInvInit
<1>2. Known /\ DialogueInv /\ [Next]_vars => DialogueInv' /\ [Protocol!Next]_(Protocol!vars)
  BY DialogueStep DEF ProtocolStep
<1>3. QED BY <1>1, <1>2, KnownInvariant, PTL DEF Spec, Protocol!Safe
-----------------------------------------------------------------------------
(***************************************************************************)
(* Approve-all is honoured, where approvals outlive their task.  The task  *)
(* that a grant finds on its shell's line may be over at its client, which *)
(* has begun another: the grant must reach that one too, though it was     *)
(* sent before it.  It does because the new task's start comes behind all  *)
(* that is said of the old one.                                            *)
(***************************************************************************)
Live(t) == view[t] \notin {"new", "done"}
Untouched(t) == tasks[t] = Absent /\ ~Doing(t, Busy)
Place(t) == 1 .. Len(inbox[ShellOf[t]])
About(t, i) == inbox[ShellOf[t]][i].task = t
StartAt(t, i) == i \in Place(t) /\ About(t, i) /\ inbox[ShellOf[t]][i].kind = "start"

\* Nothing is known of a task before its start has been read.
FreshOK(t) ==
  /\ view[t] = "new" => Untouched(t) /\ \A i \in Place(t) : ~About(t, i)
  /\ \A j \in Place(t) : StartAt(t, j) =>
       Untouched(t) /\ \A i \in Place(t) : i < j => ~About(t, i)

\* The start of a shell's live task is behind all that is under way of others.
TurnOK(t) ==
  Live(t) =>
    /\ \A i \in Place(t) : ~About(t, i) => \E j \in Place(t) : i < j /\ StartAt(t, j)
    /\ pc[ShellOf[t]] \in Busy /\ cur[ShellOf[t]].task # t =>
         \E j \in Place(t) : StartAt(t, j)

OneLive == \A t, u \in Task : ShellOf[t] = ShellOf[u] /\ Live(t) /\ Live(u) => t = u

\* A shell that has approved all: the flag is at the shell, in the entry of its live
\* task, and in what a handler has read before planning.
Covered(s) == \E u \in granted : ShellOf[u] = s
CarriesOn(t) ==
  Covered(ShellOf[t]) /\ Live(t) =>
    /\ tasks[t] # Absent => tasks[t].override
    /\ view[t] # "offered"
    /\ Doing(t, {"surface"}) => prior[ShellOf[t]].override
ShellCovered(s) == Covered(s) /\ connected[s] => s \in shellOverrides

QueueInv == OneLive /\ \A t \in Task : FreshOK(t) /\ TurnOK(t)
GrantInv == (\A t \in Task : CarriesOn(t)) /\ (\A s \in Shell : ShellCovered(s))
HonourInv == QueueInv /\ GrantInv

Lasting == ~ApproveAllResetsPerTask

LEMMA LiveConnected ==
  ASSUME Known, NEW t \in Task, Live(t) PROVE connected[ShellOf[t]]
  BY DEF Known, TableInv, ShellsOK, GoneOK, Live

\* The task of a busy handler is not new.
LEMMA WorkedOn ==
  ASSUME Known, QueueInv, NEW s \in Shell, pc[s] \in Busy
  PROVE  view[OnTask(s)] # "new"
<1>1. OnTask(s) \in Task /\ ShellOf[OnTask(s)] = s
  BY OwnFacts
<1>2. Doing(OnTask(s), Busy)
  BY <1>1 DEF Doing, OnTask
<1> QED
  BY <1>1, <1>2 DEF QueueInv, FreshOK, Untouched

\* What a handler does to the line, to other shells and other tasks: nothing.
OwnStep(s, t) ==
  /\ \A u \in Shell \ {s} : pc'[u] = pc[u] /\ cur'[u] = cur[u] /\ prior'[u] = prior[u]
  /\ UNCHANGED <<inbox, connected>>
  /\ pc'[s] \in Busy => cur'[s].task = t
  /\ \A u \in Task \ {t} : view'[u] = view[u] /\ tasks'[u] = tasks[u]
  /\ view'[t] = view[t] \/ (view[t] # "done" /\ view'[t] # "new")

LEMMA QueueOwn ==
  ASSUME Known, QueueInv, NEW s \in Shell, NEW t, t = OnTask(s), pc[s] \in Busy, OwnStep(s, t)
  PROVE  QueueInv' /\ \A u \in Task : Live(u)' => Live(u)
<1>1. t \in Task /\ ShellOf[t] = s /\ cur[s].task = t /\ view[t] # "new"
  BY OwnFacts, WorkedOn DEF OnTask
<1>2. \A u \in Task : Live(u)' => Live(u)
  BY <1>1 DEF OwnStep, Live
<1>3. OneLive'
  BY <1>2 DEF OneLive, QueueInv
<1>4. \A u \in Task : /\ Place(u)' = Place(u)
                      /\ \A i : (About(u, i)' <=> About(u, i)) /\ (StartAt(u, i)' <=> StartAt(u, i))
  BY DEF OwnStep, Place, About, StartAt
<1>5. ASSUME NEW u \in Task, Untouched(u) PROVE Untouched(u)'
  <2>1. u # t
    BY <1>1, <1>5 DEF Untouched, Doing
  <2>2. ~Doing(u, Busy)'
    BY <1>1, <1>5, <2>1, ConfigAssumption DEF Untouched, Doing, OwnStep
  <2> QED
    BY <1>5, <2>1, <2>2 DEF Untouched, OwnStep
<1>6. ASSUME NEW u \in Task PROVE FreshOK(u)'
  <2>1. FreshOK(u)
    BY DEF QueueInv
  <2>2. view'[u] = "new" => view[u] = "new"
    BY DEF OwnStep
  <2> QED
    BY <1>4, <1>5, <2>1, <2>2 DEF FreshOK
<1>7. ASSUME NEW u \in Task PROVE TurnOK(u)'
  <2>1. SUFFICES ASSUME Live(u)' PROVE TurnOK(u)'
    BY DEF TurnOK
  <2>2. Live(u) /\ TurnOK(u)
    BY <1>2, <2>1 DEF QueueInv
  <2>3. pc'[ShellOf[u]] \in Busy /\ cur'[ShellOf[u]].task # u =>
          pc[ShellOf[u]] \in Busy /\ cur[ShellOf[u]].task # u
    BY <1>1, ConfigAssumption DEF OwnStep
  <2> QED
    BY <1>4, <2>2, <2>3 DEF TurnOK
<1> QED
  BY <1>2, <1>3, <1>6, <1>7 DEF QueueInv

\* A handler's step keeps the flags if it keeps those of its own task, should the client
\* still hold that.
OwnCarries(s, t) ==
  /\ tasks'[t] # Absent => tasks'[t].override
  /\ view'[t] # "offered"
  /\ pc'[s] = "surface" => prior'[s].override

LEMMA OwnKeeps ==
  ASSUME Known, HonourInv, NEW s \in Shell, NEW t, t = OnTask(s), pc[s] \in Busy,
         OwnStep(s, t), UNCHANGED <<granted, shellOverrides>>,
         Covered(s) /\ Live(t) => OwnCarries(s, t)
  PROVE  HonourInv'
<1>1. t \in Task /\ ShellOf[t] = s /\ cur[s].task = t
  BY OwnFacts DEF OnTask
<1>2. QueueInv' /\ \A u \in Task : Live(u)' => Live(u)
  BY QueueOwn DEF HonourInv
<1>3. \A x : Covered(x)' <=> Covered(x)
  BY DEF Covered
<1>4. \A u \in Shell : ShellCovered(u)'
  BY <1>3 DEF HonourInv, GrantInv, ShellCovered, OwnStep
<1>5. CarriesOn(t)'
  BY <1>1, <1>2, <1>3 DEF CarriesOn, OwnCarries, Doing
<1>6. ASSUME NEW u \in Task, u # t PROVE CarriesOn(u)'
  <2>1. CarriesOn(u) /\ view'[u] = view[u] /\ tasks'[u] = tasks[u]
    BY <1>6 DEF HonourInv, GrantInv, OwnStep
  <2>2. Doing(u, {"surface"})' =>
          Doing(u, {"surface"}) /\ prior'[ShellOf[u]] = prior[ShellOf[u]]
    <3>1. "surface" \in Busy
      BY DEF Busy, PC, Idle
    <3>2. CASE ShellOf[u] = s
      BY <1>6, <3>1, <3>2 DEF Doing, OwnStep
    <3>3. CASE ShellOf[u] # s
      BY <3>3, ConfigAssumption DEF Doing, OwnStep
    <3> QED
      BY <3>2, <3>3
  <2> QED
    BY <1>2, <1>3, <2>1, <2>2 DEF CarriesOn
<1> QED
  BY <1>2, <1>4, <1>5, <1>6 DEF HonourInv, GrantInv

\* Most steps of a handler say little to the client, and what they write into the table
\* carries a flag on: that of the entry before, the shell's, or the one read for planning.
Says(s, v, label) ==
  \/ SendAndReturn(s, v)
  \/ SendThen(s, v, label)
  \/ Goto(s, label) /\ Keep /\ view' = view
  \/ Return(s) /\ view' = view
  \/ Acknowledged(s)

FlagKept(s) ==
  LET t == OnTask(s) IN
  /\ \A u \in Task \ {t} : tasks'[u] = tasks[u]
  /\ tasks'[t] # Absent =>
       \/ tasks[t] # Absent /\ (tasks[t].override => tasks'[t].override)
       \/ ShellOverride(s) => tasks'[t].override
       \/ pc[s] = "surface" /\ (prior[s].override => tasks'[t].override)

LEMMA FlagRight ==
  ASSUME Known, HonourInv, Lasting, NEW s \in Shell, NEW t, t = OnTask(s), pc[s] \in Busy,
         Covered(s), Live(t)
  PROVE  /\ tasks[t] # Absent => tasks[t].override
         /\ ShellOverride(s) /\ view[t] # "offered"
         /\ pc[s] = "surface" => prior[s].override
<1>1. t \in Task /\ ShellOf[t] = s /\ cur[s].task = t
  BY OwnFacts DEF OnTask
<1>2. connected[s]
  BY <1>1, LiveConnected
<1>3. CarriesOn(t) /\ ShellCovered(s)
  BY <1>1 DEF HonourInv, GrantInv
<1> QED
  BY <1>1, <1>2, <1>3 DEF CarriesOn, ShellCovered, ShellOverride, Lasting, Doing

LEMMA SaysStep ==
  ASSUME Known, NEW s \in Shell, NEW t, t = OnTask(s), pc[s] \in Busy, NEW v, NEW label,
         v # "new", Says(s, v, label)
  PROVE  /\ \A u \in Shell \ {s} : pc'[u] = pc[u] /\ cur'[u] = cur[u] /\ prior'[u] = prior[u]
         /\ pc'[s] \in Busy => cur'[s] = cur[s]
         /\ pc'[s] \in {Idle, "failed", label}
         /\ \A u \in Task \ {t} : view'[u] = view[u]
         /\ view'[t] = view[t] \/ (view[t] # "done" /\ view'[t] = v)
<1>1. /\ Return(s) => /\ pc'[s] = Idle
                      /\ \A u \in Shell \ {s} : pc'[u] = pc[u] /\ cur'[u] = cur[u] /\ prior'[u] = prior[u]
  BY DEF Return, Goto, Known, TypeInv, StacksOK
<1>2. \A l : Goto(s, l) => pc'[s] = l /\ \A u \in Shell \ {s} : pc'[u] = pc[u]
  BY DEF Goto, Known, TypeInv, StacksOK
<1>3. Idle \notin Busy
  BY DEF Busy
<1>4. Sends(s, v) => /\ \A u \in Task \ {t} : view'[u] = view[u]
                     /\ view'[t] = view[t] \/ (view[t] # "done" /\ view'[t] = v)
  BY DEF Sends, Told, Known, TypeInv, ViewOK
<1>5. CASE SendAndReturn(s, v)
  BY <1>1, <1>2, <1>3, <1>4, <1>5 DEF SendAndReturn, Keep
<1>6. CASE SendThen(s, v, label)
  BY <1>2, <1>4, <1>6 DEF SendThen, Keep
<1>7. CASE Goto(s, label) /\ Keep /\ view' = view
  BY <1>2, <1>7 DEF Keep
<1>8. CASE Return(s) /\ view' = view
  BY <1>1, <1>3, <1>8
<1>9. CASE Acknowledged(s)
  BY <1>1, <1>2, <1>3, <1>9 DEF Acknowledged, Keep
<1> QED
  BY <1>5, <1>6, <1>7, <1>8, <1>9 DEF Says

LEMMA SaysKeeps ==
  ASSUME Known, HonourInv, Lasting, NEW s \in Shell, pc[s] \in Busy,
         NEW v \in {"done", "asked"}, NEW label, label # "surface", Says(s, v, label),
         FlagKept(s), Unshared, UNCHANGED <<granted, shellOverrides>>
  PROVE  HonourInv'
<1>1. PICK t : t = OnTask(s)
  OBVIOUS
<1>2. /\ \A u \in Shell \ {s} : pc'[u] = pc[u] /\ cur'[u] = cur[u] /\ prior'[u] = prior[u]
      /\ pc'[s] \in Busy => cur'[s] = cur[s]
      /\ pc'[s] \in {Idle, "failed", label}
      /\ \A u \in Task \ {t} : view'[u] = view[u]
      /\ view'[t] = view[t] \/ (view[t] # "done" /\ view'[t] = v)
  BY <1>1, SaysStep
<1>3. OwnStep(s, t)
  BY <1>1, <1>2 DEF OwnStep, Unshared, FlagKept, OnTask
<1>4. pc'[s] # "surface"
  BY <1>2 DEF Idle
<1>5. Covered(s) /\ Live(t) => OwnCarries(s, t)
  BY <1>1, <1>2, <1>4, FlagRight DEF OwnCarries, FlagKept
<1> QED
  BY <1>1, <1>3, <1>5, OwnKeeps

\* What is written into the table.
LEMMA SameFlag == ASSUME NEW s, tasks' = tasks PROVE FlagKept(s)
  BY DEF FlagKept

LEMMA RemovedFlag ==
  ASSUME Known, NEW s, NEW t, t = OnTask(s), t \in Task, Remove(t) PROVE FlagKept(s)
  BY DEF FlagKept, Remove, Known, TypeInv, TablesOK

LEMMA AmendedFlag ==
  ASSUME Known, NEW s, NEW t, t = OnTask(s), t \in Task, NEW e,
         tasks[t] # Absent => e.override = tasks[t].override, Amend(t, e)
  PROVE  FlagKept(s)
  BY DEF FlagKept, Amend, Known, TypeInv, TablesOK

LEMMA InsertedFlag ==
  ASSUME Known, NEW s, NEW t, t = OnTask(s), t \in Task, NEW e,
         \/ ShellOverride(s) => e.override
         \/ pc[s] = "surface" /\ (prior[s].override => e.override),
         Insert(t, e)
  PROVE  FlagKept(s)
  BY DEF FlagKept, Insert, Known, TypeInv, TablesOK

LEMMA ReawaitedFlag ==
  ASSUME Known, NEW s, NEW t, t = OnTask(s), t \in Task, NEW awaiting, Reawait(s, awaiting)
  PROVE  FlagKept(s)
<1>1. PICK e : e = [tasks[t] EXCEPT !.awaiting = awaiting, !.continuation = TRUE,
                                    !.stale = FALSE]
  OBVIOUS
<1>2. tasks[t] # Absent => e.override = tasks[t].override
  BY <1>1 DEF Known, TypeInv, TablesOK, Entry
<1>3. Amend(t, e)
  BY <1>1 DEF Reawait
<1> QED
  BY <1>2, <1>3, AmendedFlag

LEMMA ClearedFlag ==
  ASSUME Known, Lasting, NEW s, NEW t, t = OnTask(s), t \in Task, ClearTaskState(s)
  PROVE  FlagKept(s) /\ UNCHANGED shellOverrides
<1>1. Remove(t) /\ UNCHANGED shellOverrides
  BY DEF ClearTaskState, Lasting
<1> QED
  BY <1>1, RemovedFlag

LEMMA AskedFlag ==
  ASSUME Known, NEW s, NEW t, t = OnTask(s), t \in Task, NEW override, NEW again, NEW round,
         \/ override = ShellOverride(s)
         \/ pc[s] = "surface" /\ override = prior[s].override,
         Insert(t, AwaitingEntry(override, again, round))
  PROVE  FlagKept(s)
<1>1. PICK e : e = AwaitingEntry(override, again, round)
  OBVIOUS
<1>2. e.override = override
  BY <1>1 DEF AwaitingEntry
<1> QED
  BY <1>1, <1>2, InsertedFlag

LEMMA StartingHonours ==
  ASSUME Known, HonourInv, Lasting, NEW s \in Shell, Starting(s)
  PROVE  HonourInv'
<1>1. pc[s] \in Busy
  BY DEF Starting, StartAnswered, StartAmbiguous, StartOrchestration, At, Busy, PC, Idle
<1>2. PICK t \in Task : t = OnTask(s)
  BY <1>1, OwnFacts
<1>3. Unshared /\ UNCHANGED <<granted, shellOverrides>>
  BY DEF Starting, StartAnswered, StartAmbiguous, StartOrchestration, daemonVars, historyVars
<1>4. CASE StartAnswered(s)
  <2>1. Says(s, "done", "handled") /\ FlagKept(s)
    BY <1>4, SameFlag DEF StartAnswered, Says, daemonVars
  <2> QED
    BY <1>1, <1>3, <2>1, SaysKeeps
<1>5. CASE StartAmbiguous(s)
  <2>1. Says(s, "asked", "handled")
    BY <1>5 DEF StartAmbiguous, AskedAtStart, Says
  <2>2. FlagKept(s)
    BY <1>2, <1>5, AskedFlag DEF StartAmbiguous, AskedAtStart
  <2> QED
    BY <1>1, <1>3, <2>1, <2>2, SaysKeeps
<1>6. CASE StartOrchestration(s)
  <2>1. Says(s, "done", "orchestrate") /\ FlagKept(s)
    BY <1>6, SameFlag DEF StartOrchestration, Says, daemonVars
  <2> QED
    BY <1>1, <1>3, <2>1, SaysKeeps
<1> QED
  BY <1>4, <1>5, <1>6 DEF Starting

LEMMA LookingUpHonours ==
  ASSUME Known, HonourInv, Lasting, NEW s \in Shell, LookingUp(s)
  PROVE  HonourInv'
<1>1. pc[s] \in Busy
  BY DEF LookingUp, AnswerTimedOut, LookupUnknown, LookupStale, LookupFound, At, Busy, PC, Idle
<1>2. PICK t \in Task : t = OnTask(s)
  BY <1>1, OwnFacts
<1>3. Unshared /\ UNCHANGED granted
  BY DEF LookingUp, AnswerTimedOut, LookupUnknown, LookupStale, LookupFound, historyVars
<1>4. CASE AnswerTimedOut(s)
  <2>1. /\ Says(s, "done", "lookup") /\ UNCHANGED shellOverrides
        /\ FlagKept(s)
    BY <1>4, SameFlag DEF AnswerTimedOut, Says
  <2> QED
    BY <1>1, <1>3, <2>1, SaysKeeps
<1>5. CASE LookupUnknown(s)
  <2>1. Says(s, "done", "handled") /\ UNCHANGED shellOverrides /\ FlagKept(s)
    BY <1>5, SameFlag DEF LookupUnknown, Says, daemonVars
  <2> QED
    BY <1>1, <1>3, <2>1, SaysKeeps
<1>6. CASE LookupStale(s)
  <2>1. Says(s, "done", "handled")
    BY <1>6 DEF LookupStale, Says
  <2>2. UNCHANGED shellOverrides /\ FlagKept(s)
    BY <1>2, <1>6, ClearedFlag, RemovedFlag DEF LookupStale
  <2> QED
    BY <1>1, <1>3, <2>1, <2>2, SaysKeeps
<1>7. CASE LookupFound(s)
  <2>1. /\ pc'[s] = "decide" /\ cur'[s] = cur[s]
        /\ \A u \in Shell \ {s} : pc'[u] = pc[u] /\ cur'[u] = cur[u] /\ prior'[u] = prior[u]
    BY <1>7 DEF LookupFound, Goto, Known, TypeInv, StacksOK
  <2>2. /\ \A u \in Task \ {t} : tasks'[u] = tasks[u]
        /\ tasks'[t] \in {tasks[t], Absent}
        /\ view' = view /\ UNCHANGED shellOverrides
    BY <1>2, <1>7 DEF LookupFound, Remove, Known, TypeInv, TablesOK
  <2>3. OwnStep(s, t)
    BY <1>2, <1>3, <2>1, <2>2 DEF OwnStep, Unshared, OnTask
  <2>4. Covered(s) /\ Live(t) => OwnCarries(s, t)
    BY <1>1, <1>2, <2>1, <2>2, FlagRight DEF OwnCarries
  <2> QED
    BY <1>1, <1>2, <1>3, <2>2, <2>3, <2>4, OwnKeeps
<1> QED
  BY <1>4, <1>5, <1>6, <1>7 DEF LookingUp

\* The decisions other than approve-all.
LEMMA DecidingHonours ==
  ASSUME Known, HonourInv, Lasting, NEW s \in Shell, Deciding(s), ~ApproveAll(s)
  PROVE  HonourInv'
<1>1. pc[s] \in Busy
  BY DEF Deciding, Approve, EditRefused, EditAccepted, Reject, RejectWithReason, Abort,
         NotAwaiting, ClarificationAmbiguous, Clarified, AckLast, AckContinue, Decides, At, Busy,
         PC, Idle
<1>2. PICK t \in Task : t = OnTask(s)
  BY <1>1, OwnFacts
<1>3. Unshared /\ UNCHANGED granted
  BY DEF Deciding, Approve, EditRefused, EditAccepted, Reject, RejectWithReason, Abort,
         NotAwaiting, ClarificationAmbiguous, Clarified, AckLast, AckContinue, historyVars
<1>4. \/ Says(s, "done", "orchestrate")
      \/ Says(s, "asked", "orchestrate")
  BY DEF Deciding, Approve, EditRefused, EditAccepted, Reject, RejectWithReason, Abort,
         NotAwaiting, ClarificationAmbiguous, Clarified, AckLast, AckContinue, Says
<1>5. CASE Approve(s) \/ EditAccepted(s)
  <2>1. Amend(t, [tasks[t] EXCEPT !.awaiting = FALSE, !.stale = FALSE]) /\ UNCHANGED shellOverrides
    BY <1>2, <1>5 DEF Approve, EditAccepted
  <2>2. PICK e : e = [tasks[t] EXCEPT !.awaiting = FALSE, !.stale = FALSE]
    OBVIOUS
  <2>3. tasks[t] # Absent => e.override = tasks[t].override
    BY <1>2, <2>2 DEF Known, TypeInv, TablesOK, Entry
  <2> QED
    BY <1>1, <1>2, <1>3, <1>4, <2>1, <2>2, <2>3, AmendedFlag, SaysKeeps
<1>6. CASE EditRefused(s) \/ Reject(s) \/ Abort(s)
  <2>1. UNCHANGED daemonVars \/ ClearTaskState(s)
    BY <1>6 DEF EditRefused, Reject, Abort
  <2>2. UNCHANGED shellOverrides /\ FlagKept(s)
    BY <1>2, <2>1, ClearedFlag, SameFlag DEF daemonVars
  <2> QED
    BY <1>1, <1>3, <1>4, <2>2, SaysKeeps
<1>7. CASE \/ RejectWithReason(s) \/ NotAwaiting(s) \/ Clarified(s) \/ AckLast(s)
           \/ AckContinue(s)
  <2>1. UNCHANGED shellOverrides /\ FlagKept(s)
    BY <1>7, SameFlag
    DEF RejectWithReason, NotAwaiting, Clarified, AckLast, AckContinue, daemonVars
  <2> QED
    BY <1>1, <1>3, <1>4, <2>1, SaysKeeps
<1>8. CASE ClarificationAmbiguous(s)
  <2>1. Reawait(s, TRUE) /\ UNCHANGED shellOverrides
    BY <1>8 DEF ClarificationAmbiguous
  <2>2. FlagKept(s)
    BY <1>2, <2>1, ReawaitedFlag
  <2> QED
    BY <1>1, <1>3, <1>4, <2>1, <2>2, SaysKeeps
<1> QED
  BY <1>5, <1>6, <1>7, <1>8 DEF Deciding

LEMMA OrchestrationHonours ==
  ASSUME Known, HonourInv, Lasting, NEW s \in Shell, Orchestration(s)
  PROVE  HonourInv'
<1>1. pc[s] \in Busy
  BY DEF Orchestration, DirectAnswer, NoTools, ExposeTools, SeedConversation, Complete,
         Clarify, GiveUp, Orchestrating, At, Busy, PC, Idle
<1>2. PICK t \in Task : t = OnTask(s)
  BY <1>1, OwnFacts
<1>3. Unshared /\ UNCHANGED <<granted, shellOverrides>>
  BY DEF Orchestration, DirectAnswer, NoTools, ExposeTools, SeedConversation, Complete,
         Clarify, GiveUp, daemonVars, historyVars
<1>4. CASE Clarify(s)
  <2>1. Says(s, "asked", "handled")
    BY <1>4 DEF Clarify, Says
  <2>2. FlagKept(s)
    BY <1>2, <1>4, AskedFlag DEF Clarify
  <2> QED
    BY <1>1, <1>3, <2>1, <2>2, SaysKeeps
<1>5. CASE ~Clarify(s)
  <2>1. \E label \in {"handled", "unhandled", "seed", "stream"} : Says(s, "done", label)
    BY <1>5 DEF Orchestration, DirectAnswer, NoTools, ExposeTools, SeedConversation, Complete,
         GiveUp, Says
  <2>2. FlagKept(s)
    BY <1>5, SameFlag
    DEF Orchestration, DirectAnswer, NoTools, ExposeTools, SeedConversation, Complete,
        GiveUp, daemonVars
  <2> QED
    BY <1>1, <1>3, <2>1, <2>2, SaysKeeps
<1> QED
  BY <1>4, <1>5

\* Planning reads the flag when it begins, and what it shows goes by what it read.
LEMMA PlanningHonours ==
  ASSUME Known, HonourInv, Lasting, NEW s \in Shell, Planning(s), ~FallbackFailed(s)
  PROVE  HonourInv'
<1>1. pc[s] \in Busy /\ (~Propose(s) => pc[s] = "surface")
  BY DEF Planning, Propose, FloorRefused, Unvalidated, Surface, Orchestrating, At, Busy, PC, Idle
<1>2. PICK t \in Task : t = OnTask(s)
  BY <1>1, OwnFacts
<1>3. Unshared /\ UNCHANGED granted
  BY DEF Planning, Propose, FloorRefused, Unvalidated, Surface, historyVars
<1>4. CASE Propose(s)
  <2>1. /\ pc'[s] = "surface" /\ cur' = cur /\ tasks' = tasks /\ view' = view
        /\ shellOverrides' = shellOverrides
        /\ \A u \in Shell \ {s} : pc'[u] = pc[u] /\ prior'[u] = prior[u]
    BY <1>4 DEF Propose, Goto, daemonVars, Known, TypeInv, StacksOK
  <2>2. prior'[s].override = IF tasks[t] = Absent THEN ShellOverride(s) ELSE tasks[t].override
    BY <1>2, <1>4 DEF Propose, Known, TypeInv, StacksOK
  <2>3. OwnStep(s, t)
    BY <1>2, <1>3, <2>1 DEF OwnStep, Unshared, OnTask
  <2>4. Covered(s) /\ Live(t) => OwnCarries(s, t)
    BY <1>1, <1>2, <2>1, <2>2, FlagRight DEF OwnCarries
  <2> QED
    BY <1>1, <1>2, <1>3, <2>1, <2>3, <2>4, OwnKeeps
<1>5. CASE FloorRefused(s)
  <2>1. Says(s, "done", "handled") \/ Says(s, "asked", "handled")
    BY <1>5 DEF FloorRefused, Says
  <2>2. UNCHANGED shellOverrides /\ FlagKept(s)
    BY <1>1, <1>2, <1>5, ClearedFlag, AskedFlag DEF FloorRefused, At
  <2> QED
    BY <1>1, <1>3, <2>1, <2>2, SaysKeeps
<1>6. CASE Unvalidated(s)
  <2>1. Says(s, "done", "handled") \/ Says(s, "asked", "handled")
    BY <1>6 DEF Unvalidated, Says
  <2>2. UNCHANGED shellOverrides /\ FlagKept(s)
    BY <1>1, <1>2, <1>6, SameFlag, AskedFlag DEF Unvalidated, At
  <2> QED
    BY <1>1, <1>3, <2>1, <2>2, SaysKeeps
<1>7. CASE Surface(s)
  <2>1. PICK critical \in BOOLEAN, again \in BOOLEAN :
          /\ Insert(t, [override |-> prior[s].override, awaiting |-> FALSE,
                        continuation |-> again, round |-> prior[s].round, stale |-> FALSE])
          /\ SendThen(s, ProposalView(RequiresApproval(prior[s].override, critical), critical),
                      "handled")
    BY <1>2, <1>7 DEF Surface
  <2>2. PICK v : v = ProposalView(RequiresApproval(prior[s].override, critical), critical)
    OBVIOUS
  <2>3. v \in Proposed /\ (prior[s].override => v # "offered")
    BY <2>2 DEF ProposalView, RequiresApproval, Proposed
  <2>4. UNCHANGED shellOverrides /\ Says(s, v, "handled")
    BY <1>7, <2>1, <2>2 DEF Surface, Says
  <2>5. /\ \A u \in Shell \ {s} : pc'[u] = pc[u] /\ cur'[u] = cur[u] /\ prior'[u] = prior[u]
        /\ pc'[s] \in Busy => cur'[s] = cur[s]
        /\ pc'[s] \in {Idle, "failed", "handled"}
        /\ \A u \in Task \ {t} : view'[u] = view[u]
        /\ view'[t] = view[t] \/ (view[t] # "done" /\ view'[t] = v)
    BY <1>1, <1>2, <2>3, <2>4, SaysStep DEF Proposed
  <2>6. /\ \A u \in Task \ {t} : tasks'[u] = tasks[u]
        /\ tasks'[t].override = prior[s].override
    BY <1>2, <2>1 DEF Insert, Known, TypeInv, TablesOK
  <2>7. OwnStep(s, t)
    BY <1>2, <1>3, <2>3, <2>5, <2>6 DEF OwnStep, Unshared, OnTask, Proposed
  <2>8. Covered(s) /\ Live(t) => OwnCarries(s, t)
    BY <1>1, <1>2, <1>7, <2>3, <2>5, <2>6, FlagRight DEF OwnCarries, Surface, At, Idle
  <2> QED
    BY <1>1, <1>2, <1>3, <2>4, <2>7, <2>8, OwnKeeps
<1> QED
  BY <1>4, <1>5, <1>6, <1>7 DEF Planning

LEMMA ConcludingHonours ==
  ASSUME Known, HonourInv, Lasting, NEW s \in Shell, Concluding(s)
  PROVE  HonourInv'
<1>1. pc[s] \in Busy
  BY DEF Concluding, StartHandled, StartUnhandled, ClarificationHandled,
         ClarificationUnhandled, RejectionHandled, RejectionUnhandled, AckHandled,
         AckUnhandled, After, At, Busy, PC, Idle
<1>2. PICK t \in Task : t = OnTask(s)
  BY <1>1, OwnFacts
<1>3. Unshared /\ UNCHANGED <<granted, shellOverrides>>
  BY DEF Concluding, StartHandled, StartUnhandled, ClarificationHandled,
         ClarificationUnhandled, RejectionHandled, RejectionUnhandled, AckHandled,
         AckUnhandled, daemonVars, historyVars
<1>4. CASE RejectionUnhandled(s)
  <2>1. /\ pc'[s] = "decide" /\ cur'[s].task = cur[s].task
        /\ \A u \in Shell \ {s} : pc'[u] = pc[u] /\ cur'[u] = cur[u] /\ prior'[u] = prior[u]
        /\ tasks' = tasks /\ view' = view
    BY <1>1, <1>4, OwnFacts
    DEF RejectionUnhandled, Goto, Known, TypeInv, StacksOK, Message
  <2>2. OwnStep(s, t)
    BY <1>2, <1>3, <2>1 DEF OwnStep, Unshared, OnTask
  <2>3. Covered(s) /\ Live(t) => OwnCarries(s, t)
    BY <1>1, <1>2, <2>1, FlagRight DEF OwnCarries
  <2> QED
    BY <1>1, <1>2, <1>3, <2>2, <2>3, OwnKeeps
<1>5. CASE StartHandled(s) \/ AckUnhandled(s)
  <2>1. Says(s, "done", "handled") /\ FlagKept(s)
    BY <1>5, SameFlag DEF StartHandled, AckUnhandled, Says, daemonVars
  <2> QED
    BY <1>1, <1>3, <2>1, SaysKeeps
<1>6. CASE StartUnhandled(s)
  <2>1. Says(s, "asked", "handled")
    BY <1>6 DEF StartUnhandled, AskedAtStart, Says
  <2>2. FlagKept(s)
    BY <1>2, <1>6, AskedFlag DEF StartUnhandled, AskedAtStart
  <2> QED
    BY <1>1, <1>3, <2>1, <2>2, SaysKeeps
<1>7. CASE ClarificationHandled(s) \/ ClarificationUnhandled(s)
  <2>1. Says(s, "asked", "handled")
    BY <1>7 DEF ClarificationHandled, ClarificationUnhandled, Says
  <2>2. FlagKept(s)
    BY <1>2, <1>7, ReawaitedFlag DEF ClarificationHandled, ClarificationUnhandled
  <2> QED
    BY <1>1, <1>3, <2>1, <2>2, SaysKeeps
<1>8. CASE RejectionHandled(s) \/ AckHandled(s)
  <2>1. Says(s, "done", "handled")
    BY <1>8 DEF RejectionHandled, AckHandled, Says
  <2>2. PICK e : /\ \/ e = [tasks[t] EXCEPT !.continuation = TRUE]
                    \/ e = [tasks[t] EXCEPT !.round = NextRound(s), !.continuation = TRUE]
                 /\ Amend(t, e)
    BY <1>2, <1>8 DEF RejectionHandled, AckHandled
  <2>3. tasks[t] # Absent => e.override = tasks[t].override
    BY <2>2 DEF Known, TypeInv, TablesOK, Entry
  <2>4. FlagKept(s)
    BY <1>2, <2>2, <2>3, AmendedFlag
  <2> QED
    BY <1>1, <1>3, <2>1, <2>4, SaysKeeps
<1> QED
  BY <1>4, <1>5, <1>6, <1>7, <1>8 DEF Concluding

\* The grant reaches the task the client has gone on to: that one's start is still unread.
LEMMA ApproveAllHonours ==
  ASSUME Known, DialogueInv, HonourInv, Lasting, NEW s \in Shell, ApproveAll(s)
  PROVE  HonourInv'
<1>1. pc[s] \in Busy /\ pc[s] = "decide"
  BY DEF ApproveAll, Decides, At, Busy, PC, Idle
<1>2. PICK t \in Task : t = OnTask(s)
  BY <1>1, OwnFacts
<1>3. ShellOf[t] = s /\ cur[s].task = t /\ TaskOK(t)
  BY <1>1, <1>2, OwnFacts
<1>4. Says(s, "done", "handled") /\ Unshared /\ view' = view
  BY DEF ApproveAll, Says, Acknowledged
<1>5. PICK e : /\ e = [tasks[t] EXCEPT !.override = TRUE, !.awaiting = FALSE, !.stale = FALSE]
               /\ Amend(t, e)
  BY <1>2 DEF ApproveAll
<1>6. /\ \A u \in Shell \ {s} : pc'[u] = pc[u] /\ cur'[u] = cur[u] /\ prior'[u] = prior[u]
      /\ pc'[s] \in Busy => cur'[s] = cur[s]
      /\ pc'[s] \in {Idle, "failed", "handled"}
  BY <1>1, <1>2, <1>4, SaysStep
<1>7. /\ \A u \in Task \ {t} : tasks'[u] = tasks[u]
      /\ tasks'[t] = IF tasks[t] = Absent THEN Absent ELSE e
  BY <1>2, <1>5 DEF Amend, Known, TypeInv, TablesOK
<1>8. CASE tasks[t] = Absent
  <2>1. UNCHANGED <<granted, shellOverrides>>
    BY <1>2, <1>8 DEF ApproveAll
  <2>2. FlagKept(s)
    BY <1>2, <1>7, <1>8 DEF FlagKept
  <2> QED
    BY <1>1, <1>4, <2>1, <2>2, SaysKeeps
<1>9. CASE tasks[t] # Absent
  <2>1. granted' = granted \cup {t} /\ shellOverrides' = shellOverrides \cup {s}
    BY <1>2, <1>3, <1>9 DEF ApproveAll, Lasting
  <2>2. e.override
    BY <1>5, <1>9 DEF Known, TypeInv, TablesOK, Entry
  <2>3. OwnStep(s, t)
    BY <1>3, <1>4, <1>6, <1>7 DEF OwnStep, Unshared
  <2>4. QueueInv' /\ \A u \in Task : Live(u)' => Live(u)
    BY <1>1, <1>2, <2>3, QueueOwn DEF HonourInv
  <2>5. \A x : Covered(x)' => Covered(x) \/ x = s
    BY <1>3, <2>1 DEF Covered
  <2>6. \A x \in Shell : ShellCovered(x)'
    BY <1>4, <2>1, <2>5 DEF HonourInv, GrantInv, ShellCovered, Unshared
  <2>7. view[t] \in Taken
    <3>1. DialogueOK(t) /\ Doing(t, BeforeAnswer)
      BY <1>1, <1>3 DEF DialogueInv, Doing, BeforeAnswer
    <3> QED
      BY <3>1 DEF DialogueOK
  <2>8. CarriesOn(t)'
    BY <1>3, <1>4, <1>6, <1>7, <1>9, <2>2, <2>7 DEF CarriesOn, Doing, Taken, Idle
  <2>9. ASSUME NEW u \in Task, u # t, ShellOf[u] = s, Live(u) PROVE CarriesOn(u)'
    <3>1. PICK j : StartAt(u, j)
      BY <1>1, <1>3, <2>9 DEF HonourInv, QueueInv, TurnOK
    <3>2. Untouched(u)
      BY <3>1 DEF HonourInv, QueueInv, FreshOK, StartAt
    <3>3. Pending(u)
      <4>1. Asked(u, j) /\ j \in Nat
        BY <3>1 DEF StartAt, Place, About, Asked, Demands
      <4> QED
        BY <4>1 DEF Pending
    <3>4. view[u] # "offered"
      BY <3>3 DEF Known, TableInv, TaskOK, LineOK
    <3>5. tasks'[u] = Absent
      BY <1>7, <2>9, <3>2 DEF Untouched
    <3> QED
      BY <1>4, <1>6, <2>9, <3>4, <3>5 DEF CarriesOn, Doing, Idle
  <2>10. ASSUME NEW u \in Task, ShellOf[u] # s PROVE CarriesOn(u)'
    <3>1. CarriesOn(u) /\ (Covered(ShellOf[u])' => Covered(ShellOf[u]))
      BY <2>5, <2>10 DEF HonourInv, GrantInv
    <3>2. tasks'[u] = tasks[u] /\ view'[u] = view[u]
      BY <1>3, <1>4, <1>7, <2>10
    <3>3. Doing(u, {"surface"})' =>
            Doing(u, {"surface"}) /\ prior'[ShellOf[u]] = prior[ShellOf[u]]
      BY <1>6, <2>10, ConfigAssumption DEF Doing
    <3> QED
      BY <2>4, <3>1, <3>2, <3>3 DEF CarriesOn
  <2>11. \A u \in Task : CarriesOn(u)'
    BY <2>4, <2>8, <2>9, <2>10 DEF CarriesOn
  <2> QED
    BY <2>4, <2>6, <2>11 DEF HonourInv, GrantInv
<1> QED
  BY <1>8, <1>9

\* A step that says nothing to a client, starts no handler and takes no flag.
LEMMA SilentHonours ==
  ASSUME HonourInv, UNCHANGED <<clientVars, granted>>,
         \A s \in Shell : \/ pc'[s] = pc[s] /\ cur'[s] = cur[s] /\ prior'[s] = prior[s]
                          \/ pc'[s] \notin Busy,
         \A t \in Task : tasks'[t] # Absent =>
           tasks[t] # Absent /\ tasks'[t].override = tasks[t].override,
         \A s \in Shell : connected[s] /\ s \in shellOverrides => s \in shellOverrides'
  PROVE  HonourInv'
<1>1. UNCHANGED <<inbox, connected, view>>
  BY DEF clientVars
<1>2. ASSUME NEW t \in Task
      PROVE  /\ Live(t)' <=> Live(t)
             /\ Place(t)' = Place(t)
             /\ \A i : (About(t, i)' <=> About(t, i)) /\ (StartAt(t, i)' <=> StartAt(t, i))
  BY <1>1 DEF Live, Place, About, StartAt
<1>3. ASSUME NEW t \in Task, NEW labels \in SUBSET Busy, Doing(t, labels)'
      PROVE  Doing(t, labels) /\ prior'[ShellOf[t]] = prior[ShellOf[t]]
  BY <1>3, ConfigAssumption DEF Doing
<1>4. Busy \subseteq Busy /\ {"surface"} \subseteq Busy
  BY DEF Busy, PC, Idle
<1>5. ASSUME NEW t \in Task, Untouched(t) PROVE Untouched(t)'
  BY <1>3, <1>4, <1>5 DEF Untouched
<1>6. ASSUME NEW t \in Task PROVE FreshOK(t)'
  BY <1>1, <1>2, <1>5 DEF HonourInv, QueueInv, FreshOK
<1>7. ASSUME NEW t \in Task PROVE TurnOK(t)'
  <2>1. TurnOK(t) /\ ShellOf[t] \in Shell
    BY ConfigAssumption DEF HonourInv, QueueInv
  <2>2. pc'[ShellOf[t]] \in Busy => /\ pc[ShellOf[t]] = pc'[ShellOf[t]]
                                    /\ cur[ShellOf[t]] = cur'[ShellOf[t]]
    BY <2>1
  <2> QED
    BY <1>2, <2>1, <2>2 DEF TurnOK
<1>8. OneLive'
  BY <1>2 DEF HonourInv, QueueInv, OneLive
<1>9. \A x : Covered(x)' <=> Covered(x)
  BY DEF Covered
<1>10. ASSUME NEW t \in Task PROVE CarriesOn(t)'
  <2>1. CarriesOn(t)
    BY DEF HonourInv, GrantInv
  <2>2. Doing(t, {"surface"})' => Doing(t, {"surface"}) /\ prior'[ShellOf[t]] = prior[ShellOf[t]]
    BY <1>3, <1>4
  <2> QED
    BY <1>1, <1>2, <1>9, <2>1, <2>2 DEF CarriesOn
<1>11. \A s \in Shell : ShellCovered(s)'
  BY <1>1, <1>9 DEF HonourInv, GrantInv, ShellCovered
<1> QED
  BY <1>6, <1>7, <1>8, <1>10, <1>11 DEF HonourInv, QueueInv, GrantInv

LEMMA FallbackHonours ==
  ASSUME Known, HonourInv, NEW s \in Shell, FallbackFailed(s) PROVE HonourInv'
BY SilentHonours DEF FallbackFailed, handlerVars, historyVars, clientVars, Unshared

LEMMA ClosingHonours ==
  ASSUME Known, HonourInv, Lasting, NEW s \in Shell, Closing(s)
  PROVE  HonourInv'
<1>1. CASE Fail(s)
  <2>1. pc[s] \in Busy
    BY <1>1 DEF Fail, At, Busy, PC, Idle
  <2>2. PICK t \in Task : t = OnTask(s)
    BY <2>1, OwnFacts
  <2>3. /\ Says(s, "done", "closing") /\ Unshared /\ UNCHANGED granted
        /\ ClearTaskState(s)
    BY <1>1 DEF Fail, Says, historyVars
  <2> QED
    BY <2>1, <2>2, <2>3, ClearedFlag, SaysKeeps
<1>2. CASE EndOfStream(s) \/ DropConnection(s) \/ CloseShell(s)
  <2>1. /\ ~connected[s] /\ UNCHANGED <<clientVars, granted>>
        /\ \A u \in Shell \ {s} : pc'[u] = pc[u] /\ cur'[u] = cur[u] /\ prior'[u] = prior[u]
        /\ pc'[s] \in {"closing", "closed", "dropped"}
    BY <1>2
    DEF EndOfStream, DropConnection, CloseShell, At, Goto, Keep, Unshared, clientVars,
        historyVars, Known, TypeInv, StacksOK, TableInv, ShellsOK, GoneOK
  <2>2. pc'[s] \notin Busy
    BY <2>1 DEF Busy
  <2>3. \A t \in Task : tasks'[t] \in {tasks[t], Absent}
    BY <1>2 DEF EndOfStream, DropConnection, CloseShell, daemonVars, Known, TypeInv, TablesOK
  <2>4. \A u \in Shell \ {s} : u \in shellOverrides => u \in shellOverrides'
    BY <1>2 DEF EndOfStream, DropConnection, CloseShell, daemonVars
  <2> QED
    BY <2>1, <2>2, <2>3, <2>4, SilentHonours
<1> QED
  BY <1>1, <1>2 DEF Closing

LEMMA BesideHonours ==
  ASSUME Known, HonourInv, Sweep \/ Time \/ UNCHANGED vars
  PROVE  HonourInv'
<1>1. UNCHANGED <<clientVars, granted, handlerVars, shellOverrides>>
  BY DEF Sweep, SweepTasks, SweepConversations, SweepTimedOut, Time, GoStale, Forget, historyVars,
         vars, daemonVars
<1>2. \A t \in Task : tasks'[t] # Absent =>
        tasks[t] # Absent /\ tasks'[t].override = tasks[t].override
  <2>1. CASE Sweep \/ UNCHANGED vars
    BY <2>1 DEF Sweep, SweepTasks, SweepConversations, SweepTimedOut, vars, daemonVars
  <2>2. ASSUME NEW u \in Task, GoStale(u) 
      PROVE  \A t \in Task : tasks'[t] # Absent =>
               tasks[t] # Absent /\ tasks'[t].override = tasks[t].override
    BY <2>2 DEF GoStale, Known, TypeInv, TablesOK, Entry
  <2>3. ASSUME NEW u \in Task, Forget(u) PROVE tasks' = tasks
    BY <2>3 DEF Forget
  <2> QED
    BY <2>1, <2>2, <2>3 DEF Time
<1> QED
  BY <1>1, <1>2, SilentHonours DEF handlerVars

\* The handler takes the head of the line: all that follows it moves up alike.
LEMMA ReceiveHonours ==
  ASSUME Known, HonourInv, NEW s \in Shell, Receive(s)
  PROVE  HonourInv'
<1>1. /\ Len(inbox[s]) \in Nat \ {0}
      /\ Head(inbox[s]) = inbox[s][1]
      /\ Len(Tail(inbox[s])) = Len(inbox[s]) - 1
      /\ \A i \in 1 .. Len(inbox[s]) - 1 : Tail(inbox[s])[i] = inbox[s][i + 1]
  BY DEF Receive, Known, TypeInv, InboxOK
<1>2. /\ inbox'[s] = Tail(inbox[s]) /\ \A u \in Shell \ {s} : inbox'[u] = inbox[u]
      /\ cur'[s] = inbox[s][1] /\ pc[s] = Idle /\ pc'[s] \in {"start", "timed"}
      /\ \A u \in Shell \ {s} : pc'[u] = pc[u] /\ cur'[u] = cur[u]
      /\ UNCHANGED <<connected, view, granted, tasks, prior, shellOverrides>>
  BY <1>1 DEF Receive, At, Goto, historyVars, daemonVars, Known, TypeInv, InboxOK, StacksOK
<1>3. \A t \in Task : Live(t)' <=> Live(t)
  BY <1>2 DEF Live
<1>4. ASSUME NEW t \in Task, ShellOf[t] # s
      PROVE  /\ Place(t)' = Place(t)
             /\ \A i : (About(t, i)' <=> About(t, i)) /\ (StartAt(t, i)' <=> StartAt(t, i))
             /\ pc'[ShellOf[t]] = pc[ShellOf[t]] /\ cur'[ShellOf[t]] = cur[ShellOf[t]]
  BY <1>2, <1>4, ConfigAssumption DEF Place, About, StartAt
<1>5. ASSUME NEW t \in Task, ShellOf[t] = s, NEW i \in Place(t)'
      PROVE  /\ i \in Nat /\ i + 1 \in Place(t) /\ 1 \in Place(t) /\ 1 < i + 1
             /\ About(t, i)' <=> About(t, i + 1)
             /\ StartAt(t, i)' <=> StartAt(t, i + 1)
  <2>1. i \in 1 .. Len(inbox[s]) - 1
    BY <1>1, <1>2, <1>5 DEF Place
  <2>2. i \in Nat /\ i + 1 \in Place(t) /\ 1 \in Place(t) /\ 1 < i + 1
    BY <1>1, <1>5, <2>1 DEF Place
  <2>3. inbox'[s][i] = inbox[s][i + 1]
    BY <1>1, <1>2, <2>1
  <2> QED
    BY <1>5, <2>2, <2>3 DEF About, StartAt
<1>6. ASSUME NEW t \in Task, ShellOf[t] = s, NEW j \in Place(t), j > 1
      PROVE  j - 1 \in Place(t)' /\ (j - 1) + 1 = j
  <2>1. j \in 1 .. Len(inbox[s]) /\ Place(t)' = 1 .. Len(inbox[s]) - 1
    BY <1>1, <1>2, <1>6 DEF Place
  <2> QED
    BY <1>1, <1>6, <2>1
<1>7. ASSUME NEW t \in Task, ShellOf[t] = s
      PROVE  Doing(t, Busy)' => 1 \in Place(t) /\ About(t, 1)
  BY <1>1, <1>2, <1>7 DEF Doing, About, Place
<1>8. ASSUME NEW t \in Task PROVE FreshOK(t)'
  <2>1. FreshOK(t)
    BY DEF HonourInv, QueueInv
  <2>2. CASE ShellOf[t] # s
    BY <1>2, <1>4, <2>1, <2>2 DEF FreshOK, Untouched, Doing
  <2>3. CASE ShellOf[t] = s
    <3>1. ASSUME view[t] = "new"
          PROVE  Untouched(t)' /\ \A i \in Place(t)' : ~About(t, i)'
      <4>1. Untouched(t) /\ \A i \in Place(t) : ~About(t, i)
        BY <2>1, <3>1 DEF FreshOK
      <4> QED
        BY <1>2, <1>5, <1>7, <2>3, <4>1 DEF Untouched
    <3>2. ASSUME NEW j \in Place(t)', StartAt(t, j)'
          PROVE  Untouched(t)' /\ \A i \in Place(t)' : i < j => ~About(t, i)'
      <4>1. StartAt(t, j + 1) /\ j + 1 \in Place(t) /\ j \in Nat /\ 1 \in Place(t) /\ 1 < j + 1
        BY <1>5, <2>3, <3>2
      <4>2. Untouched(t) /\ \A i \in Place(t) : i < j + 1 => ~About(t, i)
        BY <2>1, <4>1 DEF FreshOK
      <4>3. ~About(t, 1)
        BY <4>1, <4>2
      <4>4. Untouched(t)'
        BY <1>2, <1>7, <2>3, <4>2, <4>3 DEF Untouched
      <4>5. ASSUME NEW i \in Place(t)', i < j PROVE ~About(t, i)'
        <5>1. i \in Nat /\ i + 1 \in Place(t) /\ (About(t, i)' <=> About(t, i + 1))
          BY <1>5, <2>3
        <5>2. i + 1 < j + 1
          BY <4>1, <4>5, <5>1
        <5> QED
          BY <4>2, <5>1, <5>2
      <4> QED
        BY <4>4, <4>5
    <3> QED
      BY <1>2, <3>1, <3>2 DEF FreshOK
  <2> QED
    BY <2>2, <2>3
<1>9. ASSUME NEW t \in Task PROVE TurnOK(t)'
  <2>1. SUFFICES ASSUME Live(t)
                 PROVE  /\ \A i \in Place(t)' : ~About(t, i)' =>
                             \E j \in Place(t)' : i < j /\ StartAt(t, j)'
                        /\ pc'[ShellOf[t]] \in Busy /\ cur'[ShellOf[t]].task # t =>
                             \E j \in Place(t)' : StartAt(t, j)'
    BY <1>3 DEF TurnOK
  <2>2. /\ \A i \in Place(t) : ~About(t, i) => \E j \in Place(t) : i < j /\ StartAt(t, j)
        /\ pc[ShellOf[t]] \in Busy /\ cur[ShellOf[t]].task # t =>
             \E j \in Place(t) : StartAt(t, j)
    BY <2>1 DEF HonourInv, QueueInv, TurnOK
  <2>3. CASE ShellOf[t] # s
    BY <1>4, <2>2, <2>3
  <2>4. CASE ShellOf[t] = s
    <3>1. ASSUME NEW i \in Nat, i \in Place(t), ~About(t, i), 1 <= i
          PROVE  \E j \in Place(t)' : i - 1 < j /\ StartAt(t, j)'
      <4>1. PICK j \in Place(t) : i < j /\ StartAt(t, j)
        BY <2>2, <3>1
      <4>2. j \in Nat /\ j > 1
        BY <1>1, <2>4, <3>1, <4>1 DEF Place
      <4>3. j - 1 \in Place(t)' /\ (j - 1) + 1 = j
        BY <1>6, <2>4, <4>2
      <4>4. StartAt(t, j - 1)'
        BY <1>5, <2>4, <4>1, <4>3
      <4>5. i - 1 < j - 1
        BY <3>1, <4>1, <4>2
      <4> QED
        BY <4>3, <4>4, <4>5
    <3>2. ASSUME NEW i \in Place(t)', ~About(t, i)'
          PROVE  \E j \in Place(t)' : i < j /\ StartAt(t, j)'
      <4>1. i \in Nat /\ i + 1 \in Place(t) /\ ~About(t, i + 1)
        BY <1>5, <2>4, <3>2
      <4>2. (i + 1) - 1 = i /\ i + 1 \in Nat /\ 1 <= i + 1
        BY <4>1
      <4> QED
        BY <3>1, <4>1, <4>2
    <3>3. ASSUME cur'[s].task # t PROVE \E j \in Place(t)' : StartAt(t, j)'
      <4>1. 1 \in Place(t) /\ ~About(t, 1)
        BY <1>1, <1>2, <2>4, <3>3 DEF Place, About
      <4> QED
        BY <3>1, <4>1
    <3> QED
      BY <2>4, <3>2, <3>3
  <2> QED
    BY <2>3, <2>4
<1>10. OneLive'
  BY <1>3 DEF HonourInv, QueueInv, OneLive
<1>11. ASSUME NEW t \in Task PROVE CarriesOn(t)'
  <2>1. CarriesOn(t)
    BY DEF HonourInv, GrantInv
  <2>2. Doing(t, {"surface"})' => Doing(t, {"surface"})
    BY <1>2, <1>4 DEF Doing
  <2> QED
    BY <1>2, <1>3, <2>1, <2>2 DEF CarriesOn, Covered
<1>12. \A u \in Shell : ShellCovered(u)'
  BY <1>2 DEF HonourInv, GrantInv, ShellCovered, Covered
<1> QED
  BY <1>8, <1>9, <1>10, <1>11, <1>12 DEF HonourInv, QueueInv, GrantInv

\* A client's message goes to the end of its line: the start of a task behind all that
\* was said of the others, any other message only of the one that is live.
LEMMA ClientSendsHonours ==
  ASSUME Known, HonourInv, NEW t \in Task, NEW kind, NEW from, NEW to,
         ClientSends(t, kind, from, to), to \notin {"new", "offered"},
         \/ /\ kind = "start" /\ from = {"new"}
            /\ \A u \in Task \ {t} : ShellOf[u] = ShellOf[t] => ~Live(u)
         \/ kind # "start" /\ "new" \notin from /\ "done" \notin from
  PROVE  HonourInv'
<1> DEFINE s == ShellOf[t]
           m == [kind |-> kind, task |-> t]
<1>1. /\ s \in Shell /\ view[t] \in from
      /\ UNCHANGED <<pc, cur, prior, connected, granted, tasks, shellOverrides>>
  BY ConfigAssumption DEF ClientSends, handlerVars, historyVars, daemonVars
<1>2. /\ inbox'[s] = Append(inbox[s], m) /\ \A u \in Shell \ {s} : inbox'[u] = inbox[u]
      /\ view'[t] = to /\ \A u \in Task \ {t} : view'[u] = view[u]
  BY <1>1 DEF ClientSends, Known, TypeInv, InboxOK, ViewOK
<1>3. inbox[s] \in Seq(Message) /\ Len(inbox[s]) \in Nat
  BY <1>1 DEF Known, TypeInv, InboxOK
<1>4. PICK end \in Nat : end = Len(inbox[s]) + 1
  BY <1>3
<1>5. /\ Len(inbox'[s]) = end
      /\ \A i \in 1 .. Len(inbox[s]) : inbox'[s][i] = inbox[s][i]
      /\ inbox'[s][end] = m
  BY <1>2, <1>3, <1>4
<1> HIDE DEF m
<1>6. m.kind = kind /\ m.task = t
  BY DEF m
<1>7. ASSUME NEW u \in Task, ShellOf[u] = s
      PROVE  /\ \A i \in Place(u) : /\ i \in Place(u)' /\ i # end /\ i < end
                                    /\ About(u, i)' <=> About(u, i)
                                    /\ StartAt(u, i)' <=> StartAt(u, i)
             /\ \A i \in Place(u)' : i \in Place(u) \/ i = end
             /\ end \in Place(u)' /\ (About(u, end)' <=> u = t)
             /\ StartAt(u, end)' <=> u = t /\ kind = "start"
  <2>1. Place(u) = 1 .. Len(inbox[s]) /\ Place(u)' = 1 .. end
    BY <1>5, <1>7 DEF Place
  <2>2. /\ \A i \in Place(u) : i \in Place(u)' /\ i # end /\ i < end
        /\ \A i \in Place(u)' : i \in Place(u) \/ i = end
        /\ end \in Place(u)'
    BY <1>3, <1>4, <2>1
  <2>3. \A i \in Place(u) : inbox'[s][i] = inbox[s][i]
    BY <1>5, <2>1
  <2>4. \A i \in Place(u) : (About(u, i)' <=> About(u, i)) /\ (StartAt(u, i)' <=> StartAt(u, i))
    BY <1>7, <2>2, <2>3 DEF About, StartAt
  <2>5. About(u, end)' <=> u = t
    BY <1>5, <1>6, <1>7 DEF About
  <2>6. StartAt(u, end)' <=> u = t /\ kind = "start"
    BY <1>5, <1>6, <1>7, <2>2, <2>5 DEF StartAt
  <2> QED
    BY <2>2, <2>4, <2>5, <2>6
<1>8. ASSUME NEW u \in Task, ShellOf[u] # s
      PROVE  /\ Place(u)' = Place(u)
             /\ \A i : (About(u, i)' <=> About(u, i)) /\ (StartAt(u, i)' <=> StartAt(u, i))
             /\ view'[u] = view[u]
  BY <1>2, <1>8, ConfigAssumption DEF Place, About, StartAt
<1>9. \A u \in Task : /\ Untouched(u)' <=> Untouched(u)
                      /\ Doing(u, {"surface"})' <=> Doing(u, {"surface"})
                      /\ u # t => (Live(u)' <=> Live(u))
  BY <1>1, <1>2 DEF Untouched, Doing, Live
<1>10. kind # "start" => Live(t)
  BY <1>1 DEF Live
<1>11. \A u \in Task : FreshOK(u) /\ TurnOK(u) /\ CarriesOn(u)
  BY DEF HonourInv, QueueInv, GrantInv
<1>12. kind = "start" => view[t] = "new" /\ Untouched(t) /\ \A i \in Place(t) : ~About(t, i)
  BY <1>1, <1>11 DEF FreshOK
<1>13. \A u \in Task : u # t /\ ShellOf[u] = s => ~Live(u)
  BY <1>10 DEF HonourInv, QueueInv, OneLive
<1>14. ASSUME NEW u \in Task PROVE FreshOK(u)'
  <2>1. CASE ShellOf[u] # s
    BY <1>8, <1>9, <1>11, <2>1 DEF FreshOK
  <2>2. CASE ShellOf[u] = s
    <3>1. ASSUME view'[u] = "new" PROVE Untouched(u)' /\ \A i \in Place(u)' : ~About(u, i)'
      <4>1. u # t /\ view[u] = "new"
        BY <1>2, <3>1
      <4> QED
        BY <1>7, <1>9, <1>11, <2>2, <4>1 DEF FreshOK
    <3>2. ASSUME NEW j \in Place(u)', StartAt(u, j)'
          PROVE  Untouched(u)' /\ \A i \in Place(u)' : i < j => ~About(u, i)'
      <4>1. CASE j = end
        <5>1. Untouched(u) /\ \A i \in Place(u) : ~About(u, i)
          BY <1>7, <1>12, <2>2, <3>2, <4>1
        <5>2. \A i \in Place(u)' : i < j => i \in Place(u)
          BY <1>3, <1>7, <2>2, <4>1
        <5> QED
          BY <1>7, <1>9, <2>2, <5>1, <5>2
      <4>2. CASE j \in Place(u)
        <5>1. StartAt(u, j) /\ j < end /\ j \in Nat
          BY <1>7, <2>2, <3>2, <4>2 DEF Place
        <5>2. Untouched(u) /\ \A i \in Place(u) : i < j => ~About(u, i)
          BY <1>11, <4>2, <5>1 DEF FreshOK
        <5>3. \A i \in Place(u)' : i < j => i \in Place(u)
          BY <1>3, <1>7, <2>2, <5>1
        <5> QED
          BY <1>7, <1>9, <2>2, <5>2, <5>3
      <4> QED
        BY <1>7, <2>2, <4>1, <4>2
    <3> QED
      BY <3>1, <3>2 DEF FreshOK
  <2> QED
    BY <2>1, <2>2
<1>15. ASSUME NEW u \in Task PROVE TurnOK(u)'
  <2>1. CASE ShellOf[u] # s
    BY <1>1, <1>8, <1>11, <2>1 DEF TurnOK, Live
  <2>2. CASE ShellOf[u] = s /\ u # t
    BY <1>9, <1>13, <2>2 DEF TurnOK
  <2>3. CASE u = t /\ kind = "start"
    <3>1. end \in Place(t)' /\ StartAt(t, end)'
      BY <1>7, <2>3
    <3>2. \A i \in Place(t)' : ~About(t, i)' => i < end
      BY <1>7
    <3> QED
      BY <2>3, <3>1, <3>2 DEF TurnOK
  <2>4. CASE u = t /\ kind # "start"
    <3>1. /\ \A i \in Place(t) : ~About(t, i) => \E j \in Place(t) : i < j /\ StartAt(t, j)
          /\ pc[s] \in Busy /\ cur[s].task # t => \E j \in Place(t) : StartAt(t, j)
      BY <1>10, <1>11, <2>4 DEF TurnOK
    <3>2. ASSUME NEW i \in Place(t)', ~About(t, i)'
          PROVE  \E j \in Place(t)' : i < j /\ StartAt(t, j)'
      <4>1. i \in Place(t) /\ ~About(t, i)
        BY <1>7, <3>2
      <4> QED
        BY <1>7, <3>1, <4>1
    <3>3. pc'[s] \in Busy /\ cur'[s].task # t => \E j \in Place(t)' : StartAt(t, j)'
      BY <1>1, <1>7, <3>1
    <3> QED
      BY <2>4, <3>2, <3>3 DEF TurnOK
  <2> QED
    BY <2>1, <2>2, <2>3, <2>4
<1>16. OneLive'
  <2>1. \A u, w \in Task : ShellOf[u] = ShellOf[w] /\ Live(u)' /\ Live(w)' => u = w
    BY <1>9, <1>13 DEF HonourInv, QueueInv, OneLive
  <2> QED
    BY <2>1 DEF OneLive
<1>17. \A x : Covered(x)' <=> Covered(x)
  BY <1>1 DEF Covered
<1>18. ASSUME NEW u \in Task PROVE CarriesOn(u)'
  <2>1. CASE u # t
    BY <1>1, <1>2, <1>9, <1>11, <1>17, <2>1 DEF CarriesOn
  <2>2. CASE u = t /\ kind = "start"
    <3>1. tasks[t] = Absent /\ ~Doing(t, {"surface"})
      BY <1>12, <2>2 DEF Untouched, Doing, Busy, PC, Idle
    <3> QED
      BY <1>1, <1>2, <1>9, <2>2, <3>1 DEF CarriesOn
  <2>3. CASE u = t /\ kind # "start"
    BY <1>1, <1>2, <1>9, <1>10, <1>11, <1>17, <2>3 DEF CarriesOn
  <2> QED
    BY <2>1, <2>2, <2>3
<1>19. \A x \in Shell : ShellCovered(x)'
  BY <1>1, <1>17 DEF HonourInv, GrantInv, ShellCovered
<1> QED
  BY <1>14, <1>15, <1>16, <1>18, <1>19 DEF HonourInv, QueueInv, GrantInv

LEMMA DisconnectHonours ==
  ASSUME Known, HonourInv, NEW s \in Shell, Disconnect(s)
  PROVE  HonourInv'
<1>1. /\ UNCHANGED <<inbox, pc, cur, prior, tasks, granted, shellOverrides>>
      /\ \A t \in Task : view'[t] \in {view[t], "done"}
      /\ \A u \in Shell : connected'[u] => connected[u]
  BY DEF Disconnect, handlerVars, daemonVars, historyVars, Known, TypeInv, InboxOK
<1>2. \A t \in Task : /\ Live(t)' => Live(t)
                      /\ Place(t)' = Place(t)
                      /\ \A i : (About(t, i)' <=> About(t, i)) /\ (StartAt(t, i)' <=> StartAt(t, i))
                      /\ Untouched(t)' <=> Untouched(t)
                      /\ Doing(t, {"surface"})' <=> Doing(t, {"surface"})
  BY <1>1 DEF Live, Place, About, StartAt, Untouched, Doing
<1>3. OneLive'
  BY <1>2 DEF HonourInv, QueueInv, OneLive
<1>4. ASSUME NEW t \in Task PROVE FreshOK(t)' /\ TurnOK(t)'
  BY <1>1, <1>2 DEF HonourInv, QueueInv, FreshOK, TurnOK
<1>5. \A x : Covered(x)' <=> Covered(x)
  BY <1>1 DEF Covered
<1>6. ASSUME NEW t \in Task PROVE CarriesOn(t)'
  BY <1>1, <1>2, <1>5 DEF HonourInv, GrantInv, CarriesOn
<1>7. \A u \in Shell : ShellCovered(u)'
  BY <1>1, <1>5 DEF HonourInv, GrantInv, ShellCovered
<1> QED
  BY <1>3, <1>4, <1>6, <1>7 DEF HonourInv, QueueInv, GrantInv

LEMMA ClientHonours ==
  ASSUME Known, HonourInv, Client
  PROVE  HonourInv'
<1>1. ASSUME NEW t \in Task, SendStart(t) PROVE HonourInv'
  <2>1. /\ ClientSends(t, "start", {"new"}, "waiting")
        /\ \A u \in Task \ {t} : ShellOf[u] = ShellOf[t] => ~Live(u)
    BY <1>1 DEF SendStart, Live
  <2> QED
    BY <2>1, ClientSendsHonours
<1>2. ASSUME NEW t \in Task,
             \/ SendApproval(t) \/ SendRejection(t) \/ SendClarification(t) \/ SendAbort(t)
             \/ SendAck(t)
      PROVE  HonourInv'
  <2>1. \E kind, from, to :
          /\ ClientSends(t, kind, from, to)
          /\ to \notin {"new", "offered"} /\ kind # "start"
          /\ "new" \notin from /\ "done" \notin from
    <3>1. CASE SendApproval(t)
      <4>1. PICK kind \in {"approved", "approve_all", "edited"} :
              ClientSends(t, kind, {"offered", "offered_critical"}, "running")
        BY <3>1 DEF SendApproval
      <4>2. "running" \notin {"new", "offered"} /\ kind # "start"
        BY <4>1
      <4>3. "new" \notin {"offered", "offered_critical"} /\ "done" \notin {"offered", "offered_critical"}
        OBVIOUS
      <4> QED
        BY <4>1, <4>2, <4>3
    <3>2. CASE SendRejection(t)
      BY <3>2 DEF SendRejection
    <3>3. CASE SendClarification(t)
      BY <3>3 DEF SendClarification
    <3>4. CASE SendAbort(t)
      BY <3>4 DEF SendAbort
    <3>5. CASE SendAck(t)
      BY <3>5 DEF SendAck
    <3> QED
      BY <1>2, <3>1, <3>2, <3>3, <3>4, <3>5
  <2> QED
    BY <2>1, ClientSendsHonours
<1> QED
  BY <1>1, <1>2, DisconnectHonours DEF Client

LEMMA HonourInvInit == ASSUME Init PROVE HonourInv
<1>1. ASSUME NEW t \in Task
      PROVE  pc[ShellOf[t]] = Idle /\ tasks[t] = Absent /\ view[t] = "new" /\ Place(t) = {}
  <2>1. ShellOf[t] \in Shell
    BY ConfigAssumption
  <2>2. inbox[ShellOf[t]] = <<>> /\ pc[ShellOf[t]] = Idle /\ tasks[t] = Absent /\ view[t] = "new"
    BY <2>1 DEF Init
  <2> QED
    BY <2>2 DEF Place
<1>2. \A t \in Task : ~Live(t) /\ Untouched(t)
  BY <1>1 DEF Live, Untouched, Doing, Busy
<1>3. OneLive /\ \A t \in Task : FreshOK(t) /\ TurnOK(t)
  BY <1>1, <1>2 DEF OneLive, FreshOK, TurnOK
<1>4. \A x : ~Covered(x)
  BY DEF Init, Covered
<1> QED
  BY <1>3, <1>4 DEF HonourInv, QueueInv, GrantInv, CarriesOn, ShellCovered

LEMMA HonourInvStep ==
  ASSUME Known, DialogueInv, HonourInv, Lasting, [Next]_vars
  PROVE  HonourInv'
<1>1. ASSUME NEW s \in Shell, Handler(s) PROVE HonourInv'
  BY <1>1, ReceiveHonours, StartingHonours, LookingUpHonours, DecidingHonours,
     ApproveAllHonours, OrchestrationHonours, PlanningHonours, FallbackHonours,
     ConcludingHonours, ClosingHonours DEF Handler
<1> QED
  BY <1>1, ClientHonours, BesideHonours DEF Next

\* FR-13, where approvals outlive their task: once approve-all was accepted in a shell,
\* no ordinary command of any of its tasks waits for an approval, though the grant may
\* have crossed the start of a task that came after it.
THEOREM ApproveAllCorrect == ~ApproveAllResetsPerTask => (Spec => []ApproveAllIsHonoured)
<1>1. SUFFICES ASSUME Lasting PROVE Spec => []ApproveAllIsHonoured
  BY DEF Lasting
<1>2. Init => DialogueInv /\ HonourInv
  BY DialogueInvInit, HonourInvInit
<1>3. Known /\ DialogueInv /\ HonourInv /\ [Next]_vars => DialogueInv' /\ HonourInv'
  BY <1>1, DialogueStep, HonourInvStep
<1>4. HonourInv => ApproveAllIsHonoured
  <2>1. SUFFICES ASSUME HonourInv, NEW t \in Task, Approver(t) PROVE view[t] # "offered"
    BY DEF ApproveAllIsHonoured
  <2>2. Covered(ShellOf[t]) /\ CarriesOn(t)
    BY <1>1, <2>1 DEF Approver, Covered, Lasting, HonourInv, GrantInv
  <2> QED
    BY <2>2 DEF CarriesOn, Live
<1> QED
  BY <1>2, <1>3, <1>4, KnownInvariant, PTL DEF Spec
=============================================================================
