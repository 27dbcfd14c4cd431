------------------------ MODULE TaskLifecycle_proofs ------------------------
(***************************************************************************)
(* What TLAPS proves of TaskLifecycle, for all sets of tasks and shells,   *)
(* all approval modes and all bounds: the types, and that approvals are    *)
(* earned.  TaskTable_proofs goes on from here.                            *)
(***************************************************************************)
EXTENDS TaskLifecycle, TLAPS

(***************************************************************************)
(* The type invariant is not inductive: process_ack stores round + 1 long  *)
(* after it compared it with the limit, from a clone of an entry that is   *)
(* no longer in the table.  StacksOK adds what a handler knows of what it  *)
(* holds on its stack.  The parts follow the groups of variables that an   *)
(* action changes or leaves alone together.                                *)
(***************************************************************************)
TablesOK ==
  /\ tasks \in [Task -> Entry \cup {Absent}]
  /\ timedOut \in SUBSET Task
  /\ conversations \in SUBSET Task
  /\ convLock \in Shell \cup {Nobody}
  /\ shellOverrides \in SUBSET Shell

Busy == PC \ {Idle, "closing", "closed", "dropped"}
AfterLookup ==
  {"decide", "orchestrate", "seed", "stream", "surface", "handled", "unhandled"}
AfterDecision == AfterLookup \ {"decide"}

\* What a handler of shell s may rely on when it is at the given label.
Ready(s, label) ==
  /\ label \in PC
  /\ label \in Busy => cur[s] \in Message
  /\ label = "start" => cur[s].kind = "start"
  /\ label \in AfterLookup /\ cur[s].kind # "start" => snap[s] \in Entry
  /\ label \in AfterDecision /\ cur[s].kind = "ack" => ~RoundLimitReached(s)

StacksOK ==
  /\ pc \in [Shell -> PC]
  /\ cur \in [Shell -> Message \cup {Absent}]
  /\ snap \in [Shell -> Entry \cup {Absent}]
  /\ prior \in [Shell -> Prior]
  /\ \A s \in Shell : Ready(s, pc[s])

ViewOK == view \in [Task -> View]
InboxOK == inbox \in [Shell -> Seq(Message)] /\ connected \in [Shell -> BOOLEAN]

SweepOK == sweep \in [step : {"tasks", "conversations", "timed_out"},
                      found : SUBSET Task]
HistoryOK ==
  /\ everExpired \in SUBSET Task
  /\ granted \in SUBSET Task
  /\ runs \in [Task -> Nat]

TypeInv == TablesOK /\ StacksOK /\ ViewOK /\ InboxOK /\ SweepOK /\ HistoryOK

LEMMA TypeInvImpliesTypeOK == ASSUME TypeInv PROVE TypeOK
  BY DEF TypeInv, TypeOK, TablesOK, StacksOK, ViewOK, InboxOK, SweepOK,
         HistoryOK

LEMMA TypeInvInit == ASSUME Init PROVE TypeInv
  BY ConfigAssumption
  DEF Init, TypeInv, TablesOK, StacksOK, ViewOK, InboxOK, SweepOK, HistoryOK,
      Ready, NoPrior, Prior, Rounds, View, PC, Idle, Busy, AfterLookup,
      AfterDecision
-----------------------------------------------------------------------------
(* Groups of variables an action leaves alone *)

LEMMA TablesKept == ASSUME TablesOK, UNCHANGED daemonVars PROVE TablesOK'
  BY DEF TablesOK, daemonVars

LEMMA HistoryKept == ASSUME HistoryOK, UNCHANGED historyVars PROVE HistoryOK'
  BY DEF HistoryOK, historyVars

LEMMA InboxKept == ASSUME InboxOK, Unshared PROVE InboxOK'
  BY DEF InboxOK, Unshared

LEMMA SweepKept == ASSUME SweepOK, UNCHANGED sweep PROVE SweepOK'
  BY DEF SweepOK

LEMMA ViewKept == ASSUME ViewOK, UNCHANGED view PROVE ViewOK'
  BY DEF ViewOK
-----------------------------------------------------------------------------
(* The steps that handlers are made of *)

LEMMA GotoType ==
  ASSUME StacksOK, NEW s \in Shell, NEW label, Ready(s, label),
         Goto(s, label), Keep
  PROVE  StacksOK'
<1>1. /\ pc' \in [Shell -> PC]
      /\ UNCHANGED <<cur, snap, prior>>
  BY DEF StacksOK, Goto, Keep, Ready
<1>2. ASSUME NEW u \in Shell PROVE Ready(u, pc[u])'
  BY <1>1 DEF StacksOK, Goto, Ready, RoundLimitReached, NextRound
<1>3. QED
  BY <1>1, <1>2 DEF StacksOK

LEMMA ReturnType ==
  ASSUME StacksOK, NEW s \in Shell, Return(s)
  PROVE  StacksOK'
<1>1. /\ pc' \in [Shell -> PC]
      /\ cur' \in [Shell -> Message \cup {Absent}]
      /\ snap' \in [Shell -> Entry \cup {Absent}]
  BY DEF StacksOK, Goto, Return, PC, Idle
<1>2. prior' \in [Shell -> Prior]
  BY ConfigAssumption DEF StacksOK, Return, NoPrior, Prior, Rounds
<1>3. ASSUME NEW u \in Shell PROVE Ready(u, pc[u])'
  BY <1>1 DEF StacksOK, Return, Goto, Ready, RoundLimitReached, NextRound, Busy,
     AfterLookup, AfterDecision, Idle, PC
<1>4. QED
  BY <1>1, <1>2, <1>3 DEF StacksOK

LEMMA SendsType ==
  ASSUME ViewOK, NEW s \in Shell, NEW v \in View, Sends(s, v)
  PROVE  ViewOK'
  BY DEF ViewOK, Sends, Told

LEMMA FailedReady == ASSUME StacksOK, NEW s \in Shell, pc[s] \in Busy
                     PROVE  Ready(s, "failed")
  BY DEF StacksOK, Ready, Busy, AfterLookup, AfterDecision, PC

LEMMA SendThenType ==
  ASSUME StacksOK, ViewOK, NEW s \in Shell, NEW v \in View, NEW label,
         pc[s] \in Busy, Ready(s, label), SendThen(s, v, label)
  PROVE  StacksOK' /\ ViewOK'
<1>1. ViewOK'
  BY SendsType DEF SendThen
<1>2. StacksOK'
  <2>1. CASE connected[s]
    BY <2>1, GotoType DEF SendThen
  <2>2. CASE ~connected[s]
    BY <2>2, GotoType, FailedReady DEF SendThen
  <2>3. QED BY <2>1, <2>2
<1>3. QED BY <1>1, <1>2

LEMMA SendAndReturnType ==
  ASSUME StacksOK, ViewOK, NEW s \in Shell, NEW v \in View, pc[s] \in Busy,
         SendAndReturn(s, v)
  PROVE  StacksOK' /\ ViewOK'
<1>1. ViewOK'
  BY SendsType DEF SendAndReturn
<1>2. StacksOK'
  BY GotoType, FailedReady, ReturnType DEF SendAndReturn
<1>3. QED BY <1>1, <1>2

LEMMA AcknowledgedType ==
  ASSUME StacksOK, ViewOK, NEW s \in Shell, pc[s] \in Busy, Acknowledged(s)
  PROVE  StacksOK' /\ ViewOK'
<1>1. ViewOK'
  BY DEF Acknowledged, ViewOK
<1>2. StacksOK'
  BY GotoType, FailedReady, ReturnType DEF Acknowledged
<1>3. QED BY <1>1, <1>2

LEMMA InsertType ==
  ASSUME tasks \in [Task -> Entry \cup {Absent}], NEW t, NEW entry \in Entry,
         Insert(t, entry)
  PROVE  tasks' \in [Task -> Entry \cup {Absent}]
  BY DEF Insert

LEMMA RemoveType ==
  ASSUME tasks \in [Task -> Entry \cup {Absent}], NEW t, Remove(t)
  PROVE  tasks' \in [Task -> Entry \cup {Absent}]
  BY DEF Remove

LEMMA AmendType ==
  ASSUME tasks \in [Task -> Entry \cup {Absent}], NEW t \in Task, NEW entry,
         tasks[t] # Absent => entry \in Entry, Amend(t, entry)
  PROVE  tasks' \in [Task -> Entry \cup {Absent}]
  BY DEF Amend

LEMMA ClearTaskStateType ==
  ASSUME TablesOK, NEW s \in Shell, ClearTaskState(s)
  PROVE  TablesOK'
  BY RemoveType DEF TablesOK, ClearTaskState

LEMMA AwaitingType ==
  ASSUME NEW override \in BOOLEAN, NEW again \in BOOLEAN, NEW round \in Rounds
  PROVE  AwaitingEntry(override, again, round) \in Entry
  BY DEF AwaitingEntry, Entry
LEMMA ShellOverrideType == ASSUME NEW s PROVE ShellOverride(s) \in BOOLEAN
  BY DEF ShellOverride

LEMMA InsertAwaitingType ==
  ASSUME TablesOK, NEW t, NEW override \in BOOLEAN, NEW again \in BOOLEAN,
         NEW round \in Rounds, Insert(t, AwaitingEntry(override, again, round))
  PROVE  tasks' \in [Task -> Entry \cup {Absent}]
  BY AwaitingType, InsertType DEF TablesOK

LEMMA AskedAtStartType ==
  ASSUME TablesOK, NEW s \in Shell, NEW again \in BOOLEAN,
         AskedAtStart(s, again)
  PROVE  tasks' \in [Task -> Entry \cup {Absent}]
<1>1. 0 \in Rounds
  BY ConfigAssumption DEF Rounds
<1>2. QED
  BY <1>1, ShellOverrideType, InsertAwaitingType DEF AskedAtStart

LEMMA ReawaitType ==
  ASSUME TablesOK, NEW s \in Shell, NEW awaiting \in BOOLEAN,
         OnTask(s) \in Task, Reawait(s, awaiting)
  PROVE  tasks' \in [Task -> Entry \cup {Absent}]
  BY AmendType DEF TablesOK, Reawait, Entry

LEMMA OnTaskType ==
  ASSUME StacksOK, NEW s \in Shell, pc[s] \in Busy
  PROVE  cur[s] \in Message /\ OnTask(s) \in Task
  BY DEF StacksOK, Ready, OnTask, Message

LEMMA ReadyNext ==
  ASSUME StacksOK, NEW s \in Shell, pc[s] \in AfterDecision \cup {"start"},
         NEW label \in AfterDecision
  PROVE  Ready(s, label)
  BY DEF StacksOK, Ready, AfterDecision, AfterLookup, Busy, PC, Idle

LEMMA ReadyDecided ==
  ASSUME StacksOK, NEW s \in Shell, pc[s] = "decide", cur[s].kind # "ack",
         NEW label \in AfterDecision
  PROVE  Ready(s, label)
  BY DEF StacksOK, Ready, AfterDecision, AfterLookup, Busy, PC, Idle
-----------------------------------------------------------------------------
(* One lemma per group of actions, one step per action: the tables, then the *)
(* handler's stack and the client's view; the rest is left alone.            *)

LEMMA StartingType ==
  ASSUME TypeInv, NEW s \in Shell, Starting(s)
  PROVE  TypeInv'
<1> USE DEF TypeInv
<1>1. CASE StartAnswered(s)
  <2>1. TablesOK'
    BY <1>1, TablesKept DEF StartAnswered
  <2>2. StacksOK' /\ ViewOK'
    BY <1>1, SendAndReturnType
    DEF StartAnswered, At, Busy, PC, Idle, View, Proposed
  <2>3. QED
    BY <1>1, <2>1, <2>2, InboxKept, HistoryKept, SweepKept
    DEF StartAnswered
<1>2. CASE StartAmbiguous(s)
  <2>1. TablesOK'
    BY <1>2, AskedAtStartType DEF StartAmbiguous, TablesOK
  <2>2. StacksOK' /\ ViewOK'
    BY <1>2, SendAndReturnType
    DEF StartAmbiguous, At, Busy, PC, Idle, View, Proposed, AskedAtStart
  <2>3. QED
    BY <1>2, <2>1, <2>2, InboxKept, HistoryKept, SweepKept
    DEF StartAmbiguous
<1>3. CASE StartOrchestration(s)
  <2>1. TablesOK'
    BY <1>3, TablesKept DEF StartOrchestration
  <2>2. StacksOK' /\ ViewOK'
    BY <1>3, ReadyNext, GotoType, ViewKept
    DEF StartOrchestration, At, AfterDecision, AfterLookup
  <2>3. QED
    BY <1>3, <2>1, <2>2, InboxKept, HistoryKept, SweepKept
    DEF StartOrchestration
<1>4. QED BY <1>1, <1>2, <1>3 DEF Starting

LEMMA LookingUpType ==
  ASSUME TypeInv, NEW s \in Shell, LookingUp(s)
  PROVE  TypeInv'
<1> USE DEF TypeInv
<1>1. CASE AnswerTimedOut(s)
  <2>1. TablesOK'
    BY <1>1 DEF AnswerTimedOut, TablesOK
  <2>2. StacksOK' /\ ViewOK'
    <3>1. CASE OnTask(s) \in timedOut
      BY <1>1, <3>1, SendAndReturnType
      DEF AnswerTimedOut, At, Busy, PC, Idle, View
    <3>2. CASE OnTask(s) \notin timedOut
      <4>1. Ready(s, "lookup")
        BY <1>1
        DEF AnswerTimedOut, At, StacksOK, Ready, Busy, PC, Idle, AfterLookup,
            AfterDecision
      <4>2. QED BY <1>1, <3>2, <4>1, GotoType, ViewKept DEF AnswerTimedOut
    <3>3. QED BY <3>1, <3>2
  <2>3. QED
    BY <1>1, <2>1, <2>2, InboxKept, HistoryKept, SweepKept
    DEF AnswerTimedOut
<1>2. CASE LookupUnknown(s)
  <2>1. TablesOK'
    BY <1>2, TablesKept DEF LookupUnknown
  <2>2. StacksOK' /\ ViewOK'
    BY <1>2, SendAndReturnType
    DEF LookupUnknown, At, Busy, PC, Idle, View, Proposed
  <2>3. QED
    BY <1>2, <2>1, <2>2, InboxKept, HistoryKept, SweepKept
    DEF LookupUnknown
<1>3. CASE LookupStale(s)
  <2>1. TablesOK'
    BY <1>3, ClearTaskStateType, RemoveType DEF LookupStale, TablesOK
  <2>2. StacksOK' /\ ViewOK'
    BY <1>3, SendAndReturnType
    DEF LookupStale, At, Busy, PC, Idle, View, Proposed
  <2>3. QED
    BY <1>3, <2>1, <2>2, InboxKept, HistoryKept, SweepKept
    DEF LookupStale
<1>4. CASE LookupFound(s)
  <2>1. TablesOK'
    BY <1>4, RemoveType DEF LookupFound, TablesOK
  <2>2. StacksOK' /\ ViewOK'
    <3>1. tasks[OnTask(s)] \in Entry /\ OnTask(s) \in Task /\ cur[s] \in Message
      BY <1>4, OnTaskType DEF LookupFound, TablesOK, At, Busy, PC, Idle
    <3>2. /\ pc' = [pc EXCEPT ![s] = "decide"]
          /\ snap' = [snap EXCEPT ![s] = tasks[OnTask(s)]]
          /\ UNCHANGED <<cur, prior, view>>
      BY <1>4 DEF LookupFound, Goto
    <3>3. ASSUME NEW u \in Shell PROVE Ready(u, pc[u])'
      BY <3>1, <3>2
      DEF StacksOK, Ready, AfterLookup, AfterDecision, Busy, PC, Idle,
          RoundLimitReached, NextRound
    <3>4. QED BY <3>1, <3>2, <3>3, ViewKept DEF StacksOK, PC
  <2>3. HistoryOK'
    BY <1>4, OnTaskType DEF LookupFound, HistoryOK, Decides, At, Busy, PC, Idle
  <2>4. QED BY <1>4, <2>1, <2>2, <2>3, InboxKept, SweepKept DEF LookupFound
<1>5. QED BY <1>1, <1>2, <1>3, <1>4 DEF LookingUp

LEMMA DecidingType ==
  ASSUME TypeInv, NEW s \in Shell, Deciding(s)
  PROVE  TypeInv'
<1> USE DEF TypeInv
<1>1. CASE Approve(s)
  <2>1. TablesOK'
    <3>1. OnTask(s) \in Task
      BY <1>1, OnTaskType DEF Approve, Decides, At, Busy, PC, Idle
    <3>2. QED BY <1>1, <3>1, AmendType DEF Approve, Decides, TablesOK, Entry
  <2>2. StacksOK' /\ ViewOK'
    BY <1>1, AcknowledgedType DEF Approve, At, Busy, PC, Idle, Decides
  <2>3. QED BY <1>1, <2>1, <2>2, InboxKept, HistoryKept, SweepKept DEF Approve
<1>2. CASE ApproveAll(s)
  <2>1. TablesOK'
    <3>1. OnTask(s) \in Task
      BY <1>2, OnTaskType DEF ApproveAll, Decides, At, Busy, PC, Idle
    <3>2. tasks' \in [Task -> Entry \cup {Absent}]
      BY <1>2, <3>1, AmendType DEF ApproveAll, TablesOK, Entry
    <3>3. shellOverrides' \in SUBSET Shell
      BY <1>2, <3>1, ConfigAssumption DEF ApproveAll, TablesOK
    <3>4. QED BY <1>2, <3>2, <3>3 DEF ApproveAll, TablesOK
  <2>2. StacksOK' /\ ViewOK'
    BY <1>2, AcknowledgedType DEF ApproveAll, At, Busy, PC, Idle, Decides
  <2>3. HistoryOK'
    BY <1>2, OnTaskType DEF ApproveAll, HistoryOK, Decides, At, Busy, PC, Idle
  <2>4. QED BY <1>2, <2>1, <2>2, <2>3, InboxKept, SweepKept DEF ApproveAll
<1>3. CASE EditRefused(s)
  <2>1. TablesOK'
    BY <1>3, ClearTaskStateType DEF EditRefused, TablesOK, daemonVars
  <2>2. StacksOK' /\ ViewOK'
    BY <1>3, SendAndReturnType
    DEF EditRefused, At, Busy, PC, Idle, View, Proposed, Decides
  <2>3. QED
    BY <1>3, <2>1, <2>2, InboxKept, HistoryKept, SweepKept
    DEF EditRefused
<1>4. CASE EditAccepted(s)
  <2>1. TablesOK'
    <3>1. OnTask(s) \in Task
      BY <1>4, OnTaskType DEF EditAccepted, Decides, At, Busy, PC, Idle
    <3>2. QED
      BY <1>4, <3>1, AmendType
      DEF EditAccepted, Decides, TablesOK, Entry
  <2>2. StacksOK' /\ ViewOK'
    BY <1>4, AcknowledgedType DEF EditAccepted, At, Busy, PC, Idle, Decides
  <2>3. QED
    BY <1>4, <2>1, <2>2, InboxKept, HistoryKept, SweepKept
    DEF EditAccepted
<1>5. CASE Reject(s)
  <2>1. TablesOK'
    BY <1>5, ClearTaskStateType DEF Reject, TablesOK, daemonVars
  <2>2. StacksOK' /\ ViewOK'
    BY <1>5, SendAndReturnType
    DEF Reject, At, Busy, PC, Idle, View, Proposed, Decides
  <2>3. QED BY <1>5, <2>1, <2>2, InboxKept, HistoryKept, SweepKept DEF Reject
<1>6. CASE RejectWithReason(s)
  <2>1. TablesOK'
    BY <1>6, OnTaskType
    DEF RejectWithReason, Decides, TablesOK, At, Busy, PC, Idle
  <2>2. StacksOK' /\ ViewOK'
    BY <1>6, ReadyDecided, GotoType, ViewKept
    DEF RejectWithReason, At, AfterDecision, AfterLookup, Decides
  <2>3. QED
    BY <1>6, <2>1, <2>2, InboxKept, HistoryKept, SweepKept
    DEF RejectWithReason
<1>7. CASE Abort(s)
  <2>1. TablesOK'
    BY <1>7, ClearTaskStateType DEF Abort, TablesOK, daemonVars
  <2>2. StacksOK' /\ ViewOK'
    BY <1>7, SendAndReturnType
    DEF Abort, At, Busy, PC, Idle, View, Proposed, Decides
  <2>3. QED BY <1>7, <2>1, <2>2, InboxKept, HistoryKept, SweepKept DEF Abort
<1>8. CASE NotAwaiting(s)
  <2>1. TablesOK'
    BY <1>8, TablesKept DEF NotAwaiting
  <2>2. StacksOK' /\ ViewOK'
    BY <1>8, SendAndReturnType
    DEF NotAwaiting, At, Busy, PC, Idle, View, Proposed, Decides
  <2>3. QED
    BY <1>8, <2>1, <2>2, InboxKept, HistoryKept, SweepKept
    DEF NotAwaiting
<1>9. CASE ClarificationAmbiguous(s)
  <2>1. TablesOK'
    <3>1. OnTask(s) \in Task
      BY <1>9, OnTaskType
      DEF ClarificationAmbiguous, Decides, At, Busy, PC, Idle
    <3>2. QED BY <1>9, <3>1, ReawaitType DEF ClarificationAmbiguous, TablesOK
  <2>2. StacksOK' /\ ViewOK'
    BY <1>9, SendAndReturnType
    DEF ClarificationAmbiguous, At, Busy, PC, Idle, View, Proposed, Decides
  <2>3. QED
    BY <1>9, <2>1, <2>2, InboxKept, HistoryKept, SweepKept
    DEF ClarificationAmbiguous
<1>10. CASE Clarified(s)
  <2>1. TablesOK'
    BY <1>10, TablesKept DEF Clarified
  <2>2. StacksOK' /\ ViewOK'
    BY <1>10, ReadyDecided, GotoType, ViewKept
    DEF Clarified, At, AfterDecision, AfterLookup, Decides
  <2>3. QED
    BY <1>10, <2>1, <2>2, InboxKept, HistoryKept, SweepKept
    DEF Clarified
<1>11. CASE AckLast(s)
  <2>1. TablesOK'
    BY <1>11 DEF AckLast, TablesOK
  <2>2. StacksOK' /\ ViewOK'
    BY <1>11, SendAndReturnType
    DEF AckLast, At, Busy, PC, Idle, View, Proposed, Decides
  <2>3. QED BY <1>11, <2>1, <2>2, InboxKept, HistoryKept, SweepKept DEF AckLast
<1>12. CASE AckContinue(s)
  <2>1. TablesOK'
    BY <1>12, OnTaskType DEF AckContinue, Decides, TablesOK, At, Busy, PC, Idle
  <2>2. StacksOK' /\ ViewOK'
    <3>1. Ready(s, "orchestrate")
      BY <1>12
      DEF AckContinue, Decides, At, StacksOK, Ready, Busy, PC, Idle,
          AfterLookup, AfterDecision
    <3>2. QED BY <1>12, <3>1, GotoType, ViewKept DEF AckContinue
  <2>3. QED
    BY <1>12, <2>1, <2>2, InboxKept, HistoryKept, SweepKept
    DEF AckContinue
<1>13. QED
  BY <1>1, <1>2, <1>3, <1>4, <1>5, <1>6, <1>7, <1>8, <1>9, <1>10, <1>11, <1>12
  DEF Deciding

LEMMA OrchestrationType ==
  ASSUME TypeInv, NEW s \in Shell, Orchestration(s)
  PROVE  TypeInv'
<1> USE DEF TypeInv
<1>1. CASE DirectAnswer(s)
  <2>1. TablesOK'
    BY <1>1, TablesKept DEF DirectAnswer
  <2>2. StacksOK' /\ ViewOK'
    BY <1>1, ReadyNext, SendThenType
    DEF DirectAnswer, At, Busy, PC, Idle, View, Proposed, AfterDecision,
        AfterLookup
  <2>3. QED
    BY <1>1, <2>1, <2>2, InboxKept, HistoryKept, SweepKept
    DEF DirectAnswer
<1>2. CASE NoTools(s)
  <2>1. TablesOK'
    BY <1>2, TablesKept DEF NoTools
  <2>2. StacksOK' /\ ViewOK'
    BY <1>2, ReadyNext, GotoType, ViewKept
    DEF NoTools, At, AfterDecision, AfterLookup
  <2>3. QED BY <1>2, <2>1, <2>2, InboxKept, HistoryKept, SweepKept DEF NoTools
<1>3. CASE ExposeTools(s)
  <2>1. TablesOK'
    BY <1>3, TablesKept DEF ExposeTools
  <2>2. StacksOK' /\ ViewOK'
    BY <1>3, ReadyNext, GotoType, ViewKept
    DEF ExposeTools, At, AfterDecision, AfterLookup
  <2>3. QED
    BY <1>3, <2>1, <2>2, InboxKept, HistoryKept, SweepKept
    DEF ExposeTools
<1>4. CASE SeedConversation(s)
  <2>1. TablesOK'
    BY <1>4, OnTaskType
    DEF SeedConversation, Orchestrating, TablesOK, At, Busy, PC, Idle
  <2>2. StacksOK' /\ ViewOK'
    BY <1>4, ReadyNext, GotoType, ViewKept
    DEF SeedConversation, At, AfterDecision, AfterLookup
  <2>3. QED
    BY <1>4, <2>1, <2>2, InboxKept, HistoryKept, SweepKept
    DEF SeedConversation
<1>5. CASE Complete(s)
  <2>1. TablesOK'
    BY <1>5 DEF Complete, TablesOK
  <2>2. StacksOK' /\ ViewOK'
    BY <1>5, ReadyNext, SendThenType
    DEF Complete, At, Busy, PC, Idle, View, Proposed, AfterDecision,
        AfterLookup, Orchestrating
  <2>3. QED BY <1>5, <2>1, <2>2, InboxKept, HistoryKept, SweepKept DEF Complete
<1>6. CASE Clarify(s)
  <2>1. TablesOK'
    BY <1>6, ShellOverrideType, InsertAwaitingType DEF Clarify, TablesOK
  <2>2. StacksOK' /\ ViewOK'
    BY <1>6, ReadyNext, SendThenType
    DEF Clarify, At, Busy, PC, Idle, View, Proposed, AfterDecision,
        AfterLookup, Orchestrating
  <2>3. QED BY <1>6, <2>1, <2>2, InboxKept, HistoryKept, SweepKept DEF Clarify
<1>7. CASE GiveUp(s)
  <2>1. TablesOK'
    BY <1>7 DEF GiveUp, TablesOK
  <2>2. StacksOK' /\ ViewOK'
    BY <1>7, ReadyNext, GotoType, ViewKept
    DEF GiveUp, At, AfterDecision, AfterLookup
  <2>3. QED BY <1>7, <2>1, <2>2, InboxKept, HistoryKept, SweepKept DEF GiveUp
<1>8. QED BY <1>1, <1>2, <1>3, <1>4, <1>5, <1>6, <1>7 DEF Orchestration

LEMMA PlanningType ==
  ASSUME TypeInv, NEW s \in Shell, Planning(s)
  PROVE  TypeInv'
<1> USE DEF TypeInv
<1>1. CASE Propose(s)
  <2>1. TablesOK'
    BY <1>1, TablesKept DEF Propose
  <2>2. StacksOK' /\ ViewOK'
    <3>1. OnTask(s) \in Task
      BY <1>1, OnTaskType DEF Propose, Orchestrating, Busy, PC, Idle
    <3>2. prior' \in [Shell -> Prior]
      BY <1>1, <3>1, ShellOverrideType, ConfigAssumption
      DEF Propose, StacksOK, TablesOK, Prior, Entry, Rounds
    <3>3. /\ pc' = [pc EXCEPT ![s] = "surface"]
          /\ UNCHANGED <<cur, snap, view>>
      BY <1>1 DEF Propose, Goto
    <3>4. Ready(s, "surface")
      BY <1>1, ReadyNext DEF Propose, Orchestrating, AfterDecision, AfterLookup
    <3>5. ASSUME NEW u \in Shell PROVE Ready(u, pc[u])'
      BY <3>3, <3>4 DEF StacksOK, Ready, RoundLimitReached, NextRound
    <3>6. QED BY <3>2, <3>3, <3>5, ViewKept DEF StacksOK, PC
  <2>3. QED BY <1>1, <2>1, <2>2, InboxKept, HistoryKept, SweepKept DEF Propose
<1>2. CASE FallbackFailed(s)
  <2>1. TablesOK'
    BY <1>2 DEF FallbackFailed, TablesOK
  <2>2. StacksOK' /\ ViewOK'
    <3>1. ASSUME NEW u \in Shell PROVE Ready(u, pc[u])'
      BY <1>2
      DEF FallbackFailed, handlerVars, StacksOK, Ready, RoundLimitReached,
          NextRound
    <3>2. QED BY <1>2, <3>1, ViewKept DEF FallbackFailed, handlerVars, StacksOK
  <2>3. QED
    BY <1>2, <2>1, <2>2, InboxKept, HistoryKept, SweepKept
    DEF FallbackFailed
<1>3. CASE FloorRefused(s)
  <2>1. TablesOK'
    <3>1. OnTask(s) \in Task
      BY <1>3, OnTaskType DEF FloorRefused, At, Busy, PC, Idle
    <3>2. prior[s] \in Prior
      BY DEF StacksOK
    <3>3. CASE AllowClarifications
      BY <1>3, <3>1, <3>2, <3>3, InsertAwaitingType
      DEF FloorRefused, TablesOK, Prior
    <3>4. CASE ~AllowClarifications
      BY <1>3, <3>4, ClearTaskStateType DEF FloorRefused
    <3>5. QED BY <3>3, <3>4
  <2>2. StacksOK' /\ ViewOK'
    BY <1>3, ReadyNext, SendThenType
    DEF FloorRefused, At, Busy, PC, Idle, View, Proposed, AfterDecision,
        AfterLookup
  <2>3. QED
    BY <1>3, <2>1, <2>2, InboxKept, HistoryKept, SweepKept
    DEF FloorRefused
<1>4. CASE Unvalidated(s)
  <2>1. TablesOK'
    <3>1. OnTask(s) \in Task /\ prior[s] \in Prior
      BY <1>4, OnTaskType DEF Unvalidated, At, Busy, PC, Idle, StacksOK
    <3>2. QED BY <1>4, <3>1, InsertAwaitingType DEF Unvalidated, TablesOK, Prior
  <2>2. StacksOK' /\ ViewOK'
    BY <1>4, ReadyNext, SendThenType
    DEF Unvalidated, At, Busy, PC, Idle, View, Proposed, AfterDecision,
        AfterLookup
  <2>3. QED
    BY <1>4, <2>1, <2>2, InboxKept, HistoryKept, SweepKept
    DEF Unvalidated
<1>5. CASE Surface(s)
  <2>1. TablesOK'
    <3>1. prior[s] \in Prior
      BY DEF StacksOK
    <3>2. QED BY <1>5, <3>1, InsertType DEF Surface, TablesOK, Prior, Entry
  <2>2. StacksOK' /\ ViewOK'
    <3>1. ASSUME NEW requires, NEW critical
          PROVE  ProposalView(requires, critical) \in View
      BY DEF ProposalView, View, Proposed
    <3>2. Ready(s, "handled") /\ pc[s] \in Busy
      BY <1>5, ReadyNext
      DEF Surface, At, AfterDecision, AfterLookup, Busy, PC, Idle
    <3>3. QED BY <1>5, <3>1, <3>2, SendThenType DEF Surface
  <2>3. QED BY <1>5, <2>1, <2>2, InboxKept, HistoryKept, SweepKept DEF Surface
<1>6. QED BY <1>1, <1>2, <1>3, <1>4, <1>5 DEF Planning

LEMMA ConcludingType ==
  ASSUME TypeInv, NEW s \in Shell, Concluding(s)
  PROVE  TypeInv'
<1> USE DEF TypeInv
<1>1. CASE StartHandled(s)
  <2>1. TablesOK'
    BY <1>1, TablesKept DEF StartHandled
  <2>2. StacksOK' /\ ViewOK'
    BY <1>1, ReturnType, ViewKept DEF StartHandled
  <2>3. QED
    BY <1>1, <2>1, <2>2, InboxKept, HistoryKept, SweepKept
    DEF StartHandled
<1>2. CASE StartUnhandled(s)
  <2>1. TablesOK'
    BY <1>2, AskedAtStartType DEF StartUnhandled, TablesOK
  <2>2. StacksOK' /\ ViewOK'
    BY <1>2, SendAndReturnType
    DEF StartUnhandled, At, Busy, PC, Idle, View, Proposed, After, AskedAtStart
  <2>3. QED
    BY <1>2, <2>1, <2>2, InboxKept, HistoryKept, SweepKept
    DEF StartUnhandled
<1>3. CASE ClarificationHandled(s)
  <2>1. TablesOK'
    <3>1. OnTask(s) \in Task
      BY <1>3, OnTaskType DEF ClarificationHandled, After, At, Busy, PC, Idle
    <3>2. QED
      BY <1>3, <3>1, ReawaitType
      DEF ClarificationHandled, After, TablesOK, Entry
  <2>2. StacksOK' /\ ViewOK'
    BY <1>3, ReturnType, ViewKept DEF ClarificationHandled
  <2>3. QED
    BY <1>3, <2>1, <2>2, InboxKept, HistoryKept, SweepKept
    DEF ClarificationHandled
<1>4. CASE ClarificationUnhandled(s)
  <2>1. TablesOK'
    <3>1. OnTask(s) \in Task
      BY <1>4, OnTaskType DEF ClarificationUnhandled, After, At, Busy, PC, Idle
    <3>2. QED
      BY <1>4, <3>1, ReawaitType
      DEF ClarificationUnhandled, After, TablesOK, Entry
  <2>2. StacksOK' /\ ViewOK'
    BY <1>4, SendAndReturnType
    DEF ClarificationUnhandled, At, Busy, PC, Idle, View, Proposed, After
  <2>3. QED
    BY <1>4, <2>1, <2>2, InboxKept, HistoryKept, SweepKept
    DEF ClarificationUnhandled
<1>5. CASE RejectionHandled(s)
  <2>1. TablesOK'
    <3>1. OnTask(s) \in Task
      BY <1>5, OnTaskType DEF RejectionHandled, After, At, Busy, PC, Idle
    <3>2. QED
      BY <1>5, <3>1, AmendType
      DEF RejectionHandled, After, TablesOK, Entry
  <2>2. StacksOK' /\ ViewOK'
    BY <1>5, ReturnType, ViewKept DEF RejectionHandled
  <2>3. QED
    BY <1>5, <2>1, <2>2, InboxKept, HistoryKept, SweepKept
    DEF RejectionHandled
<1>6. CASE RejectionUnhandled(s)
  <2>1. TablesOK'
    BY <1>6 DEF RejectionUnhandled, TablesOK
  <2>2. StacksOK' /\ ViewOK'
    <3>1. cur[s] \in Message /\ snap[s] \in Entry
      BY <1>6
      DEF RejectionUnhandled, After, At, StacksOK, Ready, Busy, PC, Idle,
          AfterLookup
    <3>2. /\ pc' = [pc EXCEPT ![s] = "decide"]
          /\ cur' = [cur EXCEPT ![s].kind = "rejected"]
          /\ UNCHANGED <<snap, prior, view>>
      BY <1>6 DEF RejectionUnhandled, Goto
    <3>3. [cur[s] EXCEPT !.kind = "rejected"] \in Message
      BY <3>1 DEF Message, Decisions
    <3>4. ASSUME NEW u \in Shell PROVE Ready(u, pc[u])'
      BY <3>1, <3>2, <3>3
      DEF StacksOK, Ready, AfterLookup, AfterDecision, Busy, PC, Idle,
          RoundLimitReached, NextRound
    <3>5. QED BY <3>2, <3>3, <3>4, ViewKept DEF StacksOK, PC
  <2>3. QED
    BY <1>6, <2>1, <2>2, InboxKept, HistoryKept, SweepKept
    DEF RejectionUnhandled
<1>7. CASE AckHandled(s)
  <2>1. TablesOK'
    <3>1. OnTask(s) \in Task
      BY <1>7, OnTaskType DEF AckHandled, After, At, Busy, PC, Idle
    <3>2. snap[s] \in Entry /\ ~RoundLimitReached(s)
      BY <1>7
      DEF AckHandled, After, At, StacksOK, Ready, AfterLookup, AfterDecision
    <3>3. NextRound(s) \in Rounds
      BY <3>2, ConfigAssumption DEF RoundLimitReached, NextRound, Rounds, Entry
    <3>4. QED BY <1>7, <3>1, <3>3, AmendType DEF AckHandled, TablesOK, Entry
  <2>2. StacksOK' /\ ViewOK'
    BY <1>7, ReturnType, ViewKept DEF AckHandled
  <2>3. QED
    BY <1>7, <2>1, <2>2, InboxKept, HistoryKept, SweepKept
    DEF AckHandled
<1>8. CASE AckUnhandled(s)
  <2>1. TablesOK'
    BY <1>8 DEF AckUnhandled, TablesOK
  <2>2. StacksOK' /\ ViewOK'
    BY <1>8, SendAndReturnType
    DEF AckUnhandled, At, Busy, PC, Idle, View, Proposed, After
  <2>3. QED
    BY <1>8, <2>1, <2>2, InboxKept, HistoryKept, SweepKept
    DEF AckUnhandled
<1>9. QED BY <1>1, <1>2, <1>3, <1>4, <1>5, <1>6, <1>7, <1>8 DEF Concluding

LEMMA ClosingType ==
  ASSUME TypeInv, NEW s \in Shell, Closing(s)
  PROVE  TypeInv'
<1> USE DEF TypeInv
<1>1. CASE Fail(s)
  <2>1. TablesOK'
    BY <1>1, ClearTaskStateType DEF Fail, TablesOK, daemonVars
  <2>2. StacksOK' /\ ViewOK'
    <3>1. Ready(s, "closing")
      BY <1>1
      DEF Fail, At, StacksOK, Ready, Busy, PC, Idle, AfterLookup, AfterDecision
    <3>2. QED BY <1>1, <3>1, GotoType, ViewKept DEF Fail
  <2>3. QED BY <1>1, <2>1, <2>2, InboxKept, HistoryKept, SweepKept DEF Fail
<1>2. CASE EndOfStream(s)
  <2>1. TablesOK'
    BY <1>2, TablesKept DEF EndOfStream
  <2>2. StacksOK' /\ ViewOK'
    <3>1. Ready(s, "closing")
      BY <1>2
      DEF EndOfStream, At, StacksOK, Ready, Busy, PC, Idle, AfterLookup,
          AfterDecision
    <3>2. QED BY <1>2, <3>1, GotoType, ViewKept DEF EndOfStream
  <2>3. QED
    BY <1>2, <2>1, <2>2, InboxKept, HistoryKept, SweepKept
    DEF EndOfStream
<1>3. CASE DropConnection(s)
  <2>1. TablesOK'
    BY <1>3, TablesKept DEF DropConnection
  <2>2. StacksOK' /\ ViewOK'
    <3>1. Ready(s, "dropped")
      BY <1>3
      DEF DropConnection, At, StacksOK, Ready, Busy, PC, Idle, AfterLookup,
          AfterDecision
    <3>2. QED BY <1>3, <3>1, GotoType, ViewKept DEF DropConnection
  <2>3. QED
    BY <1>3, <2>1, <2>2, InboxKept, HistoryKept, SweepKept
    DEF DropConnection
<1>4. CASE CloseShell(s)
  <2>1. TablesOK'
    <3>1. CASE OpenTasks(s) = {}
      BY <1>4, <3>1 DEF CloseShell, TablesOK
    <3>2. CASE OpenTasks(s) # {}
      BY <1>4, <3>2 DEF CloseShell, TablesOK
    <3>3. QED BY <3>1, <3>2
  <2>2. StacksOK' /\ ViewOK'
    <3>1. /\ pc' \in [Shell -> PC]
          /\ cur' \in [Shell -> Message \cup {Absent}]
          /\ snap' \in [Shell -> Entry \cup {Absent}]
      BY <1>4 DEF CloseShell, StacksOK, Goto, PC
    <3>2. prior' \in [Shell -> Prior]
      BY <1>4, ConfigAssumption DEF CloseShell, StacksOK, NoPrior, Prior, Rounds
    <3>3. ASSUME NEW u \in Shell PROVE Ready(u, pc[u])'
      BY <1>4, <3>1
      DEF CloseShell, StacksOK, Goto, Ready, RoundLimitReached, NextRound,
          Busy, AfterLookup, AfterDecision, Idle, PC
    <3>4. QED BY <1>4, <3>1, <3>2, <3>3, ViewKept DEF CloseShell, StacksOK
  <2>3. QED
    BY <1>4, <2>1, <2>2, InboxKept, HistoryKept, SweepKept
    DEF CloseShell
<1>5. QED BY <1>1, <1>2, <1>3, <1>4 DEF Closing

-----------------------------------------------------------------------------
(* The connection, the sweeper and time *)

LEMMA ReceiveType ==
  ASSUME TypeInv, NEW s \in Shell, Receive(s)
  PROVE  TypeInv'
<1> USE DEF TypeInv
<1>1. Head(inbox[s]) \in Message /\ Tail(inbox[s]) \in Seq(Message)
  BY DEF Receive, InboxOK
<1>2. InboxOK'
  BY <1>1 DEF Receive, InboxOK
<1>3. StacksOK'
  <2>1. /\ pc' \in [Shell -> PC]
        /\ cur' \in [Shell -> Message \cup {Absent}]
    BY <1>1 DEF Receive, StacksOK, Goto, PC
  <2>2. ASSUME NEW u \in Shell PROVE Ready(u, pc[u])'
    BY <1>1, <2>1 DEF Receive, StacksOK, Goto, Ready, RoundLimitReached,
       NextRound, Busy, AfterLookup, AfterDecision, PC, Idle
  <2>3. QED BY <2>1, <2>2 DEF Receive, StacksOK
<1>4. QED
  BY <1>2, <1>3, TablesKept, HistoryKept, SweepKept, ViewKept DEF Receive

LEMMA StacksKept == ASSUME StacksOK, UNCHANGED handlerVars PROVE StacksOK'
<1>1. ASSUME NEW u \in Shell PROVE Ready(u, pc[u])'
  BY DEF handlerVars, StacksOK, Ready, RoundLimitReached, NextRound
<1>2. QED
  BY <1>1 DEF handlerVars, StacksOK

LEMMA ClientSendsType ==
  ASSUME TypeInv, NEW t \in Task, NEW kind \in Decisions \cup {"start", "ack"},
         NEW from, NEW to \in View, ClientSends(t, kind, from, to)
  PROVE  TypeInv'
<1> USE DEF TypeInv
<1>1. ShellOf[t] \in Shell /\ [kind |-> kind, task |-> t] \in Message
  BY ConfigAssumption DEF Message
<1>2. InboxOK'
  BY <1>1 DEF ClientSends, InboxOK
<1>3. ViewOK'
  BY DEF ClientSends, ViewOK
<1>4. QED
  BY <1>2, <1>3, TablesKept, HistoryKept, SweepKept, StacksKept DEF ClientSends

LEMMA ClientType == ASSUME TypeInv, Client PROVE TypeInv'
<1> USE DEF Decisions, View, Proposed
<1>1. ASSUME NEW t \in Task, SendStart(t) PROVE TypeInv'
  BY <1>1, ClientSendsType DEF SendStart
<1>2. ASSUME NEW t \in Task, SendApproval(t) PROVE TypeInv'
  BY <1>2, ClientSendsType DEF SendApproval
<1>3. ASSUME NEW t \in Task, SendRejection(t) PROVE TypeInv'
  BY <1>3, ClientSendsType DEF SendRejection
<1>4. ASSUME NEW t \in Task, SendClarification(t) PROVE TypeInv'
  BY <1>4, ClientSendsType DEF SendClarification
<1>5. ASSUME NEW t \in Task, SendAbort(t) PROVE TypeInv'
  BY <1>5, ClientSendsType DEF SendAbort
<1>6. ASSUME NEW t \in Task, SendAck(t) PROVE TypeInv'
  BY <1>6, ClientSendsType DEF SendAck
<1>7. ASSUME NEW s \in Shell, Disconnect(s) PROVE TypeInv'
  <2>1. InboxOK' /\ ViewOK'
    BY <1>7 DEF Disconnect, TypeInv, InboxOK, ViewOK
  <2>2. QED
    BY <1>7, <2>1, TablesKept, HistoryKept, SweepKept, StacksKept
    DEF Disconnect, TypeInv
<1>8. QED
  BY <1>1, <1>2, <1>3, <1>4, <1>5, <1>6, <1>7 DEF Client

LEMMA ClientKept == ASSUME InboxOK, ViewOK, UNCHANGED clientVars
                    PROVE  InboxOK' /\ ViewOK'
  BY DEF InboxOK, ViewOK, clientVars

LEMMA SweepType == ASSUME TypeInv, Sweep PROVE TypeInv'
<1> USE DEF TypeInv
<1>1. CASE SweepTasks
  <2>1. TablesOK' /\ SweepOK' /\ HistoryOK'
    BY <1>1 DEF SweepTasks, Stale, TablesOK, SweepOK, HistoryOK
  <2>2. QED
    BY <1>1, <2>1, StacksKept, ClientKept DEF SweepTasks
<1>2. CASE SweepConversations
  <2>1. TablesOK' /\ SweepOK'
    BY <1>2 DEF SweepConversations, TablesOK, SweepOK
  <2>2. QED
    BY <1>2, <2>1, StacksKept, ClientKept, HistoryKept DEF SweepConversations
<1>3. CASE SweepTimedOut
  <2>1. TablesOK' /\ SweepOK'
    BY <1>3 DEF SweepTimedOut, TablesOK, SweepOK
  <2>2. QED
    BY <1>3, <2>1, StacksKept, ClientKept, HistoryKept DEF SweepTimedOut
<1>4. QED BY <1>1, <1>2, <1>3 DEF Sweep

LEMMA TimeType == ASSUME TypeInv, Time PROVE TypeInv'
<1> USE DEF TypeInv
<1>1. ASSUME NEW t \in Task, GoStale(t) PROVE TypeInv'
  <2>1. [tasks[t] EXCEPT !.stale = TRUE] \in Entry
    BY <1>1 DEF GoStale, TablesOK, Entry
  <2>2. TablesOK'
    BY <1>1, <2>1 DEF GoStale, TablesOK
  <2>3. QED
    BY <1>1, <2>2, StacksKept, ClientKept, HistoryKept, SweepKept DEF GoStale
<1>2. ASSUME NEW t \in Task, Forget(t) PROVE TypeInv'
  <2>1. TablesOK'
    BY <1>2 DEF Forget, TablesOK
  <2>2. QED
    BY <1>2, <2>1, StacksKept, ClientKept, HistoryKept, SweepKept DEF Forget
<1>3. QED BY <1>1, <1>2 DEF Time
-----------------------------------------------------------------------------
LEMMA TypeInvStep == ASSUME TypeInv, [Next]_vars PROVE TypeInv'
<1>1. ASSUME NEW s \in Shell, Handler(s) PROVE TypeInv'
  BY <1>1, ReceiveType, StartingType, LookingUpType, DecidingType,
     OrchestrationType, PlanningType, ConcludingType, ClosingType DEF Handler
<1>2. CASE UNCHANGED vars
  BY <1>2, TablesKept, StacksKept, ClientKept, HistoryKept, SweepKept
  DEF TypeInv, vars
<1>3. QED
  BY <1>1, <1>2, ClientType, SweepType, TimeType DEF Next

\* The handlers' stacks and the tables keep to what TypeInv says of them, along
\* every interleaving of handlers, clients, sweeper and time.
THEOREM TypeInvInvariant == Spec => []TypeInv
  BY TypeInvInit, TypeInvStep, PTL DEF Spec

\* Every variable keeps to its type; in particular the round that process_ack
\* stores never exceeds max_tool_rounds.
THEOREM TypeCorrect == Spec => []TypeOK
  BY TypeInvInvariant, TypeInvImpliesTypeOK, PTL
-----------------------------------------------------------------------------
(***************************************************************************)
(* Approval is earned: no command of a task reaches its shell without an   *)
(* approval gate unless the user approved all of it, whatever the sets of  *)
(* tasks and shells, the approval mode and the bounds.                     *)
(*                                                                         *)
(* ApprovalIsEarned speaks of what the client was told; the reason it      *)
(* holds is spread over the table (the entry's flag), the stack of the     *)
(* handler that plans a command (the flag it read before planning), the    *)
(* shell-wide flags and the fact that a connection only ever carries its   *)
(* own shell's tasks.  ApprovalInv puts these together.                    *)
(***************************************************************************)

Gate == {"auto", "auto_critical"}

OwnerOK ==
  \A s \in Shell :
    /\ pc[s] \in Busy => ShellOf[cur[s].task] = s
    /\ \A i \in 1 .. Len(inbox[s]) : ShellOf[inbox[s][i].task] = s

EntriesEarned ==
  \A t \in Task : tasks[t] # Absent /\ tasks[t].override => Approver(t)

PriorEarned ==
  \A s \in Shell :
    pc[s] = "surface" /\ prior[s].override => Approver(cur[s].task)

OverridesEarned ==
  \A s \in shellOverrides : \E u \in granted : ShellOf[u] = s

ApprovalInv ==
  /\ OwnerOK
  /\ EntriesEarned
  /\ PriorEarned
  /\ OverridesEarned
  /\ ApprovalIsEarned

LEMMA ApprovalInvInit == ASSUME Init PROVE ApprovalInv
  BY ConfigAssumption
  DEF Init, ApprovalInv, OwnerOK, EntriesEarned, PriorEarned, OverridesEarned,
      ApprovalIsEarned, Busy, PC, Idle

LEMMA ApproverKept ==
  ASSUME NEW t, Approver(t), granted \subseteq granted' PROVE Approver(t)'
  BY DEF Approver

LEMMA OverrideIsEarned ==
  ASSUME OverridesEarned, NEW s, NEW t \in Task, ShellOf[t] = s, ShellOverride(s)
  PROVE  Approver(t)
  BY DEF OverridesEarned, ShellOverride, Approver
-----------------------------------------------------------------------------
(* Who owns a handler's task, and what it read before planning *)

StackEarned == OwnerOK /\ PriorEarned

LEMMA GotoEarned ==
  ASSUME StacksOK, StackEarned, NEW s \in Shell, NEW label,
         pc[s] \in Busy, label # "surface", Goto(s, label), Keep, Unshared,
         granted' = granted
  PROVE  StackEarned'
  BY DEF StackEarned, StacksOK, OwnerOK, PriorEarned, Goto, Keep, Unshared,
     Approver

LEMMA ReturnEarned ==
  ASSUME StacksOK, StackEarned, NEW s \in Shell, Return(s), Unshared,
         granted' = granted
  PROVE  StackEarned'
  BY DEF StackEarned, StacksOK, OwnerOK, PriorEarned, Goto, Return, Unshared,
     Approver, Busy, PC, Idle

LEMMA StackEarnedKept ==
  ASSUME StackEarned, UNCHANGED handlerVars, UNCHANGED inbox,
         granted' = granted
  PROVE  StackEarned'
  BY DEF StackEarned, OwnerOK, PriorEarned, handlerVars, Approver

LEMMA SendThenEarned ==
  ASSUME StacksOK, StackEarned, NEW s \in Shell, NEW v, NEW label,
         pc[s] \in Busy, label # "surface", SendThen(s, v, label), Unshared,
         granted' = granted
  PROVE  StackEarned'
<1>1. CASE connected[s]
  BY <1>1, GotoEarned DEF SendThen
<1>2. CASE ~connected[s]
  BY <1>2, GotoEarned DEF SendThen
<1>3. QED BY <1>1, <1>2

LEMMA SendAndReturnEarned ==
  ASSUME StacksOK, StackEarned, NEW s \in Shell, NEW v, pc[s] \in Busy,
         SendAndReturn(s, v), Unshared, granted' = granted
  PROVE  StackEarned'
  BY GotoEarned, ReturnEarned DEF SendAndReturn

LEMMA ReplyEarned ==
  ASSUME ViewOK, ApprovalIsEarned, NEW s \in Shell, NEW v, v \notin Gate,
         Sends(s, v), granted' = granted
  PROVE  ApprovalIsEarned'
  BY DEF ViewOK, ApprovalIsEarned, Sends, Told, Approver, Gate

LEMMA ViewEarned ==
  ASSUME ApprovalIsEarned, UNCHANGED view, granted \subseteq granted'
  PROVE  ApprovalIsEarned'
  BY ApproverKept DEF ApprovalIsEarned
-----------------------------------------------------------------------------
(* Where the flags of the table come from *)

TableEarned == EntriesEarned /\ OverridesEarned

LEMMA TableKept ==
  ASSUME TableEarned, UNCHANGED daemonVars, granted' = granted
  PROVE  TableEarned'
  BY DEF TableEarned, EntriesEarned, OverridesEarned, daemonVars, Approver

LEMMA RemoveEarned ==
  ASSUME TablesOK, TableEarned, NEW t, Remove(t),
         shellOverrides' \subseteq shellOverrides, granted' = granted
  PROVE  TableEarned'
  BY DEF TableEarned, TablesOK, EntriesEarned, OverridesEarned, Remove, Approver

LEMMA ClearEarned ==
  ASSUME TablesOK, TableEarned, NEW s \in Shell, ClearTaskState(s),
         granted' = granted
  PROVE  TableEarned'
  BY RemoveEarned DEF ClearTaskState

LEMMA InsertEarned ==
  ASSUME TablesOK, TableEarned, NEW t \in Task, NEW entry \in Entry,
         entry.override => Approver(t), Insert(t, entry),
         UNCHANGED shellOverrides, granted' = granted
  PROVE  TableEarned'
  BY DEF TableEarned, TablesOK, EntriesEarned, OverridesEarned, Insert, Approver

LEMMA InsertAwaitingEarned ==
  ASSUME TablesOK, TableEarned, NEW t \in Task, NEW override \in BOOLEAN,
         NEW again \in BOOLEAN, NEW round \in Rounds,
         override => Approver(t), Insert(t, AwaitingEntry(override, again, round)),
         UNCHANGED shellOverrides, granted' = granted
  PROVE  TableEarned'
<1>1. AwaitingEntry(override, again, round).override = override
  BY DEF AwaitingEntry
<1>2. QED
  BY <1>1, AwaitingType, InsertEarned

LEMMA AmendEarned ==
  ASSUME TablesOK, TableEarned, NEW t \in Task, NEW entry,
         tasks[t] # Absent => entry.override = tasks[t].override,
         Amend(t, entry), UNCHANGED shellOverrides, granted' = granted
  PROVE  TableEarned'
  BY DEF TableEarned, TablesOK, EntriesEarned, OverridesEarned, Amend, Approver

LEMMA ReawaitEarned ==
  ASSUME TablesOK, TableEarned, NEW s \in Shell, NEW awaiting \in BOOLEAN,
         OnTask(s) \in Task, Reawait(s, awaiting), UNCHANGED shellOverrides,
         granted' = granted
  PROVE  TableEarned'
  BY AmendEarned DEF Reawait, TablesOK, Entry

\* The shell-wide flag that a handler copies into an entry was earned.
LEMMA OwnOverrideEarned ==
  ASSUME StacksOK, OwnerOK, OverridesEarned, NEW s \in Shell, pc[s] \in Busy,
         ShellOverride(s)
  PROVE  Approver(OnTask(s))
  BY OnTaskType, OverrideIsEarned DEF OwnerOK, OnTask

LEMMA AskedAtStartEarned ==
  ASSUME TablesOK, TableEarned, StacksOK, OwnerOK, NEW s \in Shell,
         pc[s] \in Busy, NEW again \in BOOLEAN, AskedAtStart(s, again),
         UNCHANGED shellOverrides, granted' = granted
  PROVE  TableEarned'
<1>1. 0 \in Rounds /\ ShellOverride(s) \in BOOLEAN /\ OnTask(s) \in Task
  BY ConfigAssumption, ShellOverrideType, OnTaskType DEF Rounds
<1>2. QED
  BY <1>1, OwnOverrideEarned, InsertAwaitingEarned DEF AskedAtStart, TableEarned
-----------------------------------------------------------------------------
(* One lemma per group of actions, one step per action: the handler's stack, *)
(* the table, then what the client is told.                                  *)

LEMMA StartingEarned ==
  ASSUME TypeInv, ApprovalInv, NEW s \in Shell, Starting(s)
  PROVE  ApprovalInv'
<1> USE DEF TypeInv
<1>1. StackEarned /\ TableEarned /\ ApprovalIsEarned
  BY DEF ApprovalInv, StackEarned, TableEarned
<1>2. CASE StartAnswered(s)
  <2>1. StackEarned'
    BY <1>1, <1>2, SendAndReturnEarned
    DEF StartAnswered, historyVars, At, Busy, PC, Idle
  <2>2. TableEarned'
    BY <1>1, <1>2, TableKept DEF StartAnswered, historyVars
  <2>3. ApprovalIsEarned'
    BY <1>1, <1>2, ReplyEarned
    DEF StartAnswered, SendAndReturn, Gate, historyVars
  <2>4. QED BY <2>1, <2>2, <2>3 DEF ApprovalInv, StackEarned, TableEarned
<1>3. CASE StartAmbiguous(s)
  <2>1. StackEarned'
    BY <1>1, <1>3, SendAndReturnEarned
    DEF StartAmbiguous, historyVars, At, Busy, PC, Idle, AskedAtStart
  <2>2. TableEarned'
    BY <1>1, <1>3, AskedAtStartEarned
    DEF StartAmbiguous, StackEarned, historyVars, At, Busy, PC, Idle
  <2>3. ApprovalIsEarned'
    BY <1>1, <1>3, ReplyEarned
    DEF StartAmbiguous, SendAndReturn, Gate, historyVars, AskedAtStart
  <2>4. QED BY <2>1, <2>2, <2>3 DEF ApprovalInv, StackEarned, TableEarned
<1>4. CASE StartOrchestration(s)
  <2>1. StackEarned'
    BY <1>1, <1>4, GotoEarned
    DEF StartOrchestration, historyVars, At, Busy, PC, Idle
  <2>2. TableEarned'
    BY <1>1, <1>4, TableKept DEF StartOrchestration, historyVars
  <2>3. ApprovalIsEarned'
    BY <1>1, <1>4, ViewEarned DEF StartOrchestration, historyVars
  <2>4. QED BY <2>1, <2>2, <2>3 DEF ApprovalInv, StackEarned, TableEarned
<1>5. QED BY <1>2, <1>3, <1>4 DEF Starting

LEMMA LookingUpEarned ==
  ASSUME TypeInv, ApprovalInv, NEW s \in Shell, LookingUp(s)
  PROVE  ApprovalInv'
<1> USE DEF TypeInv
<1>1. StackEarned /\ TableEarned /\ ApprovalIsEarned
  BY DEF ApprovalInv, StackEarned, TableEarned
<1>2. CASE AnswerTimedOut(s)
  <2>1. StackEarned'
    BY <1>1, <1>2, SendAndReturnEarned, GotoEarned
    DEF AnswerTimedOut, historyVars, At, Busy, PC, Idle
  <2>2. TableEarned'
    BY <1>1, <1>2
    DEF AnswerTimedOut, TableEarned, EntriesEarned, OverridesEarned, Approver,
        historyVars
  <2>3. ApprovalIsEarned'
    BY <1>1, <1>2, ReplyEarned, ViewEarned
    DEF AnswerTimedOut, SendAndReturn, Gate, historyVars
  <2>4. QED BY <2>1, <2>2, <2>3 DEF ApprovalInv, StackEarned, TableEarned
<1>3. CASE LookupUnknown(s)
  <2>1. StackEarned'
    BY <1>1, <1>3, SendAndReturnEarned
    DEF LookupUnknown, historyVars, At, Busy, PC, Idle
  <2>2. TableEarned'
    BY <1>1, <1>3, TableKept DEF LookupUnknown, historyVars
  <2>3. ApprovalIsEarned'
    BY <1>1, <1>3, ReplyEarned
    DEF LookupUnknown, SendAndReturn, Gate, historyVars
  <2>4. QED BY <2>1, <2>2, <2>3 DEF ApprovalInv, StackEarned, TableEarned
<1>4. CASE LookupStale(s)
  <2>1. StackEarned'
    BY <1>1, <1>4, SendAndReturnEarned
    DEF LookupStale, historyVars, At, Busy, PC, Idle
  <2>2. TableEarned'
    BY <1>1, <1>4, RemoveEarned, ClearEarned DEF LookupStale, historyVars
  <2>3. ApprovalIsEarned'
    BY <1>1, <1>4, ReplyEarned DEF LookupStale, SendAndReturn, Gate, historyVars
  <2>4. QED BY <2>1, <2>2, <2>3 DEF ApprovalInv, StackEarned, TableEarned
<1>5. CASE LookupFound(s)
  <2>1. StackEarned'
    BY <1>1, <1>5
    DEF LookupFound, StackEarned, StacksOK, OwnerOK, PriorEarned, Goto,
        Unshared, Approver, At, Busy, PC, Idle
  <2>2. TableEarned'
    <3>1. CASE cur[s].kind = "ack"
      BY <1>1, <1>5, <3>1, RemoveEarned DEF LookupFound
    <3>2. CASE cur[s].kind # "ack"
      BY <1>1, <1>5, <3>2
      DEF LookupFound, TableEarned, EntriesEarned, OverridesEarned, Approver
    <3>3. QED BY <3>1, <3>2
  <2>3. ApprovalIsEarned'
    BY <1>1, <1>5, ViewEarned DEF LookupFound, historyVars
  <2>4. QED BY <2>1, <2>2, <2>3 DEF ApprovalInv, StackEarned, TableEarned
<1>6. QED BY <1>2, <1>3, <1>4, <1>5 DEF LookingUp

LEMMA DecidingEarned ==
  ASSUME TypeInv, ApprovalInv, NEW s \in Shell, Deciding(s)
  PROVE  ApprovalInv'
<1> USE DEF TypeInv
<1>1. StackEarned /\ TableEarned /\ ApprovalIsEarned
  BY DEF ApprovalInv, StackEarned, TableEarned
<1>2. CASE Approve(s)
  <2>1. StackEarned'
    BY <1>1, <1>2, GotoEarned, ReturnEarned
    DEF Approve, Acknowledged, historyVars, At, Busy, PC, Idle, Decides
  <2>2. TableEarned'
    <3>1. OnTask(s) \in Task
      BY <1>2, OnTaskType DEF Approve, Decides, At, Busy, PC, Idle
    <3>2. QED
      BY <1>1, <1>2, <3>1, AmendEarned
      DEF Approve, TablesOK, Entry, historyVars
  <2>3. ApprovalIsEarned'
    BY <1>1, <1>2, ViewEarned DEF Approve, Acknowledged, historyVars
  <2>4. QED BY <2>1, <2>2, <2>3 DEF ApprovalInv, StackEarned, TableEarned
<1>3. CASE ApproveAll(s)
  <2>1. StackEarned'
    <3>1. OwnerOK'
      <4>1. \/ pc' = [pc EXCEPT ![s] = Idle] /\ cur' = [cur EXCEPT ![s] = Absent]
            \/ pc' = [pc EXCEPT ![s] = "failed"] /\ cur' = cur
        BY <1>3 DEF ApproveAll, Acknowledged, Return, Goto, Keep
      <4>2. pc[s] \in Busy /\ inbox' = inbox
        BY <1>3 DEF ApproveAll, Decides, Unshared, At, Busy, PC, Idle
      <4>3. QED
        BY <1>1, <4>1, <4>2
        DEF StackEarned, OwnerOK, StacksOK, Busy, PC, Idle
    <3>2. granted \subseteq granted'
      BY <1>3 DEF ApproveAll
    <3>3. PriorEarned'
      <4>1. ASSUME NEW u \in Shell, pc'[u] = "surface", prior'[u].override
            PROVE  pc[u] = "surface" /\ prior[u].override /\ cur'[u] = cur[u]
        BY <1>3, <4>1
        DEF ApproveAll, Acknowledged, Return, Goto, Keep, StacksOK, Idle
      <4>2. QED BY <1>1, <3>2, <4>1, ApproverKept DEF StackEarned, PriorEarned
    <3>4. QED BY <3>1, <3>3 DEF StackEarned
  <2>2. TableEarned'
    <3>1. OnTask(s) \in Task
      BY <1>3, OnTaskType DEF ApproveAll, Decides, At, Busy, PC, Idle
    <3>2. granted \subseteq granted'
      BY <1>3 DEF ApproveAll
    <3>3. ASSUME NEW t \in Task, tasks'[t] # Absent, tasks'[t].override
          PROVE  Approver(t)'
      <4>1. CASE t = OnTask(s)
        <5>1. tasks[t] # Absent /\ t \in granted'
          BY <1>3, <3>1, <3>3, <4>1 DEF ApproveAll, Amend, TablesOK
        <5>2. QED BY <5>1 DEF Approver
      <4>2. CASE t # OnTask(s)
        <5>1. tasks'[t] = tasks[t]
          BY <1>3, <4>2 DEF ApproveAll, Amend, TablesOK
        <5>2. Approver(t)
          BY <1>1, <3>3, <5>1 DEF TableEarned, EntriesEarned
        <5>3. QED BY <3>2, <5>2, ApproverKept
      <4>3. QED BY <4>1, <4>2
    <3>4. OverridesEarned'
      BY <1>1, <1>3, <3>1 DEF ApproveAll, TableEarned, OverridesEarned
    <3>5. QED BY <3>3, <3>4 DEF TableEarned, EntriesEarned
  <2>3. ApprovalIsEarned'
    <3>1. granted \subseteq granted'
      BY <1>3 DEF ApproveAll
    <3>2. QED BY <1>1, <1>3, <3>1, ViewEarned DEF ApproveAll, Acknowledged
  <2>4. QED BY <2>1, <2>2, <2>3 DEF ApprovalInv, StackEarned, TableEarned
<1>4. CASE EditRefused(s)
  <2>1. StackEarned'
    BY <1>1, <1>4, SendAndReturnEarned
    DEF EditRefused, historyVars, At, Busy, PC, Idle, Decides
  <2>2. TableEarned'
    BY <1>1, <1>4, TableKept, ClearEarned DEF EditRefused, historyVars
  <2>3. ApprovalIsEarned'
    BY <1>1, <1>4, ReplyEarned DEF EditRefused, SendAndReturn, Gate, historyVars
  <2>4. QED BY <2>1, <2>2, <2>3 DEF ApprovalInv, StackEarned, TableEarned
<1>5. CASE EditAccepted(s)
  <2>1. StackEarned'
    BY <1>1, <1>5, GotoEarned, ReturnEarned
    DEF EditAccepted, Acknowledged, historyVars, At, Busy, PC, Idle, Decides
  <2>2. TableEarned'
    <3>1. OnTask(s) \in Task
      BY <1>5, OnTaskType DEF EditAccepted, Decides, At, Busy, PC, Idle
    <3>2. QED
      BY <1>1, <1>5, <3>1, AmendEarned
      DEF EditAccepted, TablesOK, Entry, historyVars
  <2>3. ApprovalIsEarned'
    BY <1>1, <1>5, ViewEarned DEF EditAccepted, Acknowledged, historyVars
  <2>4. QED BY <2>1, <2>2, <2>3 DEF ApprovalInv, StackEarned, TableEarned
<1>6. CASE Reject(s)
  <2>1. StackEarned'
    BY <1>1, <1>6, SendAndReturnEarned
    DEF Reject, historyVars, At, Busy, PC, Idle, Decides
  <2>2. TableEarned'
    BY <1>1, <1>6, TableKept, ClearEarned DEF Reject, historyVars
  <2>3. ApprovalIsEarned'
    BY <1>1, <1>6, ReplyEarned DEF Reject, SendAndReturn, Gate, historyVars
  <2>4. QED BY <2>1, <2>2, <2>3 DEF ApprovalInv, StackEarned, TableEarned
<1>7. CASE RejectWithReason(s)
  <2>1. StackEarned'
    BY <1>1, <1>7, GotoEarned
    DEF RejectWithReason, historyVars, At, Busy, PC, Idle, Decides
  <2>2. TableEarned'
    BY <1>1, <1>7
    DEF RejectWithReason, TableEarned, EntriesEarned, OverridesEarned,
        Approver, historyVars
  <2>3. ApprovalIsEarned'
    BY <1>1, <1>7, ViewEarned DEF RejectWithReason, historyVars
  <2>4. QED BY <2>1, <2>2, <2>3 DEF ApprovalInv, StackEarned, TableEarned
<1>8. CASE Abort(s)
  <2>1. StackEarned'
    BY <1>1, <1>8, SendAndReturnEarned
    DEF Abort, historyVars, At, Busy, PC, Idle, Decides
  <2>2. TableEarned'
    BY <1>1, <1>8, TableKept, ClearEarned DEF Abort, historyVars
  <2>3. ApprovalIsEarned'
    BY <1>1, <1>8, ReplyEarned DEF Abort, SendAndReturn, Gate, historyVars
  <2>4. QED BY <2>1, <2>2, <2>3 DEF ApprovalInv, StackEarned, TableEarned
<1>9. CASE NotAwaiting(s)
  <2>1. StackEarned'
    BY <1>1, <1>9, SendAndReturnEarned
    DEF NotAwaiting, historyVars, At, Busy, PC, Idle, Decides
  <2>2. TableEarned'
    BY <1>1, <1>9, TableKept DEF NotAwaiting, historyVars
  <2>3. ApprovalIsEarned'
    BY <1>1, <1>9, ReplyEarned DEF NotAwaiting, SendAndReturn, Gate, historyVars
  <2>4. QED BY <2>1, <2>2, <2>3 DEF ApprovalInv, StackEarned, TableEarned
<1>10. CASE ClarificationAmbiguous(s)
  <2>1. StackEarned'
    BY <1>1, <1>10, SendAndReturnEarned
    DEF ClarificationAmbiguous, historyVars, At, Busy, PC, Idle, Decides
  <2>2. TableEarned'
    <3>1. OnTask(s) \in Task
      BY <1>10, OnTaskType
      DEF ClarificationAmbiguous, Decides, At, Busy, PC, Idle
    <3>2. QED
      BY <1>1, <1>10, <3>1, ReawaitEarned
      DEF ClarificationAmbiguous, historyVars
  <2>3. ApprovalIsEarned'
    BY <1>1, <1>10, ReplyEarned
    DEF ClarificationAmbiguous, SendAndReturn, Gate, historyVars
  <2>4. QED BY <2>1, <2>2, <2>3 DEF ApprovalInv, StackEarned, TableEarned
<1>11. CASE Clarified(s)
  <2>1. StackEarned'
    BY <1>1, <1>11, GotoEarned
    DEF Clarified, historyVars, At, Busy, PC, Idle, Decides
  <2>2. TableEarned'
    BY <1>1, <1>11, TableKept DEF Clarified, historyVars
  <2>3. ApprovalIsEarned'
    BY <1>1, <1>11, ViewEarned DEF Clarified, historyVars
  <2>4. QED BY <2>1, <2>2, <2>3 DEF ApprovalInv, StackEarned, TableEarned
<1>12. CASE AckLast(s)
  <2>1. StackEarned'
    BY <1>1, <1>12, SendAndReturnEarned
    DEF AckLast, historyVars, At, Busy, PC, Idle, Decides
  <2>2. TableEarned'
    BY <1>1, <1>12
    DEF AckLast, TableEarned, EntriesEarned, OverridesEarned, Approver,
        historyVars
  <2>3. ApprovalIsEarned'
    BY <1>1, <1>12, ReplyEarned DEF AckLast, SendAndReturn, Gate, historyVars
  <2>4. QED BY <2>1, <2>2, <2>3 DEF ApprovalInv, StackEarned, TableEarned
<1>13. CASE AckContinue(s)
  <2>1. StackEarned'
    BY <1>1, <1>13, GotoEarned
    DEF AckContinue, historyVars, At, Busy, PC, Idle, Decides
  <2>2. TableEarned'
    BY <1>1, <1>13
    DEF AckContinue, TableEarned, EntriesEarned, OverridesEarned, Approver,
        historyVars
  <2>3. ApprovalIsEarned'
    BY <1>1, <1>13, ViewEarned DEF AckContinue, historyVars
  <2>4. QED BY <2>1, <2>2, <2>3 DEF ApprovalInv, StackEarned, TableEarned
<1>14. QED
  BY <1>2, <1>3, <1>4, <1>5, <1>6, <1>7, <1>8, <1>9, <1>10, <1>11, <1>12, <1>13
  DEF Deciding

LEMMA OrchestrationEarned ==
  ASSUME TypeInv, ApprovalInv, NEW s \in Shell, Orchestration(s)
  PROVE  ApprovalInv'
<1> USE DEF TypeInv
<1>1. StackEarned /\ TableEarned /\ ApprovalIsEarned
  BY DEF ApprovalInv, StackEarned, TableEarned
<1>2. CASE DirectAnswer(s)
  <2>1. StackEarned'
    BY <1>1, <1>2, SendThenEarned
    DEF DirectAnswer, historyVars, At, Busy, PC, Idle
  <2>2. TableEarned'
    BY <1>1, <1>2, TableKept DEF DirectAnswer, historyVars
  <2>3. ApprovalIsEarned'
    BY <1>1, <1>2, ReplyEarned DEF DirectAnswer, SendThen, Gate, historyVars
  <2>4. QED BY <2>1, <2>2, <2>3 DEF ApprovalInv, StackEarned, TableEarned
<1>3. CASE NoTools(s)
  <2>1. StackEarned'
    BY <1>1, <1>3, GotoEarned DEF NoTools, historyVars, At, Busy, PC, Idle
  <2>2. TableEarned'
    BY <1>1, <1>3, TableKept DEF NoTools, historyVars
  <2>3. ApprovalIsEarned'
    BY <1>1, <1>3, ViewEarned DEF NoTools, historyVars
  <2>4. QED BY <2>1, <2>2, <2>3 DEF ApprovalInv, StackEarned, TableEarned
<1>4. CASE ExposeTools(s)
  <2>1. StackEarned'
    BY <1>1, <1>4, GotoEarned DEF ExposeTools, historyVars, At, Busy, PC, Idle
  <2>2. TableEarned'
    BY <1>1, <1>4, TableKept DEF ExposeTools, historyVars
  <2>3. ApprovalIsEarned'
    BY <1>1, <1>4, ViewEarned DEF ExposeTools, historyVars
  <2>4. QED BY <2>1, <2>2, <2>3 DEF ApprovalInv, StackEarned, TableEarned
<1>5. CASE SeedConversation(s)
  <2>1. StackEarned'
    BY <1>1, <1>5, GotoEarned
    DEF SeedConversation, historyVars, At, Busy, PC, Idle
  <2>2. TableEarned'
    BY <1>1, <1>5
    DEF SeedConversation, TableEarned, EntriesEarned, OverridesEarned,
        Approver, historyVars
  <2>3. ApprovalIsEarned'
    BY <1>1, <1>5, ViewEarned DEF SeedConversation, historyVars
  <2>4. QED BY <2>1, <2>2, <2>3 DEF ApprovalInv, StackEarned, TableEarned
<1>6. CASE Complete(s)
  <2>1. StackEarned'
    BY <1>1, <1>6, SendThenEarned
    DEF Complete, historyVars, At, Busy, PC, Idle, Orchestrating
  <2>2. TableEarned'
    BY <1>1, <1>6
    DEF Complete, TableEarned, EntriesEarned, OverridesEarned, Approver,
        historyVars
  <2>3. ApprovalIsEarned'
    BY <1>1, <1>6, ReplyEarned DEF Complete, SendThen, Gate, historyVars
  <2>4. QED BY <2>1, <2>2, <2>3 DEF ApprovalInv, StackEarned, TableEarned
<1>7. CASE Clarify(s)
  <2>1. StackEarned'
    BY <1>1, <1>7, SendThenEarned
    DEF Clarify, historyVars, At, Busy, PC, Idle, Orchestrating
  <2>2. TableEarned'
    <3>1. OnTask(s) \in Task /\ pc[s] \in Busy
      BY <1>7, OnTaskType DEF Clarify, Orchestrating, Busy, PC, Idle
    <3>2. QED
      BY <1>1, <1>7, <3>1, OwnOverrideEarned, ShellOverrideType,
         InsertAwaitingEarned
      DEF Clarify, StackEarned, TableEarned, historyVars
  <2>3. ApprovalIsEarned'
    BY <1>1, <1>7, ReplyEarned DEF Clarify, SendThen, Gate, historyVars
  <2>4. QED BY <2>1, <2>2, <2>3 DEF ApprovalInv, StackEarned, TableEarned
<1>8. CASE GiveUp(s)
  <2>1. StackEarned'
    BY <1>1, <1>8, GotoEarned DEF GiveUp, historyVars, At, Busy, PC, Idle
  <2>2. TableEarned'
    BY <1>1, <1>8
    DEF GiveUp, TableEarned, EntriesEarned, OverridesEarned, Approver,
        historyVars
  <2>3. ApprovalIsEarned'
    BY <1>1, <1>8, ViewEarned DEF GiveUp, historyVars
  <2>4. QED BY <2>1, <2>2, <2>3 DEF ApprovalInv, StackEarned, TableEarned
<1>9. QED BY <1>2, <1>3, <1>4, <1>5, <1>6, <1>7, <1>8 DEF Orchestration

LEMMA PlanningEarned ==
  ASSUME TypeInv, ApprovalInv, NEW s \in Shell, Planning(s)
  PROVE  ApprovalInv'
<1> USE DEF TypeInv
<1>1. StackEarned /\ TableEarned /\ ApprovalIsEarned
  BY DEF ApprovalInv, StackEarned, TableEarned
<1>2. CASE Propose(s)
  <2>1. StackEarned'
    <3>1. OnTask(s) \in Task /\ pc[s] \in Busy
      BY <1>2, OnTaskType DEF Propose, Orchestrating, Busy, PC, Idle
    <3>2. prior'[s].override => Approver(OnTask(s))
      BY <1>1, <1>2, <3>1, OwnOverrideEarned
      DEF Propose, StackEarned, TableEarned, EntriesEarned, StacksOK
    <3>3. /\ pc' = [pc EXCEPT ![s] = "surface"]
          /\ \A u \in Shell \ {s} : prior'[u] = prior[u]
          /\ UNCHANGED <<cur, inbox, granted>>
      BY <1>2 DEF Propose, Goto, Unshared, StacksOK, historyVars
    <3>4. QED
      BY <1>1, <3>1, <3>2, <3>3
      DEF StackEarned, OwnerOK, PriorEarned, StacksOK, OnTask, Approver
  <2>2. TableEarned'
    BY <1>1, <1>2, TableKept DEF Propose, historyVars
  <2>3. ApprovalIsEarned'
    BY <1>1, <1>2, ViewEarned DEF Propose, historyVars
  <2>4. QED BY <2>1, <2>2, <2>3 DEF ApprovalInv, StackEarned, TableEarned
<1>3. CASE FallbackFailed(s)
  <2>1. StackEarned'
    BY <1>1, <1>3, StackEarnedKept DEF FallbackFailed, Unshared, historyVars
  <2>2. TableEarned'
    BY <1>1, <1>3
    DEF FallbackFailed, TableEarned, EntriesEarned, OverridesEarned, Approver,
        historyVars
  <2>3. ApprovalIsEarned'
    BY <1>1, <1>3, ViewEarned DEF FallbackFailed, historyVars
  <2>4. QED BY <2>1, <2>2, <2>3 DEF ApprovalInv, StackEarned, TableEarned
<1>4. CASE FloorRefused(s)
  <2>1. StackEarned'
    BY <1>1, <1>4, SendThenEarned
    DEF FloorRefused, historyVars, At, Busy, PC, Idle
  <2>2. TableEarned'
    <3>1. OnTask(s) \in Task /\ prior[s] \in Prior
      BY <1>4, OnTaskType DEF FloorRefused, StacksOK, At, Busy, PC, Idle
    <3>2. prior[s].override => Approver(OnTask(s))
      BY <1>1, <1>4 DEF FloorRefused, StackEarned, PriorEarned, At, OnTask
    <3>3. CASE AllowClarifications
      BY <1>1, <1>4, <3>1, <3>2, <3>3, InsertAwaitingEarned
      DEF FloorRefused, Prior, historyVars
    <3>4. CASE ~AllowClarifications
      BY <1>1, <1>4, <3>4, ClearEarned DEF FloorRefused, historyVars
    <3>5. QED BY <3>3, <3>4
  <2>3. ApprovalIsEarned'
    BY <1>1, <1>4, ReplyEarned DEF FloorRefused, SendThen, Gate, historyVars
  <2>4. QED BY <2>1, <2>2, <2>3 DEF ApprovalInv, StackEarned, TableEarned
<1>5. CASE Unvalidated(s)
  <2>1. StackEarned'
    BY <1>1, <1>5, SendThenEarned
    DEF Unvalidated, historyVars, At, Busy, PC, Idle
  <2>2. TableEarned'
    <3>1. OnTask(s) \in Task /\ prior[s] \in Prior
      BY <1>5, OnTaskType DEF Unvalidated, StacksOK, At, Busy, PC, Idle
    <3>2. prior[s].override => Approver(OnTask(s))
      BY <1>1, <1>5 DEF Unvalidated, StackEarned, PriorEarned, At, OnTask
    <3>3. CASE AllowClarifications
      BY <1>1, <1>5, <3>1, <3>2, <3>3, InsertAwaitingEarned
      DEF Unvalidated, Prior, historyVars
    <3>4. CASE ~AllowClarifications
      BY <1>1, <1>5, <3>4, TableKept
      DEF Unvalidated, daemonVars, historyVars, TableEarned, EntriesEarned,
          OverridesEarned, Approver
    <3>5. QED BY <3>3, <3>4
  <2>3. ApprovalIsEarned'
    BY <1>1, <1>5, ReplyEarned DEF Unvalidated, SendThen, Gate, historyVars
  <2>4. QED BY <2>1, <2>2, <2>3 DEF ApprovalInv, StackEarned, TableEarned
<1>6. CASE Surface(s)
  <2>1. StackEarned'
    BY <1>1, <1>6, SendThenEarned DEF Surface, historyVars, At, Busy, PC, Idle
  <2>2. TableEarned'
    <3>1. OnTask(s) \in Task /\ prior[s] \in Prior
      BY <1>6, OnTaskType DEF Surface, StacksOK, At, Busy, PC, Idle
    <3>2. prior[s].override => Approver(OnTask(s))
      BY <1>1, <1>6 DEF Surface, StackEarned, PriorEarned, At, OnTask
    <3>3. QED
      BY <1>1, <1>6, <3>1, <3>2, InsertEarned
      DEF Surface, Prior, Entry, historyVars
  <2>3. ApprovalIsEarned'
    <3>1. OnTask(s) \in Task /\ prior[s] \in Prior
      BY <1>6, OnTaskType DEF Surface, StacksOK, At, Busy, PC, Idle
    <3>2. prior[s].override => Approver(OnTask(s))
      BY <1>1, <1>6 DEF Surface, StackEarned, PriorEarned, At, OnTask
    <3>3. PICK critical \in BOOLEAN :
            Sends(s, ProposalView(RequiresApproval(prior[s].override, critical), critical))
      BY <1>6 DEF Surface, SendThen
    <3>4. ASSUME NEW t \in Task,
                 view'[t] = ProposalView(RequiresApproval(prior[s].override, critical), critical),
                 t = OnTask(s)
          PROVE  /\ view'[t] = "auto" => ApprovalMode # "manual" \/ Approver(t)
                 /\ view'[t] = "auto_critical" => ApprovalMode = "auto"
      BY <3>1, <3>2, <3>4 DEF ProposalView, RequiresApproval, Prior
    <3>5. \A t \in Task :
            \/ view'[t] = view[t]
            \/ /\ t = OnTask(s)
               /\ view'[t] = ProposalView(RequiresApproval(prior[s].override, critical), critical)
      BY <3>3 DEF Sends, Told, ViewOK
    <3>6. QED
      BY <1>1, <1>6, <3>4, <3>5
      DEF Surface, ApprovalIsEarned, Approver, historyVars
  <2>4. QED BY <2>1, <2>2, <2>3 DEF ApprovalInv, StackEarned, TableEarned
<1>7. QED BY <1>2, <1>3, <1>4, <1>5, <1>6 DEF Planning

LEMMA ConcludingEarned ==
  ASSUME TypeInv, ApprovalInv, NEW s \in Shell, Concluding(s)
  PROVE  ApprovalInv'
<1> USE DEF TypeInv
<1>1. StackEarned /\ TableEarned /\ ApprovalIsEarned
  BY DEF ApprovalInv, StackEarned, TableEarned
<1>2. CASE StartHandled(s)
  <2>1. StackEarned'
    BY <1>1, <1>2, ReturnEarned
    DEF StartHandled, historyVars, At, Busy, PC, Idle
  <2>2. TableEarned'
    BY <1>1, <1>2, TableKept DEF StartHandled, historyVars
  <2>3. ApprovalIsEarned'
    BY <1>1, <1>2, ViewEarned DEF StartHandled, historyVars
  <2>4. QED BY <2>1, <2>2, <2>3 DEF ApprovalInv, StackEarned, TableEarned
<1>3. CASE StartUnhandled(s)
  <2>1. StackEarned'
    BY <1>1, <1>3, SendAndReturnEarned
    DEF StartUnhandled, historyVars, At, Busy, PC, Idle, AskedAtStart, After
  <2>2. TableEarned'
    BY <1>1, <1>3, AskedAtStartEarned
    DEF StartUnhandled, StackEarned, historyVars, At, Busy, PC, Idle, After
  <2>3. ApprovalIsEarned'
    BY <1>1, <1>3, ReplyEarned
    DEF StartUnhandled, SendAndReturn, Gate, historyVars, AskedAtStart
  <2>4. QED BY <2>1, <2>2, <2>3 DEF ApprovalInv, StackEarned, TableEarned
<1>4. CASE ClarificationHandled(s)
  <2>1. StackEarned'
    BY <1>1, <1>4, ReturnEarned
    DEF ClarificationHandled, historyVars, At, Busy, PC, Idle
  <2>2. TableEarned'
    <3>1. OnTask(s) \in Task
      BY <1>4, OnTaskType DEF ClarificationHandled, After, At, Busy, PC, Idle
    <3>2. QED
      BY <1>1, <1>4, <3>1, ReawaitEarned
      DEF ClarificationHandled, historyVars
  <2>3. ApprovalIsEarned'
    BY <1>1, <1>4, ViewEarned DEF ClarificationHandled, historyVars
  <2>4. QED BY <2>1, <2>2, <2>3 DEF ApprovalInv, StackEarned, TableEarned
<1>5. CASE ClarificationUnhandled(s)
  <2>1. StackEarned'
    BY <1>1, <1>5, SendAndReturnEarned
    DEF ClarificationUnhandled, historyVars, At, Busy, PC, Idle, After
  <2>2. TableEarned'
    <3>1. OnTask(s) \in Task
      BY <1>5, OnTaskType DEF ClarificationUnhandled, After, At, Busy, PC, Idle
    <3>2. QED
      BY <1>1, <1>5, <3>1, ReawaitEarned
      DEF ClarificationUnhandled, historyVars
  <2>3. ApprovalIsEarned'
    BY <1>1, <1>5, ReplyEarned
    DEF ClarificationUnhandled, SendAndReturn, Gate, historyVars
  <2>4. QED BY <2>1, <2>2, <2>3 DEF ApprovalInv, StackEarned, TableEarned
<1>6. CASE RejectionHandled(s)
  <2>1. StackEarned'
    BY <1>1, <1>6, ReturnEarned
    DEF RejectionHandled, historyVars, At, Busy, PC, Idle
  <2>2. TableEarned'
    <3>1. OnTask(s) \in Task
      BY <1>6, OnTaskType DEF RejectionHandled, After, At, Busy, PC, Idle
    <3>2. QED
      BY <1>1, <1>6, <3>1, AmendEarned
      DEF RejectionHandled, TablesOK, Entry, historyVars
  <2>3. ApprovalIsEarned'
    BY <1>1, <1>6, ViewEarned DEF RejectionHandled, historyVars
  <2>4. QED BY <2>1, <2>2, <2>3 DEF ApprovalInv, StackEarned, TableEarned
<1>7. CASE RejectionUnhandled(s)
  <2>1. StackEarned'
    <3>1. cur[s] \in Message /\ pc[s] \in Busy
      BY <1>7, OnTaskType DEF RejectionUnhandled, After, At, Busy, PC, Idle
    <3>2. \A u \in Shell : cur'[u].task = cur[u].task
      BY <1>7, <3>1 DEF RejectionUnhandled, StacksOK, Message
    <3>3. QED
      BY <1>1, <1>7, <3>1, <3>2
      DEF RejectionUnhandled, StackEarned, OwnerOK, PriorEarned, StacksOK, Goto, Unshared, Approver, historyVars
  <2>2. TableEarned'
    BY <1>1, <1>7
    DEF RejectionUnhandled, TableEarned, EntriesEarned, OverridesEarned,
        Approver, historyVars
  <2>3. ApprovalIsEarned'
    BY <1>1, <1>7, ViewEarned DEF RejectionUnhandled, historyVars
  <2>4. QED BY <2>1, <2>2, <2>3 DEF ApprovalInv, StackEarned, TableEarned
<1>8. CASE AckHandled(s)
  <2>1. StackEarned'
    BY <1>1, <1>8, ReturnEarned DEF AckHandled, historyVars, At, Busy, PC, Idle
  <2>2. TableEarned'
    <3>1. OnTask(s) \in Task
      BY <1>8, OnTaskType DEF AckHandled, After, At, Busy, PC, Idle
    <3>2. QED
      BY <1>1, <1>8, <3>1, AmendEarned
      DEF AckHandled, TablesOK, Entry, historyVars
  <2>3. ApprovalIsEarned'
    BY <1>1, <1>8, ViewEarned DEF AckHandled, historyVars
  <2>4. QED BY <2>1, <2>2, <2>3 DEF ApprovalInv, StackEarned, TableEarned
<1>9. CASE AckUnhandled(s)
  <2>1. StackEarned'
    BY <1>1, <1>9, SendAndReturnEarned
    DEF AckUnhandled, historyVars, At, Busy, PC, Idle, After
  <2>2. TableEarned'
    BY <1>1, <1>9
    DEF AckUnhandled, TableEarned, EntriesEarned, OverridesEarned, Approver,
        historyVars
  <2>3. ApprovalIsEarned'
    BY <1>1, <1>9, ReplyEarned
    DEF AckUnhandled, SendAndReturn, Gate, historyVars
  <2>4. QED BY <2>1, <2>2, <2>3 DEF ApprovalInv, StackEarned, TableEarned
<1>10. QED BY <1>2, <1>3, <1>4, <1>5, <1>6, <1>7, <1>8, <1>9 DEF Concluding

LEMMA ClosingEarned ==
  ASSUME TypeInv, ApprovalInv, NEW s \in Shell, Closing(s)
  PROVE  ApprovalInv'
<1> USE DEF TypeInv
<1>1. StackEarned /\ TableEarned /\ ApprovalIsEarned
  BY DEF ApprovalInv, StackEarned, TableEarned
<1>2. CASE Fail(s)
  <2>1. StackEarned'
    BY <1>1, <1>2, GotoEarned DEF Fail, historyVars, At, Busy, PC, Idle
  <2>2. TableEarned'
    BY <1>1, <1>2, TableKept, ClearEarned DEF Fail, historyVars
  <2>3. ApprovalIsEarned'
    BY <1>1, <1>2, ViewEarned DEF Fail, historyVars
  <2>4. QED BY <2>1, <2>2, <2>3 DEF ApprovalInv, StackEarned, TableEarned
<1>3. CASE EndOfStream(s)
  <2>1. StackEarned'
    BY <1>1, <1>3
    DEF EndOfStream, StackEarned, StacksOK, OwnerOK, PriorEarned, Goto, Keep,
        Unshared, Approver, Busy, PC, Idle, historyVars
  <2>2. TableEarned'
    BY <1>1, <1>3, TableKept DEF EndOfStream, historyVars
  <2>3. ApprovalIsEarned'
    BY <1>1, <1>3, ViewEarned DEF EndOfStream, historyVars
  <2>4. QED BY <2>1, <2>2, <2>3 DEF ApprovalInv, StackEarned, TableEarned
<1>4. CASE DropConnection(s)
  <2>1. StackEarned'
    BY <1>1, <1>4
    DEF DropConnection, StackEarned, StacksOK, OwnerOK, PriorEarned, Goto,
        Keep, Unshared, Approver, Busy, PC, Idle, historyVars
  <2>2. TableEarned'
    BY <1>1, <1>4, TableKept DEF DropConnection, historyVars
  <2>3. ApprovalIsEarned'
    BY <1>1, <1>4, ViewEarned DEF DropConnection, historyVars
  <2>4. QED BY <2>1, <2>2, <2>3 DEF ApprovalInv, StackEarned, TableEarned
<1>5. CASE CloseShell(s)
  <2>1. StackEarned'
    BY <1>1, <1>5
    DEF CloseShell, StackEarned, StacksOK, OwnerOK, PriorEarned, Goto,
        Unshared, Approver, Busy, PC, Idle, historyVars
  <2>2. TableEarned'
    BY <1>1, <1>5
    DEF CloseShell, TablesOK, TableEarned, EntriesEarned, OverridesEarned,
        Approver, historyVars
  <2>3. ApprovalIsEarned'
    BY <1>1, <1>5, ViewEarned DEF CloseShell, historyVars
  <2>4. QED BY <2>1, <2>2, <2>3 DEF ApprovalInv, StackEarned, TableEarned
<1>6. QED BY <1>2, <1>3, <1>4, <1>5 DEF Closing

-----------------------------------------------------------------------------
(* The connection, the client, the sweeper and time *)

LEMMA ReceiveEarned ==
  ASSUME TypeInv, ApprovalInv, NEW s \in Shell, Receive(s)
  PROVE  ApprovalInv'
<1> USE DEF TypeInv
<1>1. /\ Len(inbox[s]) \in Nat \ {0}
      /\ Head(inbox[s]) = inbox[s][1]
      /\ Len(Tail(inbox[s])) = Len(inbox[s]) - 1
      /\ \A i \in 1 .. Len(inbox[s]) - 1 : Tail(inbox[s])[i] = inbox[s][i + 1]
  BY DEF Receive, InboxOK
<1>2. /\ inbox' = [inbox EXCEPT ![s] = Tail(@)]
      /\ cur' = [cur EXCEPT ![s] = Head(inbox[s])]
      /\ \E label \in {"start", "timed"} : pc' = [pc EXCEPT ![s] = label]
      /\ UNCHANGED <<daemonVars, prior, view, granted>>
  BY DEF Receive, Goto, historyVars
<1>3. OwnerOK'
  <2>1. ASSUME NEW u \in Shell, pc'[u] \in Busy PROVE ShellOf[cur'[u].task] = u
    BY <1>1, <1>2, <2>1 DEF ApprovalInv, OwnerOK, StacksOK
  <2>2. ASSUME NEW u \in Shell, NEW i \in 1 .. Len(inbox'[u])
        PROVE  ShellOf[inbox'[u][i].task] = u
    <3>1. CASE u = s
      BY <1>1, <1>2, <2>2, <3>1 DEF ApprovalInv, OwnerOK, InboxOK
    <3>2. CASE u # s
      BY <1>2, <2>2, <3>2 DEF ApprovalInv, OwnerOK, InboxOK
    <3>3. QED BY <3>1, <3>2
  <2>3. QED BY <2>1, <2>2 DEF OwnerOK
<1>4. PriorEarned'
  BY <1>2 DEF ApprovalInv, PriorEarned, StacksOK, Approver
<1>5. TableEarned'
  BY <1>2, TableKept DEF ApprovalInv, TableEarned
<1>6. ApprovalIsEarned'
  BY <1>2, ViewEarned DEF ApprovalInv
<1>7. QED
  BY <1>3, <1>4, <1>5, <1>6 DEF ApprovalInv, TableEarned

LEMMA ClientSendsEarned ==
  ASSUME TypeInv, ApprovalInv, NEW t \in Task, NEW kind, NEW from, NEW to,
         to \notin Gate, ClientSends(t, kind, from, to)
  PROVE  ApprovalInv'
<1> USE DEF TypeInv
<1>1. UNCHANGED <<daemonVars, handlerVars, granted>>
  BY DEF ClientSends, historyVars
<1>2. OwnerOK'
  <2>1. ASSUME NEW u \in Shell, NEW i \in 1 .. Len(inbox'[u])
        PROVE  ShellOf[inbox'[u][i].task] = u
    <3>1. CASE u = ShellOf[t]
      <4>1. inbox'[u] = Append(inbox[u], [kind |-> kind, task |-> t])
        BY <3>1 DEF ClientSends, InboxOK
      <4>2. inbox[u] \in Seq(Message)
        BY DEF InboxOK
      <4>3. CASE i = Len(inbox[u]) + 1
        BY <2>1, <3>1, <4>1, <4>2, <4>3
      <4>4. CASE i # Len(inbox[u]) + 1
        <5>1. i \in 1 .. Len(inbox[u]) /\ inbox'[u][i] = inbox[u][i]
          BY <2>1, <4>1, <4>2, <4>4
        <5>2. QED BY <5>1 DEF ApprovalInv, OwnerOK
      <4>5. QED BY <4>3, <4>4
    <3>2. CASE u # ShellOf[t]
      BY <2>1, <3>2 DEF ClientSends, InboxOK, ApprovalInv, OwnerOK
    <3>3. QED BY <3>1, <3>2
  <2>2. QED BY <1>1, <2>1 DEF ApprovalInv, OwnerOK, handlerVars
<1>3. PriorEarned'
  BY <1>1 DEF ApprovalInv, PriorEarned, handlerVars, Approver
<1>4. TableEarned'
  BY <1>1, TableKept DEF ApprovalInv, TableEarned
<1>5. ApprovalIsEarned'
  BY <1>1 DEF ClientSends, ViewOK, ApprovalInv, ApprovalIsEarned, Approver, Gate
<1>6. QED
  BY <1>2, <1>3, <1>4, <1>5 DEF ApprovalInv, TableEarned

LEMMA ClientEarned == ASSUME TypeInv, ApprovalInv, Client PROVE ApprovalInv'
<1> USE DEF Gate
<1>1. ASSUME NEW t \in Task, SendStart(t) PROVE ApprovalInv'
  BY <1>1, ClientSendsEarned DEF SendStart
<1>2. ASSUME NEW t \in Task, SendApproval(t) PROVE ApprovalInv'
  BY <1>2, ClientSendsEarned DEF SendApproval
<1>3. ASSUME NEW t \in Task, SendRejection(t) PROVE ApprovalInv'
  BY <1>3, ClientSendsEarned DEF SendRejection
<1>4. ASSUME NEW t \in Task, SendClarification(t) PROVE ApprovalInv'
  BY <1>4, ClientSendsEarned DEF SendClarification
<1>5. ASSUME NEW t \in Task, SendAbort(t) PROVE ApprovalInv'
  BY <1>5, ClientSendsEarned DEF SendAbort
<1>6. ASSUME NEW t \in Task, SendAck(t) PROVE ApprovalInv'
  BY <1>6, ClientSendsEarned DEF SendAck
<1>7. ASSUME NEW s \in Shell, Disconnect(s) PROVE ApprovalInv'
  <2>1. StackEarned' /\ TableEarned'
    BY <1>7, StackEarnedKept, TableKept
    DEF Disconnect, ApprovalInv, StackEarned, TableEarned, historyVars
  <2>2. ApprovalIsEarned'
    BY <1>7 DEF Disconnect, ApprovalInv, ApprovalIsEarned, Approver, historyVars
  <2>3. QED
    BY <2>1, <2>2 DEF ApprovalInv, StackEarned, TableEarned
<1>8. QED
  BY <1>1, <1>2, <1>3, <1>4, <1>5, <1>6, <1>7 DEF Client

LEMMA BesideEarned ==
  ASSUME TypeInv, ApprovalInv, Sweep \/ Time
  PROVE  ApprovalInv'
<1>1. UNCHANGED <<handlerVars, inbox, view, granted, shellOverrides>>
  BY DEF Sweep, SweepTasks, SweepConversations, SweepTimedOut, Time, GoStale,
     Forget, clientVars, historyVars
<1>2. ASSUME NEW t \in Task, tasks'[t] # Absent, tasks'[t].override
      PROVE  tasks[t] # Absent /\ tasks[t].override
  BY <1>2 DEF Sweep, SweepTasks, SweepConversations, SweepTimedOut, Time,
     GoStale, Forget, TypeInv, TablesOK, Entry
<1>3. StackEarned'
  BY <1>1, StackEarnedKept DEF ApprovalInv, StackEarned
<1>4. TableEarned'
  BY <1>1, <1>2
  DEF ApprovalInv, TableEarned, EntriesEarned, OverridesEarned, Approver
<1>5. ApprovalIsEarned'
  BY <1>1, ViewEarned DEF ApprovalInv
<1>6. QED
  BY <1>3, <1>4, <1>5 DEF ApprovalInv, StackEarned, TableEarned
-----------------------------------------------------------------------------
LEMMA ApprovalInvStep ==
  ASSUME TypeInv, ApprovalInv, [Next]_vars
  PROVE  ApprovalInv'
<1>1. ASSUME NEW s \in Shell, Handler(s) PROVE ApprovalInv'
  BY <1>1, ReceiveEarned, StartingEarned, LookingUpEarned, DecidingEarned,
     OrchestrationEarned, PlanningEarned, ConcludingEarned, ClosingEarned
  DEF Handler
<1>2. CASE UNCHANGED vars
  BY <1>2, StackEarnedKept, TableKept, ViewEarned
  DEF vars, clientVars, historyVars, ApprovalInv, StackEarned, TableEarned
<1>3. QED
  BY <1>1, <1>2, ClientEarned, BesideEarned DEF Next

\* FR-13 and FR-18: a command is executed without an approval gate only when
\* its user approved all (of the task or, if approvals outlive tasks, of a task
\* of the same shell) or the mode asks for no approval; a critical command
\* only in mode "auto".  It rests on ApprovalInv: every flag, in the table or
\* on a stack, descends from an approve-all of the task's own shell.
THEOREM ApprovalEarned == Spec => []ApprovalIsEarned
<1>1. Init => ApprovalInv
  BY ApprovalInvInit
<1>2. TypeInv /\ ApprovalInv /\ [Next]_vars => ApprovalInv'
  BY ApprovalInvStep
<1>3. ApprovalInv => ApprovalIsEarned
  BY DEF ApprovalInv
<1>4. QED
  BY <1>1, <1>2, <1>3, TypeInvInvariant, PTL DEF Spec
=============================================================================
