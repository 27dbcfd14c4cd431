------------------------ MODULE Orchestration_proofs ------------------------
(***************************************************************************)
(* For any drafts, limits and configurations: the rounds of read-only      *)
(* tools are bounded, a redraft is asked for with the verdict, a task that *)
(* has ended leaves no conversation, and every request of the user gets    *)
(* one answer, which is a valid command if it is a command.                *)
(***************************************************************************)
EXTENDS Orchestration, TLAPS

\* Where a planning loop is on the stack.
Looping == {"draft", "fallback", "redraft", "revise"}

\* A request is open exactly while the handler is busy, and it is a legal one.
Control ==
  /\ told = "waiting" <=> pc \notin {"idle", "handled"}
  /\ told = "new" => pc = "idle" /\ history = Absent
  /\ told # "new" => request \in Request
  /\ told # "new" /\ request.kind = "ack" => request.round < MaxToolRounds
  /\ pc = "begin" /\ request.kind = "start" => history = Absent
  /\ pc \in Looping => loops # <<>>
  /\ pc \in {"reply", "fallback"} => history # Absent

\* The rounds are no more than the results in the conversation, which are what
\* the limit is compared with.
Counted ==
  /\ rounds < MaxToolRounds
  /\ pc = "begin" => rounds = 0
  /\ pc \in {"enter", "reply"} => rounds <= Recorded.observations

\* The verdict is there from the moment the draft is refused.
Told ==
  /\ pc = "fallback" => history.finding
  /\ FindingReachesRedraft

\* What ConversationEnds says is so as soon as the request has been handled.
Ended ==
  pc \in {"idle", "handled"} /\ told = "complete" /\ config.allow
    /\ ~(request.direct /\ request.class = "referential")
  => history = Absent

TaskInv == TypeOK /\ Control /\ Counted /\ Told /\ Ended

USE OrchestrationAssumption, AbsentAssumption
-----------------------------------------------------------------------------
(* Data *)

LEMMA RecordedTyped ==
  ASSUME TypeOK
  PROVE  Recorded \in History /\ (history # Absent => Recorded = history)
<1>1. EmptyHistory \in History
  BY DEF EmptyHistory, History
<1> QED
  BY <1>1 DEF Recorded, TypeOK

LEMMA ObservedTyped ==
  ASSUME TypeOK, history # Absent, NEW n \in 0 .. MaxToolRounds
  PROVE  /\ Observed(n) \in History
         /\ Observed(n).observations = UpTo(history.observations + n, MaxToolRounds)
<1>1. history \in History
  BY DEF TypeOK
<1> QED
  BY <1>1 DEF Observed, UpTo, History

LEMMA RevisedTyped ==
  ASSUME NEW d \in Draft, NEW findings PROVE Revise(d, findings) \in Draft
BY DEF Revise, Improved, Draft, Names, Flags, Effects

LEMMA EntryTyped ==
  ASSUME NEW awaiting \in BOOLEAN, NEW continuation \in BOOLEAN,
         NEW round \in 0 .. MaxToolRounds, NEW override \in BOOLEAN,
         NEW cmd \in Draft \cup {Absent}
  PROVE  Entry(awaiting, continuation, round, override, cmd) \in Entries
BY DEF Entry, Entries

LEMMA CountTyped ==
  ASSUME TypeOK PROVE ReadonlyRoundCount \in 0 .. MaxToolRounds
BY DEF TypeOK, History, ReadonlyRoundCount

\* The answers to the user, which all exits share.
LEMMA FinishKeeps ==
  ASSUME TaskInv, NEW message \in {"asked", "proposed", "complete"},
         Finish(message), pc # "idle",
         entry' \in Entries \cup {Absent}, history' \in History \cup {Absent},
         message = "complete" /\ config.allow
           /\ ~(request.direct /\ request.class = "referential")
         => history' = Absent
  PROVE  TaskInv'
<1> USE DEF TaskInv
<1>0. told # "new"
  BY DEF Control
<1>1. /\ told' = message /\ pc' = "handled" /\ loops' = <<>>
      /\ UNCHANGED <<config, request, rounds, retries, requests, lost>>
  BY DEF Finish, asked, countVars
<1>2. TypeOK'
  <2>1. <<>> \in Seq(Loop)
    OBVIOUS
  <2> QED
    BY <1>1, <2>1 DEF TypeOK
<1>3. Control'
  BY <1>0, <1>1 DEF Control, Looping
<1>4. Counted'
  BY <1>1 DEF Counted
<1>5. Told'
  BY <1>1 DEF Told, FindingReachesRedraft
<1>6. Ended'
  BY <1>1 DEF Ended
<1> QED
  BY <1>2, <1>3, <1>4, <1>5, <1>6

LEMMA QuestionKeeps ==
  ASSUME TaskInv, NEW continuation \in BOOLEAN, NEW round \in 0 .. MaxToolRounds,
         NEW override \in BOOLEAN, Question(continuation, round, override),
         pc # "idle", history' \in History \cup {Absent}
  PROVE  TaskInv'
<1>1. entry' \in Entries
  BY EntryTyped DEF Question
<1> QED
  BY <1>1, FinishKeeps DEF Question

LEMMA ForgetKeeps == ASSUME TaskInv, CompleteAndForget, pc # "idle" PROVE TaskInv'
<1>1. Finish("complete") /\ history' = Absent /\ entry' \in Entries \cup {Absent}
  BY DEF CompleteAndForget, Complete, TaskInv, TypeOK
<1> QED
  BY <1>1, FinishKeeps

LEMMA UnhandledKeeps == ASSUME TaskInv, Unhandled, pc = "reply" PROVE TaskInv'
<1> USE DEF TaskInv
<1>1. /\ history' = Absent
      /\ UNCHANGED <<config, request, entry, loops, told, rounds, requests>>
      /\ \/ pc' = "unhandled" /\ UNCHANGED <<lost, retries>>
         \/ pc' = "redraft" /\ lost' = TRUE /\ retries' = retries + 1 /\ loops # <<>>
  BY DEF Unhandled, asked
<1>2. TypeOK'
  <2>1. pc' \in {"redraft", "unhandled"} /\ lost' \in BOOLEAN /\ retries' \in Nat
    <3>1. pc' \in {"redraft", "unhandled"}
      BY <1>1
    <3>2. lost' = TRUE \/ lost' = lost
      BY <1>1
    <3>3. retries' \in Nat
      BY <1>1 DEF TypeOK
    <3>4. lost' \in BOOLEAN
      BY <3>2 DEF TypeOK
    <3> QED
      BY <3>1, <3>3, <3>4
  <2> QED
    BY <1>1, <2>1 DEF TypeOK
<1>3. Control'
  BY <1>1 DEF Control, Looping
<1>4. Counted'
  BY <1>1 DEF Counted
<1>5. Told'
  BY <1>1 DEF Told, FindingReachesRedraft
<1>6. Ended'
  BY <1>1 DEF Ended
<1> QED
  BY <1>2, <1>3, <1>4, <1>5, <1>6

LEMMA ProposeKeeps ==
  ASSUME TaskInv, pc = "reply", NEW d \in Draft, NEW fromProvider \in BOOLEAN,
         NEW again \in BOOLEAN, Propose(d, fromProvider, again), history' \in History
  PROVE  TaskInv'
<1> USE DEF TaskInv
<1> DEFINE loop == [draft |-> d, fromProvider |-> fromProvider, again |-> again, round |-> 1,
                    override |-> IF entry = Absent THEN config.override ELSE entry.override,
                    toolRound |-> IF entry = Absent THEN 0 ELSE entry.round]
<1>1. loops' = Append(loops, loop) /\ pc' = "draft"
      /\ UNCHANGED <<config, request, entry, told, rounds, retries, requests, lost>>
  BY DEF Propose, asked, countVars
<1>2. loop \in Loop
  <2>1. config.override \in BOOLEAN
    BY DEF TypeOK, Config
  <2>2. entry # Absent => entry.override \in BOOLEAN /\ entry.round \in 0 .. MaxToolRounds
    BY DEF TypeOK, Entries
  <2> QED
    BY <2>1, <2>2 DEF Loop
<1>3. loops' \in Seq(Loop) /\ loops' # <<>>
  <2> HIDE DEF loop
  <2> QED
    BY <1>1, <1>2 DEF TypeOK
<1>4. TypeOK'
  BY <1>1, <1>3 DEF TypeOK
<1>5. Control'
  BY <1>1, <1>3 DEF Control, Looping
<1>6. Counted' /\ Told' /\ Ended'
  BY <1>1 DEF Counted, Told, FindingReachesRedraft, Ended
<1> QED
  BY <1>4, <1>5, <1>6
-----------------------------------------------------------------------------
(* The user's requests and the handlers *)

LEMMA ServeKeeps ==
  ASSUME TaskInv, pc = "idle",
         NEW kind \in {"start", "clarification", "ack"}, NEW modes \in SUBSET {"?", "/p"},
         NEW classes \in SUBSET AllClasses, NEW round \in 0 .. MaxToolRounds,
         Serve(kind, modes, classes, round),
         kind = "ack" => round < MaxToolRounds, kind = "start" => history' = Absent,
         entry' \in Entries \cup {Absent}, history' \in History \cup {Absent}
  PROVE  TaskInv'
<1> USE DEF TaskInv
<1>1. PICK mode \in modes, class \in classes, direct \in BOOLEAN, clear \in BOOLEAN :
        request' = [kind |-> kind, mode |-> mode, class |-> class, direct |-> direct,
                    clear |-> clear, round |-> round]
  BY DEF Serve
<1>2. request' \in Request /\ request'.kind = kind /\ request'.round = round
  BY <1>1 DEF Request
<1>3. /\ pc' = IF kind = "ack" THEN "enter" ELSE "begin"
      /\ told' = "waiting" /\ rounds' = 0 /\ requests' = requests + 1
      /\ UNCHANGED <<config, loops, retries, lost>>
  BY DEF Serve
<1>4. TypeOK'
  BY <1>2, <1>3 DEF TypeOK
<1>5. Control'
  BY <1>2, <1>3 DEF Control, Looping
<1>6. Counted'
  <2>1. Recorded' \in History
    BY <1>4, RecordedTyped DEF Recorded, EmptyHistory, History
  <2>2. Recorded'.observations \in Nat
    BY <2>1 DEF History
  <2> QED
    BY <1>3, <2>2 DEF Counted
<1>7. Told' /\ Ended'
  BY <1>3 DEF Told, FindingReachesRedraft, Ended
<1> QED
  BY <1>4, <1>5, <1>6, <1>7

LEMMA UserKeeps == ASSUME TaskInv, User PROVE TaskInv'
<1> USE DEF TaskInv
<1>0. history \in History \cup {Absent} /\ entry \in Entries \cup {Absent}
  BY DEF TypeOK
<1>1. CASE Start
  <2>1. /\ pc = "idle" /\ history' = Absent /\ entry' = entry
        /\ Serve("start", {"?", "/p"}, Classes, 0)
    BY <1>1 DEF Start, Control
  <2> QED
    BY <1>0, <2>1, ServeKeeps
<1>2. CASE Clarification
  <2>1. request \in Request
    BY <1>2 DEF Clarification, Control
  <2>2. request.mode \in {"?", "/p"} /\ request.class \in AllClasses
    BY <2>1 DEF Request
  <2> DEFINE classes == IF request.mode = "?" THEN Classes ELSE {request.class}
  <2>3. classes \in SUBSET AllClasses
    BY <2>2
  <2>4. /\ pc = "idle" /\ history' = history /\ entry' = entry
        /\ Serve("clarification", {request.mode}, classes, 0)
    BY <1>2 DEF Clarification
  <2> HIDE DEF classes
  <2> QED
    BY <1>0, <2>2, <2>3, <2>4, ServeKeeps
<1>3. CASE Ack
  <2>1. request \in Request
    BY <1>3 DEF Ack, Control
  <2>2. request.mode \in {"?", "/p"}
    BY <2>1 DEF Request
  <2>3. entry.round \in 0 .. MaxToolRounds /\ entry.round < MaxToolRounds
    BY <1>3, <1>0 DEF Ack, Entries
  <2>4. /\ pc = "idle" /\ entry' = Absent /\ history' \in History
        /\ Serve("ack", {request.mode}, {"diagnostic"}, entry.round)
    BY <1>3, RecordedTyped DEF Ack
  <2>5. {"diagnostic"} \in SUBSET AllClasses
    BY DEF AllClasses
  <2> QED
    BY <2>2, <2>3, <2>4, <2>5, ServeKeeps
<1>4. CASE LastAck \/ Decline
  <2>1. /\ pc = "idle" /\ told \in {"asked", "proposed"} /\ told' = "complete"
        /\ entry' = Absent /\ history' = Absent
        /\ UNCHANGED <<pc, config, request, loops, rounds, retries, requests, lost>>
    BY <1>4 DEF LastAck, Decline, asked, countVars
  <2>2. TypeOK'
    BY <2>1 DEF TypeOK
  <2>3. Control'
    BY <2>1 DEF Control, Looping
  <2>4. Counted' /\ Told' /\ Ended'
    BY <2>1 DEF Counted, Told, FindingReachesRedraft, Ended
  <2> QED
    BY <2>2, <2>3, <2>4
<1> QED
  BY <1>1, <1>2, <1>3, <1>4 DEF User

LEMMA BeginKeeps == ASSUME TaskInv, Begin PROVE TaskInv'
<1> USE DEF TaskInv
<1>0. /\ history \in History \cup {Absent} /\ entry \in Entries \cup {Absent}
      /\ config.override \in BOOLEAN
  BY DEF TypeOK, Config
<1>1. CASE PromptForbidden \/ AnswerDocumentation \/ AnswerFromWeb \/ AnswerLocally
  <2>1. /\ pc = "begin" /\ request.kind = "start" /\ Finish("complete")
        /\ UNCHANGED <<entry, history>>
    BY <1>1 DEF PromptForbidden, AnswerDocumentation, AnswerFromWeb, AnswerLocally,
                Beginning, Complete
  <2>2. history' = Absent
    BY <2>1 DEF Control
  <2> QED
    BY <1>0, <2>1, <2>2, FinishKeeps
<1>2. CASE PromptAmbiguous
  <2>1. pc = "begin" /\ Question(FALSE, 0, config.override) /\ history' = history
    BY <1>2 DEF PromptAmbiguous, Beginning
  <2>2. 0 \in 0 .. MaxToolRounds
    OBVIOUS
  <2> QED
    BY <1>0, <2>1, <2>2, QuestionKeeps
<1>3. CASE DetailAmbiguous
  <2>1. /\ pc = "begin" /\ pc' = "idle" /\ told' = "asked" /\ history' = history
        /\ UNCHANGED <<config, request, loops, rounds, retries, requests, lost>>
    BY <1>3 DEF DetailAmbiguous, Beginning, Return, asked, countVars
  <2>2. entry' \in Entries \cup {Absent}
    BY <1>0, <1>3 DEF DetailAmbiguous, Reawait, Entries
  <2>3. TypeOK'
    BY <2>1, <2>2 DEF TypeOK
  <2>4. Control'
    BY <2>1 DEF Control, Looping
  <2>5. Counted' /\ Told' /\ Ended'
    BY <2>1 DEF Counted, Told, FindingReachesRedraft, Ended
  <2> QED
    BY <2>3, <2>4, <2>5
<1>4. CASE Delegate
  <2>1. /\ pc = "begin" /\ pc' = "enter"
        /\ UNCHANGED <<config, request, history, entry, loops, told, rounds, retries,
                       requests, lost>>
    BY <1>4 DEF Delegate, asked, countVars
  <2>2. TypeOK'
    BY <2>1 DEF TypeOK
  <2>3. Control'
    BY <2>1 DEF Control, Looping
  <2>4. rounds <= Recorded.observations
    BY <2>1, RecordedTyped DEF Counted, History
  <2>5. Counted' /\ Told' /\ Ended'
    BY <2>1, <2>4 DEF Counted, Recorded, Told, FindingReachesRedraft, Ended
  <2> QED
    BY <2>2, <2>3, <2>5
<1> QED
  BY <1>1, <1>2, <1>3, <1>4 DEF Begin
-----------------------------------------------------------------------------
(* The orchestration *)

LEMMA SeedKeeps == ASSUME TaskInv, Seed PROVE TaskInv'
<1> USE DEF TaskInv
<1>1. /\ pc = "enter" /\ pc' = "reply" /\ history' = [Recorded EXCEPT !.system = TRUE]
      /\ UNCHANGED <<config, request, entry, loops, told, rounds, retries, requests, lost>>
  BY DEF Seed, asked, countVars
<1>2. history' \in History /\ history'.observations = Recorded.observations
  BY <1>1, RecordedTyped DEF History
<1>3. TypeOK'
  BY <1>1, <1>2 DEF TypeOK
<1>4. Control'
  BY <1>1, <1>2 DEF Control, Looping
<1>5. Counted'
  <2>1. Recorded' = history'
    BY <1>2 DEF Recorded
  <2> QED
    BY <1>1, <1>2, <2>1 DEF Counted
<1>6. Told' /\ Ended'
  BY <1>1 DEF Told, FindingReachesRedraft, Ended
<1> QED
  BY <1>3, <1>4, <1>5, <1>6

LEMMA ReadToolsKeeps == ASSUME TaskInv, ReadTools PROVE TaskInv'
<1> USE DEF TaskInv
<1>1. pc = "reply" /\ history # Absent
  BY DEF ReadTools, Control
<1>2. PICK n \in 1 .. MaxToolRounds :
        /\ history' = Observed(n) /\ history'.observations < MaxToolRounds
        /\ pc' = "enter" /\ rounds' = rounds + 1
  BY DEF ReadTools
<1>3. UNCHANGED <<config, request, entry, loops, told, retries, requests, lost>>
  BY DEF ReadTools, asked
<1>4. /\ history' \in History
      /\ history'.observations = UpTo(history.observations + n, MaxToolRounds)
  BY <1>1, <1>2, ObservedTyped
<1>5. Recorded = history /\ Recorded' = history'
  BY <1>1, <1>4 DEF Recorded
<1>6. rounds' <= history'.observations /\ rounds' \in Nat
  <2>1. history.observations \in Nat /\ rounds \in Nat /\ rounds <= history.observations
    BY <1>1, <1>5 DEF TypeOK, History, Counted
  <2>2. history'.observations = history.observations + n
    BY <1>2, <1>4, <2>1 DEF UpTo
  <2> QED
    BY <1>2, <2>1, <2>2
<1>7. TypeOK'
  BY <1>2, <1>3, <1>4, <1>6 DEF TypeOK
<1>8. Control'
  BY <1>1, <1>2, <1>3, <1>4 DEF Control, Looping
<1>9. Counted'
  <2>1. history'.observations \in Nat
    BY <1>4 DEF History
  <2> QED
    BY <1>2, <1>5, <1>6, <2>1 DEF Counted
<1>10. Told' /\ Ended'
  BY <1>2, <1>3 DEF Told, FindingReachesRedraft, Ended
<1> QED
  BY <1>7, <1>8, <1>9, <1>10

LEMMA ExecuteKeeps ==
  ASSUME TaskInv, pc = "reply", NEW d \in Drafts, NEW fromProvider \in BOOLEAN,
         NEW again \in BOOLEAN, Propose(d, fromProvider, again),
         NEW h \in History, history' = [h EXCEPT !.finding = FALSE]
  PROVE  TaskInv'
<1>1. history' \in History
  BY DEF History
<1>2. d \in Draft
  OBVIOUS
<1> QED
  BY <1>1, <1>2, ProposeKeeps

LEMMA TemplateKeeps == ASSUME TaskInv, pc = "reply", Template PROVE TaskInv'
<1>1. history \in History
  BY DEF TaskInv, TypeOK, Control
<1>2. PICK d \in Drafts : Propose(d, FALSE, FALSE)
  BY DEF Template
<1>3. history' = [history EXCEPT !.finding = FALSE]
  BY DEF Template
<1> QED
  BY <1>1, <1>2, <1>3, ExecuteKeeps

LEMMA OrchestrateKeeps == ASSUME TaskInv, Orchestrate PROVE TaskInv'
<1> USE DEF TaskInv
<1>0. /\ history \in History \cup {Absent} /\ entry \in Entries \cup {Absent}
      /\ config.override \in BOOLEAN /\ 0 \in 0 .. MaxToolRounds
      /\ MaxToolRounds \in 0 .. MaxToolRounds
      /\ ReadonlyRoundCount \in 0 .. MaxToolRounds
  BY CountTyped DEF TypeOK, Config
<1>1. CASE AnswerFromTerminal
  <2>1. pc = "enter" /\ Finish("complete") /\ UNCHANGED <<entry, history>>
        /\ request.direct /\ request.class = "referential"
    BY <1>1 DEF AnswerFromTerminal, Complete, Direct
  <2> QED
    BY <1>0, <2>1, FinishKeeps
<1>2. CASE AnswerDirectly \/ ProviderFails \/ AnswerFromObservation
  <2>1. CompleteAndForget /\ pc # "idle"
    BY <1>2 DEF AnswerDirectly, ProviderFails, AnswerFromObservation
  <2> QED
    BY <2>1, ForgetKeeps
<1>3. CASE Seed
  BY <1>3, SeedKeeps
<1>4. CASE DirectText
  <2>1. pc = "reply"
    BY <1>4 DEF DirectText
  <2>2. CASE CompleteAndForget
    BY <2>1, <2>2, ForgetKeeps
  <2>3. CASE ~CompleteAndForget
    <3>1. PICK round \in {0, ReadonlyRoundCount} : Question(TRUE, round, config.override)
      BY <1>4, <2>3 DEF DirectText
    <3>2. history' = history
      BY <1>4, <2>3 DEF DirectText
    <3>3. round \in 0 .. MaxToolRounds
      BY <1>0
    <3> QED
      BY <1>0, <2>1, <3>1, <3>2, <3>3, QuestionKeeps
  <2> QED
    BY <2>2, <2>3
<1>5. ASSUME NEW round \in 0 .. MaxToolRounds, AskOrTemplate(round), pc = "reply" PROVE TaskInv'
  <2>1. CASE Question(TRUE, round, config.override) /\ history' = history
    BY <1>0, <1>5, <2>1, QuestionKeeps
  <2>2. CASE Template
    BY <1>5, <2>2, TemplateKeeps
  <2> QED
    BY <1>5, <2>1, <2>2 DEF AskOrTemplate
<1>6. CASE CommandText
  <2>1. pc = "reply" /\ (AskOrTemplate(0) \/ CompleteAndForget)
    BY <1>6 DEF CommandText
  <2> QED
    BY <1>0, <1>5, <2>1, ForgetKeeps
<1>7. CASE SessionText
  <2>1. pc = "reply"
    BY <1>7 DEF SessionText
  <2>2. CompleteAndForget \/ (Question(TRUE, 0, config.override) /\ history' = history)
    BY <1>7 DEF SessionText
  <2> QED
    BY <1>0, <2>1, <2>2, ForgetKeeps, QuestionKeeps
<1>8. CASE NothingUsable
  <2>1. pc = "reply"
    BY <1>8 DEF NothingUsable
  <2>2. Unhandled \/ \E round \in {0, ReadonlyRoundCount} : AskOrTemplate(round)
    BY <1>8 DEF NothingUsable
  <2>3. CASE Unhandled
    BY <2>1, <2>3, UnhandledKeeps
  <2>4. CASE \E round \in {0, ReadonlyRoundCount} : AskOrTemplate(round)
    <3>1. PICK round \in {0, ReadonlyRoundCount} : AskOrTemplate(round)
      BY <2>4
    <3>2. round \in 0 .. MaxToolRounds
      BY <1>0
    <3> QED
      BY <1>5, <2>1, <3>1, <3>2
  <2> QED
    BY <2>2, <2>3, <2>4
<1>9. CASE ReadTools
  BY <1>9, ReadToolsKeeps
<1>10. CASE ToolRoundLimit
  <2>1. pc = "reply" /\ history # Absent
    BY <1>10 DEF ToolRoundLimit, Control
  <2>2. CASE CompleteAndForget
    BY <2>1, <2>2, ForgetKeeps
  <2>3. CASE ~CompleteAndForget
    <3>1. Question(TRUE, MaxToolRounds, config.override) /\ history' = Observed(MaxToolRounds)
      BY <1>10, <2>3 DEF ToolRoundLimit
    <3>2. history' \in History
      BY <1>0, <2>1, <3>1, ObservedTyped
    <3> QED
      BY <1>0, <2>1, <3>1, <3>2, QuestionKeeps
  <2> QED
    BY <2>2, <2>3
<1>11. CASE AskClarification
  <2>1. pc = "reply" /\ history # Absent
    BY <1>11 DEF AskClarification, Control
  <2>2. PICK n \in 0 .. MaxToolRounds :
          history' = Observed(n) /\ Question(TRUE, history'.observations, config.override)
    BY <1>11 DEF AskClarification
  <2>3. history' \in History
    BY <2>1, <2>2, ObservedTyped
  <2>4. history'.observations \in 0 .. MaxToolRounds
    BY <2>3 DEF History
  <2> QED
    BY <1>0, <2>1, <2>2, <2>3, <2>4, QuestionKeeps
<1>12. CASE ExecuteCall
  <2>1. pc = "reply" /\ history # Absent
    BY <1>12 DEF ExecuteCall, Control
  <2>2. PICK d \in Drafts, again \in BOOLEAN : Propose(d, TRUE, again)
    BY <1>12 DEF ExecuteCall
  <2>3. PICK n \in 0 .. MaxToolRounds : history' = [Observed(n) EXCEPT !.finding = FALSE]
    BY <1>12 DEF ExecuteCall
  <2>4. Observed(n) \in History
    BY <2>1, ObservedTyped
  <2> QED
    BY <2>1, <2>2, <2>3, <2>4, ExecuteKeeps
<1> QED
  BY <1>1, <1>2, <1>3, <1>4, <1>6, <1>7, <1>8, <1>9, <1>10, <1>11, <1>12 DEF Orchestrate
-----------------------------------------------------------------------------
(* The planning loop *)

LEMMA RunningTyped ==
  ASSUME TaskInv, pc \in Looping
  PROVE  /\ Running \in Loop /\ Len(loops) \in DOMAIN loops
         /\ \A loop \in Loop : Amend(loop) \in Seq(Loop) /\ Amend(loop) # <<>>
<1>1. loops \in Seq(Loop) /\ loops # <<>>
  BY DEF TaskInv, TypeOK, Control
<1>2. Len(loops) \in DOMAIN loops
  BY <1>1
<1> QED
  BY <1>1, <1>2 DEF Running, Amend

\* A step of the loop that keeps it on the stack.
LEMMA LoopKeeps ==
  ASSUME TaskInv, pc \in Looping, pc' \in Looping, history' \in History \cup {Absent},
         loops' \in Seq(Loop), loops' # <<>>, retries' \in Nat, lost' \in BOOLEAN,
         UNCHANGED <<config, request, entry, told, rounds, requests>>,
         pc' = "fallback" => history' # Absent /\ history'.finding,
         pc' = "redraft" => lost' \/ (history' # Absent /\ history'.finding)
  PROVE  TaskInv'
<1> USE DEF TaskInv
<1>1. TypeOK'
  BY DEF TypeOK, Looping
<1>2. Control'
  BY DEF Control, Looping
<1>3. Counted'
  BY DEF Counted, Looping
<1>4. Told'
  BY DEF Told, FindingReachesRedraft
<1>5. Ended'
  BY DEF Ended, Looping
<1> QED
  BY <1>1, <1>2, <1>3, <1>4, <1>5

LEMMA PlanKeeps == ASSUME TaskInv, Plan PROVE TaskInv'
<1> USE DEF TaskInv
<1>0. /\ history \in History \cup {Absent} /\ entry \in Entries \cup {Absent}
      /\ Recorded \in History /\ retries \in Nat /\ lost \in BOOLEAN
      /\ loops \in Seq(Loop)
  BY RecordedTyped DEF TypeOK
<1>1. pc \in Looping /\ Running \in Loop /\ loops # <<>>
  <2>1. pc \in Looping
    BY DEF Plan, FloorRefused, Surface, Refuse, WebFallback, NoFallback, Redraft, NoRedraft,
           Unvalidated, ReviseDraft, Looping
  <2> QED
    BY <2>1, RunningTyped DEF Control
<1>2. /\ Running.draft \in Draft /\ Running.again \in BOOLEAN /\ Running.override \in BOOLEAN
      /\ Running.toolRound \in 0 .. MaxToolRounds /\ Running.round \in Nat
  BY <1>1 DEF Loop
<1>3. pc # "idle"
  BY <1>1 DEF Looping
<1>4. \A h \in History, b \in BOOLEAN :
        [h EXCEPT !.finding = b] \in History /\ [h EXCEPT !.finding = b].finding = b
  BY DEF History
<1> HIDE DEF TaskInv
<1>4a. ASSUME NEW loop \in Loop, NEW d \in Draft
       PROVE  [loop EXCEPT !.draft = d, !.round = @ + 1] \in Loop
  <2>1. loop.round \in Nat
    BY DEF Loop
  <2>2. \A n \in Nat : [loop EXCEPT !.draft = d, !.round = n] \in Loop
    BY DEF Loop
  <2>3. loop.round + 1 \in Nat
    BY <2>1
  <2> QED
    BY <2>2, <2>3
<1> USE DEF TaskInv
<1>5. CASE FloorRefused
  <2>1. CASE config.allow
    <3>1. Question(TRUE, Running.toolRound, Running.override) /\ history' = Recorded
      BY <1>5, <2>1 DEF FloorRefused, AskAboutDraft
    <3> QED
      BY <1>0, <1>2, <1>3, <3>1, QuestionKeeps
  <2>2. CASE ~config.allow
    <3>1. Finish("complete") /\ entry' = Absent /\ history' = Absent
      BY <1>5, <2>2 DEF FloorRefused
    <3> QED
      BY <1>3, <3>1, FinishKeeps
  <2> QED
    BY <2>1, <2>2
<1>6. CASE Surface
  <2>1. /\ Finish("proposed") /\ history' = history
        /\ entry' = Entry(FALSE, Running.again, Running.toolRound, Running.override,
                          Running.draft)
    BY <1>6 DEF Surface
  <2>2. entry' \in Entries
    BY <1>2, <2>1, EntryTyped
  <2> QED
    BY <1>0, <1>3, <2>1, <2>2, FinishKeeps
<1>7. CASE Refuse
  <2>1. /\ pc' = "fallback" /\ history' = [Recorded EXCEPT !.finding = TRUE]
        /\ UNCHANGED <<config, request, entry, loops, told, rounds, retries, requests, lost>>
    BY <1>7 DEF Refuse, asked, countVars
  <2>2. history' \in History /\ history'.finding /\ history' # Absent
    BY <1>0, <1>4, <2>1
  <2>3. pc' \in Looping
    BY <2>1 DEF Looping
  <2> QED
    BY <1>0, <1>1, <2>1, <2>2, <2>3, LoopKeeps
<1>8. CASE WebFallback
  <2>1. /\ pc' = "enter" /\ rounds' = 0
        /\ history' = [Recorded EXCEPT !.fallbacks = UpTo(@ + 1, MaxPlanningRounds)]
        /\ UNCHANGED <<config, request, entry, loops, told, retries, requests, lost>>
    BY <1>8 DEF WebFallback, asked
  <2>2. history' \in History
    BY <1>0, <2>1 DEF History, UpTo
  <2>3. TypeOK'
    BY <2>1, <2>2 DEF TypeOK
  <2>4. Control'
    BY <1>1, <2>1, <2>2 DEF Control, Looping
  <2>5. Counted'
    <3>1. Recorded' = history'
      BY <2>2 DEF Recorded
    <3>2. history'.observations \in Nat
      BY <2>2 DEF History
    <3> QED
      BY <2>1, <3>1, <3>2 DEF Counted
  <2>6. Told' /\ Ended'
    BY <2>1 DEF Told, FindingReachesRedraft, Ended
  <2> QED
    BY <2>3, <2>4, <2>5, <2>6
<1>9. CASE NoFallback
  <2>1. /\ pc = "fallback" /\ pc' = "redraft"
        /\ UNCHANGED <<config, request, history, entry, loops, told, rounds, retries, requests,
                       lost>>
    BY <1>9 DEF NoFallback, asked, countVars
  <2>2. history' # Absent /\ history'.finding
    BY <2>1 DEF Control, Told
  <2>3. pc' \in Looping
    BY <2>1 DEF Looping
  <2> QED
    BY <1>0, <1>1, <2>1, <2>2, <2>3, LoopKeeps
<1>10. CASE Redraft
  <2>1. PICK d \in Drafts : loops' = Amend([Running EXCEPT !.draft = d, !.round = @ + 1])
    BY <1>10 DEF Redraft
  <2>2. [Running EXCEPT !.draft = d, !.round = @ + 1] \in Loop
    BY <1>1, <1>4a
  <2>3. loops' \in Seq(Loop) /\ loops' # <<>>
    BY <1>1, <2>1, <2>2, RunningTyped
  <2>4. /\ pc' = "draft" /\ history' = [Recorded EXCEPT !.finding = FALSE]
        /\ retries' = retries + 1 /\ lost' = FALSE
        /\ UNCHANGED <<config, request, entry, told, rounds, requests>>
    BY <1>10 DEF Redraft, asked
  <2>5. history' \in History /\ pc' \in Looping /\ lost' \in BOOLEAN
    BY <1>0, <1>4, <2>4 DEF Looping
  <2>6. retries' \in Nat
    BY <1>0, <2>4
  <2> QED
    BY <1>1, <2>3, <2>4, <2>5, <2>6, LoopKeeps
<1>11. CASE NoRedraft
  <2>1. /\ pc' = "revise" /\ history' = Recorded /\ lost' = FALSE
        /\ UNCHANGED <<config, request, entry, loops, told, rounds, retries, requests>>
    BY <1>11 DEF NoRedraft, asked
  <2>2. pc' \in Looping /\ lost' \in BOOLEAN
    BY <2>1 DEF Looping
  <2> QED
    BY <1>0, <1>1, <2>1, <2>2, LoopKeeps
<1>12. CASE Unvalidated
  <2>1. history' = history
    BY <1>12 DEF Unvalidated
  <2>2. CASE config.allow
    <3>1. Question(Running.again, Running.toolRound, Running.override)
      BY <1>12, <2>2 DEF Unvalidated, AskAboutDraft
    <3> QED
      BY <1>0, <1>2, <1>3, <2>1, <3>1, QuestionKeeps
  <2>3. CASE ~config.allow
    <3>1. Finish("complete") /\ entry' = entry
      BY <1>12, <2>3 DEF Unvalidated, Complete
    <3> QED
      BY <1>0, <1>3, <2>1, <2>3, <3>1, FinishKeeps
  <2> QED
    BY <2>2, <2>3
<1>13. CASE ReviseDraft
  <2>1. loops' = Amend([Running EXCEPT !.draft = Revised, !.round = @ + 1])
    BY <1>13 DEF ReviseDraft
  <2>2. Revised \in Draft
    BY <1>2, RevisedTyped DEF Revised
  <2>3. [Running EXCEPT !.draft = Revised, !.round = @ + 1] \in Loop
    BY <1>1, <1>4a, <2>2
  <2>4. loops' \in Seq(Loop) /\ loops' # <<>>
    BY <1>1, <2>1, <2>3, RunningTyped
  <2>5. /\ pc' = "draft" /\ history' = [Recorded EXCEPT !.finding = FALSE]
        /\ UNCHANGED <<config, request, entry, told, rounds, retries, requests, lost>>
    BY <1>13 DEF ReviseDraft, asked, countVars
  <2>6. history' \in History /\ pc' \in Looping
    BY <1>0, <1>4, <2>5 DEF Looping
  <2> QED
    BY <1>0, <1>1, <2>4, <2>5, <2>6, LoopKeeps
<1> QED
  BY <1>5, <1>6, <1>7, <1>8, <1>9, <1>10, <1>11, <1>12, <1>13 DEF Plan
-----------------------------------------------------------------------------
(* What the handlers do with the verdict *)

LEMMA ReturnKeeps ==
  ASSUME TaskInv, pc \in {"handled", "unhandled"},
         NEW answer \in {"asked", "proposed", "complete"}, Return(answer),
         entry' \in Entries \cup {Absent}, history' \in {history, Absent},
         pc = "handled" => answer = told,
         pc = "unhandled" /\ answer = "complete" => history' = Absent
  PROVE  TaskInv'
<1> USE DEF TaskInv
<1>1. /\ told' = answer /\ pc' = "idle"
      /\ UNCHANGED <<config, request, loops, rounds, retries, requests, lost>>
  BY DEF Return, asked, countVars
<1>2. TypeOK'
  BY <1>1 DEF TypeOK
<1>3. Control'
  BY <1>1 DEF Control, Looping
<1>4. Counted' /\ Told'
  BY <1>1 DEF Counted, Told, FindingReachesRedraft
<1>5. Ended'
  BY <1>1 DEF Ended
<1> QED
  BY <1>2, <1>3, <1>4, <1>5

LEMMA ReawaitTyped ==
  ASSUME entry \in Entries \cup {Absent}, NEW b \in BOOLEAN, Reawait(b)
  PROVE  entry' \in Entries \cup {Absent}
BY DEF Reawait, Entries

LEMMA SettleKeeps == ASSUME TaskInv, Settle PROVE TaskInv'
<1> USE DEF TaskInv
<1>0. entry \in Entries \cup {Absent}
  BY DEF TypeOK
<1>1. pc = "handled" => told \in {"asked", "proposed", "complete"}
  BY DEF TypeOK, Control
<1>2. CASE StartHandled
  <2>1. pc = "handled" /\ Return(told) /\ entry' = entry /\ history' = history
    BY <1>2 DEF StartHandled, Handled
  <2> QED
    BY <1>0, <1>1, <2>1, ReturnKeeps
<1>3. CASE StartUnhandled
  <2>1. /\ pc = "unhandled" /\ Return("asked") /\ history' = history
        /\ entry' = Entry(TRUE, TRUE, 0, config.override, Absent)
    BY <1>3 DEF StartUnhandled, NotHandled
  <2>2. config.override \in BOOLEAN /\ 0 \in 0 .. MaxToolRounds
    BY DEF TypeOK, Config
  <2>3. entry' \in Entries
    BY <2>1, <2>2, EntryTyped
  <2> QED
    BY <2>1, <2>3, ReturnKeeps
<1>4. CASE ClarificationHandled
  <2>1. pc = "handled" /\ Return(told) /\ Reawait(FALSE) /\ history' = history
    BY <1>4 DEF ClarificationHandled, Handled
  <2> QED
    BY <1>0, <1>1, <2>1, ReturnKeeps, ReawaitTyped
<1>5. CASE ClarificationUnhandled
  <2>1. pc = "unhandled" /\ Return("asked") /\ Reawait(TRUE) /\ history' = history
    BY <1>5 DEF ClarificationUnhandled, NotHandled
  <2> QED
    BY <1>0, <2>1, ReturnKeeps, ReawaitTyped
<1>6. CASE AckHandled
  <2>1. pc = "handled" /\ Return(told) /\ history' = history
    BY <1>6 DEF AckHandled, Handled
  <2>2. request \in Request /\ request.round < MaxToolRounds
    BY <1>6, <2>1 DEF AckHandled, Handled, Control
  <2>3. request.round + 1 \in 0 .. MaxToolRounds
    BY <2>2 DEF Request
  <2>4. entry' \in Entries \cup {Absent}
    BY <1>0, <1>6, <2>3 DEF AckHandled, Entries
  <2> QED
    BY <1>1, <2>1, <2>4, ReturnKeeps
<1>7. CASE AckUnhandled
  <2>1. pc = "unhandled" /\ Return("complete") /\ history' = Absent /\ entry' = entry
    BY <1>7 DEF AckUnhandled, NotHandled
  <2> QED
    BY <1>0, <2>1, ReturnKeeps
<1> QED
  BY <1>2, <1>3, <1>4, <1>5, <1>6, <1>7 DEF Settle
-----------------------------------------------------------------------------
(* The theorems *)

LEMMA TaskInit == Init => TaskInv
<1> SUFFICES ASSUME Init PROVE TaskInv
  OBVIOUS
<1>1. TypeOK
  <2>1. <<>> \in Seq(Loop)
    OBVIOUS
  <2>2. config \in Config /\ history \in History \cup {Absent} /\ entry \in Entries \cup {Absent}
    BY DEF Init
  <2> QED
    BY <2>1, <2>2 DEF Init, TypeOK
<1>2. Control /\ Counted /\ Told /\ Ended
  BY DEF Init, Control, Counted, Told, FindingReachesRedraft, Ended, Looping
<1> QED
  BY <1>1, <1>2 DEF TaskInv

LEMMA TaskStep == TaskInv /\ [Next]_vars => TaskInv'
<1> SUFFICES ASSUME TaskInv, [Next]_vars PROVE TaskInv'
  OBVIOUS
<1>1. CASE Next
  BY <1>1, UserKeeps, BeginKeeps, OrchestrateKeeps, PlanKeeps, SettleKeeps DEF Next, Daemon
<1>2. CASE UNCHANGED vars
  <2>1. /\ UNCHANGED <<config, pc, request, history, entry, loops, told>>
        /\ UNCHANGED <<rounds, retries, requests, lost>>
    BY <1>2 DEF vars, asked, countVars
  <2>2. TypeOK'
    BY <2>1 DEF TaskInv, TypeOK
  <2>3. Control' /\ Counted' /\ Told' /\ Ended'
    BY <2>1 DEF TaskInv, Control, Counted, Recorded, Told, FindingReachesRedraft, Ended
  <2> QED
    BY <2>2, <2>3 DEF TaskInv
<1> QED
  BY <1>1, <1>2

LEMMA TaskInvariant == Spec => []TaskInv
<1> QED
  BY TaskInit, TaskStep, PTL DEF Spec

\* The rounds of read-only tools in a row stay below the limit, and every
\* variable keeps its type, for any limit and any replies of the model.
THEOREM RoundsBoundedCorrect == Spec => []ReadonlyRoundsBounded
<1>1. TaskInv => ReadonlyRoundsBounded
  BY DEF TaskInv, Counted, ReadonlyRoundsBounded
<1> QED
  BY <1>1, TaskInvariant, PTL

\* The verdict on a draft is in the conversation a redraft is asked for in.
THEOREM FindingReachesCorrect == Spec => []FindingReachesRedraft
<1>1. TaskInv => FindingReachesRedraft
  BY DEF TaskInv, Told
<1> QED
  BY <1>1, TaskInvariant, PTL

\* No exit of the orchestration leaves the conversation of an ended task behind.
THEOREM ConversationEndsCorrect == Spec => []ConversationEnds
<1>1. TaskInv => ConversationEnds
  BY DEF TaskInv, Ended, ConversationEnds, Direct
<1> QED
  BY <1>1, TaskInvariant, PTL
-----------------------------------------------------------------------------
(* Implementation of OrchestrationPromise *)

\* What the flags were checked for, a draft that was not proposed by the model
\* need not be checked for.
LEMMA FindingsCovered ==
  ASSUME NEW d \in Draft, NEW fromProvider \in BOOLEAN, Findings(d, fromProvider) = {}
  PROVE  Findings(d, FALSE) = {}
<1>1. d.name # "none"
  BY DEF Findings
<1> DEFINE kinds == {"unknown_command", "parse_ambiguous", "parse_ambiguous_risky",
                     "missing_grounding", "unsupported_flag", "insufficient_for_prompt"}
<1>2. d.name = "known" /\ ~Ambiguous(d) /\ d.grounded /\ Suffices(d)
  BY <1>1 DEF Findings
<1> QED
  BY <1>1, <1>2 DEF Findings, FlagsAreChecked

\* An exit of the orchestration answers the open request.
LEMMA FinishAnswers ==
  ASSUME TaskInv, pc \notin {"idle", "handled"}, NEW message \in {"asked", "complete"},
         Finish(message)
  PROVE  Promise!Next
<1>1. told = "waiting" /\ told' = message
  BY DEF TaskInv, Control, Finish
<1>2. Offer = Absent /\ Offer' = Absent
  BY <1>1 DEF Offer
<1> QED
  BY <1>1, <1>2 DEF Promise!Next, Promise!Answer

LEMMA QuietStutters ==
  ASSUME TaskInv, pc \notin {"idle", "handled"}, told' = told
  PROVE  UNCHANGED <<told, Offer>>
<1>1. told = "waiting"
  BY DEF TaskInv, Control
<1> QED
  BY <1>1 DEF Offer

LEMMA UserPromise == ASSUME TaskInv, User PROVE Promise!Next
<1>1. CASE Start \/ Clarification \/ Ack
  <2>1. told \in {"new", "asked", "proposed"} /\ told' = "waiting"
    BY <1>1 DEF Start, Clarification, Ack, Serve
  <2>2. Offer' = Absent
    BY <2>1 DEF Offer
  <2> QED
    BY <2>1, <2>2 DEF Promise!Next, Promise!Take
<1>2. CASE LastAck \/ Decline
  <2>1. told \in {"asked", "proposed"} /\ told' = "complete"
    BY <1>2 DEF LastAck, Decline
  <2>2. Offer' = Absent
    BY <2>1 DEF Offer
  <2> QED
    BY <2>1, <2>2 DEF Promise!Next, Promise!GiveUp
<1> QED
  BY <1>1, <1>2 DEF User

LEMMA BeginPromise ==
  ASSUME TaskInv, Begin PROVE Promise!Next \/ UNCHANGED <<told, Offer>>
<1>1. CASE PromptForbidden \/ AnswerDocumentation \/ AnswerFromWeb \/ AnswerLocally
  <2>1. pc = "begin" /\ Finish("complete")
    BY <1>1 DEF PromptForbidden, AnswerDocumentation, AnswerFromWeb, AnswerLocally, Beginning,
                Complete
  <2> QED
    BY <2>1, FinishAnswers
<1>2. CASE PromptAmbiguous
  <2>1. pc = "begin" /\ Finish("asked")
    BY <1>2 DEF PromptAmbiguous, Beginning, Question
  <2> QED
    BY <2>1, FinishAnswers
<1>3. CASE DetailAmbiguous
  <2>1. told = "waiting" /\ told' = "asked"
    BY <1>3 DEF DetailAmbiguous, Beginning, Return, TaskInv, Control
  <2>2. Offer = Absent /\ Offer' = Absent
    BY <2>1 DEF Offer
  <2> QED
    BY <2>1, <2>2 DEF Promise!Next, Promise!Answer
<1>4. CASE Delegate
  <2>1. pc = "begin" /\ told' = told
    BY <1>4 DEF Delegate
  <2> QED
    BY <2>1, QuietStutters
<1> QED
  BY <1>1, <1>2, <1>3, <1>4 DEF Begin

LEMMA OrchestratePromise ==
  ASSUME TaskInv, Orchestrate PROVE Promise!Next \/ UNCHANGED <<told, Offer>>
<1>1. pc \notin {"idle", "handled"}
  BY DEF Orchestrate, AnswerFromTerminal, AnswerDirectly, Seed, ProviderFails, DirectText,
         CommandText, SessionText, NothingUsable, ReadTools, ToolRoundLimit,
         AnswerFromObservation, AskClarification, ExecuteCall
<1>2. told' = told \/ Finish("asked") \/ Finish("complete")
  <2>1. ASSUME NEW d, NEW fromProvider, NEW again, Propose(d, fromProvider, again)
        PROVE  told' = told
    BY <2>1 DEF Propose
  <2>2. ASSUME NEW round, AskOrTemplate(round) PROVE told' = told \/ Finish("asked")
    BY <2>1, <2>2 DEF AskOrTemplate, Template, Question
  <2>3. ASSUME CompleteAndForget PROVE Finish("complete")
    BY <2>3 DEF CompleteAndForget, Complete
  <2>4. CASE AnswerFromTerminal \/ AnswerDirectly \/ ProviderFails \/ AnswerFromObservation
    BY <2>3, <2>4 DEF AnswerFromTerminal, AnswerDirectly, ProviderFails,
                      AnswerFromObservation, Complete
  <2>5. CASE Seed \/ ReadTools
    BY <2>5 DEF Seed, ReadTools
  <2>6. CASE DirectText \/ SessionText \/ ToolRoundLimit \/ AskClarification
    BY <2>3, <2>6 DEF DirectText, SessionText, ToolRoundLimit, AskClarification, Question
  <2>7. CASE CommandText \/ NothingUsable
    BY <2>2, <2>3, <2>7 DEF CommandText, NothingUsable, Unhandled
  <2>8. CASE ExecuteCall
    BY <2>1, <2>8 DEF ExecuteCall
  <2> QED
    BY <2>4, <2>5, <2>6, <2>7, <2>8 DEF Orchestrate
<1> QED
  BY <1>1, <1>2, FinishAnswers, QuietStutters

LEMMA PlanPromise ==
  ASSUME TaskInv, Plan PROVE Promise!Next \/ UNCHANGED <<told, Offer>>
<1>1. pc \in Looping
  BY DEF Plan, FloorRefused, Surface, Refuse, WebFallback, NoFallback, Redraft, NoRedraft,
         Unvalidated, ReviseDraft, Looping
<1>2. pc \notin {"idle", "handled"}
  BY <1>1 DEF Looping
<1>3. CASE Surface
  <2>1. Running \in Loop
    BY <1>1, RunningTyped
  <2>2. Running.draft \in Draft /\ Running.again \in BOOLEAN /\ Running.override \in BOOLEAN
        /\ Running.toolRound \in 0 .. MaxToolRounds /\ Running.fromProvider \in BOOLEAN
    BY <2>1 DEF Loop
  <2>3. /\ ~Running.draft.floor /\ Findings(Running.draft, Running.fromProvider) = {}
        /\ Finish("proposed")
        /\ entry' = Entry(FALSE, Running.again, Running.toolRound, Running.override,
                          Running.draft)
    BY <1>3 DEF Surface, FindingsNow
  <2>4. Running.draft \in Valid
    BY <2>2, <2>3, FindingsCovered DEF Valid
  <2>5. entry' \in Entries /\ entry'.cmd = Running.draft
    BY <2>2, <2>3, EntryTyped DEF Entry
  <2>6. told = "waiting" /\ told' = "proposed"
    BY <1>2, <2>3 DEF TaskInv, Control, Finish
  <2>7. Offer' = Running.draft
    BY <2>5, <2>6 DEF Offer
  <2> QED
    BY <2>4, <2>6, <2>7 DEF Promise!Next, Promise!Answer
<1>4. CASE FloorRefused \/ Unvalidated
  <2>1. Finish("asked") \/ Finish("complete")
    BY <1>4 DEF FloorRefused, Unvalidated, AskAboutDraft, Question, Complete
  <2> QED
    BY <1>2, <2>1, FinishAnswers
<1>5. CASE Refuse \/ WebFallback \/ NoFallback \/ Redraft \/ NoRedraft \/ ReviseDraft
  <2>1. told' = told
    BY <1>5 DEF Refuse, WebFallback, NoFallback, Redraft, NoRedraft, ReviseDraft
  <2> QED
    BY <1>2, <2>1, QuietStutters
<1> QED
  BY <1>3, <1>4, <1>5 DEF Plan

LEMMA SettlePromise ==
  ASSUME TaskInv, Settle PROVE Promise!Next \/ UNCHANGED <<told, Offer>>
<1>1. CASE StartHandled \/ ClarificationHandled \/ AckHandled
  <2>1. told' = told
    BY <1>1 DEF StartHandled, ClarificationHandled, AckHandled, Return
  <2>2. entry = Absent => entry' = Absent
    BY <1>1 DEF StartHandled, ClarificationHandled, AckHandled, Reawait
  <2>3. entry # Absent => entry' # Absent /\ entry'.cmd = entry.cmd
    <3>1. TypeOK /\ TaskInv' /\ Control
      BY SettleKeeps DEF TaskInv
    <3>2. CASE StartHandled
      BY <3>2 DEF StartHandled
    <3>3. ASSUME entry # Absent, NEW b \in BOOLEAN, Reawait(b)
          PROVE  entry' \in Entries /\ entry'.cmd = entry.cmd
      BY <3>1, <3>3 DEF Reawait, Entries, TypeOK
    <3>4. CASE ClarificationHandled
      BY <3>3, <3>4 DEF ClarificationHandled
    <3>5. CASE AckHandled
      <4>1. request \in Request /\ request.round < MaxToolRounds
        BY <3>1, <3>5 DEF AckHandled, Handled, Control
      <4>2. request.round + 1 \in 0 .. MaxToolRounds
        BY <4>1 DEF Request
      <4> QED
        BY <3>1, <3>5, <4>2 DEF AckHandled, Entries, TypeOK
    <3> QED
      BY <1>1, <3>2, <3>4, <3>5
  <2> QED
    BY <2>1, <2>2, <2>3 DEF Offer
<1>2. CASE StartUnhandled \/ ClarificationUnhandled \/ AckUnhandled
  <2>1. told = "waiting" /\ told' \in {"asked", "complete"}
    BY <1>2 DEF StartUnhandled, ClarificationUnhandled, AckUnhandled, NotHandled, Return,
                TaskInv, Control
  <2>2. Offer = Absent /\ Offer' = Absent
    BY <2>1 DEF Offer
  <2> QED
    BY <2>1, <2>2 DEF Promise!Next, Promise!Answer
<1> QED
  BY <1>1, <1>2 DEF Settle

\* Every request of the user is answered at most once, by a question, an end or
\* a valid command: each step of the orchestration is one of the promise's or
\* none at all.  (That an answer comes is for the runs to show.)
THEOREM PromiseKept == Spec => Promise!Safe
<1>1. Init => Promise!Init
  BY DEF Init, Offer, Promise!Init
<1>2. TaskInv /\ [Next]_vars => [Promise!Next]_<<told, Offer>>
  <2>1. ASSUME TaskInv, Next PROVE Promise!Next \/ UNCHANGED <<told, Offer>>
    BY <2>1, UserPromise, BeginPromise, OrchestratePromise, PlanPromise, SettlePromise
       DEF Next, Daemon
  <2>2. ASSUME UNCHANGED vars PROVE UNCHANGED <<told, Offer>>
    BY <2>2 DEF vars, Offer
  <2> QED
    BY <2>1, <2>2
<1> QED
  BY <1>1, <1>2, TaskInvariant, PTL DEF Spec, Promise!Safe
=============================================================================
