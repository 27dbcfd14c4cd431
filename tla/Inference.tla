------------------------------ MODULE Inference ------------------------------
(***************************************************************************)
(* Requests to the model, of the local llama.cpp provider or of Ollama.    *)
(* The handler of a task makes one after the other and listens to its      *)
(* stream; the generation is a task of its own, which goes on when the     *)
(* handler has left.  Cancelling goes by the task: the flag of its newest  *)
(* request is looked up under the provider's mutex.                        *)
(***************************************************************************)
EXTENDS Naturals, FiniteSets

CONSTANTS Task,       \* the tasks of all shells
          Request,    \* the requests to the model
          MaxTokens,  \* the most a generation emits: max_tokens, or the end of a stream
          MaxCancels, \* bound on the cancels that come from outside the handler
          Nobody      \* no task, no request

ASSUME InferenceBounds == MaxTokens \in Nat /\ MaxCancels \in Nat
ASSUME NobodyAssumption == Nobody \notin Task /\ Nobody \notin Request

VARIABLES
  kind,       \* the provider: "local" or "ollama"
  mutex,      \* the request that holds state.provider
  generating, \* the request that holds generation_request_lock
  flags,      \* cancel_flags: whose flag each task's id leads to
  raised,     \* the requests whose flag is set
  req,        \* each request
  cancels,    \* how often tasks were cancelled from outside
  meant       \* history: the requests that were under way when their task was cancelled

inferenceVars == <<kind, mutex, generating, flags, raised, req, cancels, meant>>

InferenceInit ==
  /\ kind \in {"local", "ollama"}
  /\ mutex = Nobody /\ generating = Nobody
  /\ flags = [t \in Task |-> Nobody]
  /\ raised = {}
  /\ req = [r \in Request |-> [task |-> Nobody, at |-> "new", ear |-> "none", stream |-> TRUE,
                               left |-> MaxTokens, out |-> "none"]]
  /\ cancels = 0 /\ meant = {}

\* A request goes to a place of its work, its handler to one of its listening.
At(r, place) == [req EXCEPT ![r].at = place]
Ends(r, out) == [req EXCEPT ![r].at = "ending", ![r].out = out]

-----------------------------------------------------------------------------
\* The handler of a task turns to the model when it has done with its last request.
Begin(r) ==
  /\ req[r].at = "new"
  /\ \E t \in Task, stream \in BOOLEAN :
       /\ \A o \in Request : req[o].task = t => req[o].ear = "left"
       /\ req' = [req EXCEPT ![r].task = t, ![r].stream = stream, ![r].at = "waiting", ![r].ear = "waiting"]
  /\ UNCHANGED <<kind, mutex, generating, flags, raised, cancels, meant>>

\* Mutant: the flag that the task's id leads to is used again.
OldFlag(r) == IF flags[req[r].task] \in raised THEN raised \cup {r} ELSE raised \ {r}

\* Every request has a flag of its own, which takes the place of an older one: Ollama's
\* before the request is sent, and only when it streams.
NewFlag(r) == raised \ {r}
Registers(r) ==
  /\ flags' = [flags EXCEPT ![req[r].task] = r]
  /\ raised' = NewFlag(r)

\* chat_stream runs under the provider's mutex.
Connect(r) ==
  /\ req[r].at = "waiting" /\ mutex = Nobody
  /\ mutex' = r
  /\ req' = At(r, "connecting")
  /\ IF kind = "ollama" /\ req[r].stream THEN Registers(r) ELSE UNCHANGED <<flags, raised>>
  /\ UNCHANGED <<kind, generating, cancels, meant>>

\* No runtime, no connection, a status that is no success, with tools and without: the
\* flag stays where it is.
ConnectFails(r) ==
  /\ req[r].at = "connecting"
  /\ mutex' = Nobody
  /\ req' = [req EXCEPT ![r].at = "over", ![r].out = "failed", ![r].ear = "cancelling"]
  /\ UNCHANGED <<kind, generating, flags, raised, cancels, meant>>

\* The local model is loaded, by this request if it is the first; the generation is spawned.
SpawnLocal(r) ==
  /\ req[r].at = "connecting" /\ kind = "local"
  /\ mutex' = Nobody
  /\ Registers(r)
  /\ req' = [req EXCEPT ![r].at = "queued", ![r].ear = "reading"]
  /\ UNCHANGED <<kind, generating, cancels, meant>>

\* Ollama has begun to answer; without streaming the answer is there when chat_stream
\* returns.
SpawnOllama(r) ==
  /\ req[r].at = "connecting" /\ kind = "ollama" /\ req[r].stream
  /\ mutex' = Nobody
  /\ req' = [req EXCEPT ![r].at = "running", ![r].ear = "reading"]
  /\ UNCHANGED <<kind, generating, flags, raised, cancels, meant>>
WholeAnswer(r) ==
  /\ req[r].at = "connecting" /\ kind = "ollama" /\ ~req[r].stream
  /\ mutex' = Nobody
  /\ flags' = [flags EXCEPT ![req[r].task] = Nobody]
  /\ req' = [req EXCEPT ![r].at = "over", ![r].out = "done", ![r].ear = "reading"]
  /\ UNCHANGED <<kind, generating, raised, cancels, meant>>

-----------------------------------------------------------------------------
\* Mutant: a request that nobody hears any more is not taken up.
MayGenerateIfHeard(r) == req[r].at = "queued" /\ generating = Nobody /\ req[r].ear # "left"

\* Local generations come one after the other, those that nobody hears too.
MayGenerate(r) == req[r].at = "queued" /\ generating = Nobody
Generate(r) ==
  /\ MayGenerate(r)
  /\ generating' = r
  /\ req' = At(r, "preparing")
  /\ UNCHANGED <<kind, mutex, flags, raised, cancels, meant>>

\* The template, the tokens of the prompt, a context in which they can be decoded: what
\* may fail, and takes its time, with no look at the flag.
Prepare(r) ==
  /\ req[r].at = "preparing"
  /\ req' = At(r, "running") \/ req' = Ends(r, "failed")
  /\ UNCHANGED <<kind, mutex, generating, flags, raised, cancels, meant>>

\* A turn of the local loop looks at the flag first; then a token comes, the end of the
\* text, a stop or a whole tool call, or the decoding fails.
Sample(r) ==
  /\ req[r].at = "running" /\ kind = "local"
  /\ IF r \in raised THEN req' = Ends(r, "cancelled")
     ELSE \/ req[r].left > 0 /\ req' = [req EXCEPT ![r].left = @ - 1]
          \/ req[r].left > 0 /\ req' = Ends(r, "failed")
          \/ req' = Ends(r, "done")
  /\ UNCHANGED <<kind, mutex, generating, flags, raised, cancels, meant>>

\* Ollama's flag is looked at when something has come; a stream is given up when nobody
\* hears it, and it is an error when it breaks or ends before its end is said.
Chunk(r) ==
  /\ req[r].at = "running" /\ kind = "ollama"
  /\ \/ r \in raised /\ req' = Ends(r, "cancelled")
     \/ /\ r \notin raised /\ req[r].left > 0
        /\ req' = IF req[r].ear = "left" THEN Ends(r, "failed") ELSE [req EXCEPT ![r].left = @ - 1]
     \/ r \notin raised /\ \E out \in {"done", "failed"} : req' = Ends(r, out)
     \/ r \in raised /\ req' = Ends(r, "failed")
  /\ UNCHANGED <<kind, mutex, generating, flags, raised, cancels, meant>>

\* The last event is out; then the entry of the task goes, whosever flag it leads to,
\* and last the lock.
Finish(r) ==
  /\ req[r].at = "ending"
  /\ flags' = [flags EXCEPT ![req[r].task] = Nobody]
  /\ generating' = IF generating = r THEN Nobody ELSE generating
  /\ req' = At(r, "over")
  /\ UNCHANGED <<kind, mutex, raised, cancels, meant>>

-----------------------------------------------------------------------------
\* cancel_provider_task
CancelTask(t) ==
  /\ mutex = Nobody
  /\ raised' = IF flags[t] = Nobody THEN raised ELSE raised \cup {flags[t]}
  /\ meant' = meant \cup {r \in Request : req[r].task = t /\ req[r].at \in {"queued", "preparing", "running"}}
  /\ UNCHANGED <<kind, mutex, generating, flags>>

\* The handler reads to the end; or it cancels and leaves, at an error, when no event
\* comes for token_idle_timeout_secs, or when it has seen a whole tool call in the text.
Hear(r) ==
  /\ req[r].ear = "reading" /\ req[r].out = "done"
  /\ req' = [req EXCEPT ![r].ear = "left"]
  /\ UNCHANGED <<kind, mutex, generating, flags, raised, cancels, meant>>
HearError(r) ==
  /\ req[r].ear = "reading" /\ req[r].out \in {"failed", "cancelled"}
  /\ req' = [req EXCEPT ![r].ear = "cancelling"]
  /\ UNCHANGED <<kind, mutex, generating, flags, raised, cancels, meant>>
Stall(r) ==
  /\ req[r].ear = "reading" /\ req[r].out = "none"
  /\ req' = [req EXCEPT ![r].ear = "cancelling"]
  /\ UNCHANGED <<kind, mutex, generating, flags, raised, cancels, meant>>
StopEarly(r) ==
  /\ req[r].ear = "reading" /\ req[r].left < MaxTokens
  /\ req' = [req EXCEPT ![r].ear = "cancelling"]
  /\ UNCHANGED <<kind, mutex, generating, flags, raised, cancels, meant>>
CancelAndLeave(r) ==
  /\ req[r].ear = "cancelling"
  /\ CancelTask(req[r].task)
  /\ req' = [req EXCEPT ![r].ear = "left"]
  /\ UNCHANGED cancels
\* A fast path gives up at its own timeout without a cancel.
GiveUp(r) ==
  /\ req[r].ear = "reading"
  /\ req' = [req EXCEPT ![r].ear = "left"]
  /\ UNCHANGED <<kind, mutex, generating, flags, raised, cancels, meant>>

\* The sweeper, an Abort or a lost shell cancels a task at any time.
CancelFromOutside(t) ==
  /\ cancels < MaxCancels /\ cancels' = cancels + 1
  /\ CancelTask(t)
  /\ UNCHANGED req

Serve(r) ==
  \/ Connect(r) \/ ConnectFails(r) \/ SpawnLocal(r) \/ SpawnOllama(r) \/ WholeAnswer(r)
  \/ Generate(r) \/ Prepare(r) \/ Sample(r) \/ Chunk(r) \/ Finish(r)
Listen(r) ==
  \/ Hear(r) \/ HearError(r) \/ Stall(r) \/ StopEarly(r) \/ CancelAndLeave(r) \/ GiveUp(r)
InferenceNext ==
  \/ \E r \in Request : Begin(r) \/ Serve(r) \/ Listen(r)
  \/ \E t \in Task : CancelFromOutside(t)

\* Loading, connecting and decoding end, if only by a timeout; the handlers' timeouts run.
InferenceFairness ==
  \A r \in Request : WF_inferenceVars(Serve(r)) /\ WF_inferenceVars(Listen(r))

-----------------------------------------------------------------------------
\* A request ends as cancelled only if its task was cancelled while the request itself
\* was queued or generating: never for a cancel that was meant for an older request of
\* the task, which may still be running.
CancelledOnPurpose == \A r \in Request : req[r].out = "cancelled" => r \in meant

\* Every request that was begun comes to its end, and its handler leaves it, though
\* handlers leave generations behind them on which the next have to wait.
RequestsEnd ==
  \A r \in Request : req[r].at = "waiting" ~> req[r].at = "over" /\ req[r].ear = "left"

InferenceTypeOK ==
  /\ kind \in {"local", "ollama"}
  /\ mutex \in Request \cup {Nobody} /\ generating \in Request \cup {Nobody}
  /\ flags \in [Task -> Request \cup {Nobody}]
  /\ raised \subseteq Request /\ meant \subseteq Request
  /\ req \in [Request -> [task : Task \cup {Nobody},
                          at : {"new", "waiting", "connecting", "queued", "preparing", "running", "ending", "over"},
                          ear : {"none", "waiting", "reading", "cancelling", "left"},
                          stream : BOOLEAN, left : 0..MaxTokens,
                          out : {"none", "done", "failed", "cancelled"}]]
  /\ cancels \in 0..MaxCancels
=============================================================================
