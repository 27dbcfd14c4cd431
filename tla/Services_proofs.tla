--------------------------- MODULE Services_proofs ---------------------------
(***************************************************************************)
(* Three of the services a task calls, for any number of shells, tasks,    *)
(* requests and connections, and caches of any size and lifetime: what a   *)
(* local tool answers was true during the call, or at most one lifetime    *)
(* ago where its cache key does not tell versions apart; a request to the  *)
(* model ends as cancelled only if its task was cancelled while it was     *)
(* queued or generating; and no page is answered that the policy the       *)
(* asker started with would not let in.                                    *)
(***************************************************************************)
EXTENDS LocalTools, Inference, WebTools, TLAPS

(* The local tools *)

ToolSpec == ToolInit /\ [][ToolNext]_toolVars

\* What a caching tool reads, for every shell.
Of(t) ==
  IF t = "read_file" THEN "file" ELSE IF t = "project_metadata" THEN "project"
  ELSE IF t = "git_context" THEN "repository" ELSE IF t = "grounding" THEN "index" ELSE "programs"

Call == [at : {"idle", "asked", "keyed", "missed", "keeping", "noting", "answered"},
         tool : Tool \cup {None}, caching : BOOLEAN, key : Version \cup {None},
         value : Version \cup {None}, seen : SUBSET Version]
Cached == [key : Version, value : Version, age : 0..Ttl + 1]

\* What the steps of a call are about: a tool; one with a cache, if it has a key; and no
\* value before it has looked.
CallsTyped ==
  \A s \in Shell :
    LET c == call[s] IN
    /\ c.at # "idle" => c.tool \in Tool
    /\ c.at \in {"asked", "keyed", "keeping"} \/ c.key # None => c.tool \in Caching
    /\ c.at \in {"keyed", "keeping"} => c.key # None
    /\ c.at \in {"asked", "keyed", "missed"} => c.value = None
    /\ c.at = "keeping" => c.value # None

\* A subject that nothing brought back is in its newest state, or is a file that is gone.
Newest == \A o \in Subject \ back : is[o] = newest[o] \/ (o = "file" /\ is[o] = 0)

\* A call has seen what there is now, and what there is now was there a moment ago.
SeenNow == \A s \in Shell : ~Waiting(s) => is[Source(call[s].tool, s)] \in call[s].seen
JustThere == \A o \in Subject : gone[o][is[o]] = 0

\* The key a call of an exact tool holds was once made of what it has seen.
Holds(c, t, k) == c.at \in {"keyed", "missed", "keeping"} /\ c.tool = t /\ c.key = k
KeysSeen ==
  \A s \in Shell, t \in Exact, k \in Version :
    Of(t) \notin back /\ Holds(call[s], t, k) =>
      /\ k \in call[s].seen
      /\ t = "read_file" => k # 0
      /\ k = is[Of(t)] \/ k < newest[Of(t)]

\* What is kept, or about to be, under the key of an exact tool was read when that key
\* was made, or later, when the key is never made again: and whoever still holds the key
\* has seen what was read.
Pairs(t) ==
  {<<e.key, e.value>> : e \in cache[t]}
  \cup {<<call[s].key, call[s].value>> : s \in {r \in Shell : call[r].at = "keeping" /\ call[r].tool = t}}
KeptHonestly ==
  \A t \in Exact, k \in Version, v \in Version :
    Of(t) \notin back /\ <<k, v>> \in Pairs(t) =>
      /\ t = "read_file" => k # 0
      /\ v = k \/ (k < newest[Of(t)] /\ k # is[Of(t)])
      /\ \A s \in Shell : Holds(call[s], t, k) => v \in call[s].seen

\* What is kept has not been gone for longer than it is kept; what is about to be kept is
\* there, or was when the call looked.
AgesTrue ==
  \A t \in Caching : \A e \in cache[t] : e.age <= Ttl => gone[Of(t)][e.value] <= e.age
ReadNow ==
  \A s \in Shell : call[s].at = "keeping" =>
    call[s].value \in call[s].seen /\ gone[Of(call[s].tool)][call[s].value] = 0

\* ServedIsTrue, from the step on at which the value is known.
ValuesTrue ==
  \A s \in Shell : call[s].at \in {"noting", "answered"} /\ call[s].value # None =>
    LET c == call[s]
        o == Source(c.tool, s)
    IN /\ c.tool \in Exact /\ o \notin back => c.value \in c.seen
       /\ c.value \in c.seen \/ gone[o][c.value] <= Ttl

ServeInv ==
  /\ ToolTypeOK /\ CallsTyped /\ Newest /\ SeenNow /\ JustThere /\ KeysSeen
  /\ KeptHonestly /\ AgesTrue /\ ReadNow /\ ValuesTrue

USE ToolBounds, NoneAssumption

LEMMA SourceIsOf ==
  /\ \A t \in Caching : Of(t) \in Subject /\ \A s \in Shell : Source(t, s) = Of(t)
  /\ \A t \in Tool, s \in Shell : Source(t, s) \in Subject
  /\ Exact \subseteq Caching /\ Caching \subseteq Tool
<1>1. Exact \subseteq Caching /\ Caching \subseteq Tool
  BY DEF Exact, Caching, Tool
<1>2. \A t \in Caching : Of(t) \in Subject
  BY DEF Caching, Of, Subject
<1>3. ASSUME NEW t \in Caching, NEW s \in Shell PROVE Source(t, s) = Of(t)
  BY <1>3 DEF Caching, Source, Of
<1>4. ASSUME NEW t \in Tool, NEW s \in Shell PROVE Source(t, s) \in Subject
  BY <1>4 DEF Tool, Caching, Source, Subject
<1> QED
  BY <1>1, <1>2, <1>3, <1>4

LEMMA ServeInit == ToolInit => ServeInv
<1> SUFFICES ASSUME ToolInit PROVE ServeInv
  OBVIOUS
<1>1. /\ \A o \in Subject : is[o] \in {0, 1} /\ newest[o] = is[o] /\ \A v \in Version : gone[o][v] = 0
      /\ \A s \in Shell : call[s] = Idle
      /\ \A t \in Caching : cache[t] = {}
  BY DEF ToolInit
<1>2. {0, 1} \subseteq Version
  BY DEF Version
<1>3. Idle \in Call
  BY DEF Idle, Call
<1>4. ToolTypeOK
  <2>1. is \in [Subject -> Version] /\ newest \in [Subject -> Version]
    BY <1>2 DEF ToolInit
  <2>2. gone \in [Subject -> [Version -> 0..Ttl + 1]]
    BY DEF ToolInit
  <2>3. call \in [Shell -> Call]
    BY <1>3 DEF ToolInit
  <2> QED
    BY <2>1, <2>2, <2>3 DEF ToolInit, ToolTypeOK, Call
<1>5. CallsTyped /\ SeenNow /\ ReadNow /\ ValuesTrue
  BY <1>1 DEF CallsTyped, SeenNow, ReadNow, ValuesTrue, Idle, Waiting
<1>6. Newest /\ JustThere /\ AgesTrue
  BY <1>1, <1>2 DEF Newest, JustThere, AgesTrue
<1>7. KeysSeen
  BY <1>1 DEF KeysSeen, Holds, Idle
<1>8. ASSUME NEW t \in Exact PROVE Pairs(t) = {}
  BY <1>1, SourceIsOf DEF Pairs, Idle
<1>9. KeptHonestly
  BY <1>8 DEF KeptHonestly
<1> QED
  BY <1>4, <1>5, <1>6, <1>7, <1>9 DEF ServeInv

\* A step of one call: whatever the step, what its record may be follows from what it
\* was and from what there is now.
LEMMA CallMoves ==
  ASSUME ServeInv, NEW s \in Shell, NEW c \in Call,
         call' = [call EXCEPT ![s] = c], UNCHANGED <<world, settings>>, ledger' \subseteq Tool,
         cache' \in [Caching -> SUBSET Cached],
         \A t \in Caching : \A e \in cache'[t] :
           \/ e \in cache[t]
           \/ /\ call[s].at = "keeping" /\ t = call[s].tool
              /\ e = [key |-> call[s].key, value |-> call[s].value, age |-> 0],
         c.at # "idle" => c.tool \in Tool,
         c.at \in {"asked", "keyed", "keeping"} \/ c.key # None => c.tool \in Caching,
         c.at \in {"keyed", "keeping"} => c.key # None,
         c.at \in {"asked", "keyed", "missed"} => c.value = None,
         c.at \notin {"idle", "answered"} => is[Source(c.tool, s)] \in c.seen,
         \A t \in Exact, k \in Version : Of(t) \notin back /\ Holds(c, t, k) =>
           \/ Holds(call[s], t, k) /\ call[s].seen \subseteq c.seen
           \/ k = is[Of(t)] /\ (t = "read_file" => k # 0),
         c.at = "keeping" => c.value = is[Of(c.tool)] /\ Holds(call[s], c.tool, c.key),
         c.at \in {"noting", "answered"} /\ c.value # None =>
           LET o == Source(c.tool, s)
           IN /\ c.tool \in Exact /\ o \notin back => c.value \in c.seen
              /\ c.value \in c.seen \/ gone[o][c.value] <= Ttl
  PROVE  ServeInv'
<1> USE SourceIsOf
<1>1. /\ call \in [Shell -> Call] /\ cache \in [Caching -> SUBSET Cached]
      /\ is \in [Subject -> Version] /\ newest \in [Subject -> Version]
      /\ gone \in [Subject -> [Version -> 0..Ttl + 1]]
  BY DEF ServeInv, ToolTypeOK, Call, Cached
<1>2. /\ call' \in [Shell -> Call] /\ call'[s] = c /\ \A r \in Shell \ {s} : call'[r] = call[r]
      /\ is' = is /\ newest' = newest /\ gone' = gone /\ back' = back
      /\ cacheOn' = cacheOn /\ reload' = reload
  BY <1>1 DEF world, settings
<1>3. ToolTypeOK'
  BY <1>2 DEF ServeInv, ToolTypeOK, Call, Cached
<1>4. c.at = "keeping" => c.value # None /\ c.value \in Version /\ c.key \in Version
  BY <1>1 DEF Call
<1>5. CallsTyped'
  BY <1>2, <1>4 DEF ServeInv, CallsTyped
<1>6. Newest' /\ JustThere'
  BY <1>2 DEF ServeInv, Newest, JustThere
<1>7. SeenNow'
  BY <1>2 DEF ServeInv, SeenNow, Waiting
<1>8. KeysSeen'
  <2> SUFFICES ASSUME NEW r \in Shell, NEW t \in Exact, NEW k \in Version,
                      Of(t) \notin back, Holds(call'[r], t, k)
               PROVE  /\ k \in call'[r].seen
                      /\ t = "read_file" => k # 0
                      /\ k = is[Of(t)] \/ k < newest[Of(t)]
    BY <1>2 DEF KeysSeen
  <2>1. CASE r # s
    BY <2>1, <1>2 DEF ServeInv, KeysSeen
  <2>2. CASE r = s /\ Holds(call[s], t, k) /\ call[s].seen \subseteq c.seen
    BY <2>2, <1>2 DEF ServeInv, KeysSeen
  <2>3. CASE r = s /\ k = is[Of(t)] /\ (t = "read_file" => k # 0)
    <3>1. c.tool = t /\ c.at \notin {"idle", "answered"}
      BY <2>3, <1>2 DEF Holds
    <3> QED
      BY <3>1, <2>3, <1>2
  <2> QED
    BY <2>1, <2>2, <2>3, <1>2
<1>9. KeptHonestly'
  <2> SUFFICES ASSUME NEW t \in Exact, NEW k \in Version, NEW v \in Version,
                      Of(t) \notin back, <<k, v>> \in Pairs(t)'
               PROVE  /\ t = "read_file" => k # 0
                      /\ v = k \/ (k < newest[Of(t)] /\ k # is[Of(t)])
                      /\ \A r \in Shell : Holds(call'[r], t, k) => v \in call'[r].seen
    BY <1>2 DEF KeptHonestly
  <2>1. \/ <<k, v>> \in Pairs(t)
        \/ c.at = "keeping" /\ c.tool = t /\ c.key = k /\ c.value = v
    <3>1. CASE \E e \in cache'[t] : e.key = k /\ e.value = v
      <4>1. PICK e \in cache'[t] : e.key = k /\ e.value = v
        BY <3>1
      <4>2. CASE e \in cache[t]
        BY <4>1, <4>2 DEF Pairs
      <4>3. CASE call[s].at = "keeping" /\ t = call[s].tool
                 /\ e = [key |-> call[s].key, value |-> call[s].value, age |-> 0]
        BY <4>1, <4>3 DEF Pairs
      <4> QED
        BY <4>2, <4>3
    <3>2. CASE \E r \in Shell : call'[r].at = "keeping" /\ call'[r].tool = t
                                /\ call'[r].key = k /\ call'[r].value = v
      <4>1. PICK r \in Shell : call'[r].at = "keeping" /\ call'[r].tool = t
                               /\ call'[r].key = k /\ call'[r].value = v
        BY <3>2
      <4> QED
        BY <4>1, <1>2 DEF Pairs
    <3> QED
      BY <3>1, <3>2 DEF Pairs
  <2>2. CASE <<k, v>> \in Pairs(t)
    <3>1. /\ t = "read_file" => k # 0
          /\ v = k \/ (k < newest[Of(t)] /\ k # is[Of(t)])
          /\ \A r \in Shell : Holds(call[r], t, k) => v \in call[r].seen
      BY <2>2 DEF ServeInv, KeptHonestly
    <3>2. ASSUME NEW r \in Shell, Holds(call'[r], t, k) PROVE v \in call'[r].seen
      <4>1. CASE r # s
        BY <4>1, <3>1, <3>2, <1>2
      <4>2. CASE r = s /\ Holds(call[s], t, k) /\ call[s].seen \subseteq c.seen
        BY <4>2, <3>1, <1>2
      <4>3. CASE r = s /\ k = is[Of(t)]
        BY <4>3, <3>1, <3>2, <1>2, <1>8 DEF KeysSeen
      <4> QED
        BY <4>1, <4>2, <4>3, <3>2, <1>2
    <3> QED
      BY <3>1, <3>2
  <2>3. CASE c.at = "keeping" /\ c.tool = t /\ c.key = k /\ c.value = v
    <3>1. v = is[Of(t)] /\ Holds(call[s], t, k)
      BY <2>3
    <3>2. (t = "read_file" => k # 0) /\ (k = is[Of(t)] \/ k < newest[Of(t)])
      BY <3>1 DEF ServeInv, KeysSeen
    <3>3. ASSUME NEW r \in Shell, Holds(call'[r], t, k) PROVE v \in call'[r].seen
      BY <3>1, <3>3, <1>2, <1>7 DEF SeenNow, Holds, Waiting
    <3> QED
      BY <3>1, <3>2, <3>3
  <2> QED
    BY <2>1, <2>2, <2>3
<1>10. AgesTrue'
  <2> SUFFICES ASSUME NEW t \in Caching, NEW e \in cache'[t], e.age <= Ttl
               PROVE  gone[Of(t)][e.value] <= e.age
    BY <1>2 DEF AgesTrue
  <2>1. CASE e \in cache[t]
    BY <2>1 DEF ServeInv, AgesTrue
  <2>2. CASE call[s].at = "keeping" /\ t = call[s].tool
             /\ e = [key |-> call[s].key, value |-> call[s].value, age |-> 0]
    <3>1. e.age = 0 /\ gone[Of(t)][e.value] = 0
      BY <2>2 DEF ServeInv, ReadNow
    <3> QED
      BY <3>1
  <2> QED
    BY <2>1, <2>2
<1>11. ReadNow'
  <2>1. c.at = "keeping" => c.value \in c.seen /\ gone[Of(c.tool)][c.value] = 0
    BY <1>4 DEF ServeInv, JustThere
  <2> QED
    BY <2>1, <1>2 DEF ServeInv, ReadNow
<1>12. ValuesTrue'
  BY <1>2 DEF ServeInv, ValuesTrue
<1> QED
  BY <1>3, <1>5, <1>6, <1>7, <1>8, <1>9, <1>10, <1>11, <1>12 DEF ServeInv

LEMMA Typed ==
  ServeInv => /\ call \in [Shell -> Call] /\ cache \in [Caching -> SUBSET Cached]
              /\ is \in [Subject -> Version] /\ newest \in [Subject -> Version]
              /\ gone \in [Subject -> [Version -> 0..Ttl + 1]] /\ ledger \subseteq Tool
BY DEF ServeInv, ToolTypeOK, Call, Cached

\* The steps of a call, each by CallMoves.
LEMMA IdleKeeps ==
  ASSUME ServeInv, NEW s \in Shell, call' = [call EXCEPT ![s] = Idle],
         UNCHANGED <<world, settings, cache>>, ledger' \subseteq Tool
  PROVE  ServeInv'
<1>1. Idle \in Call
  BY DEF Idle, Call
<1>2. Idle.at = "idle" /\ Idle.key = None /\ Idle.value = None
  BY DEF Idle
<1>3. \A t, k : ~Holds(Idle, t, k)
  BY <1>2 DEF Holds
<1> QED
  BY <1>1, <1>2, <1>3, Typed, CallMoves

LEMMA AskKeeps == ASSUME ServeInv, NEW s \in Shell, NEW t \in Tool, Ask(s, t) PROVE ServeInv'
<1> DEFINE c == [Idle EXCEPT !.at = IF cacheOn /\ t \in Caching THEN "asked" ELSE "missed",
                             !.tool = t, !.caching = cacheOn /\ t \in Caching,
                             !.seen = {is[Source(t, s)]}]
<1>1. call' = [call EXCEPT ![s] = c] /\ UNCHANGED <<world, settings, cache, ledger>>
  BY DEF Ask
<1>2. is[Source(t, s)] \in Version
  BY Typed, SourceIsOf
<1>3. c \in Call
  BY <1>2 DEF Idle, Call
<1>4. /\ c.at \in {"asked", "missed"} /\ c.tool = t /\ c.key = None /\ c.value = None
      /\ c.seen = {is[Source(t, s)]}
      /\ c.at = "asked" => t \in Caching
  BY DEF Idle
<1>5. \A u, k : k \in Version => ~Holds(c, u, k)
  BY <1>4 DEF Holds
<1> HIDE DEF c
<1> QED
  BY <1>1, <1>3, <1>4, <1>5, Typed, CallMoves

LEMMA KeyTyped ==
  ASSUME ServeInv, NEW t \in Caching
  PROVE  /\ Fingerprint(t) \in Version \cup {None}
         /\ t \in Exact /\ Fingerprint(t) # None =>
              Fingerprint(t) = is[Of(t)] /\ (t = "read_file" => Fingerprint(t) # 0)
<1>1. \A o \in Subject : is[o] \in Version
  BY Typed
<1>2. {"file", "project", "repository", "index"} \subseteq Subject
  BY DEF Subject
<1>3. CASE t = "git_context"
  <2>1. Fingerprint(t) = (is["repository"] + 1) \div 2
    BY <1>3 DEF Fingerprint, GitKey
  <2>2. is["repository"] \in 0..MaxVersion
    BY <1>1, <1>2 DEF Version
  <2>3. (is["repository"] + 1) \div 2 \in 0..MaxVersion
    BY <2>2
  <2> QED
    BY <1>3, <2>1, <2>3 DEF Exact, Version
<1>4. CASE t = "read_file"
  BY <1>1, <1>2, <1>4 DEF Fingerprint, FileKey, Of
<1>5. CASE t = "project_metadata"
  BY <1>1, <1>2, <1>5 DEF Fingerprint, ProjectKey, Of
<1>6. CASE t = "grounding"
  BY <1>1, <1>2, <1>6 DEF Fingerprint, IndexKey, Of
<1>7. CASE t = "command_exists"
  BY <1>1, <1>2, <1>7 DEF Fingerprint, IndexKey, Exact
<1> QED
  BY <1>3, <1>4, <1>5, <1>6, <1>7 DEF Caching

LEMMA MakeKeyKeeps == ASSUME ServeInv, NEW s \in Shell, MakeKey(s) PROVE ServeInv'
<1> DEFINE key == Fingerprint(call[s].tool)
           c == [call[s] EXCEPT !.key = key, !.at = IF key = None THEN "missed" ELSE "keyed"]
<1>1. /\ call[s].at = "asked" /\ call[s] \in Call /\ call[s].tool \in Caching
      /\ call[s].value = None
      /\ is[Source(call[s].tool, s)] \in call[s].seen
  BY Typed DEF MakeKey, ServeInv, CallsTyped, SeenNow, Waiting
<1>2. call' = [call EXCEPT ![s] = c] /\ UNCHANGED <<world, settings, cache, ledger>>
  BY Typed DEF MakeKey, Call
<1>3. key \in Version \cup {None}
      /\ (call[s].tool \in Exact /\ key # None =>
            key = is[Of(call[s].tool)] /\ (call[s].tool = "read_file" => key # 0))
  BY <1>1, KeyTyped
<1> HIDE DEF key
<1>4. c \in Call
  BY <1>1, <1>3 DEF Call
<1>5. /\ c.at \in {"missed", "keyed"} /\ c.tool = call[s].tool /\ c.key = key /\ c.value = None
      /\ c.seen = call[s].seen
      /\ c.at = "keyed" => key # None
  BY <1>1 DEF Call
<1> HIDE DEF c
<1>6. ASSUME NEW t \in Exact, NEW k \in Version, Holds(c, t, k)
      PROVE  k = is[Of(t)] /\ (t = "read_file" => k # 0)
  BY <1>3, <1>5, <1>6 DEF Holds
<1>7. /\ c.tool \in Tool /\ c.tool \in Caching
      /\ c.at \notin {"idle", "keeping", "noting", "answered"}
      /\ is[Source(c.tool, s)] \in c.seen
      /\ c.at = "keyed" => c.key # None
  BY <1>1, <1>5, SourceIsOf
<1>8. /\ cache' \in [Caching -> SUBSET Cached] /\ ledger' \subseteq Tool
      /\ \A t \in Caching : cache'[t] \subseteq cache[t]
  BY <1>2, Typed
<1> QED
  BY <1>2, <1>4, <1>5, <1>6, <1>7, <1>8, CallMoves

\* What a cache holds of an exact tool has been seen by whoever finds it under its key.
LEMMA LookupKeeps == ASSUME ServeInv, NEW s \in Shell, Lookup(s) PROVE ServeInv'
<1>1. /\ call[s].at = "keyed" /\ call[s] \in Call /\ call[s].tool \in Caching
      /\ call[s].key \in Version /\ call[s].value = None
      /\ is[Source(call[s].tool, s)] \in call[s].seen
  BY Typed DEF Lookup, ServeInv, CallsTyped, SeenNow, Waiting, Call
<1>2. /\ cache' \in [Caching -> SUBSET Cached]
      /\ \A t \in Caching : cache'[t] \subseteq cache[t]
      /\ UNCHANGED <<world, settings, ledger>>
  BY <1>1, Typed DEF Lookup
<1>3. CASE Go(s, "missed")
  <2> DEFINE c == [call[s] EXCEPT !.at = "missed"]
  <2>1. c \in Call /\ call' = [call EXCEPT ![s] = c]
    BY <1>1, <1>3, Typed DEF Go, Call
  <2>2. /\ c.at = "missed" /\ c.tool = call[s].tool /\ c.key = call[s].key
        /\ c.value = None /\ c.seen = call[s].seen
    BY <1>1 DEF Call
  <2> HIDE DEF c
  <2>3. \A t, k : Holds(c, t, k) => Holds(call[s], t, k)
    BY <1>1, <2>2 DEF Holds
  <2> QED
    BY <1>1, <1>2, <2>1, <2>2, <2>3, Typed, SourceIsOf, CallMoves
<1>4. ASSUME NEW e \in cache[call[s].tool], e.key = call[s].key, e.age <= Ttl,
             call' = [call EXCEPT ![s].value = e.value, ![s].at = "noting"]
      PROVE  ServeInv'
  <2> DEFINE c == [call[s] EXCEPT !.value = e.value, !.at = "noting"]
             o == Source(call[s].tool, s)
  <2>1. e \in Cached
    BY <1>1, Typed
  <2>2. c \in Call /\ call' = [call EXCEPT ![s] = c]
    BY <1>1, <1>4, <2>1, Typed DEF Call, Cached
  <2>3. /\ c.at = "noting" /\ c.tool = call[s].tool /\ c.key = call[s].key
        /\ c.value = e.value /\ c.seen = call[s].seen
    BY <1>1 DEF Call
  <2> HIDE DEF c
  <2>4. \A t, k : ~Holds(c, t, k)
    BY <2>3 DEF Holds
  <2>5. o = Of(call[s].tool) /\ o \in Subject
    BY <1>1, SourceIsOf
  <2>6. call[s].tool \in Exact /\ o \notin back => e.value \in call[s].seen
    <3>1. Holds(call[s], call[s].tool, e.key) /\ <<e.key, e.value>> \in Pairs(call[s].tool)
      BY <1>1, <1>4 DEF Holds, Pairs
    <3> QED
      BY <3>1, <2>1, <2>5 DEF ServeInv, KeptHonestly, Cached
  <2>7. gone[o][e.value] <= Ttl
    <3>1. gone[o][e.value] <= e.age
      BY <1>1, <1>4, <2>5 DEF ServeInv, AgesTrue
    <3>2. gone[o][e.value] \in Nat /\ e.age \in Nat
      BY <2>1, <2>5, Typed DEF Cached
    <3> QED
      BY <3>1, <3>2, <1>4
  <2> QED
    BY <1>1, <1>2, <2>2, <2>3, <2>4, <2>6, <2>7, Typed, SourceIsOf, CallMoves
<1> QED
  BY <1>3, <1>4 DEF Lookup

LEMMA GetsKeeps ==
  ASSUME ServeInv, NEW s \in Shell, NEW t \in Tool, NEW keeps \in BOOLEAN,
         Working(s, t), Gets(s, keeps)
  PROVE  ServeInv'
<1> DEFINE c == [call[s] EXCEPT !.value = There(s),
                                !.at = IF keeps /\ call[s].key # None THEN "keeping" ELSE "noting"]
<1>1. /\ call[s].at = "missed" /\ call[s] \in Call /\ call[s].tool = t
      /\ call[s].key # None => t \in Caching
      /\ is[Source(t, s)] \in call[s].seen
  BY Typed DEF Working, ServeInv, CallsTyped, SeenNow, Waiting
<1>2. call' = [call EXCEPT ![s] = c] /\ UNCHANGED <<world, settings, cache, ledger>>
  BY Typed DEF Gets, Call
<1>3. There(s) = is[Source(t, s)] /\ is[Source(t, s)] \in Version
  BY <1>1, Typed, SourceIsOf DEF There
<1>4. c \in Call
  BY <1>1, <1>3 DEF Call
<1>5. /\ c.at = (IF keeps /\ call[s].key # None THEN "keeping" ELSE "noting")
      /\ c.tool = t /\ c.key = call[s].key /\ c.seen = call[s].seen
      /\ c.value = is[Source(t, s)]
  BY <1>1, <1>3 DEF Call
<1> HIDE DEF c
<1>6. c.at \in {"keeping", "noting"} /\ (c.at = "keeping" => c.key # None /\ t \in Caching)
  BY <1>1, <1>5
<1>7. c.at = "keeping" => c.value = is[Of(c.tool)] /\ Holds(call[s], c.tool, c.key)
  BY <1>1, <1>5, <1>6, SourceIsOf DEF Holds
<1>8. \A u, k : Holds(c, u, k) => Holds(call[s], u, k) /\ call[s].seen \subseteq c.seen
  BY <1>1, <1>5 DEF Holds
<1>9. /\ cache' \in [Caching -> SUBSET Cached] /\ ledger' \subseteq Tool
      /\ \A u \in Caching : cache'[u] \subseteq cache[u]
  BY <1>2, Typed
<1>10. /\ c.key # None => c.tool \in Caching
       /\ is[Source(c.tool, s)] \in c.seen /\ c.value \in c.seen
  BY <1>1, <1>5
<1> QED
  BY <1>2, <1>4, <1>5, <1>6, <1>7, <1>8, <1>9, <1>10, CallMoves

\* A step to the noting of a value that is known, or of none.
LEMMA RejectKeeps == ASSUME ServeInv, NEW s \in Shell, RejectProbe(s) PROVE ServeInv'
<1> DEFINE c == [call[s] EXCEPT !.at = "noting"]
<1>1. /\ call[s].at = "missed" /\ call[s] \in Call /\ call[s].tool = "run_readonly_command"
      /\ call[s].key # None => call[s].tool \in Caching
      /\ is[Source(call[s].tool, s)] \in call[s].seen
      /\ call[s].value = None
  BY Typed DEF RejectProbe, Working, ServeInv, CallsTyped, SeenNow, Waiting
<1>2. call' = [call EXCEPT ![s] = c] /\ UNCHANGED <<world, settings, cache, ledger>> /\ c \in Call
  BY <1>1, Typed DEF RejectProbe, Go, Call
<1>3. /\ c.at = "noting" /\ c.tool = call[s].tool /\ c.key = call[s].key
      /\ c.seen = call[s].seen /\ c.value = None
  BY <1>1 DEF Call
<1> HIDE DEF c
<1>4. \A u, k : ~Holds(c, u, k)
  BY <1>3 DEF Holds
<1>5. /\ cache' \in [Caching -> SUBSET Cached] /\ ledger' \subseteq Tool
      /\ \A u \in Caching : cache'[u] \subseteq cache[u]
  BY <1>2, Typed
<1>6. /\ c.tool \in Tool /\ (c.key # None => c.tool \in Caching)
      /\ is[Source(c.tool, s)] \in c.seen
  BY <1>1, <1>3 DEF Tool
<1> QED
  BY <1>2, <1>3, <1>4, <1>5, <1>6, CallMoves

LEMMA DoKeeps == ASSUME ServeInv, NEW s \in Shell, Do(s) PROVE ServeInv'
<1>1. \A t \in Tool, keeps \in BOOLEAN : Working(s, t) /\ Gets(s, keeps) => ServeInv'
  BY GetsKeeps
<1>2. CASE RejectProbe(s)
  BY <1>2, RejectKeeps
<1>3. CASE Ground(s)
  <2>1. Working(s, "grounding") /\ Gets(s, There(s) # 0)
    BY <1>3 DEF Ground
  <2>2. (There(s) # 0) \in BOOLEAN /\ "grounding" \in Tool
    BY DEF Tool, Caching
  <2> QED
    BY <2>1, <2>2, GetsKeeps
<1>4. CASE ReadFile(s) \/ ReadProject(s) \/ ReadRepository(s) \/ CommandExists(s)
  <2>1. \E t \in Tool : Working(s, t) /\ Gets(s, TRUE)
    BY <1>4 DEF ReadFile, ReadProject, ReadRepository, CommandExists, Tool, Caching
  <2> QED
    BY <2>1, <1>1
<1>5. CASE RunProbe(s) \/ SearchFiles(s) \/ ListFiles(s) \/ SearchTerminal(s)
           \/ LookUpDocs(s) \/ RetrieveDocs(s)
  <2>1. \E t \in Tool : Working(s, t) /\ Gets(s, FALSE)
    BY <1>5 DEF RunProbe, SearchFiles, ListFiles, SearchTerminal, LookUpDocs, RetrieveDocs, Tool
  <2> QED
    BY <2>1, <1>1
<1> QED
  BY <1>2, <1>3, <1>4, <1>5 DEF Do

\* A value that is kept has been seen, so it may be answered.
LEMMA KeepKeeps == ASSUME ServeInv, NEW s \in Shell, Keep(s) PROVE ServeInv'
<1> DEFINE c == [call[s] EXCEPT !.at = "noting"]
           new == [key |-> call[s].key, value |-> call[s].value, age |-> 0]
<1>1. /\ call[s].at = "keeping" /\ call[s] \in Call /\ call[s].tool \in Caching
      /\ call[s].key \in Version /\ call[s].value \in Version
      /\ is[Source(call[s].tool, s)] \in call[s].seen
      /\ call[s].value \in call[s].seen
  BY Typed DEF Keep, ServeInv, CallsTyped, SeenNow, ReadNow, Waiting, Call
<1>2. call' = [call EXCEPT ![s] = c] /\ UNCHANGED <<world, settings, ledger>> /\ c \in Call
  BY <1>1, Typed DEF Keep, Go, Call
<1>3. /\ c.at = "noting" /\ c.tool = call[s].tool /\ c.key = call[s].key
      /\ c.seen = call[s].seen /\ c.value = call[s].value
  BY <1>1 DEF Call
<1> HIDE DEF c
<1>4. \A u, k : ~Holds(c, u, k)
  BY <1>3 DEF Holds
<1>5. new \in Cached
  BY <1>1 DEF Cached
<1>6. cache' = [cache EXCEPT ![call[s].tool] = {e \in @ : e.key # call[s].key} \cup {new}]
  BY DEF Keep, Put
<1> HIDE DEF new
<1>7. cache' \in [Caching -> SUBSET Cached]
      /\ \A u \in Caching : \A e \in cache'[u] : e \in cache[u] \/ (u = call[s].tool /\ e = new)
  BY <1>1, <1>5, <1>6, Typed
<1>8. /\ c.tool \in Tool /\ c.tool \in Caching /\ ledger' \subseteq Tool
      /\ is[Source(c.tool, s)] \in c.seen /\ c.value \in c.seen
  BY <1>1, <1>2, <1>3, SourceIsOf, Typed
<1> QED
  BY <1>1, <1>2, <1>3, <1>4, <1>7, <1>8, CallMoves DEF new

LEMMA NoteKeeps == ASSUME ServeInv, NEW s \in Shell, Note(s) PROVE ServeInv'
<1> DEFINE c == [call[s] EXCEPT !.at = "answered"]
<1>1. /\ call[s].at = "noting" /\ call[s] \in Call /\ call[s].tool \in Tool
      /\ call[s].key # None => call[s].tool \in Caching
  BY Typed DEF Note, ServeInv, CallsTyped
<1>2. call' = [call EXCEPT ![s] = c] /\ UNCHANGED <<world, settings, cache>> /\ c \in Call
  BY <1>1, Typed DEF Note, Go, Call
<1>3. /\ c.at = "answered" /\ c.tool = call[s].tool /\ c.key = call[s].key
      /\ c.seen = call[s].seen /\ c.value = call[s].value
  BY <1>1 DEF Call
<1> HIDE DEF c
<1>4. \A u, k : ~Holds(c, u, k)
  BY <1>3 DEF Holds
<1>5. ledger' \subseteq Tool
  BY <1>1, Typed DEF Note
<1>6. c.value # None =>
        LET o == Source(c.tool, s)
        IN /\ c.tool \in Exact /\ o \notin back => c.value \in c.seen
           /\ c.value \in c.seen \/ gone[o][c.value] <= Ttl
  BY <1>1, <1>3 DEF ServeInv, ValuesTrue
<1>7. /\ cache' \in [Caching -> SUBSET Cached]
      /\ \A u \in Caching : cache'[u] \subseteq cache[u]
  BY <1>2, Typed
<1> QED
  BY <1>1, <1>2, <1>3, <1>4, <1>5, <1>6, <1>7, CallMoves

\* What the world does to a subject: a call under way sees it, and no key of an exact tool
\* comes back with it.
LEMMA BecomesKeeps ==
  ASSUME ServeInv, NEW o \in Subject, NEW v \in Version, Becomes(o, v),
         Touch(o), back' \subseteq Subject, back \subseteq back',
         o \notin back' => v = newest'[o] \/ (o = "file" /\ v = 0)
  PROVE  ServeInv'
<1> USE SourceIsOf
<1>1. /\ call \in [Shell -> Call] /\ cache \in [Caching -> SUBSET Cached]
      /\ is \in [Subject -> Version] /\ newest \in [Subject -> Version]
      /\ gone \in [Subject -> [Version -> 0..Ttl + 1]]
  BY Typed
<1>2. /\ is' = [is EXCEPT ![o] = v] /\ newest' = [newest EXCEPT ![o] = @ + 1]
      /\ newest[o] < MaxVersion
      /\ cache' = cache /\ ledger' = ledger /\ cacheOn' = cacheOn /\ reload' = reload
  BY DEF Becomes, Touch, settings
<1>3. is' \in [Subject -> Version] /\ is'[o] = v /\ \A p \in Subject \ {o} : is'[p] = is[p]
  BY <1>1, <1>2
<1>4. /\ newest' \in [Subject -> Version] /\ newest'[o] = newest[o] + 1
      /\ \A p \in Subject \ {o} : newest'[p] = newest[p]
  BY <1>1, <1>2 DEF Version
<1>5. /\ gone' \in [Subject -> [Version -> 0..Ttl + 1]]
      /\ gone'[o][v] = 0
      /\ \A p \in Subject, w \in Version : gone'[p][w] \in {gone[p][w], 0}
  <2>1. gone' = [gone EXCEPT ![o][is[o]] = 0, ![o][v] = 0] /\ is[o] \in Version
    BY <1>1 DEF Becomes
  <2> QED
    BY <2>1, <1>1
<1>6. \A s \in Shell :
        call'[s] = IF ~Waiting(s) /\ Source(call[s].tool, s) = o
                   THEN [call[s] EXCEPT !.seen = @ \cup {v}] ELSE call[s]
  BY DEF Becomes
<1>7. \A s \in Shell :
        /\ call[s] \in Call /\ call'[s] \in Call
        /\ call'[s].at = call[s].at /\ call'[s].tool = call[s].tool
        /\ call'[s].key = call[s].key /\ call'[s].value = call[s].value
        /\ call[s].seen \subseteq call'[s].seen
        /\ ~Waiting(s) => call'[s].seen = IF Source(call[s].tool, s) = o
                                          THEN call[s].seen \cup {v} ELSE call[s].seen
  <2> SUFFICES ASSUME NEW s \in Shell
               PROVE  /\ call[s] \in Call /\ call'[s] \in Call
                      /\ call'[s].at = call[s].at /\ call'[s].tool = call[s].tool
                      /\ call'[s].key = call[s].key /\ call'[s].value = call[s].value
                      /\ call[s].seen \subseteq call'[s].seen
                      /\ ~Waiting(s) => call'[s].seen = IF Source(call[s].tool, s) = o
                                                        THEN call[s].seen \cup {v} ELSE call[s].seen
    OBVIOUS
  <2>1. call[s] \in Call
    BY <1>1
  <2>2. CASE ~Waiting(s) /\ Source(call[s].tool, s) = o
    <3>1. call'[s] = [call[s] EXCEPT !.seen = @ \cup {v}]
      BY <1>6, <2>2
    <3> QED
      BY <2>1, <2>2, <3>1 DEF Call
  <2>3. CASE ~(~Waiting(s) /\ Source(call[s].tool, s) = o)
    <3>1. call'[s] = call[s]
      BY <1>6, <2>3
    <3> QED
      BY <2>1, <2>3, <3>1
  <2> QED
    BY <2>2, <2>3
<1>8. call' \in [Shell -> Call]
  BY <1>6, <1>7 DEF Becomes
<1>9. ToolTypeOK'
  BY <1>2, <1>3, <1>4, <1>5, <1>8 DEF ServeInv, ToolTypeOK, Call
<1>10. CallsTyped'
  BY <1>7 DEF ServeInv, CallsTyped
<1>11. Newest'
  BY <1>3, <1>4 DEF ServeInv, Newest
<1>12. SeenNow'
  <2> SUFFICES ASSUME NEW s \in Shell, call'[s].at \notin {"idle", "answered"}
               PROVE  is'[Source(call'[s].tool, s)] \in call'[s].seen
    BY DEF SeenNow, Waiting
  <2>1. call[s].tool \in Tool /\ is[Source(call[s].tool, s)] \in call[s].seen /\ ~Waiting(s)
    BY <1>7 DEF ServeInv, CallsTyped, SeenNow, Waiting
  <2>2. Source(call[s].tool, s) \in Subject
    BY <2>1
  <2>3. CASE Source(call[s].tool, s) = o
    BY <2>1, <2>3, <1>3, <1>7
  <2>4. CASE Source(call[s].tool, s) # o
    BY <2>1, <2>2, <2>4, <1>3, <1>7
  <2> QED
    BY <2>3, <2>4
<1>13. JustThere'
  <2> SUFFICES ASSUME NEW p \in Subject PROVE gone'[p][is'[p]] = 0
    BY DEF JustThere
  <2>1. CASE p = o
    BY <2>1, <1>3, <1>5
  <2>2. CASE p # o
    <3>1. is'[p] = is[p] /\ is[p] \in Version /\ gone[p][is[p]] = 0
      BY <2>2, <1>1, <1>3 DEF ServeInv, JustThere
    <3> QED
      BY <3>1, <1>5
  <2> QED
    BY <2>1, <2>2
<1>14. ASSUME NEW t \in Exact, Of(t) \notin back' PROVE /\ Of(t) \in Subject \ back
                                                        /\ newest[Of(t)] <= newest'[Of(t)]
  <2>1. t \in Caching
    OBVIOUS
  <2>2. Of(t) \in Subject
    BY <2>1
  <2>3. CASE Of(t) = o
    BY <2>2, <2>3, <1>1, <1>4, <1>14 DEF Version
  <2>4. CASE Of(t) # o
    BY <2>2, <2>4, <1>1, <1>4, <1>14 DEF Version
  <2> QED
    BY <2>3, <2>4
<1>15. \A s \in Shell, t \in Exact, k \in Version : Holds(call'[s], t, k) <=> Holds(call[s], t, k)
  BY <1>7 DEF Holds
\* A key that was good once is now the state of its subject or an older number.
<1>16. ASSUME NEW t \in Exact, NEW k \in Version, Of(t) \notin back',
              k = is[Of(t)] \/ k < newest[Of(t)]
       PROVE  k = is'[Of(t)] \/ k < newest'[Of(t)]
  <2>1. CASE Of(t) # o
    BY <2>1, <1>14, <1>3, <1>4, <1>16
  <2>2. CASE Of(t) = o
    <3>1. is[o] = newest[o] \/ is[o] = 0
      BY <1>14, <1>16, <2>2 DEF ServeInv, Newest
    <3>2. k \in Nat /\ newest[o] \in Nat
      BY <1>1 DEF Version
    <3> QED
      BY <3>1, <3>2, <2>2, <1>4, <1>16
  <2> QED
    BY <2>1, <2>2
<1>17. KeysSeen'
  <2> SUFFICES ASSUME NEW s \in Shell, NEW t \in Exact, NEW k \in Version,
                      Of(t) \notin back', Holds(call'[s], t, k)
               PROVE  /\ k \in call'[s].seen
                      /\ t = "read_file" => k # 0
                      /\ k = is'[Of(t)] \/ k < newest'[Of(t)]
    BY DEF KeysSeen
  <2>1. /\ k \in call[s].seen
        /\ t = "read_file" => k # 0
        /\ k = is[Of(t)] \/ k < newest[Of(t)]
    BY <1>14, <1>15 DEF ServeInv, KeysSeen
  <2> QED
    BY <2>1, <1>7, <1>16
<1>18. \A t \in Exact : Pairs(t)' = Pairs(t)
  <2> SUFFICES ASSUME NEW t \in Exact PROVE Pairs(t)' = Pairs(t)
    OBVIOUS
  <2> QED
    BY <1>2, <1>7 DEF Pairs
<1>19. KeptHonestly'
  <2> SUFFICES ASSUME NEW t \in Exact, NEW k \in Version, NEW w \in Version,
                      Of(t) \notin back', <<k, w>> \in Pairs(t)
               PROVE  /\ t = "read_file" => k # 0
                      /\ w = k \/ (k < newest'[Of(t)] /\ k # is'[Of(t)])
                      /\ \A s \in Shell : Holds(call'[s], t, k) => w \in call'[s].seen
    BY <1>18 DEF KeptHonestly
  <2>1. /\ t = "read_file" => k # 0
        /\ w = k \/ (k < newest[Of(t)] /\ k # is[Of(t)])
        /\ \A s \in Shell : Holds(call[s], t, k) => w \in call[s].seen
    BY <1>14 DEF ServeInv, KeptHonestly
  <2>2. \A s \in Shell : Holds(call'[s], t, k) => w \in call'[s].seen
    BY <2>1, <1>15, <1>7
  <2>3. ASSUME k < newest[Of(t)], k # is[Of(t)] PROVE k < newest'[Of(t)] /\ k # is'[Of(t)]
    <3>1. CASE Of(t) # o
      BY <3>1, <2>3, <1>14, <1>3, <1>4
    <3>2. CASE Of(t) = o
      <4>1. k \in Nat /\ newest[o] \in Nat
        BY <1>1 DEF Version
      <4>2. v = newest[o] + 1 \/ (o = "file" /\ v = 0)
        BY <3>2, <1>4
      <4>3. o = "file" => t = "read_file"
        BY <3>2 DEF Of, Exact
      <4> QED
        BY <4>1, <4>2, <4>3, <3>2, <2>1, <2>3, <1>3, <1>4
    <3> QED
      BY <3>1, <3>2
  <2> QED
    BY <2>1, <2>2, <2>3
<1>20. AgesTrue'
  <2> SUFFICES ASSUME NEW t \in Caching, NEW e \in cache[t], e.age <= Ttl
               PROVE  gone'[Of(t)][e.value] <= e.age
    BY <1>2 DEF AgesTrue
  <2>1. gone[Of(t)][e.value] <= e.age
    BY DEF ServeInv, AgesTrue
  <2>2. e \in Cached
    BY <1>1
  <2>3. e.value \in Version /\ 0 <= e.age /\ Of(t) \in Subject
    BY <2>2 DEF Cached
  <2>4. gone'[Of(t)][e.value] \in {gone[Of(t)][e.value], 0}
    BY <2>3, <1>5
  <2> QED
    BY <2>1, <2>3, <2>4
<1>21. ReadNow'
  <2> SUFFICES ASSUME NEW s \in Shell, call[s].at = "keeping"
               PROVE  call[s].value \in call'[s].seen /\ gone'[Of(call[s].tool)][call[s].value] = 0
    BY <1>7 DEF ReadNow
  <2>1. /\ call[s].value \in call[s].seen /\ gone[Of(call[s].tool)][call[s].value] = 0
        /\ call[s].tool \in Caching /\ call[s].value \in Version
    BY <1>7 DEF ServeInv, ReadNow, CallsTyped, Call
  <2> QED
    BY <2>1, <1>5, <1>7
<1>22. ValuesTrue'
  <2> SUFFICES ASSUME NEW s \in Shell, call[s].at \in {"noting", "answered"}, call[s].value # None
               PROVE  LET p == Source(call[s].tool, s) w == call[s].value
                      IN /\ call[s].tool \in Exact /\ p \notin back' => w \in call'[s].seen
                         /\ w \in call'[s].seen \/ gone'[p][w] <= Ttl
    BY <1>7 DEF ValuesTrue
  <2> DEFINE p == Source(call[s].tool, s)
             w == call[s].value
  <2>1. /\ call[s].tool \in Exact /\ p \notin back => w \in call[s].seen
        /\ w \in call[s].seen \/ gone[p][w] <= Ttl
    BY DEF ServeInv, ValuesTrue
  <2>2. w \in Version /\ p \in Subject
    BY <1>7 DEF ServeInv, CallsTyped, Call
  <2>3. gone'[p][w] \in {gone[p][w], 0}
    BY <2>2, <1>5
  <2> QED
    BY <2>1, <2>3, <1>7, 0 <= Ttl
<1> QED
  BY <1>9, <1>10, <1>11, <1>12, <1>13, <1>17, <1>19, <1>20, <1>21, <1>22 DEF ServeInv

LEMMA WorldKeeps ==
  ASSUME ServeInv, NEW o \in Subject, Change(o) \/ Delete(o) \/ MoveBack(o) PROVE ServeInv'
<1>1. /\ back \subseteq Subject /\ newest[o] \in Version /\ newest \in [Subject -> Version]
      /\ 0 \in Version
  BY Typed DEF ServeInv, ToolTypeOK, Version
<1>2. Touch(o) => newest'[o] = newest[o] + 1 /\ newest'[o] \in Version
  BY <1>1 DEF Touch, Version
<1>3. CASE Change(o)
  BY <1>1, <1>2, <1>3, BecomesKeeps DEF Change
<1>4. CASE Delete(o)
  <2>1. /\ Touch(o) /\ Becomes(o, 0) /\ o \in {"file", "project"}
        /\ back' = IF o = "project" THEN back \cup {o} ELSE back
    BY <1>4 DEF Delete
  <2> QED
    BY <1>1, <2>1, BecomesKeeps
<1>5. CASE MoveBack(o)
  <2>1. PICK v \in 1..newest[o] \ {is[o]} : Becomes(o, v)
    BY <1>5 DEF MoveBack
  <2>2. v \in Version /\ Touch(o) /\ back' = back \cup {o}
    BY <1>1, <1>5 DEF MoveBack, Version
  <2> QED
    BY <1>1, <2>1, <2>2, BecomesKeeps
<1> QED
  BY <1>3, <1>4, <1>5

\* Time passes for what is kept and for what is gone alike.
LEMMA TickKeeps == ASSUME ServeInv, Tick PROVE ServeInv'
<1>1. /\ call' = [s \in Shell |-> Idle]
      /\ is' = is /\ newest' = newest /\ back' = back /\ cacheOn' = cacheOn /\ reload' = reload
      /\ ledger' = ledger
  BY DEF Tick, settings
<1>2. /\ cache \in [Caching -> SUBSET Cached] /\ is \in [Subject -> Version]
      /\ gone \in [Subject -> [Version -> 0..Ttl + 1]]
  BY Typed
<1>3. \A s \in Shell : call'[s].at = "idle" /\ call'[s].key = None /\ call'[s].value = None
  BY <1>1 DEF Idle
<1>4. call' \in [Shell -> Call]
  BY <1>1 DEF Idle, Call
<1>5. \A o \in Subject, v \in Version :
        gone'[o][v] = IF v = is[o] THEN 0
                      ELSE IF gone[o][v] > Ttl THEN gone[o][v] ELSE gone[o][v] + 1
  BY DEF Tick
<1>6. gone' \in [Subject -> [Version -> 0..Ttl + 1]]
  <2>1. \A o \in Subject, v \in Version :
          (IF v = is[o] THEN 0 ELSE IF gone[o][v] > Ttl THEN gone[o][v] ELSE gone[o][v] + 1)
            \in 0..Ttl + 1
    BY <1>2
  <2> QED
    BY <2>1 DEF Tick
<1>7. \A t \in Caching :
        cache'[t] = {[e EXCEPT !.age = IF @ > Ttl THEN @ ELSE @ + 1] : e \in cache[t]}
  BY DEF Tick
<1>8. ASSUME NEW t \in Caching, NEW f \in cache'[t]
      PROVE  \E e \in cache[t] : /\ f \in Cached /\ f.key = e.key /\ f.value = e.value
                                 /\ f.age = IF e.age > Ttl THEN e.age ELSE e.age + 1
  <2>1. PICK e \in cache[t] : f = [e EXCEPT !.age = IF @ > Ttl THEN @ ELSE @ + 1]
    BY <1>7, <1>8
  <2>2. e \in Cached
    BY <1>2
  <2>3. /\ f.key = e.key /\ f.value = e.value
        /\ f.age = IF e.age > Ttl THEN e.age ELSE e.age + 1
    BY <2>1, <2>2 DEF Cached
  <2>4. f \in Cached
    BY <2>1, <2>2 DEF Cached
  <2> QED
    BY <2>3, <2>4
<1>9. cache' \in [Caching -> SUBSET Cached]
  <2>1. \A t \in Caching : cache'[t] \subseteq Cached
    BY <1>8
  <2>2. cache' = [t \in Caching |-> cache'[t]]
    BY DEF Tick
  <2> QED
    BY <2>1, <2>2
<1>10. ToolTypeOK'
  BY <1>1, <1>4, <1>6, <1>9 DEF ServeInv, ToolTypeOK, Call, Cached
<1>11. CallsTyped' /\ SeenNow' /\ ReadNow' /\ ValuesTrue'
  BY <1>3 DEF CallsTyped, SeenNow, ReadNow, ValuesTrue, Waiting
<1>12. KeysSeen'
  BY <1>3 DEF KeysSeen, Holds
<1>13. Newest'
  BY <1>1 DEF ServeInv, Newest
<1>14. JustThere'
  BY <1>1, <1>2, <1>5 DEF JustThere
<1>15. ASSUME NEW t \in Exact, NEW k, NEW v, <<k, v>> \in Pairs(t)' PROVE <<k, v>> \in Pairs(t)
  <2>1. PICK f \in cache'[t] : f.key = k /\ f.value = v
    BY <1>3, <1>15 DEF Pairs
  <2>2. \E e \in cache[t] : e.key = k /\ e.value = v
    BY <2>1, <1>8, SourceIsOf
  <2> QED
    BY <2>2 DEF Pairs
<1>16. KeptHonestly'
  BY <1>1, <1>3, <1>15 DEF ServeInv, KeptHonestly, Holds
<1>17. AgesTrue'
  <2> SUFFICES ASSUME NEW t \in Caching, NEW f \in cache'[t], f.age <= Ttl
               PROVE  gone'[Of(t)][f.value] <= f.age
    BY DEF AgesTrue
  <2>1. PICK e \in cache[t] : /\ f.value = e.value
                              /\ f.age = IF e.age > Ttl THEN e.age ELSE e.age + 1
    BY <1>8
  <2>2. e \in Cached /\ Of(t) \in Subject
    <3>1. cache[t] \subseteq Cached
      BY <1>2
    <3> QED
      BY <3>1, SourceIsOf
  <2>3. e.age \in Nat /\ e.value \in Version /\ gone[Of(t)][e.value] \in Nat
    BY <1>2, <2>2 DEF Cached
  <2>4. e.age <= Ttl /\ f.age = e.age + 1
    BY <2>1, <2>3
  <2>5. gone[Of(t)][e.value] <= e.age
    BY <2>1, <2>4 DEF ServeInv, AgesTrue
  <2>6. gone'[Of(t)][e.value] = 0 \/ gone'[Of(t)][e.value] = gone[Of(t)][e.value] + 1
    BY <1>5, <2>2, <2>3, <2>4, <2>5
  <2> QED
    BY <2>1, <2>3, <2>4, <2>5, <2>6
<1> QED
  BY <1>10, <1>11, <1>12, <1>13, <1>14, <1>16, <1>17 DEF ServeInv

LEMMA ReloadKeeps == ASSUME ServeInv, ReplaceCaches \/ StoreConfig PROVE ServeInv'
<1>1. /\ is' = is /\ newest' = newest /\ back' = back /\ gone' = gone /\ ledger' = ledger
      /\ call' = call
      /\ cache' = cache \/ cache' = [t \in Caching |-> {}]
  BY DEF ReplaceCaches, StoreConfig, world
<1>2. cacheOn' \in BOOLEAN /\ reload' \in BOOLEAN \cup {None}
  BY DEF ReplaceCaches, StoreConfig, ServeInv, ToolTypeOK
<1>3. cache' \in [Caching -> SUBSET Cached] /\ \A t \in Caching : cache'[t] \subseteq cache[t]
  BY <1>1, Typed
<1>4. ToolTypeOK'
  BY <1>1, <1>2, <1>3 DEF ServeInv, ToolTypeOK, Cached
<1>5. \A t \in Exact : Pairs(t)' \subseteq Pairs(t)
  BY <1>1, <1>3, SourceIsOf DEF Pairs
<1>6. KeptHonestly'
  BY <1>1, <1>5 DEF ServeInv, KeptHonestly
<1>7. CallsTyped' /\ Newest' /\ SeenNow' /\ JustThere' /\ KeysSeen' /\ ReadNow' /\ ValuesTrue'
  BY <1>1 DEF ServeInv, CallsTyped, Newest, SeenNow, JustThere, KeysSeen, ReadNow, ValuesTrue, Waiting
<1>8. AgesTrue'
  BY <1>1, <1>3 DEF ServeInv, AgesTrue
<1> QED
  BY <1>4, <1>6, <1>7, <1>8 DEF ServeInv

LEMMA ServeStep == ServeInv /\ [ToolNext]_toolVars => ServeInv'
<1> SUFFICES ASSUME ServeInv, [ToolNext]_toolVars PROVE ServeInv'
  OBVIOUS
<1>1. CASE UNCHANGED toolVars
  BY <1>1 DEF toolVars, ServeInv, ToolTypeOK, CallsTyped, Newest, SeenNow, JustThere, KeysSeen,
     KeptHonestly, Pairs, AgesTrue, ReadNow, ValuesTrue, Waiting
<1>2. ASSUME NEW s \in Shell, BeginTask(s) \/ Refuse(s) PROVE ServeInv'
  BY <1>2, Typed, IdleKeeps DEF BeginTask, Refuse
<1>3. ASSUME NEW s \in Shell, NEW t \in Tool, Ask(s, t) PROVE ServeInv'
  BY <1>3, AskKeeps
<1>4. ASSUME NEW s \in Shell, MakeKey(s) \/ Lookup(s) \/ Do(s) \/ Keep(s) \/ Note(s) PROVE ServeInv'
  BY <1>4, MakeKeyKeeps, LookupKeeps, DoKeeps, KeepKeeps, NoteKeeps
<1>5. CASE ReplaceCaches \/ StoreConfig
  BY <1>5, ReloadKeeps
<1>6. ASSUME NEW o \in Subject, Change(o) \/ Delete(o) \/ MoveBack(o) PROVE ServeInv'
  BY <1>6, WorldKeeps
<1>7. CASE Tick
  BY <1>7, TickKeeps
<1> QED
  BY <1>1, <1>2, <1>3, <1>4, <1>5, <1>6, <1>7 DEF ToolNext, Handle

\* The shared caches, the ledger, the calls and what they are about keep their types.
THEOREM ToolTypeCorrect == ToolSpec => []ToolTypeOK
<1>1. ServeInv => ToolTypeOK
  BY DEF ServeInv
<1> QED
  BY <1>1, ServeInit, ServeStep, PTL DEF ToolSpec

\* Whatever is edited, cached, reloaded and asked for by others between the steps of a
\* call, the tool answers what was so during the call, or at most one lifetime of the
\* cache ago where the cache key leaves a change unnoticed.
THEOREM ServedIsTrueCorrect == ToolSpec => []ServedIsTrue
<1>1. ServeInv => ServedIsTrue
  BY DEF ServeInv, ValuesTrue, ServedIsTrue
<1> QED
  BY <1>1, ServeInit, ServeStep, PTL DEF ToolSpec

-----------------------------------------------------------------------------
(* The web tools *)

Asking == [at : {"idle", "begun", "look", "polite", "asleep", "request", "again", "store", "next",
              "reply", "answered"},
        what : {Nothing, "question", "web_search", "web_read"}, own : Setting \cup {Nothing},
        query : Query \cup {Nothing}, page : Page \cup {Nothing},
        body : Page \cup Seq(Page) \cup {Nothing}, keep : BOOLEAN, wait : 0..MaxDelay,
        todo : Seq(Page), listed : SUBSET Page, read : SUBSET Page]

\* What the caches hold: the results of a search under its question, and a page under the
\* settings it was read under, which let it in.
Results == [key : Query, body : Seq(Page), left : 0..WebTtl + 1]
Reading ==
  {e \in [key : Page \X Setting, body : Page, left : 0..WebTtl + 1] :
     e.body = e.key[1] /\ Allowed(e.key[2], e.body)}
Once(c) == \A i, j \in DOMAIN c : c[i].key = c[j].key => i = j
Kept(c, E) == c \in Seq(E) /\ Len(c) <= Room /\ Once(c)

\* An asker that is not idle goes by settings of its own; what it read they let in, and so
\* what it is about to put into a cache.
AskerSound(r) ==
  /\ r.at # "idle" => r.own \in Setting
  /\ r.at \notin {"idle", "next", "reply", "answered"} /\ Searching(r) => r.query \in Query
  /\ r.at = "store" => IF Searching(r) THEN r.body \in Seq(Page)
                       ELSE r.body = r.page /\ Allowed(r.own, r.page)
  /\ \A p \in r.read : Allowed(r.own, p)

WebInv ==
  /\ web \in Setting /\ renewing \in Setting \cup {Nothing}
  /\ Kept(found, Results) /\ Kept(pages, Reading)
  /\ since \in 0..MaxDelay /\ sources \subseteq Page
  /\ asker \in [Asker -> Asking] /\ \A a \in Asker : AskerSound(asker[a])
  /\ asks \in 0..MaxAsks /\ reloads \in 0..MaxReloads

-----------------------------------------------------------------------------
(* The caches *)

LEMMA Joins ==
  ASSUME NEW E, NEW a \in Seq(E), NEW b \in Seq(E), NEW c, c = a \o b
  PROVE  /\ c \in Seq(E) /\ Len(c) = Len(a) + Len(b)
         /\ \A j \in 1..Len(c) : c[j] = IF j <= Len(a) THEN a[j] ELSE b[j - Len(a)]
  OBVIOUS

\* The part of a sequence from one place to another.
LEMMA SubSeqFacts ==
  ASSUME NEW E, NEW c, NEW m \in Nat, NEW n \in Nat, m # 0, m <= n + 1, \A i \in m..n : c[i] \in E
  PROVE  /\ SubSeq(c, m, n) \in Seq(E) /\ Len(SubSeq(c, m, n)) = n + 1 - m
         /\ \A i \in 1..n + 1 - m : SubSeq(c, m, n)[i] = c[m - 1 + i]
<1>1. PICK s : s = SubSeq(c, m, n)
  OBVIOUS
<1>2. s \in Seq(E)
  BY <1>1
<1>3. Len(s) = n + 1 - m
  BY <1>1, <1>2
<1>4. \A i \in 1..n + 1 - m : s[i] = c[m - 1 + i]
  BY <1>1, <1>2, <1>3
<1> QED
  BY <1>1, <1>2, <1>3, <1>4

\* A cache without a key is a cache with what else was in it.
LEMMA WithoutKept ==
  ASSUME NEW E, NEW c, Kept(c, E), NEW key
  PROVE  /\ Kept(Without(c, key), E)
         /\ \A i \in DOMAIN Without(c, key) : Without(c, key)[i].key # key
         /\ Places(c, key) # {} => Len(Without(c, key)) = Len(c) - 1
<1>1. c \in Seq(E) /\ Len(c) <= Room /\ Once(c) /\ Len(c) \in Nat /\ DOMAIN c = 1..Len(c)
  BY DEF Kept
<1>2. CASE Places(c, key) = {}
  <2>1. Without(c, key) = c
    BY <1>2 DEF Without
  <2>2. \A i \in DOMAIN c : c[i].key # key
    BY <1>2 DEF Places
  <2> QED
    BY <1>2, <2>1, <2>2
<1>3. CASE Places(c, key) # {}
  <2>1. PICK i \in Places(c, key) : i = CHOOSE j \in Places(c, key) : TRUE
    BY <1>3
  <2>2. i \in 1..Len(c) /\ c[i].key = key
    BY <2>1, <1>1 DEF Places
  <2>3. Without(c, key) = SubSeq(c, 1, i - 1) \o SubSeq(c, i + 1, Len(c))
    BY <1>3, <2>1 DEF Without, RemoveAt
  <2>4. PICK w : w = SubSeq(c, 1, i - 1) \o SubSeq(c, i + 1, Len(c))
    OBVIOUS
  <2>5. w \in Seq(E) /\ Len(w) = Len(c) - 1
        /\ \A j \in 1..Len(w) : w[j] = IF j < i THEN c[j] ELSE c[j + 1]
    <3>1. PICK front : front = SubSeq(c, 1, i - 1)
      OBVIOUS
    <3>2. PICK late : late = SubSeq(c, i + 1, Len(c))
      OBVIOUS
    <3>3. front \in Seq(E) /\ Len(front) = i - 1 /\ \A j \in 1..i - 1 : front[j] = c[j]
      <4>1. \A j \in 1..i - 1 : c[j] \in E
        BY <1>1, <2>2
      <4> QED
        BY <1>1, <2>2, <3>1, <4>1, SubSeqFacts
    <3>4. late \in Seq(E) /\ Len(late) = Len(c) - i /\ \A j \in 1..Len(c) - i : late[j] = c[i + j]
      <4>1. \A j \in i + 1..Len(c) : c[j] \in E
        BY <1>1, <2>2
      <4>2. PICK m, n : m = i + 1 /\ n = Len(c)
        OBVIOUS
      <4>3. n \in Nat /\ i \in 1..n
        BY <1>1, <2>2, <4>2
      <4>4. m \in Nat
        BY <4>2, <4>3
      <4>5. i \in Nat /\ i <= n
        BY <4>3
      <4>6. m # 0 /\ m <= n + 1 /\ n + 1 - m = n - i /\ m - 1 = i
        BY <4>2, <4>5, <4>3
      <4>7. \A j \in m..n : c[j] \in E
        BY <4>1, <4>2
      <4>8. late \in Seq(E) /\ Len(late) = n + 1 - m /\ \A j \in 1..n + 1 - m : late[j] = c[m - 1 + j]
        BY <3>2, <4>2, <4>6, <4>7, <4>3, <4>4, SubSeqFacts
      <4> QED
        BY <4>2, <4>6, <4>8
    <3>5. w \in Seq(E) /\ Len(w) = Len(front) + Len(late)
          /\ \A j \in 1..Len(w) : w[j] = IF j <= Len(front) THEN front[j] ELSE late[j - Len(front)]
      <4>1. w = front \o late /\ front \in Seq(E) /\ late \in Seq(E)
        BY <2>4, <3>1, <3>2, <3>3, <3>4
      <4> QED
        BY <4>1, Joins
    <3>6. Len(w) = Len(c) - 1
      <4>1. Len(c) \in Nat /\ i \in Nat
        BY <1>1, <2>2
      <4> QED
        BY <4>1, <3>3, <3>4, <3>5
    <3>7. ASSUME NEW j \in 1..Len(w) PROVE w[j] = IF j < i THEN c[j] ELSE c[j + 1]
      <4>1. CASE j < i
        BY <1>1, <2>2, <3>3, <3>5, <3>6, <4>1
      <4>2. CASE ~(j < i)
        <5>1. j - (i - 1) \in 1..Len(c) - i /\ i + (j - (i - 1)) = j + 1
          BY <1>1, <2>2, <3>6, <4>2
        <5>2. late[j - (i - 1)] = c[j + 1]
          BY <3>4, <5>1
        <5> QED
          BY <2>2, <1>1, <3>3, <3>5, <4>2, <5>2
      <4> QED
        BY <4>1, <4>2
    <3> QED
      BY <3>5, <3>6, <3>7
  <2>6. DOMAIN w = 1..Len(w) /\ Len(w) \in Nat
    BY <2>5
  <2>7. \A j \in DOMAIN w : w[j].key # key
    BY <1>1, <2>2, <2>5, <2>6 DEF Once
  <2>8. Once(w)
    <3> SUFFICES ASSUME NEW j \in 1..Len(w), NEW k \in 1..Len(w), w[j].key = w[k].key
                 PROVE  j = k
      BY <2>6 DEF Once
    <3> DEFINE Old(n) == IF n < i THEN n ELSE n + 1
    <3>1. Old(j) \in DOMAIN c /\ w[j] = c[Old(j)]
      BY <1>1, <2>2, <2>5
    <3>2. Old(k) \in DOMAIN c /\ w[k] = c[Old(k)]
      BY <1>1, <2>2, <2>5
    <3>3. Old(j) = Old(k)
      <4> HIDE DEF Old
      <4> QED
        BY <3>1, <3>2, <1>1 DEF Once
    <3> QED
      BY <3>3, <2>2
  <2>9. Len(w) <= Room
    BY <1>1, <2>5, WebBounds
  <2> QED
    BY <2>3, <2>4, <2>5, <2>7, <2>8, <2>9 DEF Kept
<1> QED
  BY <1>2, <1>3

\* What is put behind a cache that has not its key keeps every key in it once.
LEMMA AppendKept ==
  ASSUME NEW E, NEW c \in Seq(E), Once(c), NEW e \in E, \A i \in DOMAIN c : c[i].key # e.key
  PROVE  Append(c, e) \in Seq(E) /\ Len(Append(c, e)) = Len(c) + 1 /\ Once(Append(c, e))
<1>1. PICK d : d = Append(c, e)
  OBVIOUS
<1>2. d \in Seq(E) /\ Len(d) = Len(c) + 1 /\ DOMAIN d = 1..Len(c) + 1 /\ DOMAIN c = 1..Len(c)
      /\ Len(c) \in Nat /\ d[Len(c) + 1] = e /\ \A i \in 1..Len(c) : d[i] = c[i]
  BY <1>1
<1>3. Once(d)
  BY <1>2 DEF Once
<1> QED
  BY <1>1, <1>2, <1>3

LEMMA FoundIn ==
  ASSUME NEW E, NEW c \in Seq(E), NEW key, NEW e \in Found(c, key)
  PROVE  e \in E /\ e.key = key /\ Places(c, key) # {}
<1>1. PICK i \in DOMAIN c : e = c[i]
  BY DEF Found, ToSet
<1>2. e.key = key /\ c[i] \in E
  BY DEF Found
<1> QED
  BY <1>1, <1>2 DEF Places

LEMMA TouchedKept ==
  ASSUME NEW E, NEW c, Kept(c, E), NEW key
  PROVE  Kept(Touched(c, key), E)
<1>1. CASE Found(c, key) = {}
  BY <1>1, WithoutKept DEF Touched
<1>2. CASE Found(c, key) # {}
  <2>1. PICK e \in Found(c, key) : e = CHOOSE x \in Found(c, key) : TRUE
    BY <1>2
  <2>2. e \in E /\ e.key = key /\ Places(c, key) # {}
    BY <2>1, FoundIn DEF Kept
  <2>3. PICK w : w = Without(c, key)
    OBVIOUS
  <2>4. w \in Seq(E) /\ Once(w) /\ Len(w) = Len(c) - 1 /\ \A i \in DOMAIN w : w[i].key # key
    BY <2>2, <2>3, WithoutKept DEF Kept
  <2>5. Append(w, e) \in Seq(E) /\ Len(Append(w, e)) = Len(w) + 1 /\ Once(Append(w, e))
    BY <2>2, <2>4, AppendKept
  <2>6. Len(c) \in Nat /\ Len(c) <= Room
    BY DEF Kept
  <2>7. Touched(c, key) = Append(w, e)
    BY <1>2, <2>1, <2>3 DEF Touched
  <2> QED
    BY <2>4, <2>5, <2>6, <2>7 DEF Kept
<1> QED
  BY <1>1, <1>2

LEMMA InsertedKept ==
  ASSUME NEW E, NEW c, Kept(c, E), NEW key, NEW body,
         [key |-> key, body |-> body, left |-> WebTtl + 1] \in E
  PROVE  Kept(Inserted(c, key, body), E)
<1>1. PICK e \in E : e = [key |-> key, body |-> body, left |-> WebTtl + 1]
  OBVIOUS
<1>2. PICK w : w = Without(c, key)
  OBVIOUS
<1>3. w \in Seq(E) /\ Once(w) /\ \A i \in DOMAIN w : w[i].key # e.key
  BY <1>1, <1>2, WithoutKept DEF Kept
<1>4. PICK all : all = Append(w, e)
  OBVIOUS
<1>5. all \in Seq(E) /\ Once(all)
  BY <1>3, <1>4, AppendKept
<1>6. Inserted(c, key, body) =
        IF Len(all) <= Room THEN all ELSE SubSeq(all, Len(all) - Room + 1, Len(all))
  BY <1>1, <1>2, <1>4 DEF Inserted
<1>7. CASE Len(all) <= Room
  BY <1>5, <1>6, <1>7 DEF Kept
<1>8. CASE ~(Len(all) <= Room)
  <2>1. Len(all) \in Nat /\ Room \in Nat /\ Len(all) > Room
    BY <1>5, <1>8, WebBounds
  <2>2. PICK s : s = SubSeq(all, Len(all) - Room + 1, Len(all))
    OBVIOUS
  <2>3. s \in Seq(E) /\ Len(s) = Room /\ DOMAIN s = 1..Room
        /\ \A i \in 1..Room : s[i] = all[Len(all) - Room + i]
    <3>1. \A i \in Len(all) - Room + 1..Len(all) : all[i] \in E
      BY <1>5, <2>1
    <3>2. s \in Seq(E) /\ Len(s) = Room /\ \A i \in 1..Room : s[i] = all[Len(all) - Room + i]
      BY <2>1, <2>2, <3>1, SubSeqFacts
    <3> QED
      BY <3>2
  <2>4. Once(s)
    <3> SUFFICES ASSUME NEW i \in 1..Room, NEW j \in 1..Room, s[i].key = s[j].key PROVE i = j
      BY <2>3 DEF Once
    <3>1. Len(all) - Room + i \in DOMAIN all /\ Len(all) - Room + j \in DOMAIN all
      BY <1>5, <2>1
    <3>2. Len(all) - Room + i = Len(all) - Room + j
      BY <1>5, <2>3, <3>1 DEF Once
    <3> QED
      BY <3>2, <2>1
  <2> QED
    BY <1>6, <1>8, <2>2, <2>3, <2>4, <2>1 DEF Kept
<1> QED
  BY <1>7, <1>8

\* Entries that grow older by a tick are the same entries.
LEMMA OlderKept ==
  ASSUME NEW E, NEW c, Kept(c, E),
         \A e \in E : [e EXCEPT !.left = IF @ > 0 THEN @ - 1 ELSE 0] \in E
                      /\ [e EXCEPT !.left = IF @ > 0 THEN @ - 1 ELSE 0].key = e.key
  PROVE  Kept(Older(c), E)
<1>1. c \in Seq(E) /\ Len(c) <= Room /\ Once(c) /\ Len(c) \in Nat /\ DOMAIN c = 1..Len(c)
  BY DEF Kept
<1>2. PICK d : d = Older(c)
  OBVIOUS
<1>3. DOMAIN d = 1..Len(c)
      /\ \A i \in 1..Len(c) : d[i] = [c[i] EXCEPT !.left = IF @ > 0 THEN @ - 1 ELSE 0]
  BY <1>1, <1>2 DEF Older
<1>4. ASSUME NEW i \in 1..Len(c) PROVE c[i] \in E /\ d[i] \in E /\ d[i].key = c[i].key
  <2>1. PICK e : e = c[i]
    OBVIOUS
  <2>2. e \in E
    BY <1>1, <2>1
  <2> QED
    BY <1>3, <2>1, <2>2
<1>5. d \in [1..Len(c) -> E]
  BY <1>1, <1>2, <1>4 DEF Older
<1>6. d \in Seq(E) /\ Len(d) = Len(c)
  BY <1>1, <1>5
<1>7. Once(d)
  BY <1>1, <1>3, <1>4 DEF Once
<1> QED
  BY <1>1, <1>2, <1>6, <1>7 DEF Kept

-----------------------------------------------------------------------------
(* Askers and what they get *)

LEMMA WebStarts == WebInit => WebInv
<1> SUFFICES ASSUME WebInit PROVE WebInv
  OBVIOUS
<1>1. NoAsk \in Asking /\ AskerSound(NoAsk)
  BY WebBounds DEF NoAsk, Asking, AskerSound
<1>2. Kept(<<>>, Results) /\ Kept(<<>>, Reading)
  BY WebBounds DEF Kept, Once
<1> QED
  BY <1>1, <1>2, WebBounds DEF WebInit, WebInv

\* An asker that goes on soundly, and touches neither settings nor ledger, keeps the invariant.
LEMMA AskerGoesOn ==
  ASSUME WebInv, NEW a \in Asker, NEW r \in Asking, AskerSound(r), Set(a, r),
         Kept(found', Results), Kept(pages', Reading), since' \in 0..MaxDelay,
         sources' \subseteq Page, asks' \in 0..MaxAsks, UNCHANGED <<web, renewing, reloads>>
  PROVE  WebInv'
<1>1. asker' \in [Asker -> Asking] /\ \A o \in Asker : asker'[o] = IF o = a THEN r ELSE asker[o]
  BY DEF WebInv, Set
<1>2. \A o \in Asker : AskerSound(asker[o])
  BY DEF WebInv
<1>3. \A o \in Asker : AskerSound(asker'[o])
  BY <1>1, <1>2
<1> QED
  BY <1>1, <1>3 DEF WebInv

LEMMA Sound ==
  ASSUME WebInv, NEW a \in Asker
  PROVE  /\ asker[a] \in Asking /\ AskerSound(asker[a])
         /\ Kept(found, Results) /\ Kept(pages, Reading) /\ since \in 0..MaxDelay
         /\ sources \subseteq Page /\ asks \in 0..MaxAsks
  BY DEF WebInv

\* What a body must be for an asker to take it.
Fits(r, body) == IF Searching(r) THEN body \in Seq(Page) ELSE body = r.page /\ Allowed(r.own, body)

LEMMA TakenSound ==
  ASSUME NEW r \in Asking, AskerSound(r), r.at # "idle", NEW body, Fits(r, body)
  PROVE  Taken(r, body) \in Asking /\ AskerSound(Taken(r, body))
<1>1. r.own \in Setting /\ \A p \in r.read : Allowed(r.own, p)
  BY DEF AskerSound
<1>2. CASE r.what = "question"
  <2> DEFINE atMost == IF MaxPages < 1 THEN 1 ELSE MaxPages
             last == IF Len(body) < atMost THEN Len(body) ELSE atMost
  <2>1. CASE Searching(r)
    <3>1. body \in Seq(Page)
      BY <2>1 DEF Fits
    <3>2. PICK first : first = SubSeq(body, 1, last)
      OBVIOUS
    <3>3. first \in Seq(Page)
      <4>1. last \in Nat /\ last <= Len(body) /\ Len(body) \in Nat
        BY <3>1, WebBounds
      <4>2. \A i \in 1..last : body[i] \in Page
        BY <3>1, <4>1
      <4> HIDE DEF last
      <4> QED
        BY <3>2, <4>1, <4>2, SubSeqFacts
    <3>4. ToSet(first) \in SUBSET Page
      BY <3>3 DEF ToSet
    <3>5. Taken(r, body) =
            [r EXCEPT !.at = "next", !.body = Nothing, !.todo = first, !.listed = ToSet(first)]
      BY <1>2, <2>1, <3>2 DEF Taken, TakenByQuestion
    <3>6. Taken(r, body) \in Asking
      BY <3>3, <3>4, <3>5 DEF Asking
    <3> QED
      BY <1>1, <3>5, <3>6 DEF Asking, AskerSound
  <2>2. CASE ~Searching(r)
    <3>1. body = r.page /\ body \in Page /\ Allowed(r.own, body)
      BY <2>2 DEF Fits, Searching, Asking
    <3>2. Taken(r, body) =
            [r EXCEPT !.at = "next", !.body = Nothing, !.page = Nothing, !.read = @ \cup {body}]
      BY <1>2, <2>2 DEF Taken, TakenByQuestion
    <3>3. Taken(r, body) \in Asking
      <4>1. PICK read \in SUBSET Page : read = r.read \cup {body}
        BY <3>1 DEF Asking
      <4>2. Taken(r, body) =
              [r EXCEPT !.at = "next", !.body = Nothing, !.page = Nothing, !.read = read]
        BY <3>2, <4>1
      <4> QED
        BY <4>2 DEF Asking
    <3>4. Taken(r, body).at = "next" /\ Taken(r, body).own = r.own
          /\ Taken(r, body).read = r.read \cup {body}
      BY <3>2 DEF Asking
    <3> QED
      BY <1>1, <3>1, <3>3, <3>4 DEF AskerSound
  <2> QED
    BY <2>1, <2>2
<1>3. CASE r.what # "question"
  <2>1. CASE Searching(r)
    <3>1. body \in Seq(Page)
      BY <2>1 DEF Fits
    <3>2. ToSet(body) \in SUBSET Page
      BY <3>1 DEF ToSet
    <3>3. Taken(r, body) = [r EXCEPT !.at = "reply", !.body = Nothing, !.listed = ToSet(body)]
      BY <1>3, <2>1 DEF Taken, TakenByTool
    <3>4. Taken(r, body) \in Asking
      BY <3>2, <3>3 DEF Asking
    <3> QED
      BY <1>1, <3>3, <3>4 DEF Asking, AskerSound
  <2>2. CASE ~Searching(r)
    <3>1. body = r.page /\ body \in Page /\ Allowed(r.own, body)
      BY <2>2 DEF Fits, Searching, Asking
    <3>2. Taken(r, body) =
            [r EXCEPT !.at = "reply", !.body = Nothing, !.page = Nothing, !.read = {body}]
      BY <1>3, <2>2 DEF Taken, TakenByTool
    <3>3. Taken(r, body) \in Asking
      <4>1. PICK read \in SUBSET Page : read = {body}
        BY <3>1
      <4>2. Taken(r, body) =
              [r EXCEPT !.at = "reply", !.body = Nothing, !.page = Nothing, !.read = read]
        BY <3>2, <4>1
      <4> QED
        BY <4>2 DEF Asking
    <3>4. Taken(r, body).at = "reply" /\ Taken(r, body).own = r.own
          /\ Taken(r, body).read = {body}
      BY <3>2 DEF Asking
    <3> QED
      BY <1>1, <3>1, <3>3, <3>4 DEF AskerSound
  <2> QED
    BY <2>1, <2>2
<1> QED
  BY <1>2, <1>3

LEMMA GotSound ==
  ASSUME NEW r \in Asking, AskerSound(r), r.at \in {"request", "again"}, NEW body, Fits(r, body)
  PROVE  Got(r, body) \in Asking /\ AskerSound(Got(r, body))
<1>1. CASE ~r.keep
  BY <1>1, TakenSound DEF Got
<1>2. CASE r.keep
  <2>1. PICK q : q = [r EXCEPT !.at = "store", !.body = body]
    OBVIOUS
  <2>2. Got(r, body) = q
    BY <1>2, <2>1 DEF Got
  <2>3. body \in Page \cup Seq(Page)
    BY DEF Fits, Searching, Asking
  <2>4. q \in Asking
    BY <2>1, <2>3 DEF Asking
  <2>5. q.at = "store" /\ q.own = r.own /\ q.query = r.query /\ q.page = r.page /\ q.body = body
        /\ q.read = r.read
    BY <2>1 DEF Asking
  <2>6. AskerSound(q)
    BY <2>5 DEF AskerSound, Fits, Searching
  <2> QED
    BY <2>2, <2>4, <2>6
<1> QED
  BY <1>1, <1>2

-----------------------------------------------------------------------------
(* The steps *)

LEMMA AsksKeep ==
  ASSUME WebInv, NEW a \in Asker, AskQuestion(a) \/ AskSearch(a) \/ AskRead(a)
  PROVE  WebInv'
<1>1. web \in Setting /\ NoAsk \in Asking
  BY WebBounds DEF WebInv, NoAsk, Asking
<1>2. asks' \in 0..MaxAsks
  <2>1. asks \in 0..MaxAsks /\ asks < MaxAsks /\ asks' = asks + 1
    BY Sound DEF AskQuestion, AskSearch, AskRead
  <2> QED
    BY <2>1, WebBounds
<1>3. PICK r \in Asking : Set(a, r) /\ AskerSound(r)
  <2>1. CASE AskQuestion(a)
    <3>1. PICK q \in Query : Set(a, [NoAsk EXCEPT !.what = "question", !.own = web, !.query = q, !.at = "begun"])
      BY <2>1 DEF AskQuestion
    <3>2. PICK r : r = [NoAsk EXCEPT !.what = "question", !.own = web, !.query = q, !.at = "begun"]
      OBVIOUS
    <3>3. r \in Asking
      BY <1>1, <3>2 DEF Asking
    <3>4. r.at = "begun" /\ r.own = web /\ r.query = q /\ r.read = {}
      BY <3>2 DEF NoAsk
    <3>5. AskerSound(r)
      BY <1>1, <3>4 DEF AskerSound, Searching
    <3> QED
      BY <3>1, <3>2, <3>3, <3>5
  <2>2. CASE AskSearch(a)
    <3>1. PICK q \in Query : Set(a, [NoAsk EXCEPT !.what = "web_search", !.own = web, !.query = q, !.at = "begun"])
      BY <2>2 DEF AskSearch
    <3>2. PICK r : r = [NoAsk EXCEPT !.what = "web_search", !.own = web, !.query = q, !.at = "begun"]
      OBVIOUS
    <3>3. r \in Asking
      BY <1>1, <3>2 DEF Asking
    <3>4. r.at = "begun" /\ r.own = web /\ r.query = q /\ r.read = {}
      BY <3>2 DEF NoAsk
    <3>5. AskerSound(r)
      BY <1>1, <3>4 DEF AskerSound, Searching
    <3> QED
      BY <3>1, <3>2, <3>3, <3>5
  <2>3. CASE AskRead(a)
    <3>1. PICK p \in Page : Set(a, [NoAsk EXCEPT !.what = "web_read", !.own = web, !.page = p, !.at = "look"])
      BY <2>3 DEF AskRead
    <3>2. PICK r : r = [NoAsk EXCEPT !.what = "web_read", !.own = web, !.page = p, !.at = "look"]
      OBVIOUS
    <3>3. r \in Asking
      BY <1>1, <3>2 DEF Asking
    <3>4. r.at = "look" /\ r.own = web /\ r.page = p /\ r.read = {}
      BY <3>2 DEF NoAsk
    <3>5. AskerSound(r)
      BY <1>1, <3>4, NothingAssumption DEF AskerSound, Searching
    <3> QED
      BY <3>1, <3>2, <3>3, <3>5
  <2> QED
    BY <2>1, <2>2, <2>3
<1>4. /\ Kept(found', Results) /\ Kept(pages', Reading) /\ since' \in 0..MaxDelay
      /\ sources' \subseteq Page /\ UNCHANGED <<web, renewing, reloads>>
  BY Sound DEF AskQuestion, AskSearch, AskRead
<1> QED
  BY <1>2, <1>3, <1>4, AskerGoesOn

\* What an asker becomes when only where it is, and what it waits for, changes.
LEMMA MovedSound ==
  ASSUME NEW r \in Asking, AskerSound(r), r.at # "idle", NEW q \in Asking,
         q.own = r.own, q.query = r.query, q.page = r.page, q.read = r.read,
         q.at # "store",
         q.at \in {"idle", "next", "reply", "answered"}
           \/ r.at \notin {"idle", "next", "reply", "answered"}
  PROVE  AskerSound(q)
  BY DEF AskerSound, Searching

LEMMA MovesKeep ==
  ASSUME WebInv, NEW a \in Asker,
         BuildProvider(a) \/ FallBack(a) \/ SearchFails(a) \/ ReadFails(a)
  PROVE  WebInv'
<1>1. PICK r : r = asker[a]
  OBVIOUS
<1>2. r \in Asking /\ AskerSound(r)
  BY <1>1, Sound
<1>3. CASE ReadFails(a)
  <2>1. PICK at \in {"next", "reply"} : at = IF r.what = "question" THEN "next" ELSE "reply"
    OBVIOUS
  <2>6. PICK q : q = [r EXCEPT !.at = at, !.page = Nothing]
    OBVIOUS
  <2>2. r.at = "request" /\ Set(a, q)
    BY <1>1, <1>3, <2>1, <2>6 DEF ReadFails, Lost
  <2>3. q \in Asking
    BY <1>2, <2>6 DEF Asking
  <2>4. q.at \in {"next", "reply"} /\ q.own = r.own /\ q.read = r.read
    BY <1>2, <2>6 DEF Asking
  <2>5. AskerSound(q)
    BY <1>2, <2>2, <2>4 DEF AskerSound
  <2> QED
    BY <1>3, <2>2, <2>3, <2>5, Sound, AskerGoesOn DEF ReadFails
<1>4. CASE BuildProvider(a) \/ FallBack(a) \/ SearchFails(a)
  <2>1. PICK at \in {"look", "reply", "again"} : Set(a, [r EXCEPT !.at = at])
    BY <1>1, <1>4 DEF BuildProvider, FallBack, SearchFails
  <2>2. PICK q : q = [r EXCEPT !.at = at]
    OBVIOUS
  <2>3. q \in Asking
    BY <1>2, <2>2 DEF Asking
  <2>4. q.at = at /\ q.own = r.own /\ q.query = r.query /\ q.page = r.page /\ q.read = r.read
    BY <1>2, <2>2 DEF Asking
  <2>5. r.at \in {"begun", "request", "again"}
    BY <1>1, <1>4 DEF BuildProvider, FallBack, SearchFails
  <2>6. AskerSound(q)
    BY <1>2, <2>3, <2>4, <2>5, MovedSound
  <2> QED
    BY <1>4, <2>1, <2>2, <2>3, <2>6, Sound, AskerGoesOn DEF BuildProvider, FallBack, SearchFails
<1> QED
  BY <1>3, <1>4

LEMMA LookKeeps == ASSUME WebInv, NEW a \in Asker, Look(a) PROVE WebInv'
<1>1. PICK r : r = asker[a]
  OBVIOUS
<1>2. r \in Asking /\ AskerSound(r) /\ r.at = "look"
  BY <1>1, Sound DEF Look
<1>3. Kept(found', Results) /\ Kept(pages', Reading)
  BY <1>1, Sound, TouchedKept DEF Look
<1>4. PICK missed : missed = [r EXCEPT !.at = "polite", !.keep = web.caching]
  OBVIOUS
<1>5. missed \in Asking /\ AskerSound(missed)
  <2>1. web.caching \in BOOLEAN
    BY WebBounds DEF WebInv
  <2>2. missed \in Asking
    BY <1>2, <1>4, <2>1 DEF Asking
  <2>3. missed.at = "polite" /\ missed.own = r.own /\ missed.query = r.query
        /\ missed.page = r.page /\ missed.read = r.read
    BY <1>2, <1>4 DEF Asking
  <2> QED
    BY <1>2, <2>2, <2>3, MovedSound
<1>6. \/ Set(a, missed)
      \/ Searching(r) /\ \E e \in Found(found, SearchKey(r)) : Set(a, Taken(r, e.body))
      \/ ~Searching(r) /\ \E e \in Found(pages, ReadKey(r)) : Set(a, Taken(r, e.body))
  BY <1>1, <1>4 DEF Look
<1>7. since' \in 0..MaxDelay /\ sources' \subseteq Page /\ asks' \in 0..MaxAsks
      /\ UNCHANGED <<web, renewing, reloads>>
  BY Sound DEF Look
<1>8. CASE Set(a, missed)
  BY <1>3, <1>5, <1>7, <1>8, AskerGoesOn
<1>9. CASE Searching(r) /\ \E e \in Found(found, SearchKey(r)) : Set(a, Taken(r, e.body))
  <2>1. PICK e \in Found(found, SearchKey(r)) : Set(a, Taken(r, e.body))
    BY <1>9
  <2>2. e \in Results
    BY <2>1, Sound, FoundIn DEF Kept
  <2>3. Fits(r, e.body)
    BY <1>9, <2>2 DEF Fits, Results
  <2>4. Taken(r, e.body) \in Asking /\ AskerSound(Taken(r, e.body))
    BY <1>2, <2>3, TakenSound
  <2> QED
    BY <1>3, <1>7, <2>1, <2>4, AskerGoesOn
<1>10. CASE ~Searching(r) /\ \E e \in Found(pages, ReadKey(r)) : Set(a, Taken(r, e.body))
  <2>1. PICK e \in Found(pages, ReadKey(r)) : Set(a, Taken(r, e.body))
    BY <1>10
  <2>2. e \in Reading /\ e.key = <<r.page, r.own>>
    BY <2>1, Sound, FoundIn DEF Kept, ReadKey
  <2>3. e.body = r.page /\ Allowed(r.own, r.page)
    BY <2>2 DEF Reading
  <2>4. Fits(r, e.body)
    BY <1>10, <2>3 DEF Fits
  <2>5. Taken(r, e.body) \in Asking /\ AskerSound(Taken(r, e.body))
    BY <1>2, <2>4, TakenSound
  <2> QED
    BY <1>3, <1>7, <2>1, <2>5, AskerGoesOn
<1> QED
  BY <1>6, <1>8, <1>9, <1>10

LEMMA SlotKeeps == ASSUME WebInv, NEW a \in Asker, Slot(a) PROVE WebInv'
<1>1. PICK r : r = asker[a]
  OBVIOUS
<1>2. r \in Asking /\ AskerSound(r) /\ r.at \in {"polite", "asleep"}
  BY <1>1, Sound DEF Slot
<1>3. r.own \in Setting /\ r.own.delay \in 0..MaxDelay /\ since \in 0..MaxDelay /\ MaxDelay \in Nat
  BY <1>2, Sound, WebBounds DEF AskerSound
<1>4. PICK at \in {"request", "asleep"}, wait \in 0..MaxDelay :
        Set(a, [r EXCEPT !.at = at, !.wait = wait])
  <2>1. CASE since >= r.own.delay
    <3>1. Set(a, [r EXCEPT !.at = "request", !.wait = 0])
      BY <1>1, <2>1 DEF Slot
    <3>2. 0 \in 0..MaxDelay
      BY WebBounds
    <3> QED
      BY <3>1, <3>2
  <2>2. CASE ~(since >= r.own.delay)
    <3>1. r.own.delay - since \in 0..MaxDelay
      BY <1>3, <2>2
    <3>2. Set(a, [r EXCEPT !.at = "asleep", !.wait = r.own.delay - since])
      BY <1>1, <2>2 DEF Slot
    <3> QED
      BY <3>1, <3>2
  <2> QED
    BY <2>1, <2>2
<1>5. since' \in 0..MaxDelay
  BY <1>1, <1>3 DEF Slot
<1>6. PICK q : q = [r EXCEPT !.at = at, !.wait = wait]
  OBVIOUS
<1>7. q \in Asking
  BY <1>2, <1>6 DEF Asking
<1>8. q.at = at /\ q.own = r.own /\ q.query = r.query /\ q.page = r.page /\ q.read = r.read
  BY <1>2, <1>6 DEF Asking
<1>9. AskerSound(q)
  BY <1>2, <1>7, <1>8, MovedSound
<1> QED
  BY <1>4, <1>5, <1>6, <1>7, <1>9, Sound, AskerGoesOn DEF Slot

LEMMA ListsFit ==
  ASSUME NEW own, NEW list \in CustomResults(own) \cup BuiltInResults
  PROVE  list \in Seq(Page)
<1>1. ASSUME NEW S \in SUBSET Page, NEW l \in Lists(S) PROVE l \in Seq(Page)
  <2>1. PICK n \in 0..MaxResults : l \in [1..n -> S]
    BY <1>1 DEF Lists, BoundedSeq, SeqOf
  <2>2. n \in Nat /\ l \in [1..n -> Page]
    BY <2>1, WebBounds
  <2> QED
    BY <2>2
<1> QED
  BY <1>1 DEF CustomResults, BuiltInResults

LEMMA GetsKeep == ASSUME WebInv, NEW a \in Asker, Search(a) \/ ReadPage(a) PROVE WebInv'
<1>1. PICK r : r = asker[a]
  OBVIOUS
<1>2. r \in Asking /\ AskerSound(r) /\ r.at \in {"request", "again"}
  BY <1>1, Sound DEF Search, ReadPage
<1>3. PICK body : Set(a, Got(r, body)) /\ Fits(r, body)
  <2>1. CASE Search(a)
    <3>1. PICK list \in CustomResults(r.own) \cup BuiltInResults : Set(a, Got(r, list))
      BY <1>1, <2>1 DEF Search
    <3>2. list \in Seq(Page) /\ Searching(r)
      BY <1>1, <2>1, <3>1, ListsFit DEF Search
    <3> QED
      BY <3>1, <3>2 DEF Fits
  <2>2. CASE ReadPage(a)
    BY <1>1, <2>2 DEF ReadPage, Fits
  <2> QED
    BY <2>1, <2>2
<1>4. Got(r, body) \in Asking /\ AskerSound(Got(r, body))
  BY <1>2, <1>3, GotSound
<1> QED
  BY <1>3, <1>4, Sound, AskerGoesOn DEF Search, ReadPage

LEMMA StoreKeeps == ASSUME WebInv, NEW a \in Asker, Store(a) PROVE WebInv'
<1>1. PICK r : r = asker[a]
  OBVIOUS
<1>2. r \in Asking /\ AskerSound(r) /\ r.at = "store" /\ r.own \in Setting
  BY <1>1, Sound DEF Store, AskerSound
<1>3. Set(a, Taken(r, r.body))
  BY <1>1 DEF Store
<1>4. Fits(r, r.body)
  BY <1>2 DEF AskerSound, Fits
<1>5. Taken(r, r.body) \in Asking /\ AskerSound(Taken(r, r.body))
  BY <1>2, <1>4, TakenSound
<1>6. WebTtl + 1 \in 0..WebTtl + 1
  BY WebBounds
<1>7. CASE Searching(r)
  <2>1. [key |-> r.query, body |-> r.body, left |-> WebTtl + 1] \in Results
    BY <1>2, <1>6, <1>7 DEF AskerSound, Results
  <2>2. Kept(Inserted(found, r.query, r.body), Results)
    BY <2>1, Sound, InsertedKept
  <2>3. found' = Inserted(found, r.query, r.body) /\ pages' = pages
    BY <1>1, <1>7 DEF Store, SearchKey
  <2> QED
    BY <1>3, <1>5, <2>2, <2>3, Sound, AskerGoesOn DEF Store
<1>8. CASE ~Searching(r)
  <2>1. r.page \in Page /\ r.body = r.page /\ Allowed(r.own, r.page)
    BY <1>2, <1>8 DEF AskerSound, Searching, Asking
  <2>2. PICK e : e = [key |-> <<r.page, r.own>>, body |-> r.body, left |-> WebTtl + 1]
    OBVIOUS
  <2>3. e \in [key : Page \X Setting, body : Page, left : 0..WebTtl + 1]
    BY <1>2, <1>6, <2>1, <2>2
  <2>4. e.key[1] = r.page /\ e.key[2] = r.own /\ e.body = r.page
    BY <2>1, <2>2
  <2>5. e \in Reading
    BY <2>1, <2>3, <2>4 DEF Reading
  <2>6. Kept(Inserted(pages, <<r.page, r.own>>, r.body), Reading)
    BY <2>2, <2>5, Sound, InsertedKept
  <2>7. pages' = Inserted(pages, <<r.page, r.own>>, r.body) /\ found' = found
    BY <1>1, <1>8 DEF Store, ReadKey
  <2> QED
    BY <1>3, <1>5, <2>6, <2>7, Sound, AskerGoesOn DEF Store
<1> QED
  BY <1>7, <1>8

LEMMA NextPageKeeps == ASSUME WebInv, NEW a \in Asker, NextPage(a) PROVE WebInv'
<1>1. PICK r : r = asker[a]
  OBVIOUS
<1>2. r \in Asking /\ AskerSound(r) /\ r.at = "next" /\ r.todo \in Seq(Page)
  BY <1>1, Sound DEF NextPage, Asking
<1>3. CASE r.todo = <<>>
  <2>1. PICK q : q = [r EXCEPT !.at = "reply"]
    OBVIOUS
  <2>2. q \in Asking
    BY <1>2, <2>1 DEF Asking
  <2>3. q.at = "reply" /\ q.own = r.own /\ q.read = r.read
    BY <1>2, <2>1 DEF Asking
  <2>4. AskerSound(q) /\ Set(a, q)
    BY <1>1, <1>2, <1>3, <2>1, <2>3 DEF AskerSound, NextPage
  <2> QED
    BY <2>2, <2>4, Sound, AskerGoesOn DEF NextPage
<1>4. CASE r.todo # <<>>
  <2>1. PICK p, todo : p = Head(r.todo) /\ todo = Tail(r.todo)
    OBVIOUS
  <2>2. p \in Page /\ todo \in Seq(Page)
    BY <1>2, <1>4, <2>1
  <2>3. PICK q : q = [r EXCEPT !.at = "look", !.page = p, !.todo = todo, !.keep = FALSE]
    OBVIOUS
  <2>4. q \in Asking
    BY <1>2, <2>2, <2>3 DEF Asking
  <2>5. q.at = "look" /\ q.page = p /\ q.own = r.own /\ q.read = r.read
    BY <1>2, <2>3 DEF Asking
  <2>6. AskerSound(q)
    BY <1>2, <2>2, <2>5, NothingAssumption DEF AskerSound, Searching
  <2>7. Set(a, q)
    BY <1>1, <1>4, <2>1, <2>3 DEF NextPage
  <2> QED
    BY <2>4, <2>6, <2>7, Sound, AskerGoesOn DEF NextPage
<1> QED
  BY <1>3, <1>4

LEMMA AnswersKeep == ASSUME WebInv, NEW a \in Asker, Answer(a) \/ Rest(a) PROVE WebInv'
<1>1. PICK r : r = asker[a]
  OBVIOUS
<1>2. r \in Asking /\ AskerSound(r)
  BY <1>1, Sound
<1>3. CASE Answer(a)
  <2>1. PICK q : q = [r EXCEPT !.at = "answered"]
    OBVIOUS
  <2>2. q \in Asking
    BY <1>2, <2>1 DEF Asking
  <2>3. q.at = "answered" /\ q.own = r.own /\ q.read = r.read /\ r.at = "reply"
    BY <1>1, <1>2, <1>3, <2>1 DEF Asking, Answer
  <2>4. AskerSound(q) /\ Set(a, q)
    BY <1>1, <1>2, <1>3, <2>1, <2>3 DEF AskerSound, Answer
  <2>5. sources' \subseteq Page
    <3>1. sources' = (sources \cup r.listed) \cup r.read
      BY <1>1, <1>3 DEF Answer
    <3>2. r.listed \subseteq Page /\ r.read \subseteq Page
      BY <1>2 DEF Asking
    <3> QED
      BY <3>1, <3>2, Sound
  <2> QED
    BY <1>3, <2>2, <2>4, <2>5, Sound, AskerGoesOn DEF Answer
<1>4. CASE Rest(a)
  <2>1. NoAsk \in Asking /\ AskerSound(NoAsk)
    BY WebBounds DEF NoAsk, Asking, AskerSound
  <2> QED
    BY <1>4, <2>1, Sound, AskerGoesOn DEF Rest
<1> QED
  BY <1>3, <1>4

LEMMA ReloadsKeep == ASSUME WebInv, RenewCaches \/ StoreSettings PROVE WebInv'
<1>1. Kept(<<>>, Results) /\ Kept(<<>>, Reading)
  BY WebBounds DEF Kept, Once
<1>2. CASE RenewCaches
  <2>1. reloads \in 0..MaxReloads /\ reloads < MaxReloads /\ reloads' = reloads + 1
    BY <1>2 DEF RenewCaches, WebInv
  <2>2. reloads' \in 0..MaxReloads
    BY <2>1, WebBounds
  <2> QED
    BY <1>1, <1>2, <2>2 DEF RenewCaches, WebInv
<1>3. CASE StoreSettings
  <2>1. web' \in Setting
    BY <1>3 DEF StoreSettings, WebInv
  <2> QED
    BY <1>3, <2>1 DEF StoreSettings, WebInv
<1> QED
  BY <1>2, <1>3

LEMMA TickKeepsWeb == ASSUME WebInv, WebTick PROVE WebInv'
<1>1. Kept(found', Results)
  <2>1. ASSUME NEW e \in Results
        PROVE  [e EXCEPT !.left = IF @ > 0 THEN @ - 1 ELSE 0] \in Results
               /\ [e EXCEPT !.left = IF @ > 0 THEN @ - 1 ELSE 0].key = e.key
    <3>1. PICK left \in 0..WebTtl + 1 : left = IF e.left > 0 THEN e.left - 1 ELSE 0
      BY WebBounds DEF Results
    <3>2. [e EXCEPT !.left = IF @ > 0 THEN @ - 1 ELSE 0] = [e EXCEPT !.left = left]
      BY <3>1
    <3> QED
      BY <3>2 DEF Results
  <2> QED
    BY <2>1, Sound, OlderKept DEF WebTick, WebInv
<1>2. Kept(pages', Reading)
  <2>1. ASSUME NEW e \in Reading
        PROVE  [e EXCEPT !.left = IF @ > 0 THEN @ - 1 ELSE 0] \in Reading
               /\ [e EXCEPT !.left = IF @ > 0 THEN @ - 1 ELSE 0].key = e.key
    <3>1. PICK left \in 0..WebTtl + 1 : left = IF e.left > 0 THEN e.left - 1 ELSE 0
      BY WebBounds DEF Reading
    <3>2. PICK d : d = [e EXCEPT !.left = left]
      OBVIOUS
    <3>3. [e EXCEPT !.left = IF @ > 0 THEN @ - 1 ELSE 0] = d
      BY <3>1, <3>2
    <3>4. e \in [key : Page \X Setting, body : Page, left : 0..WebTtl + 1]
          /\ e.body = e.key[1] /\ Allowed(e.key[2], e.body)
      BY DEF Reading
    <3>5. d \in [key : Page \X Setting, body : Page, left : 0..WebTtl + 1]
          /\ d.key = e.key /\ d.body = e.body
      BY <3>2, <3>4
    <3>6. d \in Reading
      BY <3>4, <3>5 DEF Reading
    <3> QED
      BY <3>3, <3>5, <3>6
  <2> QED
    BY <2>1, OlderKept DEF WebTick, WebInv
<1>3. since' \in 0..MaxDelay
  BY WebBounds DEF WebTick, WebInv
<1>4. ASSUME NEW a \in Asker PROVE asker'[a] \in Asking /\ AskerSound(asker'[a])
  <2>1. PICK r \in Asking : r = asker[a] /\ AskerSound(r)
    BY Sound
  <2>2. PICK wait \in 0..MaxDelay : wait = IF r.wait > 0 THEN r.wait - 1 ELSE 0
    BY WebBounds DEF Asking
  <2>3. asker'[a] = [r EXCEPT !.wait = wait]
    BY <2>1, <2>2 DEF WebTick
  <2>4. PICK q : q = [r EXCEPT !.wait = wait]
    OBVIOUS
  <2>5. q \in Asking
    BY <2>4 DEF Asking
  <2>6. /\ q.at = r.at /\ q.own = r.own /\ q.query = r.query /\ q.page = r.page
        /\ q.body = r.body /\ q.read = r.read
    BY <2>4 DEF Asking
  <2>7. AskerSound(q)
    BY <2>1, <2>6 DEF AskerSound, Searching
  <2> QED
    BY <2>3, <2>4, <2>5, <2>7
<1>5. asker' \in [Asker -> Asking]
  BY <1>4 DEF WebTick
<1> QED
  BY <1>1, <1>2, <1>3, <1>4, <1>5 DEF WebTick, WebInv

LEMMA WebKeeps == WebInv /\ [WebNext]_webVars => WebInv'
<1> SUFFICES ASSUME WebInv, [WebNext]_webVars PROVE WebInv'
  OBVIOUS
<1>1. ASSUME NEW a \in Asker, AskQuestion(a) \/ AskSearch(a) \/ AskRead(a) PROVE WebInv'
  BY <1>1, AsksKeep
<1>2. ASSUME NEW a \in Asker, Work(a) PROVE WebInv'
  BY <1>2, MovesKeep, LookKeeps, SlotKeeps, GetsKeep, StoreKeeps, NextPageKeeps, AnswersKeep DEF Work
<1>3. CASE RenewCaches \/ StoreSettings
  BY <1>3, ReloadsKeep
<1>4. CASE WebTick
  BY <1>4, TickKeepsWeb
<1>5. CASE UNCHANGED webVars
  BY <1>5 DEF webVars, WebInv
<1> QED
  BY <1>1, <1>2, <1>3, <1>4, <1>5 DEF WebNext

LEMMA WebInvSays == WebInv => WebTypeOK /\ PagesWithinPolicy
<1> SUFFICES ASSUME WebInv PROVE WebTypeOK /\ PagesWithinPolicy
  OBVIOUS
<1>1. ASSUME NEW a \in Asker
      PROVE  /\ asker[a].at \in {"idle", "begun", "look", "polite", "asleep", "request", "again",
                                 "store", "next", "reply", "answered"}
             /\ asker[a].what \in {Nothing, "question", "web_search", "web_read"}
             /\ asker[a].own \in Setting \cup {Nothing} /\ asker[a].wait \in 0..MaxDelay
             /\ asker[a].listed \subseteq Page /\ asker[a].read \subseteq Page
             /\ \A p \in asker[a].read : Allowed(asker[a].own, p)
  <2>1. PICK r \in Asking : r = asker[a] /\ AskerSound(r)
    BY Sound
  <2> QED
    BY <2>1 DEF Asking, AskerSound
<1> QED
  BY <1>1 DEF WebInv, WebTypeOK, PagesWithinPolicy, Kept

WebSpec == WebInit /\ [][WebNext]_webVars

\* WebTypeOK: the caches of searches and pages never outgrow their room, and what askers
\* hold is what their step calls for.
THEOREM WebTypeCorrect == WebSpec => []WebTypeOK
<1>1. WebInit => WebInv
  BY WebStarts
<1>2. WebInv /\ [WebNext]_webVars => WebInv'
  BY WebKeeps
<1>3. WebInv => WebTypeOK
  BY WebInvSays
<1> QED
  BY <1>1, <1>2, <1>3, PTL DEF WebSpec

\* PagesWithinPolicy: whatever the policies, pages and redirects, however many ask at once,
\* and whenever a reload replaces caches and policy, no answer holds a page that the policy
\* its asker started with would not let in.  It holds because web_read_cache_key names the
\* whole policy (main.rs 3517): what a cache holds under a key, that policy let in.
THEOREM PagesCorrect == WebSpec => []PagesWithinPolicy
<1>1. WebInit => WebInv
  BY WebStarts
<1>2. WebInv /\ [WebNext]_webVars => WebInv'
  BY WebKeeps
<1>3. WebInv => PagesWithinPolicy
  BY WebInvSays
<1> QED
  BY <1>1, <1>2, <1>3, PTL DEF WebSpec

-----------------------------------------------------------------------------
(* The inference providers *)

InferenceSpec == InferenceInit /\ [][InferenceNext]_inferenceVars

\* A request has a task once it has begun, and its handler cannot be about to cancel
\* before that.
Begun ==
  \A r \in Request :
    /\ req[r].at # "new" => req[r].task \in Task
    /\ req[r].at = "new" => req[r].task = Nobody /\ req[r].ear = "none"

\* chat_stream holds the mutex, so nobody cancels in the middle of it.
Connecting == \A r \in Request : req[r].at = "connecting" => mutex = r

\* A task's id leads to a request of that task.
FlagsLead == \A t \in Task : flags[t] # Nobody => req[flags[t]].task = t

\* A flag that is up where it is looked at was raised for this request, and a new one is
\* down.  Ollama registers it before it connects, the local provider after.
Flagged ==
  \A r \in Request :
    /\ r \in raised /\ req[r].at \in {"queued", "preparing", "running"} => r \in meant
    /\ req[r].at = "connecting" /\ kind = "ollama" /\ req[r].stream => r \notin raised

CancelInv ==
  /\ InferenceTypeOK /\ Begun /\ Connecting /\ FlagsLead /\ Flagged /\ CancelledOnPurpose

USE InferenceBounds, NobodyAssumption

LEMMA CancelInit == InferenceInit => CancelInv
<1> SUFFICES ASSUME InferenceInit PROVE CancelInv
  OBVIOUS
<1>1. InferenceTypeOK
  BY DEF InferenceInit, InferenceTypeOK
<1>2. Begun /\ Connecting /\ FlagsLead /\ Flagged /\ CancelledOnPurpose
  BY DEF InferenceInit, Begun, Connecting, FlagsLead, Flagged, CancelledOnPurpose
<1> QED
  BY <1>1, <1>2 DEF CancelInv

\* The parts of the invariant speak of one request at a time: a step that changes one
\* request's record and no flag keeps them if it keeps them for that one.
Record == [task : Task \cup {Nobody},
           at : {"new", "waiting", "connecting", "queued", "preparing", "running", "ending", "over"},
           ear : {"none", "waiting", "reading", "cancelling", "left"},
           stream : BOOLEAN, left : 0..MaxTokens,
           out : {"none", "done", "failed", "cancelled"}]

LEMMA IsRecord == ASSUME CancelInv, NEW r \in Request PROVE req[r] \in Record
  BY DEF CancelInv, InferenceTypeOK, Record

LEMMA RequestMoves ==
  ASSUME CancelInv, NEW r \in Request, NEW q \in Record,
         req' = [req EXCEPT ![r] = q], q.at # "new", q.task \in Task,
         req[r].at # "new" => q.task = req[r].task,
         UNCHANGED <<kind, cancels, meant>>,
         mutex' \in Request \cup {Nobody}, generating' \in Request \cup {Nobody},
         q.at = "connecting" => mutex' = r,
         mutex' = mutex \/ req[r].at = "connecting" \/ mutex = Nobody,
         flags' \in [Task -> Request \cup {Nobody}],
         \A t \in Task : flags'[t] \in {flags[t], Nobody} \/ (flags'[t] = r /\ t = q.task),
         raised' \subseteq raised,
         r \in raised' /\ q.at \in {"queued", "preparing", "running"} => r \in meant,
         q.at = "connecting" /\ kind = "ollama" /\ q.stream => r \notin raised',
         q.out = "cancelled" => r \in meant
  PROVE  CancelInv'
<1>1. /\ req \in [Request -> Record]
      /\ mutex \in Request \cup {Nobody}
      /\ flags \in [Task -> Request \cup {Nobody}]
  BY DEF CancelInv, InferenceTypeOK, Record
<1>2. req' \in [Request -> Record] /\ req'[r] = q /\ \A o \in Request \ {r} : req'[o] = req[o]
  BY <1>1
<1>3. InferenceTypeOK'
  BY <1>2 DEF CancelInv, InferenceTypeOK, Record
<1>4. Begun'
  BY <1>2 DEF CancelInv, Begun
<1>5. Connecting'
  BY <1>2 DEF CancelInv, Connecting
<1>6. ASSUME NEW t \in Task, flags'[t] # Nobody PROVE req'[flags'[t]].task = t
  <2>1. CASE flags'[t] = r /\ t = q.task
    BY <2>1, <1>2
  <2>2. CASE flags'[t] = flags[t]
    <3>1. flags[t] \in Request /\ req[flags[t]].task = t
      BY <1>1, <1>6, <2>2 DEF CancelInv, FlagsLead
    <3>2. CASE flags[t] # r
      BY <3>1, <3>2, <2>2, <1>2
    <3>3. CASE flags[t] = r
      <4>1. req[r].at # "new"
        BY <3>1, <3>3 DEF CancelInv, Begun
      <4> QED
        BY <4>1, <3>1, <3>3, <2>2, <1>2
    <3> QED
      BY <3>2, <3>3
  <2> QED
    BY <2>1, <2>2, <1>6
<1>7. FlagsLead'
  BY <1>6 DEF FlagsLead
<1>8. Flagged'
  BY <1>2 DEF CancelInv, Flagged
<1>9. CancelledOnPurpose'
  BY <1>2 DEF CancelInv, CancelledOnPurpose
<1> QED
  BY <1>3, <1>4, <1>5, <1>7, <1>8, <1>9 DEF CancelInv

\* A cancel waits for the mutex, so no request is connecting; the flag it raises is that
\* of a request of the task, which it is meant for if it is under way.  The handler that
\* cancels may leave at the same time.
LEMMA CancelKeeps ==
  ASSUME CancelInv, NEW t \in Task, CancelTask(t), cancels' \in 0..MaxCancels,
         req' \in [Request -> Record],
         \A o \in Request :
           /\ req'[o].task = req[o].task /\ req'[o].at = req[o].at
           /\ req'[o].out = req[o].out /\ req'[o].stream = req[o].stream
           /\ req[o].at = "new" => req'[o].ear = req[o].ear
  PROVE  CancelInv'
<1>1. InferenceTypeOK'
  <2>1. raised' \subseteq Request
    BY DEF CancelInv, InferenceTypeOK, CancelTask
  <2>2. meant' \subseteq Request
    BY DEF CancelInv, InferenceTypeOK, CancelTask
  <2> QED
    BY <2>1, <2>2 DEF CancelInv, InferenceTypeOK, CancelTask, Record
<1>2. Begun'
  BY DEF CancelInv, Begun
<1>3. FlagsLead'
  <2> SUFFICES ASSUME NEW u \in Task, flags[u] # Nobody PROVE req'[flags[u]].task = u
    BY DEF FlagsLead, CancelTask
  <2>1. flags[u] \in Request /\ req[flags[u]].task = u
    BY DEF CancelInv, FlagsLead, InferenceTypeOK
  <2> QED
    BY <2>1
<1>4. Connecting'
  BY DEF CancelInv, Connecting, CancelTask
<1>5. Flagged'
  <2> SUFFICES ASSUME NEW r \in Request
               PROVE  /\ r \in raised' /\ req[r].at \in {"queued", "preparing", "running"} => r \in meant'
                      /\ req[r].at # "connecting"
    BY DEF Flagged, CancelTask
  <2>1. req[r].at # "connecting"
    BY DEF CancelInv, Connecting, CancelTask
  <2>2. CASE r \in raised
    BY <2>1, <2>2 DEF CancelInv, Flagged, CancelTask
  <2>3. CASE r \notin raised /\ r \in raised'
    <3>1. flags[t] = r /\ req[r].task = t
      BY <2>3 DEF CancelInv, FlagsLead, CancelTask
    <3> QED
      BY <3>1, <2>1 DEF CancelTask
  <2> QED
    BY <2>1, <2>2, <2>3
<1>6. CancelledOnPurpose'
  BY DEF CancelInv, CancelledOnPurpose, CancelTask
<1> QED
  BY <1>1, <1>2, <1>3, <1>4, <1>5, <1>6 DEF CancelInv

-----------------------------------------------------------------------------
(* The actions *)

LEMMA BeginKeeps == ASSUME CancelInv, NEW r \in Request, Begin(r) PROVE CancelInv'
<1>1. PICK t \in Task, stream \in BOOLEAN :
        req' = [req EXCEPT ![r].task = t, ![r].stream = stream, ![r].at = "waiting", ![r].ear = "waiting"]
  BY DEF Begin
<1>2. PICK q \in Record :
        q = [req[r] EXCEPT !.task = t, !.stream = stream, !.at = "waiting", !.ear = "waiting"]
  BY IsRecord DEF Record
<1>3. req' = [req EXCEPT ![r] = q]
  BY <1>1, <1>2 DEF CancelInv, InferenceTypeOK
<1>4. q.task = t /\ q.at = "waiting" /\ q.out = req[r].out
  BY <1>2 DEF CancelInv, InferenceTypeOK
<1>5. UNCHANGED <<kind, mutex, generating, flags, raised, cancels, meant>> /\ req[r].at = "new"
  BY DEF Begin
<1>6. q.out = "cancelled" => r \in meant
  BY <1>4 DEF CancelInv, CancelledOnPurpose
<1> QED
  BY <1>3, <1>4, <1>5, <1>6, RequestMoves DEF CancelInv, InferenceTypeOK

LEMMA ConnectKeeps == ASSUME CancelInv, NEW r \in Request, Connect(r) PROVE CancelInv'
<1>1. PICK q \in Record : q = [req[r] EXCEPT !.at = "connecting"]
  BY IsRecord DEF Record
<1>2. req' = [req EXCEPT ![r] = q] /\ req[r].at = "waiting"
  BY <1>1 DEF Connect, At, CancelInv, InferenceTypeOK
<1>3. q.at = "connecting" /\ q.task = req[r].task /\ q.stream = req[r].stream /\ q.out = req[r].out
  BY <1>1, IsRecord DEF Record
<1>4. q.task \in Task /\ (q.out = "cancelled" => r \in meant)
  BY <1>2, <1>3 DEF CancelInv, Begun, CancelledOnPurpose
<1>5. /\ mutex = Nobody /\ mutex' = r /\ UNCHANGED <<kind, generating, cancels, meant>>
  BY DEF Connect
<1>6. CASE kind = "ollama" /\ req[r].stream
  <2>1. flags' = [flags EXCEPT ![req[r].task] = r] /\ raised' = raised \ {r}
    BY <1>6 DEF Connect, Registers, NewFlag
  <2>2. /\ flags' \in [Task -> Request \cup {Nobody}]
        /\ \A t \in Task : flags'[t] = flags[t] \/ (flags'[t] = r /\ t = q.task)
    BY <2>1, <1>3 DEF CancelInv, InferenceTypeOK
  <2>3. raised' \subseteq raised /\ r \notin raised'
    BY <2>1
  <2>4. generating' \in Request \cup {Nobody}
    BY <1>5 DEF CancelInv, InferenceTypeOK
  <2>5. /\ \A t \in Task : flags'[t] \in {flags[t], Nobody} \/ (flags'[t] = r /\ t = q.task)
        /\ mutex' \in Request \cup {Nobody} /\ mutex = Nobody /\ mutex' = r
        /\ q.at # "new" /\ q.at \notin {"queued", "preparing", "running"}
    BY <2>2, <1>3, <1>5
  <2> QED
    BY <2>2, <2>3, <2>4, <2>5, <1>2, <1>3, <1>4, <1>5, RequestMoves
<1>7. CASE ~(kind = "ollama" /\ req[r].stream)
  <2>1. UNCHANGED <<flags, raised>>
    BY <1>7 DEF Connect
  <2> QED
    BY <2>1, <1>2, <1>3, <1>4, <1>5, <1>7, RequestMoves DEF CancelInv, InferenceTypeOK
<1> QED
  BY <1>6, <1>7

\* The other steps of a request, with no flag of its own to come: what it may become.
LEMMA FlagsStay ==
  ASSUME CancelInv, NEW r \in Request, NEW q \in Record,
         req' = [req EXCEPT ![r] = q],
         q.task = req[r].task, req[r].at # "new", q.at \notin {"new", "connecting"},
         q.at \in {"queued", "preparing", "running"} =>
            \/ req[r].at \in {"queued", "preparing", "running"}
            \/ req[r].at = "connecting" /\ kind = "ollama" /\ req[r].stream,
         q.out # req[r].out => q.out # "cancelled" \/ (r \in raised /\ req[r].at = "running"),
         mutex' = mutex \/ (req[r].at = "connecting" /\ mutex' = Nobody),
         generating' \in {generating, r, Nobody},
         UNCHANGED <<kind, flags, raised, cancels, meant>>
  PROVE  CancelInv'
<1>1. q.task \in Task
  BY DEF CancelInv, Begun
<1>2. r \in raised /\ q.at \in {"queued", "preparing", "running"} => r \in meant
  BY DEF CancelInv, Flagged
<1>3. q.out = "cancelled" => r \in meant
  BY DEF CancelInv, Flagged, CancelledOnPurpose
<1>4. mutex' \in Request \cup {Nobody} /\ generating' \in Request \cup {Nobody}
  BY DEF CancelInv, InferenceTypeOK
<1>5. flags' \in [Task -> Request \cup {Nobody}] /\ \A t \in Task : flags'[t] = flags[t]
  BY DEF CancelInv, InferenceTypeOK
<1> QED
  BY <1>1, <1>2, <1>3, <1>4, <1>5, RequestMoves

LEMMA ConnectFailsKeeps == ASSUME CancelInv, NEW r \in Request, ConnectFails(r) PROVE CancelInv'
<1>1. PICK q \in Record : q = [req[r] EXCEPT !.at = "over", !.out = "failed", !.ear = "cancelling"]
  BY IsRecord DEF Record
<1>2. req' = [req EXCEPT ![r] = q] /\ req[r].at = "connecting"
  BY <1>1 DEF ConnectFails, CancelInv, InferenceTypeOK
<1>3. q.at = "over" /\ q.out = "failed" /\ q.task = req[r].task
  BY <1>1, IsRecord DEF Record
<1> QED
  BY <1>2, <1>3, FlagsStay DEF ConnectFails

LEMMA SpawnOllamaKeeps == ASSUME CancelInv, NEW r \in Request, SpawnOllama(r) PROVE CancelInv'
<1>1. PICK q \in Record : q = [req[r] EXCEPT !.at = "running", !.ear = "reading"]
  BY IsRecord DEF Record
<1>2. req' = [req EXCEPT ![r] = q] /\ req[r].at = "connecting"
  BY <1>1 DEF SpawnOllama, CancelInv, InferenceTypeOK
<1>3. q.at = "running" /\ q.out = req[r].out /\ q.task = req[r].task
  BY <1>1, IsRecord DEF Record
<1> QED
  BY <1>2, <1>3, FlagsStay DEF SpawnOllama

LEMMA GenerateKeeps == ASSUME CancelInv, NEW r \in Request, Generate(r) PROVE CancelInv'
<1>1. PICK q \in Record : q = [req[r] EXCEPT !.at = "preparing"]
  BY IsRecord DEF Record
<1>2. req' = [req EXCEPT ![r] = q] /\ req[r].at = "queued"
  BY <1>1 DEF Generate, MayGenerate, At, CancelInv, InferenceTypeOK
<1>3. q.at = "preparing" /\ q.out = req[r].out /\ q.task = req[r].task
  BY <1>1, IsRecord DEF Record
<1> QED
  BY <1>2, <1>3, FlagsStay DEF Generate

\* A request that runs goes on, or ends in one way or another.
LEMMA EndKeeps ==
  ASSUME CancelInv, NEW r \in Request, NEW out \in {"done", "failed", "cancelled"},
         req[r].at \in {"preparing", "running"}, req' = Ends(r, out),
         out = "cancelled" => r \in raised /\ req[r].at = "running",
         UNCHANGED <<kind, mutex, generating, flags, raised, cancels, meant>>
  PROVE  CancelInv'
<1>1. PICK q \in Record : q = [req[r] EXCEPT !.at = "ending", !.out = out]
  BY IsRecord DEF Record
<1>2. req' = [req EXCEPT ![r] = q]
  BY <1>1 DEF Ends, CancelInv, InferenceTypeOK
<1>3. q.at = "ending" /\ q.out = out /\ q.task = req[r].task
  BY <1>1, IsRecord DEF Record
<1> QED
  BY <1>2, <1>3, FlagsStay

LEMMA TokenKeeps ==
  ASSUME CancelInv, NEW r \in Request, req[r].at = "running", req[r].left > 0,
         req' = [req EXCEPT ![r].left = @ - 1],
         UNCHANGED <<kind, mutex, generating, flags, raised, cancels, meant>>
  PROVE  CancelInv'
<1>1. req[r].left - 1 \in 0..MaxTokens
  BY DEF CancelInv, InferenceTypeOK
<1>2. PICK q \in Record : q = [req[r] EXCEPT !.left = @ - 1]
  BY <1>1, IsRecord DEF Record
<1>3. req' = [req EXCEPT ![r] = q]
  BY <1>2 DEF CancelInv, InferenceTypeOK
<1>4. q.at = "running" /\ q.out = req[r].out /\ q.task = req[r].task
  BY <1>2, IsRecord DEF Record
<1> QED
  BY <1>3, <1>4, FlagsStay

LEMMA PrepareKeeps == ASSUME CancelInv, NEW r \in Request, Prepare(r) PROVE CancelInv'
<1>1. CASE req' = At(r, "running")
  <2>1. PICK q \in Record : q = [req[r] EXCEPT !.at = "running"]
    BY IsRecord DEF Record
  <2>2. req' = [req EXCEPT ![r] = q]
    BY <1>1, <2>1 DEF At, CancelInv, InferenceTypeOK
  <2>3. q.at = "running" /\ q.out = req[r].out /\ q.task = req[r].task
    BY <2>1, IsRecord DEF Record
  <2> QED
    BY <2>2, <2>3, FlagsStay DEF Prepare
<1>2. CASE req' = Ends(r, "failed")
  BY <1>2, EndKeeps DEF Prepare
<1> QED
  BY <1>1, <1>2 DEF Prepare

LEMMA SampleKeeps == ASSUME CancelInv, NEW r \in Request, Sample(r) PROVE CancelInv'
<1>1. CASE req[r].left > 0 /\ req' = [req EXCEPT ![r].left = @ - 1]
  BY <1>1, TokenKeeps DEF Sample
<1>2. CASE req' = Ends(r, "cancelled") /\ r \in raised
  BY <1>2, EndKeeps DEF Sample
<1>3. CASE req' = Ends(r, "failed") \/ req' = Ends(r, "done")
  BY <1>3, EndKeeps DEF Sample
<1> QED
  BY <1>1, <1>2, <1>3 DEF Sample

LEMMA ChunkKeeps == ASSUME CancelInv, NEW r \in Request, Chunk(r) PROVE CancelInv'
<1>1. CASE req[r].left > 0 /\ req' = [req EXCEPT ![r].left = @ - 1]
  BY <1>1, TokenKeeps DEF Chunk
<1>2. CASE req' = Ends(r, "cancelled") /\ r \in raised
  BY <1>2, EndKeeps DEF Chunk
<1>3. CASE req' = Ends(r, "failed") \/ req' = Ends(r, "done")
  BY <1>3, EndKeeps DEF Chunk
<1> QED
  BY <1>1, <1>2, <1>3 DEF Chunk

LEMMA SpawnLocalKeeps == ASSUME CancelInv, NEW r \in Request, SpawnLocal(r) PROVE CancelInv'
<1>1. PICK q \in Record : q = [req[r] EXCEPT !.at = "queued", !.ear = "reading"]
  BY IsRecord DEF Record
<1>2. req' = [req EXCEPT ![r] = q] /\ req[r].at = "connecting"
  BY <1>1 DEF SpawnLocal, At, CancelInv, InferenceTypeOK
<1>3. q.at = "queued" /\ q.out = req[r].out /\ q.task = req[r].task
  BY <1>1, IsRecord DEF Record
<1>4. flags' = [flags EXCEPT ![req[r].task] = r] /\ raised' = raised \ {r}
  BY DEF SpawnLocal, Registers, NewFlag
<1>5. /\ flags' \in [Task -> Request \cup {Nobody}]
      /\ \A t \in Task : flags'[t] = flags[t] \/ (flags'[t] = r /\ t = q.task)
  BY <1>3, <1>4 DEF CancelInv, InferenceTypeOK
<1>6. q.task \in Task /\ (q.out = "cancelled" => r \in meant)
  BY <1>2, <1>3 DEF CancelInv, Begun, CancelledOnPurpose
<1>7. raised' \subseteq raised /\ r \notin raised'
  BY <1>4
<1>8. mutex' = Nobody /\ generating' \in Request \cup {Nobody} /\ UNCHANGED <<kind, cancels, meant>>
  BY DEF SpawnLocal, CancelInv, InferenceTypeOK
<1>9. /\ \A t \in Task : flags'[t] \in {flags[t], Nobody} \/ (flags'[t] = r /\ t = q.task)
      /\ mutex' \in Request \cup {Nobody} /\ q.at \notin {"new", "connecting"}
  BY <1>3, <1>5, <1>8
<1> QED
  BY <1>2, <1>3, <1>5, <1>6, <1>7, <1>8, <1>9, RequestMoves

LEMMA WholeAnswerKeeps == ASSUME CancelInv, NEW r \in Request, WholeAnswer(r) PROVE CancelInv'
<1>1. PICK q \in Record : q = [req[r] EXCEPT !.at = "over", !.out = "done", !.ear = "reading"]
  BY IsRecord DEF Record
<1>2. req' = [req EXCEPT ![r] = q] /\ req[r].at = "connecting"
  BY <1>1 DEF WholeAnswer, At, CancelInv, InferenceTypeOK
<1>3. q.at = "over" /\ q.out = "done" /\ q.task = req[r].task
  BY <1>1, IsRecord DEF Record
<1>4. flags' = [flags EXCEPT ![req[r].task] = Nobody] /\ raised' = raised
  BY DEF WholeAnswer
<1>5. /\ flags' \in [Task -> Request \cup {Nobody}]
      /\ \A t \in Task : flags'[t] \in {flags[t], Nobody}
  BY <1>4 DEF CancelInv, InferenceTypeOK
<1>6. q.task \in Task /\ (q.out = "cancelled" => r \in meant)
  BY <1>2, <1>3 DEF CancelInv, Begun, CancelledOnPurpose
<1>7. /\ mutex' = Nobody /\ mutex' \in Request \cup {Nobody}
      /\ generating' \in Request \cup {Nobody} /\ UNCHANGED <<kind, cancels, meant>>
  BY DEF WholeAnswer, CancelInv, InferenceTypeOK
<1> QED
  BY <1>2, <1>3, <1>4, <1>5, <1>6, <1>7, RequestMoves

LEMMA FinishKeeps == ASSUME CancelInv, NEW r \in Request, Finish(r) PROVE CancelInv'
<1>1. PICK q \in Record : q = [req[r] EXCEPT !.at = "over"]
  BY IsRecord DEF Record
<1>2. req' = [req EXCEPT ![r] = q] /\ req[r].at = "ending"
  BY <1>1 DEF Finish, At, CancelInv, InferenceTypeOK
<1>3. q.at = "over" /\ q.out = req[r].out /\ q.task = req[r].task
  BY <1>1, IsRecord DEF Record
<1>4. flags' = [flags EXCEPT ![req[r].task] = Nobody] /\ raised' = raised
  BY DEF Finish
<1>5. /\ flags' \in [Task -> Request \cup {Nobody}]
      /\ \A t \in Task : flags'[t] \in {flags[t], Nobody}
  BY <1>4 DEF CancelInv, InferenceTypeOK
<1>6. q.task \in Task /\ (q.out = "cancelled" => r \in meant)
  BY <1>2, <1>3 DEF CancelInv, Begun, CancelledOnPurpose
<1>7. /\ mutex' = mutex /\ mutex' \in Request \cup {Nobody}
      /\ generating' \in Request \cup {Nobody} /\ UNCHANGED <<kind, cancels, meant>>
  BY DEF Finish, CancelInv, InferenceTypeOK
<1> QED
  BY <1>2, <1>3, <1>4, <1>5, <1>6, <1>7, RequestMoves

\* What a handler does without a cancel changes where it listens only.
LEMMA EarKeeps ==
  ASSUME CancelInv, NEW r \in Request, NEW ear \in {"cancelling", "left"},
         req[r].ear = "reading", req' = [req EXCEPT ![r].ear = ear],
         UNCHANGED <<kind, mutex, generating, flags, raised, cancels, meant>>
  PROVE  CancelInv'
<1>1. PICK q \in Record : q = [req[r] EXCEPT !.ear = ear]
  BY IsRecord DEF Record
<1>2. req' = [req EXCEPT ![r] = q]
  BY <1>1 DEF CancelInv, InferenceTypeOK
<1>3. q.at = req[r].at /\ q.out = req[r].out /\ q.task = req[r].task /\ q.stream = req[r].stream
  BY <1>1, IsRecord DEF Record
<1>4. req[r].at # "new" /\ q.task \in Task
  BY <1>3 DEF CancelInv, Begun
<1>5. /\ q.at = "connecting" => mutex' = r
      /\ r \in raised /\ q.at \in {"queued", "preparing", "running"} => r \in meant
      /\ q.at = "connecting" /\ kind = "ollama" /\ q.stream => r \notin raised
      /\ q.out = "cancelled" => r \in meant
  BY <1>3 DEF CancelInv, Connecting, Flagged, CancelledOnPurpose
<1>6. /\ mutex' \in Request \cup {Nobody} /\ generating' \in Request \cup {Nobody}
      /\ flags' \in [Task -> Request \cup {Nobody}]
  BY DEF CancelInv, InferenceTypeOK
<1> QED
  BY <1>2, <1>3, <1>4, <1>5, <1>6, RequestMoves

LEMMA CancelAndLeaveKeeps ==
  ASSUME CancelInv, NEW r \in Request, CancelAndLeave(r) PROVE CancelInv'
<1>1. req[r].at # "new" /\ req[r].task \in Task
  BY DEF CancelAndLeave, CancelInv, Begun
<1>2. req' \in [Request -> Record]
  BY DEF CancelAndLeave, CancelInv, InferenceTypeOK, Record
<1>3. \A o \in Request :
        /\ req'[o].task = req[o].task /\ req'[o].at = req[o].at
        /\ req'[o].out = req[o].out /\ req'[o].stream = req[o].stream
        /\ req[o].at = "new" => req'[o].ear = req[o].ear
  BY <1>1 DEF CancelAndLeave, CancelInv, InferenceTypeOK
<1>4. CancelTask(req[r].task) /\ cancels' \in 0..MaxCancels
  BY DEF CancelAndLeave, CancelInv, InferenceTypeOK
<1> QED
  BY <1>1, <1>2, <1>3, <1>4, CancelKeeps

LEMMA OutsideKeeps ==
  ASSUME CancelInv, NEW t \in Task, CancelFromOutside(t) PROVE CancelInv'
<1>1. req' \in [Request -> Record] /\ req' = req
  BY DEF CancelFromOutside, CancelInv, InferenceTypeOK, Record
<1>2. cancels' \in 0..MaxCancels
  BY DEF CancelFromOutside, CancelInv, InferenceTypeOK
<1> QED
  BY <1>1, <1>2, CancelKeeps DEF CancelFromOutside

LEMMA CancelStep == CancelInv /\ [InferenceNext]_inferenceVars => CancelInv'
<1> SUFFICES ASSUME CancelInv, [InferenceNext]_inferenceVars PROVE CancelInv'
  OBVIOUS
<1>1. ASSUME NEW r \in Request, Begin(r) PROVE CancelInv'
  BY <1>1, BeginKeeps
<1>2. ASSUME NEW r \in Request, Serve(r) PROVE CancelInv'
  BY <1>2, ConnectKeeps, ConnectFailsKeeps, SpawnLocalKeeps, SpawnOllamaKeeps, WholeAnswerKeeps,
     GenerateKeeps, PrepareKeeps, SampleKeeps, ChunkKeeps, FinishKeeps DEF Serve
<1>3. ASSUME NEW r \in Request, Listen(r) PROVE CancelInv'
  <2>1. CASE Hear(r) \/ GiveUp(r)
    BY <2>1, EarKeeps DEF Hear, GiveUp
  <2>2. CASE HearError(r) \/ Stall(r) \/ StopEarly(r)
    BY <2>2, EarKeeps DEF HearError, Stall, StopEarly
  <2>3. CASE CancelAndLeave(r)
    BY <2>3, CancelAndLeaveKeeps
  <2> QED
    BY <1>3, <2>1, <2>2, <2>3 DEF Listen
<1>4. ASSUME NEW t \in Task, CancelFromOutside(t) PROVE CancelInv'
  BY <1>4, OutsideKeeps
<1>5. CASE UNCHANGED inferenceVars
  BY <1>5 DEF inferenceVars, CancelInv, InferenceTypeOK, Begun, Connecting, FlagsLead, Flagged,
     CancelledOnPurpose
<1> QED
  BY <1>1, <1>2, <1>3, <1>4, <1>5 DEF InferenceNext

\* The records of requests, the flags and the mutex keep their types.
THEOREM InferenceTypeCorrect == InferenceSpec => []InferenceTypeOK
<1>1. CancelInv => InferenceTypeOK
  BY DEF CancelInv
<1> QED
  BY <1>1, CancelInit, CancelStep, PTL DEF InferenceSpec

\* A cancel never ends a request it was not meant for: neither a newer request of the
\* task, whose flag took the place of the older one's, nor one of another task, however
\* many requests handlers have left behind.
THEOREM CancelledOnPurposeCorrect == InferenceSpec => []CancelledOnPurpose
<1>1. CancelInv => CancelledOnPurpose
  BY DEF CancelInv
<1> QED
  BY <1>1, CancelInit, CancelStep, PTL DEF InferenceSpec
=============================================================================
