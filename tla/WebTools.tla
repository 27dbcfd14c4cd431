------------------------------- MODULE WebTools -------------------------------
(***************************************************************************)
(* What the daemon asks of the web: a task classified as a web question,   *)
(* and the tools web_search and web_read.  They share two caches, the time *)
(* of the last request, by which requests are kept apart, and the ledger.  *)
(* An asker goes by the settings it started with; a reload may replace the *)
(* caches and the settings while it waits.                                 *)
(***************************************************************************)
EXTENDS Naturals, Sequences, SequencesExt

CONSTANTS Asker,      \* the connections, each with one handler
          Query,      \* what is searched for
          Page,       \* the addresses of the web
          Plain,      \* those that only a policy with allow_plain_http (or, for
                      \* local addresses, allow_local_addresses) lets in
          LeadsTo,    \* where a request for an address ends, after its redirects
          Setting,    \* the configurations: policy, delay between requests, cache
          MaxDelay,   \* the longest delay of them, in ticks
          WebTtl,     \* the lifetime of a cached body, in ticks
          Room,       \* the bodies a cache holds
          MaxResults, \* web.max_results
          MaxPages,   \* web.max_pages_per_task
          MaxAsks,    \* bound on the questions asked
          MaxReloads, \* bound on the reloads
          Nothing     \* no page, no key, no settings

ASSUME WebBounds ==
  /\ MaxDelay \in Nat /\ WebTtl \in Nat /\ Room \in Nat /\ MaxResults \in Nat /\ MaxPages \in Nat
  /\ MaxAsks \in Nat /\ MaxReloads \in Nat
  /\ Plain \subseteq Page /\ LeadsTo \in [Page -> Page]
  /\ Setting \subseteq [plain : BOOLEAN, delay : 0..MaxDelay, caching : BOOLEAN]
ASSUME NothingAssumption == Nothing \notin Page \cup Setting

VARIABLES
  web,       \* the stored configuration
  renewing,  \* the configuration a reload is about to store
  found,     \* web_search_cache, the least recently used first
  pages,     \* web_read_cache, likewise
  since,     \* ticks since web_last_request_at; MaxDelay: long ago, or never
  sources,   \* last_source_ledger: the pages it names
  asker,     \* the handler of each connection
  asks, reloads

webVars == <<web, renewing, found, pages, since, sources, asker, asks, reloads>>

\* validate_web_url, for the address and for every hop of its redirects.
Allowed(own, p) == own.plain \/ {p, LeadsTo[p]} \cap Plain = {}

NoAsk == [at |-> "idle", what |-> Nothing, own |-> Nothing, query |-> Nothing, page |-> Nothing,
          body |-> Nothing, keep |-> FALSE, wait |-> 0, todo |-> <<>>, listed |-> {}, read |-> {}]

WebInit ==
  /\ web \in Setting /\ renewing = Nothing
  /\ found = <<>> /\ pages = <<>>
  /\ since = MaxDelay
  /\ sources = {}
  /\ asker = [a \in Asker |-> NoAsk]
  /\ asks = 0 /\ reloads = 0

Set(a, r) == asker' = [asker EXCEPT ![a] = r]

-----------------------------------------------------------------------------
\* WebCache: a key is in it once.  A body is found by its key until it is too old, and
\* found again it is the last to go; what is inserted pushes out the oldest, itself too
\* if there is no room.
Places(cache, key) == {i \in DOMAIN cache : cache[i].key = key}
Without(cache, key) ==
  IF Places(cache, key) = {} THEN cache ELSE RemoveAt(cache, CHOOSE i \in Places(cache, key) : TRUE)
Found(cache, key) == {e \in ToSet(cache) : e.key = key /\ e.left > 0}
Touched(cache, key) ==
  IF Found(cache, key) = {} THEN Without(cache, key)
  ELSE Append(Without(cache, key), CHOOSE e \in Found(cache, key) : TRUE)
\* Mutant: what is inserted pushes nothing out.
InsertedAnyway(cache, key, body) ==
  Append(Without(cache, key), [key |-> key, body |-> body, left |-> WebTtl + 1])
Inserted(cache, key, body) ==
  LET all == Append(Without(cache, key), [key |-> key, body |-> body, left |-> WebTtl + 1])
  IN IF Len(all) <= Room THEN all ELSE SubSeq(all, Len(all) - Room + 1, Len(all))

\* A search is known by the provider and the question, the policy its results were
\* filtered by left out; a page by all the settings that it was read under.
SearchKey(r) == r.query
\* Mutant: a page is known by its address.
ReadKeyByAddress(r) == r.page
ReadKey(r) == <<r.page, r.own>>
Searching(r) == r.page = Nothing

-----------------------------------------------------------------------------
\* The settings are taken once, when the question or the tool call is taken up.  A
\* question is a task of its own, whose StartTask empties the ledger.
AskQuestion(a) ==
  /\ asker[a].at = "idle" /\ asks < MaxAsks
  /\ \E q \in Query : Set(a, [NoAsk EXCEPT !.what = "question", !.own = web, !.query = q, !.at = "begun"])
  /\ asks' = asks + 1
  /\ sources' = {}
  /\ UNCHANGED <<web, renewing, found, pages, since, reloads>>
AskSearch(a) ==
  /\ asker[a].at = "idle" /\ asks < MaxAsks
  /\ \E q \in Query : Set(a, [NoAsk EXCEPT !.what = "web_search", !.own = web, !.query = q, !.at = "begun"])
  /\ asks' = asks + 1
  /\ UNCHANGED <<web, renewing, found, pages, since, sources, reloads>>
AskRead(a) ==
  /\ asker[a].at = "idle" /\ asks < MaxAsks
  /\ \E p \in Page : Set(a, [NoAsk EXCEPT !.what = "web_read", !.own = web, !.page = p, !.at = "look"])
  /\ asks' = asks + 1
  /\ UNCHANGED <<web, renewing, found, pages, since, sources, reloads>>

\* No endpoint, no key or no such provider ends a search before it is made.
BuildProvider(a) ==
  /\ asker[a].at = "begun"
  /\ \E next \in {"look", "reply"} : Set(a, [asker[a] EXCEPT !.at = next])
  /\ UNCHANGED <<web, renewing, found, pages, since, sources, asks, reloads>>

\* What the asker does with what it got: a tool hands it on; a question reads the first
\* of its results, one after the other.
TakenByTool(r, body) ==
  IF Searching(r) THEN [r EXCEPT !.at = "reply", !.body = Nothing, !.listed = ToSet(body)]
  ELSE [r EXCEPT !.at = "reply", !.body = Nothing, !.page = Nothing, !.read = {body}]
TakenByQuestion(r, body) ==
  LET atMost == IF MaxPages < 1 THEN 1 ELSE MaxPages
      first == SubSeq(body, 1, IF Len(body) < atMost THEN Len(body) ELSE atMost)
  IN IF Searching(r)
     THEN [r EXCEPT !.at = "next", !.body = Nothing, !.todo = first, !.listed = ToSet(first)]
     ELSE [r EXCEPT !.at = "next", !.body = Nothing, !.page = Nothing, !.read = @ \cup {body}]
Taken(r, body) == IF r.what = "question" THEN TakenByQuestion(r, body) ELSE TakenByTool(r, body)

\* Mutant: a page that fails is tried again.
LostIsRetried(r) == [r EXCEPT !.at = IF r.what = "question" THEN "look" ELSE "reply"]

\* A page that fails is passed over by a question, an error for the tool.
Lost(r) == [r EXCEPT !.at = IF r.what = "question" THEN "next" ELSE "reply", !.page = Nothing]

\* Whether to use a cache is asked of the stored configuration, not of the asker's.
Look(a) ==
  /\ asker[a].at = "look"
  /\ LET r == asker[a]
         miss == Set(a, [r EXCEPT !.at = "polite", !.keep = web.caching])
     IN IF ~web.caching THEN miss /\ UNCHANGED <<found, pages>>
        ELSE IF Searching(r)
        THEN /\ found' = Touched(found, SearchKey(r)) /\ UNCHANGED pages
             /\ IF Found(found, SearchKey(r)) = {} THEN miss
                ELSE \E e \in Found(found, SearchKey(r)) : Set(a, Taken(r, e.body))
        ELSE /\ pages' = Touched(pages, ReadKey(r)) /\ UNCHANGED found
             /\ IF Found(pages, ReadKey(r)) = {} THEN miss
                ELSE \E e \in Found(pages, ReadKey(r)) : Set(a, Taken(r, e.body))
  /\ UNCHANGED <<web, renewing, since, sources, asks, reloads>>

\* enforce_web_politeness: who comes too early sleeps for what is missing and looks again.
Slot(a) ==
  /\ \/ asker[a].at = "polite"
     \/ asker[a].at = "asleep" /\ asker[a].wait = 0
  /\ LET delay == asker[a].own.delay
     IN IF since >= delay
        THEN /\ Set(a, [asker[a] EXCEPT !.at = "request", !.wait = 0])
             /\ since' = IF delay = 0 THEN since ELSE 0
        ELSE /\ Set(a, [asker[a] EXCEPT !.at = "asleep", !.wait = delay - since])
             /\ UNCHANGED since
  /\ UNCHANGED <<web, renewing, found, pages, sources, asks, reloads>>

\* Results that the asker's policy does not allow are dropped; a provider that is built
\* in drops all that are not https.  What a result's redirects lead to is not known yet.
Lists(allowed) == {l \in BoundedSeq(allowed, MaxResults) : IsInjective(l)}
CustomResults(own) == Lists(IF own.plain THEN Page ELSE Page \ Plain)
BuiltInResults == Lists(Page \ Plain)

\* What comes of a request is kept for the cache, if there is one.
Got(r, body) == IF r.keep THEN [r EXCEPT !.at = "store", !.body = body] ELSE Taken(r, body)
\* DuckDuckGo's first address fails or lists nothing: its second one is asked at once.
FallBack(a) ==
  /\ asker[a].at = "request" /\ Searching(asker[a])
  /\ Set(a, [asker[a] EXCEPT !.at = "again"])
  /\ UNCHANGED <<web, renewing, found, pages, since, sources, asks, reloads>>
Search(a) ==
  /\ asker[a].at \in {"request", "again"} /\ Searching(asker[a])
  /\ \E list \in CustomResults(asker[a].own) \cup BuiltInResults : Set(a, Got(asker[a], list))
  /\ UNCHANGED <<web, renewing, found, pages, since, sources, asks, reloads>>
SearchFails(a) ==
  /\ asker[a].at \in {"request", "again"} /\ Searching(asker[a])
  /\ Set(a, [asker[a] EXCEPT !.at = "reply"])
  /\ UNCHANGED <<web, renewing, found, pages, since, sources, asks, reloads>>

\* web_read: validate_web_url for the address and at the end for where it led.
ReadPage(a) ==
  /\ asker[a].at = "request" /\ ~Searching(asker[a])
  /\ Allowed(asker[a].own, asker[a].page)
  /\ Set(a, Got(asker[a], asker[a].page))
  /\ UNCHANGED <<web, renewing, found, pages, since, sources, asks, reloads>>
\* A page the policy does not allow, that robots.txt bars or that does not come.
ReadFails(a) ==
  /\ asker[a].at = "request" /\ ~Searching(asker[a])
  /\ Set(a, Lost(asker[a]))
  /\ UNCHANGED <<web, renewing, found, pages, since, sources, asks, reloads>>

\* What came is put into the cache that is there now, under the key made before.
Store(a) ==
  /\ asker[a].at = "store"
  /\ LET r == asker[a]
     IN /\ IF Searching(r) THEN found' = Inserted(found, SearchKey(r), r.body) /\ UNCHANGED pages
           ELSE pages' = Inserted(pages, ReadKey(r), r.body) /\ UNCHANGED found
        /\ Set(a, Taken(r, r.body))
  /\ UNCHANGED <<web, renewing, since, sources, asks, reloads>>

NextPage(a) ==
  /\ asker[a].at = "next"
  /\ LET r == asker[a]
     IN Set(a, IF r.todo = <<>> THEN [r EXCEPT !.at = "reply"]
               ELSE [r EXCEPT !.at = "look", !.page = Head(r.todo), !.todo = Tail(@), !.keep = FALSE])
  /\ UNCHANGED <<web, renewing, found, pages, since, sources, asks, reloads>>

\* The answer: what was listed and read is noted, then a question gets its ModelText (or Error) and
\* its TaskComplete, a tool its result.  A client that has gone ends the handler as well.
Answer(a) ==
  /\ asker[a].at = "reply"
  /\ sources' = sources \cup asker[a].listed \cup asker[a].read
  /\ Set(a, [asker[a] EXCEPT !.at = "answered"])
  /\ UNCHANGED <<web, renewing, found, pages, since, asks, reloads>>
Rest(a) ==
  /\ asker[a].at = "answered"
  /\ Set(a, NoAsk)
  /\ UNCHANGED <<web, renewing, found, pages, since, sources, asks, reloads>>

-----------------------------------------------------------------------------
\* A reload makes both caches anew before it stores the configuration.
RenewCaches ==
  /\ renewing = Nothing /\ reloads < MaxReloads
  /\ renewing' \in Setting \ {web}
  /\ found' = <<>> /\ pages' = <<>>
  /\ reloads' = reloads + 1
  /\ UNCHANGED <<web, since, sources, asker, asks>>
StoreSettings ==
  /\ renewing # Nothing
  /\ web' = renewing /\ renewing' = Nothing
  /\ UNCHANGED <<found, pages, since, sources, asker, asks, reloads>>

Older(cache) == [i \in DOMAIN cache |-> [cache[i] EXCEPT !.left = IF @ > 0 THEN @ - 1 ELSE 0]]
WebTick ==
  /\ since' = IF since < MaxDelay THEN since + 1 ELSE since
  /\ found' = Older(found) /\ pages' = Older(pages)
  /\ asker' = [a \in Asker |-> [asker[a] EXCEPT !.wait = IF @ > 0 THEN @ - 1 ELSE 0]]
  /\ UNCHANGED <<web, renewing, sources, asks, reloads>>

Work(a) ==
  \/ BuildProvider(a) \/ Look(a) \/ Slot(a)
  \/ FallBack(a) \/ Search(a) \/ SearchFails(a) \/ ReadPage(a) \/ ReadFails(a)
  \/ Store(a) \/ NextPage(a) \/ Answer(a) \/ Rest(a)
WebNext == (\E a \in Asker : AskQuestion(a) \/ AskSearch(a) \/ AskRead(a) \/ Work(a)) \/ RenewCaches \/ StoreSettings \/ WebTick

\* A request ends by its timeouts, a sleep when its time has come.
WebFairness == WF_webVars(WebTick) /\ \A a \in Asker : WF_webVars(Work(a))

-----------------------------------------------------------------------------
\* No answer holds a page that the policy its asker started with would not let in,
\* neither the page asked for nor the one its redirects end at, whoever else read it
\* before, under whatever policy, and whenever a reload replaced caches and policy.
PagesWithinPolicy ==
  \A a \in Asker : asker[a].at = "answered" =>
    \A p \in asker[a].read : Allowed(asker[a].own, p)

\* A question or a web tool that has begun is answered, though the delay between
\* requests makes it sleep, and wake too late for the slot another has taken.
WebAnswered == \A a \in Asker : asker[a].at # "idle" ~> asker[a].at = "answered"

WebTypeOK ==
  /\ web \in Setting /\ renewing \in Setting \cup {Nothing}
  /\ Len(found) <= Room /\ Len(pages) <= Room
  /\ since \in 0..MaxDelay
  /\ sources \subseteq Page
  /\ \A a \in Asker :
       /\ asker[a].at \in {"idle", "begun", "look", "polite", "asleep", "request", "again", "store", "next", "reply", "answered"}
       /\ asker[a].what \in {Nothing, "question", "web_search", "web_read"}
       /\ asker[a].own \in Setting \cup {Nothing} /\ asker[a].wait \in 0..MaxDelay
       /\ asker[a].listed \subseteq Page /\ asker[a].read \subseteq Page
  /\ asks \in 0..MaxAsks /\ reloads \in 0..MaxReloads
=============================================================================
