------------------------------ MODULE IndexStore ------------------------------
(***************************************************************************)
(* The index of command documentation: the files under index/, the copy    *)
(* that the daemon serves from memory, and the indexers that keep both in  *)
(* step with the commands on the PATH - the bootstrap of a start, the      *)
(* watcher, the background run that a new shell triggers, and the three    *)
(* modes of a client's Reindex request.                                    *)
(*                                                                         *)
(* A run is a program of one step per scan, extraction and file; a crash   *)
(* may come between any two of them.  The documentation of a command is    *)
(* one chunk, whose text is named by the command and the version that it   *)
(* documents: where a text came from is all that the properties tell       *)
(* apart.  Scores, ranking, sections and the file system's errors are left *)
(* out.                                                                    *)
(***************************************************************************)
EXTENDS Naturals, Sequences, FiniteSets, SequencesExt

CONSTANTS
  Path,           \* executables that may be on the PATH
  Changing,       \* bound: those that are installed and removed
  Virtual,        \* built-ins, aliases and functions: paths that do not exist
  Orders,         \* bound: orders prioritize_index_targets may choose
  MaxChunks,      \* indexer.max_chunks
  MaxVersion,     \* bound: versions of an executable
  MaxCrashes,     \* bound: crashes
  MaxRequests,    \* bound: runs that clients and new shells ask for
  Models,         \* bound: embedding models a start may be configured with
  EmbedOutcomes,  \* bound: is there an embedding runtime: "provider", "disabled"
  Absent          \* "no such file", "no such run", "not a path"

Command == Path \cup Virtual

ASSUME IndexAssumption ==
  /\ IsFiniteSet(Command)
  /\ Path \cap Virtual = {}
  /\ Changing \subseteq Path
  /\ \A order \in Orders :  \* a sort of what the scan found, each once
       /\ order \in Seq(Command) /\ IsInjective(order)
       /\ Command \subseteq ToSet(order)
  /\ MaxChunks \in Nat \ {0}
  /\ MaxVersion \in Nat \ {0}
  /\ MaxCrashes \in Nat
  /\ MaxRequests \in Nat
  /\ EmbedOutcomes \subseteq {"provider", "disabled"}

\* What the variables hold.  A signature and a text are named by a command and
\* the version of it that they describe.
Modes == {"provider", "disabled"}
Text == [path : Command \cup {Absent}, version : Nat]
Entry == [path : Command, sig : Text]
Chunk == [path : Command, text : Text]
Row == [entry : Nat, dead : BOOLEAN]
Vector == [text : Text, model : Models]
Manifest == [mode : Modes, model : Models]
Files == [manifest : Manifest \cup {Absent}, paths : Seq(Command) \cup {Absent},
          entries : Seq(Text) \cup {Absent}, docs : Seq(Text) \cup {Absent},
          rows : Seq(Row) \cup {Absent}, lexical : Seq(Text) \cup {Absent},
          vectors : Seq(Vector) \cup {Absent}]
Memory == [chunks : Seq(Chunk), binaries : Seq(Entry), lexical : Seq(Text),
           vectors : Seq(Vector) \cup {Absent}]
Loaded == [entries : Seq(Entry), chunks : Seq(Chunk), full : BOOLEAN,
           mode : Modes]
Starting == [step : {"scan", "collect"}]
Scanned == [step : {"extract"}, found : Seq(Entry), reused : Seq(Chunk),
            dead : SUBSET (Command \cup {Absent}),
            removed : SUBSET (Command \cup {Absent})]
Writing == [step : {"manifest", "paths", "entries", "docs", "rows", "lexical",
                    "vectors", "publish"},
            chunks : Seq(Chunk), stored : Seq(Entry),
            dead : SUBSET (Command \cup {Absent}), mode : Modes]

ASSUME AbsentAssumption ==
  /\ Absent \notin Command
  /\ Absent \notin Seq(Command) /\ Absent \notin Seq(Text)
  /\ Absent \notin Seq(Row) /\ Absent \notin Seq(Vector)
  /\ Absent \notin Manifest /\ Absent \notin Loaded
  /\ Absent \notin Starting /\ Absent \notin Scanned /\ Absent \notin Writing

VARIABLES
  present,   \* the executables that exist
  version,   \* per executable: its mtime, size and inode, as one number
  disk,      \* the files of the index directory
  runtime,   \* DaemonState.index_runtime
  model,     \* the embedding model this process is configured with
  boot,      \* bootstrap_index_runtime: its next step
  loaded,    \* what the bootstrap has read and not yet published
  writer,    \* the run that holds index_write_lock
  job,       \* what that run has worked out so far
  queue,     \* the runs that wait for index_write_lock
  busy,      \* index_progress.phase is neither "idle" nor "complete"
  dirty,     \* the watcher has reported changes that no run has taken up
  crashes,   \* history: crashes so far
  requests,  \* history: requests so far
  torn,      \* history: a crash left files of two generations, or a run wrote
             \* them before the bootstrap had published what it read
  unseen,    \* history: a change came after the scan, before the watcher
  renamed,   \* history: a crash left the vectors of another model than the
             \* manifest names
  pruned,    \* history: what the start dropped from memory and not from the
             \* files, since its path does not exist
  reordered  \* history: memory was filled in another order than the files'

worldVars == <<present, version>>
bootVars == <<boot, loaded>>
lockVars == <<writer, job, queue, busy>>
historyVars == <<crashes, requests, torn, unseen, renamed, pruned, reordered>>
vars == <<worldVars, disk, runtime, model, bootVars, lockVars, dirty,
          historyVars>>
-----------------------------------------------------------------------------
(* Data *)

Nobody == "nobody"
Stub == 0  \* "no documentation available"

\* What a version of a command looks like: the signature of its BinaryEntry,
\* and the text of its documentation.
SigOf(p) == [path |-> p, version |-> IF p \in Path THEN version[p] ELSE 1]
TextOf(p) ==
  IF p \in Path /\ p \notin present THEN [path |-> p, version |-> Stub]
                                    ELSE SigOf(p)

\* Entries are [path, sig], chunks [path, text], rows of chunks.bin
\* [entry, dead]; the other files are sequences, all matched by position.
EmptyDisk == [manifest |-> Absent, paths |-> Absent, entries |-> Absent,
              docs |-> Absent, rows |-> Absent, lexical |-> Absent,
              vectors |-> Absent]
EmptyRuntime == [chunks |-> <<>>, binaries |-> <<>>, lexical |-> <<>>,
                 vectors |-> Absent]

PathsOf(items) == {items[i].path : i \in DOMAIN items}
Texts(chunks) == [i \in DOMAIN chunks |-> chunks[i].text]

\* The items of a sequence at some of its positions, in their order.
At(s, positions) ==
  LET upTo[n \in 0 .. Len(s)] ==
        IF n = 0 THEN <<>>
        ELSE IF n \in positions THEN Append(upTo[n - 1], s[n]) ELSE upTo[n - 1]
  IN upTo[Len(s)]

Wanted == present \cup Virtual
-----------------------------------------------------------------------------
(* Reading the files *)

\* load_entries: entries.bin holds offsets into paths.bin; one past its end
\* reads as the empty path.
LoadEntries ==
  IF disk.entries = Absent \/ disk.paths = Absent
  THEN <<>>
  ELSE [i \in DOMAIN disk.entries |->
          [path |-> IF i \in DOMAIN disk.paths THEN disk.paths[i] ELSE Absent,
           sig |-> disk.entries[i]]]

\* MUTANT of LiveRows: tombstoned rows are read like the others.
AllRows == IF disk.rows = Absent THEN <<>> ELSE disk.rows

LiveRows ==
  IF disk.rows = Absent
  THEN <<>>
  ELSE At(disk.rows, {i \in DOMAIN disk.rows : ~disk.rows[i].dead})

\* load_chunks: a row names its entry by position and its text by its place in
\* docs.bin.  One row without an entry makes the file an error, which the
\* callers take for an empty index.
LoadChunks ==
  LET entries == LoadEntries IN
  IF disk.docs = Absent \/ \E i \in DOMAIN LiveRows :
                              LiveRows[i].entry \notin DOMAIN entries
  THEN <<>>
  ELSE [i \in DOMAIN LiveRows |->
          [path |-> entries[LiveRows[i].entry].path,
           text |-> IF i \in DOMAIN disk.docs
                    THEN disk.docs[i]
                    ELSE [path |-> Absent, version |-> Stub]]]

\* build_retriever_for_chunks: the persisted lexical index and the mapped
\* vectors are matched by position; vectors of too few rows are refused.
Retriever(chunks, binaries, mode) ==
  [chunks |-> chunks,
   binaries |-> binaries,
   lexical |-> IF disk.lexical = Absent THEN Texts(chunks) ELSE disk.lexical,
   vectors |-> IF mode = "provider" /\ disk.vectors # Absent
                  /\ Len(disk.vectors) >= Len(chunks)
               THEN disk.vectors
               ELSE Absent]
-----------------------------------------------------------------------------
(* The commands on the PATH *)

MayChange ==
  \* The watcher starts once the bootstrap is done, and reports what it sees.
  /\ dirty' = (dirty \/ boot = "done")
  /\ unseen' = (unseen \/ boot = "indexing")
  /\ UNCHANGED <<disk, runtime, model, bootVars, lockVars, crashes, requests,
                 torn, renamed, pruned, reordered>>

Install(p) ==
  /\ version[p] < MaxVersion
  /\ version' = [version EXCEPT ![p] = @ + 1]
  /\ present' = present \cup {p}
  /\ MayChange

Uninstall(p) ==
  /\ p \in present
  /\ present' = present \ {p}
  /\ UNCHANGED version
  /\ MayChange
-----------------------------------------------------------------------------
(* bootstrap_index_runtime *)

\* prune_stale_loaded_index: chunks of commands whose path no longer exists.
Pruned(entries, chunks) ==
  LET kept == At(entries, {i \in DOMAIN entries : entries[i].path \in present})
      live == IF kept = <<>> THEN present ELSE PathsOf(kept) IN
  [entries |-> kept,
   chunks |-> At(chunks, {i \in DOMAIN chunks : chunks[i].path \in live})]

\* MUTANT of NeedsFull: a change of the embedding model is overlooked.
NeedsFullIfAbsent == disk.manifest = Absent

NeedsFull == disk.manifest = Absent \/ disk.manifest.model # model

BootLoad ==
  /\ boot = "load"
  /\ loaded' = IF NeedsFull
               THEN [entries |-> <<>>, chunks |-> <<>>, full |-> TRUE,
                     mode |-> "disabled"]
               ELSE LET kept == Pruned(LoadEntries, LoadChunks) IN
                    [entries |-> kept.entries, chunks |-> kept.chunks,
                     full |-> FALSE, mode |-> disk.manifest.mode]
  /\ boot' = "publish"
  /\ UNCHANGED <<worldVars, disk, runtime, model, lockVars, dirty, historyVars>>

\* Entries that could not be read are made up from the chunks.
BootPublish ==
  /\ boot = "publish"
  /\ IF loaded.chunks = <<>>
     THEN UNCHANGED <<runtime, busy, pruned, reordered>>
     ELSE /\ runtime' =
               Retriever(loaded.chunks,
                         IF loaded.entries # <<>>
                         THEN loaded.entries
                         ELSE [i \in DOMAIN loaded.chunks |->
                                 [path |-> loaded.chunks[i].path,
                                  sig |-> [path |-> loaded.chunks[i].path,
                                           version |-> Stub]]],
                         loaded.mode)
          /\ busy' = FALSE
          /\ pruned' = Virtual \cap PathsOf(LoadChunks)
          /\ reordered' = FALSE
  /\ boot' = "queued"
  /\ queue' = queue \cup {"boot"}
  /\ UNCHANGED <<worldVars, disk, model, loaded, writer, job, dirty, crashes,
                 requests, torn, unseen, renamed>>
-----------------------------------------------------------------------------
(* What starts a run *)

Queue(run) == queue' = queue \cup {run}

\* Clients are served from the start, while the bootstrap still reads.
Requesting ==
  /\ requests < MaxRequests
  /\ requests' = requests + 1

\* MUTANT of WatchChange: the run is tried for, like the background one.
WatchTries ==
  /\ dirty
  /\ dirty' = FALSE
  /\ queue' = IF writer = Nobody THEN queue \cup {"watch"} ELSE queue
  /\ UNCHANGED <<worldVars, disk, runtime, model, bootVars, writer, job, busy,
                 historyVars>>

\* run_index_watch_loop: the debounced batch is taken up by a delta run.
WatchChange ==
  /\ dirty
  /\ "watch" \notin queue
  /\ writer # "watch"
  /\ dirty' = FALSE
  /\ Queue("watch")
  /\ UNCHANGED <<worldVars, disk, runtime, model, bootVars, writer, job, busy,
                 historyVars>>

\* maybe_run_background_delta_indexing: try_lock, or not at all.
BackgroundDelta ==
  /\ Requesting
  /\ writer = Nobody
  /\ writer' = "background"
  /\ job' = [step |-> "scan"]
  /\ UNCHANGED <<worldVars, disk, runtime, model, bootVars, queue, busy, dirty,
                 crashes, torn, unseen, renamed, pruned, reordered>>

\* process_reindex_request.  A Delta request is absorbed by a run that is
\* under way; a Full one empties the directory before it has the lock.
RequestDelta ==
  /\ Requesting
  /\ ~busy
  /\ busy' = TRUE
  /\ Queue("delta")
  /\ UNCHANGED <<worldVars, disk, runtime, model, bootVars, writer, job, dirty,
                 crashes, torn, unseen, renamed, pruned, reordered>>

RequestCompact ==
  /\ Requesting
  /\ {"compact", "full"} \cap (queue \cup {writer}) = {}
  /\ Queue("compact")
  /\ UNCHANGED <<worldVars, disk, runtime, model, bootVars, writer, job, busy,
                 dirty, crashes, torn, unseen, renamed, pruned, reordered>>

RequestFull ==
  /\ Requesting
  /\ {"compact", "full"} \cap (queue \cup {writer}) = {}
  /\ disk' = EmptyDisk
  /\ Queue("full")
  /\ UNCHANGED <<worldVars, runtime, model, bootVars, writer, job, busy, dirty,
                 crashes, torn, unseen, renamed, pruned, reordered>>

Acquire(run) ==
  /\ run \in queue
  /\ writer = Nobody
  /\ writer' = run
  /\ queue' = queue \ {run}
  /\ job' = [step |-> IF run = "compact" THEN "collect" ELSE "scan"]
  /\ UNCHANGED <<worldVars, disk, runtime, model, bootVars, busy, dirty,
                 historyVars>>
-----------------------------------------------------------------------------
(* run_delta_indexing_inner *)

Full ==
  \/ writer = "full"
  \/ writer = "boot" /\ loaded.full

\* MUTANT of Finish: the lock is freed by a run that has not returned.
FinishEarly ==
  /\ writer' = Nobody
  /\ UNCHANGED job
  /\ boot' = IF writer = "boot" THEN "done" ELSE boot
  /\ loaded' = IF writer = "boot" THEN Absent ELSE loaded

\* The run has returned: the lock is free again.
Finish ==
  /\ writer' = Nobody
  /\ job' = Absent
  /\ boot' = IF writer = "boot" THEN "done" ELSE boot
  /\ loaded' = IF writer = "boot" THEN Absent ELSE loaded

\* The commands there are, in the order in which they are indexed.
Found(order) == At(order, {i \in DOMAIN order : order[i] \in Wanted})

\* MUTANT of Reusable: the signature is not compared.
ReusableByPath(entries, chunks, p) ==
  /\ p \in PathsOf(entries)
  /\ p \in PathsOf(chunks)

\* same_binary_signature, and there is a chunk to reuse.
Reusable(entries, chunks, p) ==
  /\ \E i \in DOMAIN entries : entries[i] = [path |-> p, sig |-> SigOf(p)]
  /\ p \in PathsOf(chunks)

\* The scan reads the PATH and, unless the run is a full one, the files.
Scan ==
  /\ job # Absent /\ job.step = "scan"
  /\ \E order \in Orders :
       LET entries == IF Full THEN <<>> ELSE LoadEntries
           chunks == IF Full THEN <<>> ELSE LoadChunks
           found == Found(order)
           reuse == {p \in ToSet(found) : Reusable(entries, chunks, p)}
       IN job' = [step |-> "extract",
                  found |-> [i \in DOMAIN found |->
                               [path |-> found[i], sig |-> SigOf(found[i])]],
                  reused |-> At(chunks, {i \in DOMAIN chunks :
                                            chunks[i].path \in reuse}),
                  dead |-> PathsOf(chunks) \ reuse,
                  removed |-> PathsOf(entries) \ ToSet(found)]
  /\ busy' = TRUE
  /\ unseen' = FALSE
  /\ boot' = IF writer = "boot" THEN "indexing" ELSE boot
  /\ UNCHANGED <<worldVars, disk, runtime, model, loaded, writer, queue, dirty,
                 crashes, requests, torn, renamed, pruned, reordered>>

ToExtract == PathsOf(job.found) \ PathsOf(job.reused)
Nothing == ~Full /\ ToExtract = {} /\ job.removed = {}

ReusedOf(p) ==
  job.reused[CHOOSE i \in DOMAIN job.reused : job.reused[i].path = p]

\* Nothing to do: only a memory that is still empty is filled.
Unchanged ==
  /\ job # Absent /\ job.step = "extract"
  /\ Nothing
  /\ LET chunks == [i \in DOMAIN job.found |-> ReusedOf(job.found[i].path)] IN
     IF runtime.chunks = <<>> /\ chunks # <<>>
     THEN /\ runtime' = Retriever(chunks, job.found,
                                  IF disk.manifest = Absent THEN "disabled"
                                  ELSE disk.manifest.mode)
          /\ pruned' = pruned \ PathsOf(chunks)
          /\ reordered' = (chunks # LoadChunks)
     ELSE UNCHANGED <<runtime, pruned, reordered>>
  /\ busy' = FALSE
  /\ Finish
  /\ UNCHANGED <<worldVars, disk, model, queue, dirty, crashes, requests, torn,
                 unseen, renamed>>

\* embed_texts_with_provider: no text needs no runtime; a failure only turns
\* vector retrieval off.
EmbeddingMode(chunks, outcome) == IF chunks = <<>> THEN "provider" ELSE outcome

\* The chunks of the commands, new or reused, up to the cap, and the entries
\* of the commands that have one.  Documents are extracted after the scan.
Extract ==
  /\ job # Absent /\ job.step = "extract"
  /\ ~Nothing
  /\ \E outcome \in EmbedOutcomes :
       LET n == IF Len(job.found) <= MaxChunks THEN Len(job.found) ELSE MaxChunks
           chunks == [i \in 1 .. n |->
                        LET p == job.found[i].path IN
                        IF p \in ToExtract THEN [path |-> p, text |-> TextOf(p)]
                                           ELSE ReusedOf(p)]
       IN job' = [step |-> "manifest", chunks |-> chunks,
                  stored |-> SubSeq(job.found, 1, n),
                  dead |-> job.dead, mode |-> EmbeddingMode(chunks, outcome)]
  /\ disk' = IF Full THEN EmptyDisk ELSE disk
  /\ UNCHANGED <<worldVars, runtime, model, bootVars, writer, queue, busy, dirty,
                 historyVars>>

\* compact_index: what is in memory is written again.
Collect ==
  /\ job # Absent /\ job.step = "collect"
  /\ \E outcome \in EmbedOutcomes :
       job' = [step |-> "manifest", chunks |-> runtime.chunks,
               stored |-> runtime.binaries, dead |-> {},
               mode |-> EmbeddingMode(runtime.chunks, outcome)]
  /\ UNCHANGED <<worldVars, disk, runtime, model, bootVars, writer, queue, busy,
                 dirty, historyVars>>
-----------------------------------------------------------------------------
(* write_layout_artifacts: file by file *)

\* What the bootstrap has read, or reads file by file, is overtaken.
Early == boot \in {"load", "publish"}

WriteFile(step, next, file, content) ==
  /\ job # Absent /\ job.step = step
  /\ disk' = [disk EXCEPT ![file] = content]
  /\ job' = [job EXCEPT !.step = next]
  /\ torn' = (torn \/ Early)
  /\ UNCHANGED <<worldVars, runtime, model, bootVars, writer, queue, busy, dirty,
                 crashes, requests, unseen, renamed, pruned, reordered>>

Embedded == job.mode = "provider"

WriteManifest ==
  WriteFile("manifest", "paths", "manifest", [mode |-> job.mode, model |-> model])

\* MUTANT of WritePaths: paths.bin is not written when it is there.
WritePathsOnce ==
  WriteFile("paths", "entries", "paths",
            IF disk.paths # Absent
            THEN disk.paths
            ELSE [i \in DOMAIN job.stored |-> job.stored[i].path])

WritePaths ==
  WriteFile("paths", "entries", "paths",
            [i \in DOMAIN job.stored |-> job.stored[i].path])

WriteEntries ==
  WriteFile("entries", "docs", "entries",
            [i \in DOMAIN job.stored |-> job.stored[i].sig])

WriteDocs == WriteFile("docs", "rows", "docs", Texts(job.chunks))

\* entry_idx; 0 stands for u32::MAX, "no such entry".
EntryOf(p) ==
  IF p \in PathsOf(job.stored)
  THEN CHOOSE i \in DOMAIN job.stored : job.stored[i].path = p
  ELSE 0

Rows ==
  [i \in DOMAIN job.chunks |->
     [entry |-> EntryOf(job.chunks[i].path), dead |-> FALSE]]
    \o SetToSeq({[entry |-> EntryOf(p), dead |-> TRUE] : p \in job.dead})

WriteRows == WriteFile("rows", "lexical", "rows", Rows)

WriteLexical == WriteFile("lexical", "vectors", "lexical", Texts(job.chunks))

\* Without embeddings the vectors are removed, and retrieval is lexical.
WriteVectors ==
  WriteFile("vectors", "publish", "vectors",
            IF Embedded
            THEN [i \in DOMAIN job.chunks |->
                    [text |-> job.chunks[i].text, model |-> model]]
            ELSE Absent)

WriteLayout ==
  \/ WriteManifest \/ WritePaths \/ WriteEntries \/ WriteDocs \/ WriteRows
  \/ WriteLexical \/ WriteVectors

Publish ==
  /\ job # Absent /\ job.step = "publish"
  /\ runtime' = Retriever(job.chunks, job.stored, job.mode)
  /\ busy' = (busy /\ writer = "compact")
  /\ torn' = (torn /\ (Early \/ ~Full))
  /\ renamed' = FALSE
  /\ pruned' = IF writer = "compact" THEN pruned \ PathsOf(job.chunks) ELSE {}
  /\ reordered' = FALSE
  /\ Finish
  /\ UNCHANGED <<worldVars, disk, model, queue, dirty, crashes, requests, unseen>>
-----------------------------------------------------------------------------
(* The end of the process, by a crash or a stop, and the next start *)

\* Between these steps the files are of two generations.
HalfWritten ==
  /\ job # Absent
  /\ job.step \in {"entries", "docs", "rows", "lexical", "vectors"}

\* The manifest is the first file to be written, the vectors are the last.
Misnamed ==
  /\ disk.manifest # Absent /\ disk.vectors # Absent
  /\ \E i \in DOMAIN disk.vectors : disk.vectors[i].model # disk.manifest.model

Crash ==
  /\ crashes < MaxCrashes
  /\ crashes' = crashes + 1
  /\ model' \in Models
  /\ torn' = (torn \/ HalfWritten)
  /\ renamed' = Misnamed
  /\ runtime' = EmptyRuntime
  /\ boot' = "load"
  /\ loaded' = Absent
  /\ writer' = Nobody
  /\ job' = Absent
  /\ queue' = {}
  /\ busy' = FALSE
  /\ dirty' = FALSE
  /\ unseen' = FALSE
  /\ pruned' = {}
  /\ reordered' = FALSE
  /\ UNCHANGED <<worldVars, disk, requests>>
-----------------------------------------------------------------------------
Init ==
  /\ present = Path
  /\ version = [p \in Path |-> 1]
  /\ disk = EmptyDisk
  /\ runtime = EmptyRuntime
  /\ model \in Models
  /\ boot = "load"
  /\ loaded = Absent
  /\ writer = Nobody
  /\ job = Absent
  /\ queue = {}
  /\ busy = FALSE
  /\ dirty = FALSE
  /\ crashes = 0
  /\ requests = 0
  /\ torn = FALSE
  /\ unseen = FALSE
  /\ renamed = FALSE
  /\ pruned = {}
  /\ reordered = FALSE

World == \E p \in Changing : Install(p) \/ Uninstall(p)
Boot == BootLoad \/ BootPublish
Client == BackgroundDelta \/ RequestDelta \/ RequestCompact \/ RequestFull
Run == Scan \/ Unchanged \/ Extract \/ Collect \/ WriteLayout \/ Publish
Waiting == {"boot", "watch", "delta", "compact", "full"}

Next ==
  \/ World \/ Boot \/ WatchChange \/ Client \/ Run \/ Crash
  \/ \E run \in Waiting : Acquire(run)

\* The daemon's tasks run when they can, and tokio's mutex serves those who
\* wait for it in turn.  Nothing is assumed of clients and of the PATH.
Fairness ==
  /\ WF_vars(Boot) /\ WF_vars(WatchChange) /\ WF_vars(Run)
  /\ \A run \in Waiting : SF_vars(Acquire(run))

Spec == Init /\ [][Next]_vars /\ Fairness
-----------------------------------------------------------------------------
(* Properties *)

Least(m, n) == IF m <= n THEN m ELSE n

\* Memory holds the documentation of the commands as they are, and of as many
\* as the cap allows.
Current ==
  LET chunks == runtime.chunks IN
  /\ \A i \in DOMAIN chunks : /\ chunks[i].path \in Wanted
                             /\ chunks[i].text = SigOf(chunks[i].path)
  /\ Cardinality(PathsOf(chunks) \cup pruned)
       = Least(MaxChunks, Cardinality(Wanted))

\* No run is under way or due.
Quiet ==
  boot = "done" /\ writer = Nobody /\ queue = {} /\ ~dirty /\ ~unseen

\* Every variable holds a value of its type; a run has worked out something
\* exactly while it holds the lock, and the bootstrap has read something
\* exactly while it has not ended.
TypeOK ==
  /\ present \in SUBSET Path
  /\ version \in [Path -> 1 .. MaxVersion]
  /\ disk \in Files
  /\ runtime \in Memory
  /\ model \in Models
  /\ boot \in {"load", "publish", "queued", "indexing", "done"}
  /\ loaded \in Loaded \cup {Absent}
  /\ (loaded = Absent) <=> boot \in {"load", "done"}
  /\ writer \in Waiting \cup {"background", Nobody}
  /\ job \in Starting \cup Scanned \cup Writing \cup {Absent}
  /\ (job = Absent) <=> (writer = Nobody)
  /\ queue \in SUBSET Waiting
  /\ busy \in BOOLEAN /\ dirty \in BOOLEAN
  /\ torn \in BOOLEAN /\ unseen \in BOOLEAN /\ renamed \in BOOLEAN
  /\ pruned \in SUBSET Virtual /\ reordered \in BOOLEAN
  /\ crashes \in 0 .. MaxCrashes
  /\ requests \in 0 .. MaxRequests

\* FR-64, "in-memory state is always current": once no run is due, what is
\* served is the documentation of exactly the executables there are, and of the
\* built-ins but for those that the start has dropped, whatever runs, requests,
\* restarts and cut-off runs came before.  That exception is the rule: a built-in
\* has a path that does not exist, so prune_stale_loaded_index drops it from
\* memory at every start, and the bootstrap's run finds nothing to change.  Files
\* that a crash left half written, and files that a run wrote before the bootstrap
\* had published what it read, spoil it until a full reindex.
MemoryIsCurrent == Quiet /\ ~torn => Current

\* The lexical index and the vectors are matched to the chunks by position: each
\* position stands for the text it was computed from, and the vectors were
\* computed with the model the queries are embedded with - but for the built-ins
\* that the start has dropped from the chunks and not from the other two.  After
\* an ordinary restart, then, positions are NOT those of the chunks: they are
\* shifted by exactly those built-ins, and by nothing else.  (Excepted are files
\* that are torn, a memory filled in another order than the files', a full
\* reindex that has emptied the directory and not yet filled it and, for the
\* model, a crash between the manifest and the vectors.)
PositionsAgree ==
  LET lexical == runtime.lexical
      vectors == runtime.vectors IN
  boot = "done" /\ ~torn /\ ~reordered /\ "full" \notin queue \cup {writer} =>
    /\ Texts(runtime.chunks)
         = At(lexical, {i \in DOMAIN lexical : lexical[i].path \notin pruned})
    /\ vectors # Absent => /\ Texts(vectors) = lexical
                           /\ \A i \in DOMAIN vectors :
                                ~renamed => vectors[i].model = model

\* What the files say of a command that has not changed since is its
\* documentation: the next run may reuse it without looking.  (A signature is
\* taken before the text it vouches for, never after.)  Excepted are files of two
\* generations, which a crash leaves, or a run that wrote before the bootstrap had
\* published what it read.
ReuseIsSound ==
  ~torn /\ ~HalfWritten =>
    \A i \in DOMAIN LoadChunks, e \in DOMAIN LoadEntries :
      LET chunk == LoadChunks[i]
          entry == LoadEntries[e] IN
      /\ entry.path = chunk.path
      /\ entry.path \in Wanted
      /\ entry.sig = SigOf(entry.path)
      => chunk.text = SigOf(entry.path)

\* The index keeps the promise of IndexPromise: it never serves one command's
\* documentation for another's, nor goes back to an older text, clients that ask
\* for runs while the bootstrap still reads included, until a run of theirs
\* overtakes it.
Promise == INSTANCE IndexPromise WITH
  present <- present,
  version <- version,
  served <- {runtime.chunks[i] : i \in DOMAIN runtime.chunks},
  intact <- ~torn
KeepsPromise == Promise!Spec

\* Once the PATH no longer changes, memory becomes current and stays so, however
\* often clients ask for a run of whichever kind: the executables that there are,
\* and the built-ins but for those that the start has dropped.
CatchesUp == <>[](Current \/ torn \/ unseen)
=============================================================================
