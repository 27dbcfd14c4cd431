---------------------------- MODULE ModelAssets ----------------------------
(***************************************************************************)
(* The model files a starting daemon makes sure of before anything tells   *)
(* it that it is the only one: the manifest of what was verified, the      *)
(* files, and the downloads, which every process makes through the same    *)
(* partial file.  A file is two chunks; its hash is its content and its    *)
(* size is where its last written chunk ends.                              *)
(***************************************************************************)
EXTENDS Naturals, Sequences

CONSTANTS Starter,       \* the processes that start
          Asset,         \* the assets, in the order they are ensured
          Required,      \* the assets whose absence ends the start
          Pinned,        \* the assets with an expected hash
          Downloadable,  \* the assets with a URL, when auto_download is on
          NoFile         \* no file at a path, nothing in the manifest

VARIABLES
  astep,      \* what each starter does next about its current asset
  current,    \* the position of that asset in Asset
  notes,      \* the starter's copy of the manifest
  changed,    \* the starters whose copy differs from what they read
  served,     \* what the server sends in the download under way
  handle,     \* the partial file the starter has open
  manifest,   \* the manifest on disk: the hash recorded for each asset
  partial,    \* the file at <asset>.partial
  dest,       \* the file at the asset's own path
  data,       \* the content of every file ever created
  shared      \* history: two downloads of an asset were under way at a time

assetVars == <<astep, current, notes, changed, served, handle, manifest, partial, dest, data, shared>>

Assets == {Asset[i] : i \in DOMAIN Asset}
Chunk == {"hole", "good", "bad"}
Good == <<"good", "good">>
Bad == <<"bad", "bad">>
File == (Starter \cup {"old"}) \X Assets
Downloading == {"open", "first", "second", "rename", "verify"}

\* Every asset is a file of its own.
ASSUME AssetAssumption ==
  /\ Asset \in Seq(Assets)
  /\ \A i, j \in DOMAIN Asset : Asset[i] = Asset[j] => i = j
  /\ Required \subseteq Assets
  /\ "old" \notin Starter
  /\ NoFile \notin File \cup (Chunk \X Chunk)

\* The length of a file: where its last written chunk ends.  A wrong content may have
\* the right length.
Size(content) == IF content[2] # "hole" THEN 2 ELSE IF content[1] # "hole" THEN 1 ELSE 0

AssetTypeOK ==
  /\ astep \in [Starter -> {"idle", "ensure", "next", "save", "done", "failed"} \cup Downloading]
  /\ current \in [Starter -> 1..Len(Asset) + 1]
  /\ notes \in [Starter -> [Assets -> (Chunk \X Chunk) \cup {NoFile}]]
  /\ changed \subseteq Starter
  /\ served \in [Starter -> {Good, Bad}]
  /\ handle \in [Starter -> File \cup {NoFile}]
  /\ manifest \in [Assets -> (Chunk \X Chunk) \cup {NoFile}]
  /\ partial \in [Assets -> File \cup {NoFile}]
  /\ dest \in [Assets -> File \cup {NoFile}]
  /\ data \in [File -> Chunk \X Chunk]
  /\ shared \in BOOLEAN

Cur(p) == Asset[current[p]]
Step(p, next) == astep' = [astep EXCEPT ![p] = next]

AssetInit ==
  /\ astep = [p \in Starter |-> "idle"]
  /\ current = [p \in Starter |-> 1]
  /\ notes = [p \in Starter |-> [a \in Assets |-> NoFile]]
  /\ changed = {}
  /\ served = [p \in Starter |-> Good]
  /\ handle = [p \in Starter |-> NoFile]
  /\ manifest = [a \in Assets |-> NoFile]
  /\ partial = [a \in Assets |-> NoFile]
  /\ \E present \in SUBSET Assets, content \in {Good, Bad} :
       /\ dest = [a \in Assets |-> IF a \in present THEN <<"old", a>> ELSE NoFile]
       /\ data = [f \in File |-> IF f[1] = "old" THEN content ELSE <<"hole", "hole">>]
  /\ shared = FALSE

\* ensure_required_model_assets reads the manifest and starts with the first asset,
\* if the providers need any.
BeginAssets(p) ==
  /\ astep[p] = "idle"
  /\ Step(p, IF Asset = <<>> THEN "save" ELSE "ensure")
  /\ notes' = [notes EXCEPT ![p] = manifest]
  /\ UNCHANGED <<current, changed, served, handle, manifest, partial, dest, data, shared>>

\* The size and the recorded hash vouch for a file without reading it.
Trusted(p, a, content) ==
  /\ notes[p][a] # NoFile
  /\ Size(notes[p][a]) = Size(content)
  /\ a \in Pinned => notes[p][a] = Good

\* An error about a required asset ends the start; about another it is a warning.
AssetError(p) == Step(p, IF Cur(p) \in Required THEN "failed" ELSE "next")

\* record_model_asset: the copy of the manifest takes the hash.
Record(p, hash) ==
  /\ notes' = [notes EXCEPT ![p][Cur(p)] = hash]
  /\ changed' = IF notes[p][Cur(p)] = hash THEN changed ELSE changed \cup {p}

\* A download is decided on; another of the same asset may be under way.
Download(p) ==
  /\ Step(p, "open")
  /\ shared' = (shared \/ \E q \in Starter \ {p} :
                            astep[q] \in Downloading /\ Cur(q) = Cur(p))
  /\ UNCHANGED <<notes, changed>>

\* ensure_model_asset decides about a missing file, ...
EnsureMissing(p) ==
  LET a == Cur(p) IN
  /\ astep[p] = "ensure" /\ dest[a] = NoFile
  /\ IF a \in Downloadable THEN Download(p)
     ELSE AssetError(p) /\ UNCHANGED <<notes, changed, shared>>
  /\ UNCHANGED <<current, served, handle, manifest, partial, dest, data>>

\* ... and about one that is there: it is trusted, or hashed and downloaded again
\* or, at last, recorded as it is.
EnsurePresent(p) ==
  LET a == Cur(p)
      content == data[dest[a]]
      mismatch == a \in Pinned /\ content # Good IN
  /\ astep[p] = "ensure" /\ dest[a] # NoFile
  /\ \/ /\ \/ Size(content) = 0
           \/ ~Trusted(p, a, content) /\ mismatch /\ a \in Required \ Downloadable
        /\ AssetError(p) /\ UNCHANGED <<notes, changed, shared>>
     \/ /\ Size(content) # 0 /\ Trusted(p, a, content)
        /\ Step(p, "next") /\ UNCHANGED <<notes, changed, shared>>
     \/ /\ Size(content) # 0 /\ ~Trusted(p, a, content)
        /\ mismatch /\ a \in Downloadable
        /\ Download(p)
     \/ /\ Size(content) # 0 /\ ~Trusted(p, a, content)
        /\ mismatch => a \notin Required \cup Downloadable
        /\ Step(p, "next") /\ Record(p, content) /\ UNCHANGED shared
  /\ UNCHANGED <<current, served, handle, manifest, partial, dest, data>>

\* The request fails, or the partial file is created, or truncated if it exists.
OpenPartial(p) ==
  LET a == Cur(p)
      f == IF partial[a] = NoFile THEN <<p, a>> ELSE partial[a] IN
  /\ astep[p] = "open"
  /\ \/ AssetError(p) /\ UNCHANGED <<served, handle, partial, data>>
     \/ /\ Step(p, "first")
        /\ \E sent \in {Good, Bad} : served' = [served EXCEPT ![p] = sent]
        /\ partial' = [partial EXCEPT ![a] = f]
        /\ handle' = [handle EXCEPT ![p] = f]
        /\ data' = [data EXCEPT ![f] = <<"hole", "hole">>]
  /\ UNCHANGED <<current, notes, changed, manifest, dest, shared>>

\* Mutant: a broken stream is taken for the end of the file.
WriteWhatComes(p) ==
  LET i == IF astep[p] = "first" THEN 1 ELSE 2 IN
  /\ astep[p] \in {"first", "second"}
  /\ \/ Step(p, "rename") /\ UNCHANGED data
     \/ /\ Step(p, IF i = 1 THEN "second" ELSE "rename")
        /\ data' = [data EXCEPT ![handle[p]][i] = served[p][i]]
  /\ UNCHANGED <<current, notes, changed, served, handle, manifest, partial, dest, shared>>

\* A chunk arrives and is written at this download's own offset, or the stream breaks.
WriteChunk(p) ==
  LET i == IF astep[p] = "first" THEN 1 ELSE 2 IN
  /\ astep[p] \in {"first", "second"}
  /\ \/ AssetError(p) /\ UNCHANGED data
     \/ /\ Step(p, IF i = 1 THEN "second" ELSE "rename")
        /\ data' = [data EXCEPT ![handle[p]][i] = served[p][i]]
  /\ UNCHANGED <<current, notes, changed, served, handle, manifest, partial, dest, shared>>

\* The synced partial file takes the asset's path.
RenamePartial(p) ==
  LET a == Cur(p) IN
  /\ astep[p] = "rename"
  /\ \/ partial[a] = NoFile /\ AssetError(p) /\ UNCHANGED <<partial, dest>>
     \/ /\ partial[a] # NoFile /\ Step(p, "verify")
        /\ partial' = [partial EXCEPT ![a] = NoFile]
        /\ dest' = [dest EXCEPT ![a] = partial[a]]
  /\ handle' = [handle EXCEPT ![p] = NoFile]
  /\ UNCHANGED <<current, notes, changed, served, manifest, data, shared>>

\* Mutant: what is recorded is not the hash of the whole.
VerifyFirstChunk(p) ==
  /\ astep[p] = "verify"
  /\ Step(p, "next") /\ Record(p, served[p][1])
  /\ UNCHANGED <<current, served, handle, manifest, partial, dest, data, shared>>

\* What is compared with the expected hash, and recorded, is the hash of the
\* bytes received.
VerifyDownload(p) ==
  LET a == Cur(p) IN
  /\ astep[p] = "verify"
  /\ IF a \in Pinned /\ served[p] # Good
     THEN /\ AssetError(p)
          /\ dest' = [dest EXCEPT ![a] = NoFile]
          /\ UNCHANGED <<notes, changed>>
     ELSE Step(p, "next") /\ Record(p, served[p]) /\ UNCHANGED dest
  /\ UNCHANGED <<current, served, handle, manifest, partial, data, shared>>

\* The manifest is saved after the last asset.
NextAsset(p) ==
  /\ astep[p] = "next"
  /\ current' = [current EXCEPT ![p] = @ + 1]
  /\ Step(p, IF current[p] = Len(Asset) THEN "save" ELSE "ensure")
  /\ UNCHANGED <<notes, changed, served, handle, manifest, partial, dest, data, shared>>

\* A changed manifest replaces the one on disk in one rename.
SaveManifest(p) ==
  /\ astep[p] = "save"
  /\ Step(p, "done")
  /\ manifest' = IF p \in changed THEN notes[p] ELSE manifest
  /\ UNCHANGED <<current, notes, changed, served, handle, partial, dest, data, shared>>

\* The process died: what it had open is closed, the files stay.
AbandonAssets(p) ==
  /\ Step(p, "failed")
  /\ UNCHANGED <<current, notes, changed, served, handle, manifest, partial, dest, data, shared>>

AssetStep(p) == \/ EnsureMissing(p) \/ EnsurePresent(p) \/ OpenPartial(p) \/ WriteChunk(p) \/ RenamePartial(p)
                \/ VerifyDownload(p) \/ NextAsset(p) \/ SaveManifest(p)
=============================================================================
