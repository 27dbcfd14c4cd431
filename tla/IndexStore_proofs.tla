-------------------------- MODULE IndexStore_proofs --------------------------
(***************************************************************************)
(* The index, for any commands - built-ins too - versions, crashes and     *)
(* requests, those during the bootstrap included: the types, that a run    *)
(* reuses nothing it should not (ReuseSound), that what is served keeps    *)
(* the promise of IndexPromise (IndexKeepsPromise), that the lexical index *)
(* and the vectors belong to the chunks at their positions, shifted by the *)
(* built-ins that the start has dropped and by nothing else                *)
(* (PositionsRight), and that memory is current once no run is due, but    *)
(* for those built-ins (MemoryCurrent).                                    *)
(*                                                                         *)
(* All rest on SoundInv: entries and chunks that are kept together - on    *)
(* disk, in memory, in the hands of a run - are Clean, and a run that has  *)
(* written its files reads back what it wrote (Written, ReadBack).         *)
(***************************************************************************)
EXTENDS IndexStore, TLAPS, FiniteSetTheorems

-----------------------------------------------------------------------------
(* Selections of a sequence *)

LEMMA Least1 ==
  ASSUME NEW B \in SUBSET Nat, B # {}
  PROVE  \E n \in B : \A m \in B : n <= m
<1>1. IsWellFoundedOn(OpToRel(<, Nat), Nat)
  BY NatLessThanWellFounded
<1>2. \E n \in B : \A m \in B : ~ (<<m, n>> \in OpToRel(<, Nat))
  BY <1>1, WFMin
<1>3. PICK n \in B : \A m \in B : ~ (<<m, n>> \in OpToRel(<, Nat))
  BY <1>2
<1>4. \A m \in B : ~ (m < n)
  BY <1>3 DEF OpToRel
<1> QED BY <1>4

Unfolds(u, s, positions, n) ==
  /\ u[0] = <<>>
  /\ \A i \in 1 .. n : u[i] = IF i \in positions THEN Append(u[i - 1], s[i])
                                                 ELSE u[i - 1]

LEMMA Unfolding ==
  ASSUME NEW s, NEW N \in Nat, NEW I, NEW n \in 0 .. N
  PROVE  \E u : Unfolds(u, s, I, n)
<1> DEFINE B == {m \in 0 .. N : ~ \E u : Unfolds(u, s, I, m)}
<1> SUFFICES ASSUME B # {} PROVE FALSE
  OBVIOUS
<1>1. B \in SUBSET Nat
  OBVIOUS
<1> HIDE DEF B
<1>2. PICK m \in B : \A k \in B : m <= k
  BY <1>1, Least1
<1>3. m \in 0 .. N /\ ~ \E u : Unfolds(u, s, I, m)
  BY DEF B
<1>4. m # 0
  <2>1. Unfolds([i \in {0} |-> <<>>], s, I, 0)
    BY DEF Unfolds
  <2> QED BY <2>1, <1>3
<1>5. m - 1 \in 0 .. N /\ m - 1 \notin B
  BY <1>2, <1>3, <1>4
<1>6. PICK u : Unfolds(u, s, I, m - 1)
  BY <1>5 DEF B
<1> DEFINE w == [i \in 0 .. m |->
                   IF i < m THEN u[i]
                   ELSE IF m \in I THEN Append(u[m - 1], s[m]) ELSE u[m - 1]]
<1>7. Unfolds(w, s, I, m)
  <2>1. w[0] = <<>>
    BY <1>3, <1>4, <1>6 DEF Unfolds
  <2>2. ASSUME NEW i \in 1 .. m
        PROVE  w[i] = IF i \in I THEN Append(w[i - 1], s[i]) ELSE w[i - 1]
    <3>1. w[i - 1] = u[i - 1]
      BY <1>3, <2>2
    <3>2. CASE i = m
      BY <3>1, <3>2, <1>3
    <3>3. CASE i # m
      <4>1. i \in 1 .. (m - 1) /\ w[i] = u[i]
        BY <3>3, <1>3
      <4> QED BY <4>1, <3>1, <1>6 DEF Unfolds
    <3> QED BY <3>2, <3>3
  <2> QED BY <2>1, <2>2 DEF Unfolds
<1> QED BY <1>7, <1>3

LEMMA AtUnfolds ==
  ASSUME NEW T, NEW s \in Seq(T), NEW I
  PROVE  \E u : Unfolds(u, s, I, Len(s)) /\ At(s, I) = u[Len(s)]
<1> DEFINE Rec(g) == [n \in 0 .. Len(s) |->
                        IF n = 0 THEN <<>>
                        ELSE IF n \in I THEN Append(g[n - 1], s[n]) ELSE g[n - 1]]
           f == CHOOSE g : g = Rec(g)
<1>0. Len(s) \in Nat /\ Len(s) \in 0 .. Len(s)
  OBVIOUS
<1>1. At(s, I) = f[Len(s)]
  BY DEF At
<1>2. PICK u : Unfolds(u, s, I, Len(s))
  BY <1>0, Unfolding
<1> DEFINE w == [n \in 0 .. Len(s) |-> u[n]]
<1>3. w = Rec(w)
  <2>1. ASSUME NEW n \in 0 .. Len(s) PROVE w[n] = Rec(w)[n]
    <3>1. CASE n = 0
      BY <3>1, <1>2 DEF Unfolds
    <3>2. CASE n # 0
      <4>1. n \in 1 .. Len(s) /\ n - 1 \in 0 .. Len(s)
        BY <3>2, <1>0
      <4>2. w[n] = u[n] /\ w[n - 1] = u[n - 1]
        BY <4>1
      <4> QED BY <4>1, <4>2, <1>2 DEF Unfolds
    <3> QED BY <3>1, <3>2
  <2> QED BY <2>1
<1>4. f = Rec(f)
  <2> HIDE DEF Rec
  <2> QED BY <1>3
<1>5. Unfolds(f, s, I, Len(s))
  <2>1. f[0] = <<>>
    <3>1. f[0] = Rec(f)[0]
      BY <1>4
    <3> HIDE DEF f
    <3> QED BY <3>1, <1>0
  <2>2. ASSUME NEW i \in 1 .. Len(s)
        PROVE  f[i] = IF i \in I THEN Append(f[i - 1], s[i]) ELSE f[i - 1]
    <3>1. f[i] = Rec(f)[i]
      BY <1>4
    <3> HIDE DEF f
    <3> QED BY <3>1, <1>0
  <2> QED BY <2>1, <2>2 DEF Unfolds
<1> QED BY <1>1, <1>5

LEMMA AtItems ==
  ASSUME NEW T, NEW s \in Seq(T), NEW I
  PROVE  /\ At(s, I) \in Seq(T)
         /\ \A k \in DOMAIN At(s, I) : \E i \in DOMAIN s : i \in I /\ At(s, I)[k] = s[i]
<1>1. PICK u : Unfolds(u, s, I, Len(s)) /\ At(s, I) = u[Len(s)]
  BY AtUnfolds
<1> DEFINE R == {s[i] : i \in {j \in DOMAIN s : j \in I}}
           B == {n \in 0 .. Len(s) : u[n] \notin Seq(R)}
<1>2. R \subseteq T
  OBVIOUS
<1>3. u[Len(s)] \in Seq(R)
  <2> SUFFICES ASSUME B # {} PROVE FALSE
    <3> HIDE DEF R
    <3>1. Len(s) \in 0 .. Len(s)
      OBVIOUS
    <3> QED BY <3>1
  <2>1. B \in SUBSET Nat
    OBVIOUS
  <2> HIDE DEF B
  <2>2. PICK n \in B : \A m \in B : n <= m
    BY <2>1, Least1
  <2>3. n \in 0 .. Len(s) /\ u[n] \notin Seq(R)
    BY DEF B
  <2>4. n # 0
    <3>1. u[0] = <<>> /\ <<>> \in Seq(R)
      <4> HIDE DEF R
      <4> QED BY <1>1 DEF Unfolds
    <3> QED BY <2>3, <3>1
  <2>5. n \in 1 .. Len(s) /\ n - 1 \in 0 .. Len(s) /\ n - 1 \notin B
    BY <2>2, <2>3, <2>4
  <2>6. u[n - 1] \in Seq(R)
    BY <2>5 DEF B
  <2>7. u[n] = IF n \in I THEN Append(u[n - 1], s[n]) ELSE u[n - 1]
    BY <2>5, <1>1 DEF Unfolds
  <2>8. n \in I => s[n] \in R
    BY <2>5
  <2> HIDE DEF R
  <2> QED BY <2>3, <2>6, <2>7, <2>8
<1>4. At(s, I) \in Seq(R)
  BY <1>1, <1>3
<1>5. \A k \in DOMAIN At(s, I) : At(s, I)[k] \in R
  <2> HIDE DEF R
  <2> QED BY <1>4
<1>6. At(s, I) \in Seq(T)
  <2> HIDE DEF R
  <2> QED BY <1>2, <1>4
<1> QED BY <1>5, <1>6

LEMMA AtPrefix ==
  ASSUME NEW T, NEW a \in Seq(T), NEW b \in Seq(T), NEW I,
         \A i \in DOMAIN (a \o b) : i \in I <=> i <= Len(a)
  PROVE  At(a \o b, I) = a
<1> DEFINE s == a \o b
<1>0. s \in Seq(T) /\ Len(s) = Len(a) + Len(b) /\ Len(a) \in Nat /\ Len(b) \in Nat
  OBVIOUS
<1>1. PICK u : Unfolds(u, s, I, Len(s)) /\ At(s, I) = u[Len(s)]
  BY <1>0, AtUnfolds
<1> DEFINE want(n) == IF n <= Len(a) THEN SubSeq(a, 1, n) ELSE a
           B == {n \in 0 .. Len(s) : u[n] # want(n)}
<1>2. u[Len(s)] = want(Len(s))
  <2> SUFFICES ASSUME B # {} PROVE FALSE
    BY <1>0
  <2>1. B \in SUBSET Nat
    BY <1>0
  <2> HIDE DEF B
  <2>2. PICK n \in B : \A m \in B : n <= m
    BY <2>1, Least1
  <2>3. n \in 0 .. Len(s) /\ u[n] # want(n)
    BY DEF B
  <2>4. n # 0
    <3>1. want(0) = <<>>
      BY <1>0
    <3> QED BY <2>3, <3>1, <1>1 DEF Unfolds
  <2>5. n \in 1 .. Len(s) /\ n - 1 \in 0 .. Len(s) /\ n - 1 \notin B
    BY <2>2, <2>3, <2>4, <1>0
  <2>6. u[n - 1] = want(n - 1)
    BY <2>5 DEF B
  <2>7. u[n] = IF n \in I THEN Append(u[n - 1], s[n]) ELSE u[n - 1]
    BY <2>5, <1>1 DEF Unfolds
  <2>8. n \in I <=> n <= Len(a)
    BY <2>5
  <2>9. CASE n <= Len(a)
    <3>1. u[n] = Append(SubSeq(a, 1, n - 1), s[n])
      BY <2>5, <2>6, <2>7, <2>8, <2>9, <1>0
    <3>2. s[n] = a[n]
      BY <2>5, <2>9, <1>0
    <3>3. Append(SubSeq(a, 1, n - 1), a[n]) = SubSeq(a, 1, n)
      BY <2>5, <2>9, <1>0
    <3> QED BY <2>3, <2>9, <3>1, <3>2, <3>3
  <2>10. CASE ~ (n <= Len(a))
    <3>1. want(n - 1) = a
      BY <2>5, <2>10, <1>0
    <3> QED BY <2>3, <2>6, <2>7, <2>8, <2>10, <3>1
  <2> QED BY <2>9, <2>10
<1>3. want(Len(s)) = a
  BY <1>0
<1> QED BY <1>1, <1>2, <1>3

\* What is selected is there.
LEMMA AtHolds ==
  ASSUME NEW T, NEW s \in Seq(T), NEW I
  PROVE  \A i \in DOMAIN s : i \in I => \E k \in DOMAIN At(s, I) : At(s, I)[k] = s[i]
<1> DEFINE Has(t, n) == \A i \in 1 .. n : i \in I => \E k \in DOMAIN t : t[k] = s[i]
<1>0. Len(s) \in Nat /\ DOMAIN s = 1 .. Len(s)
  OBVIOUS
<1>1. PICK u : Unfolds(u, s, I, Len(s)) /\ At(s, I) = u[Len(s)]
  BY AtUnfolds
<1> DEFINE B == {n \in 0 .. Len(s) : ~ (u[n] \in Seq(T) /\ Has(u[n], n))}
<1>2. SUFFICES ASSUME B # {} PROVE FALSE
  <2>1. Len(s) \in 0 .. Len(s)
    BY <1>0
  <2> QED BY <1>0, <1>1, <2>1
<1>3. B \in SUBSET Nat
  OBVIOUS
<1> HIDE DEF B
<1>4. PICK n \in B : \A m \in B : n <= m
  BY <1>2, <1>3, Least1
<1>5. n \in 0 .. Len(s) /\ ~ (u[n] \in Seq(T) /\ Has(u[n], n))
  BY DEF B
<1>6. n # 0
  <2>1. u[0] = <<>>
    BY <1>1 DEF Unfolds
  <2>2. <<>> \in Seq(T) /\ Has(<<>>, 0)
    OBVIOUS
  <2> QED BY <1>5, <2>1, <2>2
<1>7. n \in 1 .. Len(s) /\ n - 1 \in 0 .. Len(s) /\ n - 1 \notin B
  BY <1>4, <1>5, <1>6
<1>8. u[n - 1] \in Seq(T) /\ Has(u[n - 1], n - 1)
  BY <1>7 DEF B
<1>9. u[n] = IF n \in I THEN Append(u[n - 1], s[n]) ELSE u[n - 1]
  BY <1>1, <1>7 DEF Unfolds
<1>10. s[n] \in T
  BY <1>0, <1>7
<1>11. u[n] \in Seq(T)
  BY <1>8, <1>9, <1>10
<1>12. Has(u[n], n)
  <2> SUFFICES ASSUME NEW i \in 1 .. n, i \in I
               PROVE  \E k \in DOMAIN u[n] : u[n][k] = s[i]
    OBVIOUS
  <2>1. CASE i = n
    <3>1. u[n] = Append(u[n - 1], s[n])
      BY <1>9, <2>1
    <3>2. Len(u[n - 1]) + 1 \in DOMAIN u[n] /\ u[n][Len(u[n - 1]) + 1] = s[n]
      BY <1>8, <1>10, <3>1
    <3> QED BY <2>1, <3>2
  <2>2. CASE i # n
    <3>1. i \in 1 .. (n - 1)
      BY <1>7, <2>2
    <3>2. PICK k \in DOMAIN u[n - 1] : u[n - 1][k] = s[i]
      BY <1>8, <3>1
    <3>3. k \in DOMAIN u[n] /\ u[n][k] = u[n - 1][k]
      BY <1>8, <1>9, <1>10
    <3> QED BY <3>2, <3>3
  <2> QED BY <2>1, <2>2
<1> QED BY <1>5, <1>11, <1>12

LEMMA SetToSeqType ==
  ASSUME NEW S, IsFiniteSet(S)
  PROVE  SetToSeq(S) \in Seq(S)
<1>1. Cardinality(S) \in Nat /\ ExistsBijection(1 .. Cardinality(S), S)
  BY FS_CardinalityType
<1>2. PICK f : f \in Bijection(1 .. Cardinality(S), S)
  BY <1>1 DEF ExistsBijection
<1>3. f \in [1 .. Cardinality(S) -> S] /\ IsInjective(f)
  BY <1>2 DEF Bijection, Injection, IsInjective
<1>4. SetToSeq(S) \in [1 .. Cardinality(S) -> S]
  BY <1>3 DEF SetToSeq
<1> QED BY <1>1, <1>4
-----------------------------------------------------------------------------
(* What the operators return *)

Read == [path : Command \cup {Absent}, sig : Text]
ReadChunk == [path : Command \cup {Absent}, text : Text]

LEMMA ReadIsEntry ==
  ASSUME NEW x \in Read, x.path \in Command
  PROVE  x \in Entry
BY DEF Read, Entry

LEMMA ReadChunkIsChunk ==
  ASSUME NEW x \in ReadChunk, x.path \in Command
  PROVE  x \in Chunk
BY DEF ReadChunk, Chunk

LEMMA TextTypes ==
  ASSUME present \in SUBSET Path, version \in [Path -> 1 .. MaxVersion],
         NEW p \in Command
  PROVE  /\ SigOf(p) \in Text /\ SigOf(p).path = p
         /\ TextOf(p) \in Text /\ TextOf(p).path = p
<1>1. MaxVersion \in Nat \ {0}
  BY IndexAssumption
<1>2. p \in Path => version[p] \in Nat
  BY <1>1
<1> QED BY <1>2 DEF SigOf, TextOf, Text, Stub

LEMMA LoadEntriesType ==
  ASSUME disk \in Files
  PROVE  LoadEntries \in Seq(Read)
<1>1. CASE disk.entries = Absent \/ disk.paths = Absent
  BY <1>1 DEF LoadEntries
<1>2. CASE ~ (disk.entries = Absent \/ disk.paths = Absent)
  <2>1. disk.entries \in Seq(Text) /\ disk.paths \in Seq(Command)
    BY <1>2 DEF Files
  <2>2. LoadEntries = [i \in DOMAIN disk.entries |->
          [path |-> IF i \in DOMAIN disk.paths THEN disk.paths[i] ELSE Absent,
           sig |-> disk.entries[i]]]
    BY <1>2 DEF LoadEntries
  <2>3. \A i \in DOMAIN disk.entries :
          [path |-> IF i \in DOMAIN disk.paths THEN disk.paths[i] ELSE Absent,
           sig |-> disk.entries[i]] \in Read
    BY <2>1 DEF Read
  <2>4. DOMAIN disk.entries = 1 .. Len(disk.entries) /\ Len(disk.entries) \in Nat
    BY <2>1
  <2> QED BY <2>2, <2>3, <2>4
<1> QED BY <1>1, <1>2

LEMMA LiveRowsType ==
  ASSUME disk \in Files
  PROVE  LiveRows \in Seq(Row)
<1>1. CASE disk.rows = Absent
  BY <1>1 DEF LiveRows
<1>2. CASE disk.rows # Absent
  <2>1. disk.rows \in Seq(Row)
    BY <1>2 DEF Files
  <2>2. At(disk.rows, {i \in DOMAIN disk.rows : ~disk.rows[i].dead}) \in Seq(Row)
    BY <2>1, AtItems
  <2> QED BY <1>2, <2>2 DEF LiveRows
<1> QED BY <1>1, <1>2

LEMMA LoadChunksType ==
  ASSUME disk \in Files
  PROVE  LoadChunks \in Seq(ReadChunk)
<1>1. CASE disk.docs = Absent \/ \E i \in DOMAIN LiveRows :
                                   LiveRows[i].entry \notin DOMAIN LoadEntries
  BY <1>1 DEF LoadChunks
<1>2. CASE ~ (disk.docs = Absent \/ \E i \in DOMAIN LiveRows :
                                      LiveRows[i].entry \notin DOMAIN LoadEntries)
  <2>1. disk.docs \in Seq(Text)
    BY <1>2 DEF Files
  <2>2. LoadChunks = [i \in DOMAIN LiveRows |->
          [path |-> LoadEntries[LiveRows[i].entry].path,
           text |-> IF i \in DOMAIN disk.docs
                    THEN disk.docs[i]
                    ELSE [path |-> Absent, version |-> Stub]]]
    BY <1>2 DEF LoadChunks
  <2>3. ASSUME NEW i \in DOMAIN LiveRows
        PROVE  LoadChunks[i] \in ReadChunk
    <3>1. LoadEntries[LiveRows[i].entry] \in Read
      BY <1>2, LoadEntriesType
    <3>2. LoadEntries[LiveRows[i].entry].path \in Command \cup {Absent}
      BY <3>1 DEF Read
    <3>3. (IF i \in DOMAIN disk.docs THEN disk.docs[i]
           ELSE [path |-> Absent, version |-> Stub]) \in Text
      <4>1. [path |-> Absent, version |-> Stub] \in Text
        BY DEF Text, Stub
      <4>2. i \in DOMAIN disk.docs => disk.docs[i] \in Text
        BY <2>1
      <4> QED BY <4>1, <4>2
    <3> QED BY <2>2, <3>2, <3>3 DEF ReadChunk
  <2>4. DOMAIN LiveRows = 1 .. Len(LiveRows) /\ Len(LiveRows) \in Nat
    BY LiveRowsType
  <2> QED BY <2>2, <2>3, <2>4
<1> QED BY <1>1, <1>2

LEMMA TextsType ==
  ASSUME NEW chunks \in Seq(Chunk)
  PROVE  Texts(chunks) \in Seq(Text) /\ Len(Texts(chunks)) = Len(chunks)
<1>1. ASSUME NEW i \in DOMAIN chunks PROVE chunks[i].text \in Text
  <2>1. chunks[i] \in Chunk
    OBVIOUS
  <2> QED BY <2>1 DEF Chunk
<1> QED BY <1>1 DEF Texts

LEMMA RetrieverType ==
  ASSUME disk \in Files, NEW chunks \in Seq(Chunk), NEW binaries \in Seq(Entry),
         NEW mode
  PROVE  /\ Retriever(chunks, binaries, mode) \in Memory
         /\ Retriever(chunks, binaries, mode).chunks = chunks
         /\ Retriever(chunks, binaries, mode).binaries = binaries
<1>1. (IF disk.lexical = Absent THEN Texts(chunks) ELSE disk.lexical) \in Seq(Text)
  BY TextsType DEF Files
<1>2. (IF mode = "provider" /\ disk.vectors # Absent
          /\ Len(disk.vectors) >= Len(chunks)
       THEN disk.vectors ELSE Absent) \in Seq(Vector) \cup {Absent}
  BY DEF Files
<1> QED BY <1>1, <1>2 DEF Retriever, Memory

LEMMA PrunedType ==
  ASSUME present \in SUBSET Path, NEW entries \in Seq(Read), NEW chunks \in Seq(ReadChunk)
  PROVE  /\ Pruned(entries, chunks).entries \in Seq(Entry)
         /\ Pruned(entries, chunks).chunks \in Seq(Chunk)
         /\ \A i \in DOMAIN Pruned(entries, chunks).entries : \E j \in DOMAIN entries :
              Pruned(entries, chunks).entries[i] = entries[j]
         /\ \A i \in DOMAIN Pruned(entries, chunks).chunks : \E j \in DOMAIN chunks :
              Pruned(entries, chunks).chunks[i] = chunks[j]
<1> DEFINE I == {i \in DOMAIN entries : entries[i].path \in present}
           kept == At(entries, I)
           live == IF kept = <<>> THEN present ELSE PathsOf(kept)
           J == {i \in DOMAIN chunks : chunks[i].path \in live}
           rest == At(chunks, J)
<1>1. Pruned(entries, chunks) = [entries |-> kept, chunks |-> rest]
  BY DEF Pruned
<1>2. /\ kept \in Seq(Read)
      /\ \A k \in DOMAIN kept : \E i \in DOMAIN entries : i \in I /\ kept[k] = entries[i]
  <2> HIDE DEF I
  <2> QED BY AtItems
<1>3. ASSUME NEW k \in DOMAIN kept PROVE kept[k] \in Entry /\ kept[k].path \in present
  <2>1. PICK i \in DOMAIN entries : i \in I /\ kept[k] = entries[i]
    BY <1>2
  <2>2. entries[i] \in Read /\ entries[i].path \in present
    BY <2>1
  <2> HIDE DEF kept
  <2> QED BY <2>1, <2>2, ReadIsEntry DEF Command
<1>4. kept \in Seq(Entry)
  <2> HIDE DEF kept
  <2>1. kept \in Seq(Read)
    BY <1>2
  <2> QED BY <2>1, <1>3
<1>5. live \subseteq present
  <2> HIDE DEF kept
  <2> QED BY <1>3 DEF PathsOf
<1>6. /\ rest \in Seq(ReadChunk)
      /\ \A k \in DOMAIN rest : \E i \in DOMAIN chunks : i \in J /\ rest[k] = chunks[i]
  <2> HIDE DEF J
  <2> QED BY AtItems
<1>7. ASSUME NEW k \in DOMAIN rest PROVE rest[k] \in Chunk
  <2>1. PICK i \in DOMAIN chunks : i \in J /\ rest[k] = chunks[i]
    BY <1>6
  <2>2. chunks[i] \in ReadChunk /\ chunks[i].path \in live
    BY <2>1
  <2> HIDE DEF rest, live
  <2> QED BY <1>5, <2>1, <2>2, ReadChunkIsChunk DEF Command
<1>8. rest \in Seq(Chunk)
  <2> HIDE DEF rest
  <2>1. rest \in Seq(ReadChunk)
    BY <1>6
  <2> QED BY <2>1, <1>7
<1> HIDE DEF kept, rest
<1> QED BY <1>1, <1>2, <1>4, <1>6, <1>8

LEMMA FoundType ==
  ASSUME NEW order \in Orders
  PROVE  /\ Found(order) \in Seq(Command)
         /\ \A k \in DOMAIN Found(order) : Found(order)[k] \in Wanted
<1> DEFINE I == {i \in DOMAIN order : order[i] \in Wanted}
<1>1. order \in Seq(Command)
  BY IndexAssumption
<1>2. /\ At(order, I) \in Seq(Command)
      /\ \A k \in DOMAIN At(order, I) : \E i \in DOMAIN order : i \in I /\ At(order, I)[k] = order[i]
  <2> HIDE DEF I
  <2> QED BY <1>1, AtItems
<1>3. Found(order) = At(order, I)
  BY DEF Found
<1> QED BY <1>2, <1>3

LEMMA EntryOfType ==
  ASSUME job \in Writing, NEW p
  PROVE  /\ EntryOf(p) \in Nat
         /\ EntryOf(p) \in DOMAIN job.stored => job.stored[EntryOf(p)].path = p
<1>1. job.stored \in Seq(Entry)
  BY DEF Writing
<1>2. CASE p \in PathsOf(job.stored)
  <2>1. \E i \in DOMAIN job.stored : job.stored[i].path = p
    BY <1>2 DEF PathsOf
  <2>2. EntryOf(p) \in DOMAIN job.stored /\ job.stored[EntryOf(p)].path = p
    BY <1>2, <2>1 DEF EntryOf
  <2> QED BY <1>1, <2>2
<1>3. CASE p \notin PathsOf(job.stored)
  <2>1. EntryOf(p) = 0
    BY <1>3 DEF EntryOf
  <2>2. 0 \notin DOMAIN job.stored
    BY <1>1
  <2> QED BY <2>1, <2>2
<1> QED BY <1>2, <1>3

\* The rows of the chunks come first, the tombstones after them.
LiveOnes == [i \in DOMAIN job.chunks |->
               [entry |-> EntryOf(job.chunks[i].path), dead |-> FALSE]]
DeadOnes == {[entry |-> EntryOf(p), dead |-> TRUE] : p \in job.dead}

LEMMA RowsAre ==
  ASSUME job \in Writing
  PROVE  /\ Rows = LiveOnes \o SetToSeq(DeadOnes)
         /\ LiveOnes \in Seq(Row) /\ Len(LiveOnes) = Len(job.chunks)
         /\ SetToSeq(DeadOnes) \in Seq(Row)
         /\ SetToSeq(DeadOnes) \in Seq(DeadOnes)
         /\ Rows \in Seq(Row)
<1>1. job.chunks \in Seq(Chunk) /\ job.dead \subseteq Command \cup {Absent}
  BY DEF Writing
<1>2. LiveOnes \in Seq(Row) /\ Len(LiveOnes) = Len(job.chunks)
  <2>1. \A i \in DOMAIN job.chunks :
          [entry |-> EntryOf(job.chunks[i].path), dead |-> FALSE] \in Row
    BY EntryOfType DEF Row
  <2>2. DOMAIN job.chunks = 1 .. Len(job.chunks) /\ Len(job.chunks) \in Nat
    BY <1>1
  <2> QED BY <2>1, <2>2 DEF LiveOnes
<1>3. DeadOnes \subseteq Row
  <2>1. \A p \in job.dead : EntryOf(p) \in Nat
    BY EntryOfType
  <2>2. ASSUME NEW r \in DeadOnes PROVE r \in Row
    <3>1. PICK p \in job.dead : r = [entry |-> EntryOf(p), dead |-> TRUE]
      BY DEF DeadOnes
    <3>2. [entry |-> EntryOf(p), dead |-> TRUE] \in Row
      BY <2>1 DEF Row
    <3> QED BY <3>1, <3>2
  <2> QED BY <2>2
<1>4. IsFiniteSet(DeadOnes)
  <2>1. IsFiniteSet(Command \cup {Absent})
    BY IndexAssumption, FS_AddElement
  <2>2. IsFiniteSet(job.dead)
    BY <2>1, <1>1, FS_Subset
  <2> DEFINE f == [p \in job.dead |-> [entry |-> EntryOf(p), dead |-> TRUE]]
  <2>3. f \in Surjection(job.dead, DeadOnes)
    BY DEF Surjection, DeadOnes
  <2> HIDE DEF f
  <2> QED BY <2>2, <2>3, FS_Surjection
<1>5. SetToSeq(DeadOnes) \in Seq(DeadOnes)
  BY <1>4, SetToSeqType
<1>6. SetToSeq(DeadOnes) \in Seq(Row)
  BY <1>3, <1>5
<1>7. Rows = LiveOnes \o SetToSeq(DeadOnes)
  BY DEF Rows, LiveOnes, DeadOnes
<1> QED BY <1>2, <1>5, <1>6, <1>7

-----------------------------------------------------------------------------
(* Types, and who is at which step *)

Places ==
  /\ present \in SUBSET Path
  /\ version \in [Path -> 1 .. MaxVersion]
Stores ==
  /\ disk \in Files
  /\ runtime \in Memory
  /\ model \in Models
Booting ==
  /\ boot \in {"load", "publish", "queued", "indexing", "done"}
  /\ loaded \in Loaded \cup {Absent}
  /\ (loaded = Absent) <=> boot \in {"load", "done"}
Running ==
  /\ writer \in Waiting \cup {"background", Nobody}
  /\ job \in Starting \cup Scanned \cup Writing \cup {Absent}
  /\ (job = Absent) <=> (writer = Nobody)
  /\ queue \in SUBSET Waiting
Flags ==
  /\ busy \in BOOLEAN /\ dirty \in BOOLEAN
  /\ torn \in BOOLEAN /\ unseen \in BOOLEAN /\ renamed \in BOOLEAN
  /\ pruned \in SUBSET Virtual /\ reordered \in BOOLEAN
  /\ crashes \in 0 .. MaxCrashes
  /\ requests \in 0 .. MaxRequests

\* The bootstrap's run waits or runs exactly while the bootstrap is past its
\* publication, and never does both; only a compaction collects.
Turns ==
  /\ "boot" \in queue => boot = "queued" /\ writer # "boot"
  /\ writer = "boot" => boot \in {"queued", "indexing"}
  /\ boot \in {"queued", "indexing"} => "boot" \in queue \cup {writer}
  /\ boot = "indexing" => writer = "boot"
  /\ writer = "boot" => (boot = "queued" <=> job.step = "scan")
  /\ job # Absent =>
       /\ job.step = "collect" => writer = "compact"
       /\ job.step \in {"scan", "extract"} => writer # "compact"

TypeInv == Places /\ Stores /\ Booting /\ Running /\ Flags /\ Turns

LEMMA TypeParts == TypeOK <=> Places /\ Stores /\ Booting /\ Running /\ Flags
<1>1. TypeOK => Places /\ Stores /\ Booting
  BY DEF TypeOK, Places, Stores, Booting
<1>2. TypeOK => Running /\ Flags
  BY DEF TypeOK, Running, Flags
<1>3. Places /\ Stores /\ Booting /\ Running /\ Flags => TypeOK
  BY DEF TypeOK, Places, Stores, Booting, Running, Flags
<1> QED BY <1>1, <1>2, <1>3

LEMMA StepsApart ==
  ASSUME job \in Starting \cup Scanned \cup Writing \cup {Absent}, job # Absent
  PROVE  /\ job.step \in {"scan", "collect"} => job \in Starting
         /\ job.step = "extract" => job \in Scanned
         /\ job.step \in {"manifest", "paths", "entries", "docs", "rows",
                          "lexical", "vectors", "publish"} => job \in Writing
         /\ job.step \in {"scan", "collect", "extract", "manifest", "paths",
              "entries", "docs", "rows", "lexical", "vectors", "publish"}
BY DEF Starting, Scanned, Writing

LEMMA InitTypes == Init => TypeInv
<1> SUFFICES ASSUME Init PROVE TypeInv
  OBVIOUS
<1>1. Places
  BY IndexAssumption DEF Init, Places
<1>2. Stores
  <2>1. EmptyDisk \in Files
    BY DEF EmptyDisk, Files
  <2>2. EmptyRuntime \in Memory
    BY DEF EmptyRuntime, Memory
  <2> QED BY <2>1, <2>2 DEF Init, Stores
<1>3. Booting
  BY DEF Init, Booting
<1>4. Running
  BY DEF Init, Running
<1>5. Flags
  <2>1. /\ busy \in BOOLEAN /\ dirty \in BOOLEAN
        /\ torn \in BOOLEAN /\ unseen \in BOOLEAN /\ renamed \in BOOLEAN
        /\ pruned \in SUBSET Virtual /\ reordered \in BOOLEAN
    BY DEF Init
  <2>2. crashes \in 0 .. MaxCrashes /\ requests \in 0 .. MaxRequests
    BY IndexAssumption DEF Init
  <2> QED BY <2>1, <2>2 DEF Flags
<1>6. Turns
  BY DEF Init, Turns, Nobody
<1> QED BY <1>1, <1>2, <1>3, <1>4, <1>5, <1>6 DEF TypeInv

LEMMA EmptyTypes == EmptyDisk \in Files /\ EmptyRuntime \in Memory
BY DEF EmptyDisk, Files, EmptyRuntime, Memory

LEMMA WorldTypes ==
  ASSUME TypeInv, World
  PROVE  TypeInv'
<1> USE DEF TypeInv
<1>1. PICK p \in Changing : Install(p) \/ Uninstall(p)
  BY DEF World
<1>2. p \in Path
  BY IndexAssumption
<1>3. MayChange
  BY <1>1 DEF Install, Uninstall
<1>4. Places'
  <2>1. CASE Install(p)
    BY <2>1, <1>2, IndexAssumption DEF Install, Places
  <2>2. CASE Uninstall(p)
    BY <2>2 DEF Uninstall, Places
  <2> QED BY <1>1, <2>1, <2>2
<1>5. Stores' /\ Booting' /\ Running' /\ Turns'
  BY <1>3 DEF MayChange, Stores, Booting, Running, Turns, bootVars, lockVars
<1>6. Flags'
  <2>1. dirty' \in BOOLEAN /\ unseen' \in BOOLEAN
    BY <1>3 DEF MayChange, Flags
  <2>2. /\ busy' = busy /\ torn' = torn /\ renamed' = renamed
        /\ pruned' = pruned /\ reordered' = reordered
        /\ crashes' = crashes /\ requests' = requests
    BY <1>3 DEF MayChange, lockVars
  <2> QED BY <2>1, <2>2 DEF Flags
<1> QED BY <1>4, <1>5, <1>6

LEMMA BootLoadTypes ==
  ASSUME TypeInv, BootLoad
  PROVE  TypeInv'
<1> USE DEF TypeInv
<1>1. loaded' \in Loaded
  <2>1. CASE NeedsFull
    BY <2>1 DEF BootLoad, Loaded, Modes
  <2>2. CASE ~NeedsFull
    <3>1. /\ Pruned(LoadEntries, LoadChunks).entries \in Seq(Entry)
          /\ Pruned(LoadEntries, LoadChunks).chunks \in Seq(Chunk)
      BY PrunedType, LoadEntriesType, LoadChunksType DEF Places, Stores
    <3>2. disk.manifest \in Manifest
      BY <2>2 DEF NeedsFull, Stores, Files
    <3>3. disk.manifest.mode \in Modes
      BY <3>2 DEF Manifest
    <3>4. loaded' = [entries |-> Pruned(LoadEntries, LoadChunks).entries,
                     chunks |-> Pruned(LoadEntries, LoadChunks).chunks,
                     full |-> FALSE, mode |-> disk.manifest.mode]
      BY <2>2 DEF BootLoad
    <3> QED BY <3>1, <3>3, <3>4 DEF Loaded
  <2> QED BY <2>1, <2>2
<1>2. Places' /\ Stores' /\ Running'
  BY DEF BootLoad, Places, Stores, Running, worldVars, lockVars
<1>3. Booting'
  BY <1>1, AbsentAssumption DEF BootLoad, Booting
<1>4. Flags'
  BY DEF BootLoad, Flags, lockVars, historyVars
<1>5. Turns'
  BY DEF BootLoad, Turns, lockVars
<1> QED BY <1>2, <1>3, <1>4, <1>5

LEMMA BootPublishTypes ==
  ASSUME TypeInv, BootPublish
  PROVE  TypeInv'
<1> USE DEF TypeInv
<1>0. loaded \in Loaded
  BY DEF BootPublish, Booting
<1> DEFINE madeUp == [i \in DOMAIN loaded.chunks |->
                        [path |-> loaded.chunks[i].path,
                         sig |-> [path |-> loaded.chunks[i].path, version |-> Stub]]]
           entries == IF loaded.entries # <<>> THEN loaded.entries ELSE madeUp
<1>1. entries \in Seq(Entry)
  <2>1. loaded.entries \in Seq(Entry) /\ loaded.chunks \in Seq(Chunk)
    BY <1>0 DEF Loaded
  <2>2. ASSUME NEW i \in DOMAIN loaded.chunks
        PROVE  madeUp[i] \in Entry
    <3>1. loaded.chunks[i] \in Chunk
      BY <2>1
    <3>2. loaded.chunks[i].path \in Command
      BY <3>1 DEF Chunk
    <3> QED BY <3>2 DEF Entry, Text, Stub
  <2>3. madeUp \in Seq(Entry)
    <3>1. DOMAIN loaded.chunks = 1 .. Len(loaded.chunks) /\ Len(loaded.chunks) \in Nat
      BY <2>1
    <3>2. madeUp \in [1 .. Len(loaded.chunks) -> Entry]
      BY <2>2, <3>1
    <3> HIDE DEF madeUp
    <3> QED BY <3>1, <3>2
  <2> QED BY <2>1, <2>3
<1>2. runtime' \in Memory
  <2>1. CASE loaded.chunks = <<>>
    BY <2>1 DEF BootPublish, Stores
  <2>2. CASE loaded.chunks # <<>>
    <3>1. loaded.chunks \in Seq(Chunk)
      BY <1>0 DEF Loaded
    <3>2. runtime' = Retriever(loaded.chunks, entries, loaded.mode)
      BY <2>2 DEF BootPublish
    <3> HIDE DEF entries
    <3> QED BY <3>1, <3>2, <1>1, RetrieverType DEF Stores
  <2> QED BY <2>1, <2>2
<1>3. Places' /\ Stores' /\ Running'
  BY <1>2 DEF BootPublish, Places, Stores, Running, worldVars, Waiting
<1>4. Booting'
  BY <1>0, AbsentAssumption DEF BootPublish, Booting
<1>5. Flags'
  <2>1. busy' \in BOOLEAN /\ pruned' \in SUBSET Virtual /\ reordered' \in BOOLEAN
    BY DEF BootPublish, Flags
  <2> QED BY <2>1 DEF BootPublish, Flags
<1>6. Turns'
  BY DEF BootPublish, Turns
<1> QED BY <1>3, <1>4, <1>5, <1>6

LEMMA QueueTypes ==
  ASSUME TypeInv, WatchChange \/ RequestDelta \/ RequestCompact \/ RequestFull
  PROVE  TypeInv'
<1> USE DEF TypeInv
<1>1. Places' /\ Booting'
  BY DEF WatchChange, RequestDelta, RequestCompact, RequestFull, Places, Booting,
         worldVars, bootVars
<1>2. Stores'
  BY EmptyTypes
  DEF WatchChange, RequestDelta, RequestCompact, RequestFull, Stores
<1>3. /\ writer' = writer /\ job' = job
      /\ \E run \in Waiting \ {"boot"} : queue' = queue \cup {run}
  BY DEF WatchChange, RequestDelta, RequestCompact, RequestFull, Queue, Waiting
<1>4. Running'
  BY <1>3 DEF Running
<1>5. Flags'
  <2>1. requests < MaxRequests /\ requests \in Nat => requests + 1 \in 0 .. MaxRequests
    BY IndexAssumption
  <2>2. requests' \in 0 .. MaxRequests /\ crashes' \in 0 .. MaxCrashes
    BY <2>1 DEF WatchChange, RequestDelta, RequestCompact, RequestFull, Flags,
                Requesting, historyVars
  <2>3. /\ busy' \in BOOLEAN /\ dirty' \in BOOLEAN
        /\ torn' \in BOOLEAN /\ unseen' \in BOOLEAN /\ renamed' \in BOOLEAN
        /\ pruned' \in SUBSET Virtual /\ reordered' \in BOOLEAN
    BY DEF WatchChange, RequestDelta, RequestCompact, RequestFull, Flags,
           historyVars
  <2> QED BY <2>2, <2>3 DEF Flags
<1>6. Turns'
  <2>1. boot' = boot
    BY DEF WatchChange, RequestDelta, RequestCompact, RequestFull, bootVars
  <2> QED BY <2>1, <1>3 DEF Turns
<1> QED BY <1>1, <1>2, <1>4, <1>5, <1>6

LEMMA BackgroundTypes ==
  ASSUME TypeInv, BackgroundDelta
  PROVE  TypeInv'
<1> USE DEF TypeInv
<1>1. Places' /\ Booting' /\ Stores'
  BY DEF BackgroundDelta, Places, Booting, Stores, worldVars, bootVars
<1>2. Running'
  <2>1. [step |-> "scan"] \in Starting
    BY DEF Starting
  <2> QED BY <2>1, AbsentAssumption DEF BackgroundDelta, Running, Nobody
<1>3. Flags'
  <2>1. requests < MaxRequests /\ requests \in Nat => requests + 1 \in 0 .. MaxRequests
    BY IndexAssumption
  <2>2. requests' \in 0 .. MaxRequests /\ crashes' \in 0 .. MaxCrashes
    BY <2>1 DEF BackgroundDelta, Flags, Requesting
  <2> QED BY <2>2 DEF BackgroundDelta, Flags
<1>4. Turns'
  BY DEF BackgroundDelta, Turns, bootVars, Nobody
<1> QED BY <1>1, <1>2, <1>3, <1>4

LEMMA AcquireTypes ==
  ASSUME TypeInv, NEW run \in Waiting, Acquire(run)
  PROVE  TypeInv'
<1> USE DEF TypeInv
<1>1. Places' /\ Booting' /\ Stores'
  BY DEF Acquire, Places, Booting, Stores, worldVars, bootVars
<1>2. Running'
  <2>1. job' \in Starting
    BY DEF Acquire, Starting
  <2>2. run # Nobody
    BY DEF Waiting, Nobody
  <2> QED BY <2>1, <2>2, AbsentAssumption DEF Acquire, Running
<1>3. Flags'
  BY DEF Acquire, Flags, historyVars
<1>4. Turns'
  <2>1. /\ writer' = run /\ queue' = queue \ {run} /\ boot' = boot
        /\ run \in queue /\ writer = Nobody
        /\ job'.step = IF run = "compact" THEN "collect" ELSE "scan"
    BY DEF Acquire, bootVars
  <2>2. run # Nobody /\ Nobody # "boot"
    BY DEF Waiting, Nobody
  <2> QED BY <2>1, <2>2 DEF Turns
<1> QED BY <1>1, <1>2, <1>3, <1>4

LEMMA CrashTypes ==
  ASSUME TypeInv, Crash
  PROVE  TypeInv'
<1> USE DEF TypeInv
<1>1. Places' /\ Stores' /\ Booting' /\ Running' /\ Turns'
  BY EmptyTypes
  DEF Crash, Places, Stores, Booting, Running, Turns, worldVars, Nobody
<1>2. Flags'
  <2>1. crashes' \in 0 .. MaxCrashes /\ requests' \in 0 .. MaxRequests
    BY IndexAssumption DEF Crash, Flags
  <2>2. torn' \in BOOLEAN /\ renamed' \in BOOLEAN
    BY DEF Crash, Flags, Misnamed
  <2>3. /\ busy' = FALSE /\ dirty' = FALSE /\ unseen' = FALSE
        /\ pruned' = {} /\ reordered' = FALSE
    BY DEF Crash
  <2> QED BY <2>1, <2>2, <2>3 DEF Flags
<1> QED BY <1>1, <1>2

LEMMA FinishTypes ==
  ASSUME Booting, Running, Turns, job # Absent, Finish, queue' = queue
  PROVE  Booting' /\ Running' /\ Turns'
<1>1. Booting'
  BY DEF Finish, Booting
<1>2. Running'
  BY DEF Finish, Running
<1>3. Turns'
  BY DEF Finish, Turns, Nobody
<1> QED BY <1>1, <1>2, <1>3

LEMMA ReusedOfType ==
  ASSUME job \in Scanned, NEW p \in PathsOf(job.reused)
  PROVE  /\ ReusedOf(p) \in Chunk /\ ReusedOf(p).path = p
         /\ \E i \in DOMAIN job.reused : ReusedOf(p) = job.reused[i]
<1>1. job.reused \in Seq(Chunk)
  BY DEF Scanned
<1>2. \E i \in DOMAIN job.reused : job.reused[i].path = p
  BY DEF PathsOf
<1>3. PICK i \in DOMAIN job.reused : job.reused[i].path = p /\ ReusedOf(p) = job.reused[i]
  BY <1>2 DEF ReusedOf
<1> QED BY <1>1, <1>3

LEMMA ScanTypes ==
  ASSUME TypeInv, Scan
  PROVE  TypeInv'
<1> USE DEF TypeInv
<1>1. job \in Starting /\ writer # Nobody /\ writer # "compact" /\ job.step = "scan"
  BY StepsApart DEF Scan, Running, Turns
<1> DEFINE entries == IF Full THEN <<>> ELSE LoadEntries
           chunks == IF Full THEN <<>> ELSE LoadChunks
<1>2. entries \in Seq(Read) /\ chunks \in Seq(ReadChunk)
  BY LoadEntriesType, LoadChunksType DEF Stores
<1> HIDE DEF entries, chunks
<1>3. PICK order \in Orders :
        LET found == Found(order)
            reuse == {p \in ToSet(found) : Reusable(entries, chunks, p)}
        IN job' = [step |-> "extract",
                   found |-> [i \in DOMAIN found |->
                                [path |-> found[i], sig |-> SigOf(found[i])]],
                   reused |-> At(chunks, {i \in DOMAIN chunks :
                                             chunks[i].path \in reuse}),
                   dead |-> PathsOf(chunks) \ reuse,
                   removed |-> PathsOf(entries) \ ToSet(found)]
  BY DEF Scan, entries, chunks
<1> DEFINE found == Found(order)
           reuse == {p \in ToSet(found) : Reusable(entries, chunks, p)}
           I == {i \in DOMAIN chunks : chunks[i].path \in reuse}
           listed == [i \in DOMAIN found |-> [path |-> found[i], sig |-> SigOf(found[i])]]
<1>4. found \in Seq(Command)
  BY FoundType
<1>5. listed \in Seq(Entry)
  <2>1. ASSUME NEW i \in DOMAIN found PROVE listed[i] \in Entry
    <3>1. found[i] \in Command
      BY <1>4
    <3>2. SigOf(found[i]) \in Text
      BY <3>1, TextTypes DEF Places
    <3> QED BY <3>1, <3>2 DEF Entry
  <2>2. DOMAIN found = 1 .. Len(found) /\ Len(found) \in Nat
    BY <1>4
  <2> HIDE DEF found
  <2>3. listed \in [1 .. Len(found) -> Entry]
    BY <2>1, <2>2
  <2> HIDE DEF listed
  <2> QED BY <2>2, <2>3
<1>6. reuse \subseteq Command
  <2> HIDE DEF found
  <2> QED BY <1>4 DEF ToSet
<1>7. At(chunks, I) \in Seq(Chunk)
  <2>1. /\ At(chunks, I) \in Seq(ReadChunk)
        /\ \A k \in DOMAIN At(chunks, I) : \E i \in DOMAIN chunks :
             i \in I /\ At(chunks, I)[k] = chunks[i]
    <3> HIDE DEF I
    <3> QED BY <1>2, AtItems
  <2>2. ASSUME NEW k \in DOMAIN At(chunks, I) PROVE At(chunks, I)[k] \in Chunk
    <3>1. PICK i \in DOMAIN chunks : i \in I /\ At(chunks, I)[k] = chunks[i]
      BY <2>1
    <3>2. chunks[i] \in ReadChunk /\ chunks[i].path \in reuse
      BY <3>1, <1>2
    <3> HIDE DEF I, reuse
    <3> QED BY <3>1, <3>2, <1>6, ReadChunkIsChunk
  <2> DEFINE kept == At(chunks, I)
  <2>3. kept \in Seq(ReadChunk) /\ \A k \in DOMAIN kept : kept[k] \in Chunk
    BY <2>1, <2>2
  <2> HIDE DEF kept
  <2>4. kept \in Seq(Chunk)
    BY <2>3
  <2> QED BY <2>4 DEF kept
<1>8. PathsOf(chunks) \subseteq Command \cup {Absent}
  <2>1. ASSUME NEW i \in DOMAIN chunks PROVE chunks[i].path \in Command \cup {Absent}
    <3>1. chunks[i] \in ReadChunk
      BY <1>2
    <3> QED BY <3>1 DEF ReadChunk
  <2> QED BY <2>1 DEF PathsOf
<1>9. PathsOf(entries) \subseteq Command \cup {Absent}
  <2>1. ASSUME NEW i \in DOMAIN entries PROVE entries[i].path \in Command \cup {Absent}
    <3>1. entries[i] \in Read
      BY <1>2
    <3> QED BY <3>1 DEF Read
  <2> QED BY <2>1 DEF PathsOf
<1>10. job' = [step |-> "extract", found |-> listed, reused |-> At(chunks, I),
               dead |-> PathsOf(chunks) \ reuse,
               removed |-> PathsOf(entries) \ ToSet(found)]
  BY <1>3
<1> HIDE DEF found, reuse, I, listed
<1>11. job' \in Scanned /\ job'.step = "extract"
  BY <1>5, <1>7, <1>8, <1>9, <1>10 DEF Scanned
<1>12. Places' /\ Stores'
  BY DEF Scan, Places, Stores, worldVars
<1>13. Booting'
  <2>1. writer = "boot" => boot = "queued"
    BY <1>1 DEF Turns
  <2> QED BY <2>1 DEF Scan, Booting
<1>14. Running'
  BY <1>1, <1>11, AbsentAssumption DEF Scan, Running
<1>15. Flags'
  <2>1. busy' = TRUE /\ unseen' = FALSE
    BY DEF Scan
  <2>2. /\ dirty' = dirty /\ torn' = torn /\ renamed' = renamed
        /\ pruned' = pruned /\ reordered' = reordered
        /\ crashes' = crashes /\ requests' = requests
    BY DEF Scan
  <2> QED BY <2>1, <2>2 DEF Flags
<1>16. Turns'
  <2>1. writer' = writer /\ queue' = queue
    BY DEF Scan
  <2>2. boot' = IF writer = "boot" THEN "indexing" ELSE boot
    BY DEF Scan
  <2> QED BY <2>1, <2>2, <1>1, <1>11 DEF Turns
<1> QED BY <1>12, <1>13, <1>14, <1>15, <1>16

LEMMA UnchangedTypes ==
  ASSUME TypeInv, Unchanged
  PROVE  TypeInv'
<1> USE DEF TypeInv
<1>1. job \in Scanned /\ job # Absent
  BY StepsApart DEF Unchanged, Running
<1> DEFINE chunks == [i \in DOMAIN job.found |-> ReusedOf(job.found[i].path)]
<1>2. job.found \in Seq(Entry)
  BY <1>1 DEF Scanned
<1>3. chunks \in Seq(Chunk)
  <2>1. ASSUME NEW i \in DOMAIN job.found PROVE chunks[i] \in Chunk
    <3>1. job.found[i].path \in PathsOf(job.reused)
      BY DEF Unchanged, Nothing, ToExtract, PathsOf
    <3> QED BY <1>1, <3>1, ReusedOfType
  <2>2. DOMAIN job.found = 1 .. Len(job.found) /\ Len(job.found) \in Nat
    BY <1>2
  <2>3. chunks \in [1 .. Len(job.found) -> Chunk]
    BY <2>1, <2>2
  <2> HIDE DEF chunks
  <2> QED BY <2>2, <2>3
<1>4. runtime' \in Memory
  <2>1. \E mode : runtime' \in {runtime, Retriever(chunks, job.found, mode)}
    <3>1. runtime' = IF runtime.chunks = <<>> /\ chunks # <<>>
                     THEN Retriever(chunks, job.found,
                               IF disk.manifest = Absent THEN "disabled"
                               ELSE disk.manifest.mode)
                     ELSE runtime
      BY DEF Unchanged
    <3> HIDE DEF chunks
    <3> QED BY <3>1
  <2> HIDE DEF chunks
  <2> QED BY <1>2, <1>3, <2>1, RetrieverType DEF Stores
<1>5. Places' /\ Stores'
  BY <1>4 DEF Unchanged, Places, Stores, worldVars
<1>6. Booting' /\ Running' /\ Turns'
  BY <1>1, FinishTypes DEF Unchanged
<1>7. Flags'
  <2>1. busy' = FALSE /\ reordered' \in BOOLEAN /\ pruned' \in SUBSET Virtual
    BY DEF Unchanged, Flags
  <2> QED BY <2>1 DEF Unchanged, Flags
<1> QED BY <1>5, <1>6, <1>7

LEMMA EmbeddingModeType ==
  ASSUME NEW chunks, NEW outcome \in EmbedOutcomes
  PROVE  EmbeddingMode(chunks, outcome) \in Modes
BY IndexAssumption DEF EmbeddingMode, Modes

\* How many of the commands found fit under the cap.
Fitting == IF Len(job.found) <= MaxChunks THEN Len(job.found) ELSE MaxChunks

\* The chunks that Extract makes.
Extracted ==
  [i \in 1 .. Fitting |->
     IF job.found[i].path \in ToExtract
     THEN [path |-> job.found[i].path, text |-> TextOf(job.found[i].path)]
     ELSE ReusedOf(job.found[i].path)]

LEMMA CutType ==
  ASSUME NEW T, NEW s \in Seq(T), NEW n \in Nat, n <= Len(s)
  PROVE  /\ SubSeq(s, 1, n) \in Seq(T) /\ Len(SubSeq(s, 1, n)) = n
         /\ \A i \in 1 .. n : SubSeq(s, 1, n)[i] = s[i]
<1>1. n \in Nat /\ Len(s) \in Nat
  OBVIOUS
<1>2. \A i \in 1 .. n : s[i] \in T
  BY <1>1
<1>3. Len(SubSeq(s, 1, n)) = n /\ \A i \in 1 .. n : SubSeq(s, 1, n)[i] = s[i]
  BY <1>1
<1>4. SubSeq(s, 1, n) \in Seq(T)
  BY <1>1
<1> QED BY <1>3, <1>4

LEMMA ExtractIs ==
  ASSUME TypeInv, Extract
  PROVE  /\ job \in Scanned /\ job # Absent
         /\ Fitting \in Nat /\ Fitting <= Len(job.found)
         /\ Extracted \in Seq(Chunk) /\ Len(Extracted) = Fitting
         /\ SubSeq(job.found, 1, Fitting) \in Seq(Entry)
         /\ \A i \in 1 .. Fitting :
              /\ Extracted[i].path = job.found[i].path
              /\ \/ Extracted[i].text = TextOf(job.found[i].path)
                 \/ \E j \in DOMAIN job.reused : Extracted[i] = job.reused[j]
         /\ \E mode \in Modes :
              job' = [step |-> "manifest", chunks |-> Extracted,
                      stored |-> SubSeq(job.found, 1, Fitting),
                      dead |-> job.dead, mode |-> mode]
<1> USE DEF TypeInv
<1>1. job \in Scanned /\ job # Absent
  BY StepsApart DEF Extract, Running
<1>2. job.found \in Seq(Entry) /\ Len(job.found) \in Nat
  BY <1>1 DEF Scanned
<1>3. Fitting \in Nat /\ Fitting <= Len(job.found)
  BY <1>2, IndexAssumption DEF Fitting
<1>4. ASSUME NEW i \in 1 .. Fitting
      PROVE  /\ Extracted[i] \in Chunk
             /\ Extracted[i].path = job.found[i].path
             /\ \/ Extracted[i].text = TextOf(job.found[i].path)
                \/ \E j \in DOMAIN job.reused : Extracted[i] = job.reused[j]
  <2>1. i \in DOMAIN job.found
    BY <1>2, <1>3
  <2>2. job.found[i].path \in Command
    <3>1. job.found[i] \in Entry
      BY <1>2, <2>1
    <3> QED BY <3>1 DEF Entry
  <2>3. CASE job.found[i].path \in ToExtract
    <3>1. Extracted[i] = [path |-> job.found[i].path, text |-> TextOf(job.found[i].path)]
      BY <2>3 DEF Extracted
    <3>2. TextOf(job.found[i].path) \in Text
      BY <2>2, TextTypes DEF Places
    <3> QED BY <3>1, <3>2, <2>2 DEF Chunk
  <2>4. CASE job.found[i].path \notin ToExtract
    <3>1. job.found[i].path \in PathsOf(job.reused)
      BY <2>1, <2>4 DEF ToExtract, PathsOf
    <3>2. Extracted[i] = ReusedOf(job.found[i].path)
      BY <2>4 DEF Extracted
    <3> QED BY <3>1, <3>2, <1>1, ReusedOfType
  <2> QED BY <2>3, <2>4
<1>5. Extracted \in Seq(Chunk) /\ Len(Extracted) = Fitting
  <2>1. Extracted \in [1 .. Fitting -> Chunk]
    BY <1>4 DEF Extracted
  <2> QED BY <2>1, <1>3
<1>6. SubSeq(job.found, 1, Fitting) \in Seq(Entry)
  BY <1>2, <1>3, CutType
<1>7. PICK outcome \in EmbedOutcomes :
        job' = [step |-> "manifest", chunks |-> Extracted,
                stored |-> SubSeq(job.found, 1, Fitting),
                dead |-> job.dead, mode |-> EmbeddingMode(Extracted, outcome)]
  BY DEF Extract, Extracted, Fitting
<1>8. EmbeddingMode(Extracted, outcome) \in Modes
  BY EmbeddingModeType
<1> QED BY <1>1, <1>3, <1>4, <1>5, <1>6, <1>7, <1>8

LEMMA ExtractTypes ==
  ASSUME TypeInv, Extract
  PROVE  TypeInv'
<1> USE DEF TypeInv
<1>1. job' \in Writing /\ job'.step = "manifest"
  <2>1. PICK mode \in Modes :
          job' = [step |-> "manifest", chunks |-> Extracted,
                  stored |-> SubSeq(job.found, 1, Fitting),
                  dead |-> job.dead, mode |-> mode]
    BY ExtractIs
  <2>2. Extracted \in Seq(Chunk) /\ SubSeq(job.found, 1, Fitting) \in Seq(Entry)
    BY ExtractIs
  <2>3. job.dead \in SUBSET (Command \cup {Absent})
    BY ExtractIs DEF Scanned
  <2> QED BY <2>1, <2>2, <2>3 DEF Writing
<1>2. Stores'
  BY EmptyTypes DEF Extract, Stores
<1>3. Places' /\ Booting'
  BY DEF Extract, Places, Booting, worldVars, bootVars
<1>4. Running'
  BY <1>1, AbsentAssumption DEF Extract, Running
<1>5. Flags'
  BY DEF Extract, Flags, historyVars
<1>6. Turns'
  <2>1. writer' = writer /\ queue' = queue /\ boot' = boot
    BY DEF Extract, bootVars
  <2>2. job # Absent /\ job.step = "extract"
    BY DEF Extract
  <2> QED BY <2>1, <2>2, <1>1 DEF Turns
<1> QED BY <1>2, <1>3, <1>4, <1>5, <1>6

LEMMA CollectTypes ==
  ASSUME TypeInv, Collect
  PROVE  /\ TypeInv'
         /\ writer = "compact" /\ job'.step = "manifest"
         /\ job'.chunks = runtime.chunks /\ job'.stored = runtime.binaries
         /\ job'.dead = {}
<1> USE DEF TypeInv
<1>1. PICK outcome \in EmbedOutcomes :
        job' = [step |-> "manifest", chunks |-> runtime.chunks,
                stored |-> runtime.binaries, dead |-> {},
                mode |-> EmbeddingMode(runtime.chunks, outcome)]
  BY DEF Collect
<1>2. runtime.chunks \in Seq(Chunk) /\ runtime.binaries \in Seq(Entry)
  BY DEF Stores, Memory
<1>3. job' \in Writing /\ job'.step = "manifest"
  BY <1>1, <1>2, EmbeddingModeType DEF Writing
<1>4. Places' /\ Stores' /\ Booting'
  BY DEF Collect, Places, Stores, Booting, worldVars, bootVars
<1>5. Running'
  BY <1>3, AbsentAssumption DEF Collect, Running
<1>6. Flags'
  BY DEF Collect, Flags, historyVars
<1>7. writer = "compact" /\ writer' = writer /\ queue' = queue /\ boot' = boot
  BY DEF Collect, Turns, bootVars
<1>8. Turns'
  BY <1>3, <1>7 DEF Turns
<1> QED BY <1>1, <1>3, <1>4, <1>5, <1>6, <1>7, <1>8

Steps == {"manifest", "paths", "entries", "docs", "rows", "lexical", "vectors",
          "publish"}

\* What a write step leaves alone, whichever it is.
LEMMA WriteLayoutIs ==
  ASSUME TypeInv, WriteLayout
  PROVE  /\ job \in Writing /\ job # Absent
         /\ job.step # "publish"
         /\ \E next \in Steps : job' = [job EXCEPT !.step = next]
         /\ torn' = (torn \/ Early)
         /\ UNCHANGED <<worldVars, runtime, model, bootVars, writer, queue, busy,
                        dirty, crashes, requests, unseen, renamed, pruned,
                        reordered>>
<1>1. PICK step \in Steps \ {"publish"}, next \in Steps :
        \E file, content : WriteFile(step, next, file, content)
  BY DEF WriteLayout, WriteManifest, WritePaths, WriteEntries, WriteDocs, WriteRows,
         WriteLexical, WriteVectors, Steps
<1>2. job # Absent /\ job.step = step /\ job' = [job EXCEPT !.step = next]
  BY <1>1 DEF WriteFile
<1>3. job \in Writing
  BY <1>1, <1>2, StepsApart DEF TypeInv, Running, Steps
<1> QED BY <1>1, <1>2, <1>3 DEF WriteFile

\* The content of each file, as the run that is writing has it.
PathsFile == [i \in DOMAIN job.stored |-> job.stored[i].path]
EntriesFile == [i \in DOMAIN job.stored |-> job.stored[i].sig]
VectorsFile == IF Embedded
               THEN [i \in DOMAIN job.chunks |->
                       [text |-> job.chunks[i].text, model |-> model]]
               ELSE Absent

LEMMA ContentTypes ==
  ASSUME job \in Writing, model \in Models
  PROVE  /\ PathsFile \in Seq(Command)
         /\ EntriesFile \in Seq(Text)
         /\ Texts(job.chunks) \in Seq(Text)
         /\ VectorsFile \in Seq(Vector) \cup {Absent}
         /\ [mode |-> job.mode, model |-> model] \in Manifest
<1>1. job.stored \in Seq(Entry) /\ job.chunks \in Seq(Chunk) /\ job.mode \in Modes
  BY DEF Writing
<1>2. DOMAIN job.stored = 1 .. Len(job.stored) /\ Len(job.stored) \in Nat
  BY <1>1
<1>3. DOMAIN job.chunks = 1 .. Len(job.chunks) /\ Len(job.chunks) \in Nat
  BY <1>1
<1>4. ASSUME NEW i \in DOMAIN job.stored
      PROVE  job.stored[i].path \in Command /\ job.stored[i].sig \in Text
  <2>1. job.stored[i] \in Entry
    BY <1>1
  <2> QED BY <2>1 DEF Entry
<1>5. PathsFile \in Seq(Command)
  <2>1. PathsFile \in [1 .. Len(job.stored) -> Command]
    BY <1>2, <1>4 DEF PathsFile
  <2> QED BY <2>1, <1>2
<1>6. EntriesFile \in Seq(Text)
  <2>1. EntriesFile \in [1 .. Len(job.stored) -> Text]
    BY <1>2, <1>4 DEF EntriesFile
  <2> QED BY <2>1, <1>2
<1>7. VectorsFile \in Seq(Vector) \cup {Absent}
  <2> DEFINE rows == [i \in DOMAIN job.chunks |->
                        [text |-> job.chunks[i].text, model |-> model]]
  <2>1. ASSUME NEW i \in DOMAIN job.chunks
        PROVE  [text |-> job.chunks[i].text, model |-> model] \in Vector
    <3>1. job.chunks[i] \in Chunk
      BY <1>1
    <3>2. job.chunks[i].text \in Text
      BY <3>1 DEF Chunk
    <3> QED BY <3>2 DEF Vector
  <2>2. rows \in [1 .. Len(job.chunks) -> Vector]
    BY <2>1, <1>3
  <2>3. VectorsFile \in {rows, Absent}
    BY DEF VectorsFile
  <2> HIDE DEF rows
  <2> QED BY <2>2, <2>3, <1>3
<1>8. [mode |-> job.mode, model |-> model] \in Manifest
  BY <1>1 DEF Manifest
<1>9. Texts(job.chunks) \in Seq(Text)
  BY <1>1, TextsType
<1> QED BY <1>5, <1>6, <1>7, <1>8, <1>9

LEMMA WriteLayoutTypes ==
  ASSUME TypeInv, WriteLayout
  PROVE  TypeInv'
<1> USE DEF TypeInv
<1>1. /\ job \in Writing /\ job # Absent
      /\ torn' = (torn \/ Early)
      /\ UNCHANGED <<worldVars, runtime, model, bootVars, writer, queue, busy,
                     dirty, crashes, requests, unseen, renamed, pruned, reordered>>
  BY WriteLayoutIs
<1>2. PICK next \in Steps : job' = [job EXCEPT !.step = next]
  BY WriteLayoutIs
<1>3. job' \in Writing /\ job'.step = next
  BY <1>1, <1>2 DEF Writing, Steps
<1>4. disk' \in Files
  <2>1. disk \in Files /\ model \in Models
    BY DEF Stores
  <2>2. CASE WriteManifest
    BY <1>1, <2>1, <2>2, ContentTypes DEF WriteManifest, WriteFile, Files
  <2>3. CASE WritePaths
    BY <1>1, <2>1, <2>3, ContentTypes DEF WritePaths, WriteFile, Files, PathsFile
  <2>4. CASE WriteEntries
    BY <1>1, <2>1, <2>4, ContentTypes DEF WriteEntries, WriteFile, Files, EntriesFile
  <2>5. CASE WriteDocs
    BY <1>1, <2>1, <2>5, ContentTypes DEF WriteDocs, WriteFile, Files
  <2>6. CASE WriteRows
    BY <1>1, <2>1, <2>6, RowsAre DEF WriteRows, WriteFile, Files
  <2>7. CASE WriteLexical
    BY <1>1, <2>1, <2>7, ContentTypes DEF WriteLexical, WriteFile, Files
  <2>8. CASE WriteVectors
    BY <1>1, <2>1, <2>8, ContentTypes DEF WriteVectors, WriteFile, Files, VectorsFile
  <2> QED BY <2>2, <2>3, <2>4, <2>5, <2>6, <2>7, <2>8 DEF WriteLayout
<1>5. Places' /\ Stores' /\ Booting'
  BY <1>1, <1>4 DEF Places, Stores, Booting, worldVars, bootVars
<1>6. Running'
  BY <1>1, <1>3, AbsentAssumption DEF Running
<1>7. Flags'
  <2>1. torn' \in BOOLEAN
    BY <1>1 DEF Flags, Early
  <2> QED BY <1>1, <2>1 DEF Flags
<1>8. Turns'
  <2>1. writer' = writer /\ queue' = queue /\ boot' = boot
    BY <1>1 DEF bootVars
  <2>2. job'.step \notin {"scan", "collect", "extract"} /\ job.step # "scan"
    BY <1>1, <1>3 DEF Steps, Writing
  <2> QED BY <1>1, <2>1, <2>2 DEF Turns
<1> QED BY <1>5, <1>6, <1>7, <1>8

LEMMA PublishTypes ==
  ASSUME TypeInv, Publish
  PROVE  /\ TypeInv' /\ job \in Writing /\ job # Absent
         /\ runtime'.chunks = job.chunks /\ runtime'.binaries = job.stored
<1> USE DEF TypeInv
<1>1. job \in Writing /\ job # Absent
  BY StepsApart DEF Publish, Running
<1>2. job.chunks \in Seq(Chunk) /\ job.stored \in Seq(Entry)
  BY <1>1 DEF Writing
<1>3. /\ runtime' \in Memory
      /\ runtime'.chunks = job.chunks /\ runtime'.binaries = job.stored
  BY <1>2, RetrieverType DEF Publish, Stores
<1>4. Places' /\ Stores'
  BY <1>3 DEF Publish, Places, Stores, worldVars
<1>5. Booting' /\ Running' /\ Turns'
  BY <1>1, FinishTypes DEF Publish
<1>6. Flags'
  <2>1. /\ busy' \in BOOLEAN /\ torn' \in BOOLEAN /\ renamed' \in BOOLEAN
        /\ pruned' \in SUBSET Virtual /\ reordered' \in BOOLEAN
    BY DEF Publish, Flags, Early
  <2>2. dirty' = dirty /\ unseen' = unseen /\ crashes' = crashes /\ requests' = requests
    BY DEF Publish
  <2> QED BY <2>1, <2>2 DEF Flags
<1> QED BY <1>1, <1>3, <1>4, <1>5, <1>6

LEMMA NextTypes == TypeInv /\ [Next]_vars => TypeInv'
<1>1. TypeInv /\ Next => TypeInv'
  BY WorldTypes, BootLoadTypes, BootPublishTypes, QueueTypes, BackgroundTypes,
     AcquireTypes, CrashTypes, ScanTypes, UnchangedTypes, ExtractTypes, CollectTypes,
     WriteLayoutTypes, PublishTypes
  DEF Next, Boot, Client, Run
<1>2. TypeInv /\ UNCHANGED vars => TypeInv'
  BY DEF vars, TypeInv, Places, Stores, Booting, Running, Flags, Turns, worldVars,
         bootVars, lockVars, historyVars
<1> QED BY <1>1, <1>2

\* Every variable keeps to its type, the write lock is held exactly while a run
\* is under way, and the bootstrap holds what it has read exactly until it ends,
\* for any number of commands, versions, crashes and requests, early ones too.
THEOREM IndexTypes == Spec => []TypeOK
<1>1. TypeInv => TypeOK
  BY TypeParts DEF TypeInv
<1> QED BY <1>1, InitTypes, NextTypes, PTL DEF Spec
-----------------------------------------------------------------------------
(* Entries and chunks that fit together *)

\* The signature of a command whose versions are ver.
SigIn(ver, p) == [path |-> p, version |-> IF p \in Path THEN ver[p] ELSE 1]
Past(ver, text) == text.version <= SigIn(ver, text.path).version

\* What entries and chunks say is of versions that there have been, and a
\* command that is still as its entry says has the text of its chunk.
Clean(here, ver, entries, chunks) ==
  /\ \A e \in DOMAIN entries :
       /\ entries[e].path \in Command
       /\ entries[e].sig \in Text
       /\ entries[e].sig.path = entries[e].path
       /\ Past(ver, entries[e].sig)
  /\ \A i \in DOMAIN chunks :
       /\ chunks[i].path \in Command
       /\ chunks[i].text \in Text
       /\ chunks[i].text.path = chunks[i].path
       /\ Past(ver, chunks[i].text)
  /\ \A e \in DOMAIN entries, i \in DOMAIN chunks :
       /\ entries[e].path = chunks[i].path
       /\ entries[e].path \in here \cup Virtual
       /\ entries[e].sig = SigIn(ver, entries[e].path)
       => chunks[i].text = SigIn(ver, entries[e].path)

\* The commands move on: a version never goes back, and a command that comes
\* back comes back as another version.
MovesOn(here, ver, here2, ver2) ==
  /\ ver \in [Path -> Nat] /\ ver2 \in [Path -> Nat]
  /\ \A p \in Path : ver[p] <= ver2[p]
  /\ \A p \in Path : p \in here2 /\ p \notin here => ver[p] < ver2[p]

LEMMA CleanMovesOn ==
  ASSUME NEW here, NEW ver, NEW here2, NEW ver2, MovesOn(here, ver, here2, ver2),
         NEW entries, NEW chunks, Clean(here, ver, entries, chunks)
  PROVE  Clean(here2, ver2, entries, chunks)
<1>1. ASSUME NEW text \in Text, Past(ver, text)
      PROVE  Past(ver2, text)
  <2>1. text.version \in Nat
    BY DEF Text
  <2>2. CASE text.path \in Path
    BY <1>1, <2>1, <2>2 DEF Past, SigIn, MovesOn
  <2>3. CASE text.path \notin Path
    BY <1>1, <2>3 DEF Past, SigIn
  <2> QED BY <2>2, <2>3
<1>2. ASSUME NEW e \in DOMAIN entries, NEW i \in DOMAIN chunks,
             entries[e].path = chunks[i].path,
             entries[e].path \in here2 \cup Virtual,
             entries[e].sig = SigIn(ver2, entries[e].path)
      PROVE  chunks[i].text = SigIn(ver2, entries[e].path)
  <2> DEFINE p == entries[e].path
  <2>1. /\ p \in Command /\ entries[e].sig \in Text
        /\ entries[e].sig.path = p /\ Past(ver, entries[e].sig)
    BY DEF Clean
  <2>2. SigIn(ver2, p) = SigIn(ver, p) /\ p \in here \cup Virtual
    <3>1. CASE p \in Path
      <4>1. entries[e].sig.version = ver2[p]
        BY <1>2, <3>1 DEF SigIn
      <4>2. entries[e].sig.version <= ver[p]
        BY <2>1, <3>1 DEF Past, SigIn
      <4>3. ver[p] \in Nat /\ ver2[p] \in Nat /\ ver[p] <= ver2[p]
        BY <3>1 DEF MovesOn
      <4>4. ver[p] = ver2[p]
        BY <4>1, <4>2, <4>3
      <4>5. p \in here2
        BY <1>2, <3>1, IndexAssumption
      <4>6. p \in here
        BY <3>1, <4>3, <4>4, <4>5 DEF MovesOn
      <4> QED BY <4>4, <4>6 DEF SigIn
    <3>2. CASE p \notin Path
      BY <2>1, <3>2 DEF SigIn, Command
    <3> QED BY <3>1, <3>2
  <2>3. entries[e].sig = SigIn(ver, p)
    BY <1>2, <2>2
  <2>4. chunks[i].text = SigIn(ver, p)
    BY <1>2, <2>2, <2>3 DEF Clean
  <2> QED BY <2>2, <2>4
<1>3. ASSUME NEW e \in DOMAIN entries
      PROVE  /\ entries[e].path \in Command /\ entries[e].sig \in Text
             /\ entries[e].sig.path = entries[e].path
             /\ Past(ver2, entries[e].sig)
  BY <1>1 DEF Clean
<1>4. ASSUME NEW i \in DOMAIN chunks
      PROVE  /\ chunks[i].path \in Command /\ chunks[i].text \in Text
             /\ chunks[i].text.path = chunks[i].path
             /\ Past(ver2, chunks[i].text)
  BY <1>1 DEF Clean
<1> QED BY <1>2, <1>3, <1>4 DEF Clean

LEMMA WorldMovesOn ==
  ASSUME Places, World
  PROVE  MovesOn(present, version, present', version')
<1>1. PICK p \in Changing : Install(p) \/ Uninstall(p)
  BY DEF World
<1>2. p \in Path /\ MaxVersion \in Nat
  BY IndexAssumption
<1>3. version \in [Path -> Nat] /\ \A q \in Path : version[q] \in Nat
  BY <1>2 DEF Places
<1>4. CASE Install(p)
  <2>1. version' = [version EXCEPT ![p] = @ + 1] /\ present' = present \cup {p}
    BY <1>4 DEF Install
  <2> QED BY <2>1, <1>2, <1>3 DEF MovesOn
<1>5. CASE Uninstall(p)
  <2>1. version' = version /\ present' = present \ {p}
    BY <1>5 DEF Uninstall
  <2> QED BY <2>1, <1>3 DEF MovesOn
<1> QED BY <1>1, <1>4, <1>5

\* A selection of entries and chunks fits together as the whole does.
LEMMA CleanPart ==
  ASSUME NEW here, NEW ver, NEW entries, NEW chunks, Clean(here, ver, entries, chunks),
         NEW es, \A i \in DOMAIN es : \E j \in DOMAIN entries : es[i] = entries[j],
         NEW cs, \A i \in DOMAIN cs : \E j \in DOMAIN chunks : cs[i] = chunks[j]
  PROVE  Clean(here, ver, es, cs)
<1>1. ASSUME NEW e \in DOMAIN es
      PROVE  /\ es[e].path \in Command /\ es[e].sig \in Text
             /\ es[e].sig.path = es[e].path /\ Past(ver, es[e].sig)
  BY DEF Clean
<1>2. ASSUME NEW i \in DOMAIN cs
      PROVE  /\ cs[i].path \in Command /\ cs[i].text \in Text
             /\ cs[i].text.path = cs[i].path /\ Past(ver, cs[i].text)
  BY DEF Clean
<1>3. ASSUME NEW e \in DOMAIN es, NEW i \in DOMAIN cs,
             es[e].path = cs[i].path, es[e].path \in here \cup Virtual,
             es[e].sig = SigIn(ver, es[e].path)
      PROVE  cs[i].text = SigIn(ver, es[e].path)
  <2>1. PICK j \in DOMAIN entries : es[e] = entries[j]
    OBVIOUS
  <2>2. PICK k \in DOMAIN chunks : cs[i] = chunks[k]
    OBVIOUS
  <2> QED BY <1>3, <2>1, <2>2 DEF Clean
<1> QED BY <1>1, <1>2, <1>3 DEF Clean

LEMMA CleanNothing ==
  ASSUME NEW here, NEW ver
  PROVE  Clean(here, ver, <<>>, <<>>)
BY DEF Clean

LEMMA SigOfIs ==
  /\ \A p : SigOf(p) = SigIn(version, p)
  /\ Places => \A p \in Command : Past(version, SigOf(p)) /\ Past(version, TextOf(p))
<1>1. \A p : SigOf(p) = SigIn(version, p)
  BY DEF SigOf, SigIn
<1>2. ASSUME Places, NEW p \in Command
      PROVE  Past(version, SigOf(p)) /\ Past(version, TextOf(p))
  <2>1. MaxVersion \in Nat /\ (p \in Path => version[p] \in Nat)
    BY <1>2, IndexAssumption DEF Places
  <2> QED BY <2>1 DEF Past, SigOf, SigIn, TextOf, Stub
<1> QED BY <1>1, <1>2

-----------------------------------------------------------------------------
(* What was written is what is read *)

Underway == job # Absent /\ job.step \in Steps \ {"manifest"}
Rewriting == job # Absent /\ job.step \in Steps \ {"manifest", "paths"}

RowsFile == Rows
DocsFile == Texts(job.chunks)

\* A file that the run has written holds what the run wrote, unless a full
\* reindex has emptied the directory since.
Written ==
  job # Absent =>
    /\ job.step \in Steps \ {"manifest", "paths"} =>
         disk.paths \in {Absent, PathsFile}
    /\ job.step \in Steps \ {"manifest", "paths", "entries"} =>
         disk.entries \in {Absent, EntriesFile}
    /\ job.step \in Steps \ {"manifest", "paths", "entries", "docs"} =>
         disk.docs \in {Absent, DocsFile}
    /\ job.step \in {"lexical", "vectors", "publish"} =>
         disk.rows \in {Absent, RowsFile}
    /\ job.step \in {"vectors", "publish"} =>
         disk.lexical \in {Absent, DocsFile}
    /\ job.step = "publish" =>
         disk.vectors \in {Absent, VectorsFile}

LEMMA EntriesBack ==
  ASSUME TypeInv, Written, job # Absent, job.step = "publish",
         disk.paths # Absent, disk.entries # Absent
  PROVE  LoadEntries = job.stored
<1>1. job \in Writing
  BY StepsApart DEF TypeInv, Running
<1>2. job.stored \in Seq(Entry)
  BY <1>1 DEF Writing
<1>3. disk.paths = PathsFile /\ disk.entries = EntriesFile
  BY DEF Written, Steps
<1>4. LoadEntries = [i \in DOMAIN disk.entries |->
        [path |-> IF i \in DOMAIN disk.paths THEN disk.paths[i] ELSE Absent,
         sig |-> disk.entries[i]]]
  BY DEF LoadEntries
<1>5. DOMAIN disk.entries = DOMAIN job.stored /\ DOMAIN disk.paths = DOMAIN job.stored
  BY <1>3 DEF PathsFile, EntriesFile
<1>6. ASSUME NEW i \in DOMAIN job.stored
      PROVE  LoadEntries[i] = job.stored[i]
  <2>1. LoadEntries[i] = [path |-> job.stored[i].path, sig |-> job.stored[i].sig]
    BY <1>3, <1>4, <1>5 DEF PathsFile, EntriesFile
  <2>2. job.stored[i] \in Entry
    BY <1>2
  <2> QED BY <2>1, <2>2 DEF Entry
<1>7. LoadEntries \in Seq(Read)
  BY LoadEntriesType DEF TypeInv, Stores
<1>8. DOMAIN LoadEntries = DOMAIN job.stored
  BY <1>4, <1>5
<1> QED BY <1>2, <1>6, <1>7, <1>8

\* The tombstones are passed over.
LEMMA RowsBack ==
  ASSUME TypeInv, Written, job # Absent, job.step = "publish"
  PROVE  LiveRows = IF disk.rows = Absent THEN <<>> ELSE LiveOnes
<1>1. job \in Writing
  BY StepsApart DEF TypeInv, Running
<1>2. CASE disk.rows = Absent
  BY <1>2 DEF LiveRows
<1>3. CASE disk.rows # Absent
  <2> DEFINE I == {i \in DOMAIN Rows : ~Rows[i].dead}
             b == SetToSeq(DeadOnes)
  <2>1. /\ Rows = LiveOnes \o b /\ LiveOnes \in Seq(Row) /\ b \in Seq(Row)
        /\ b \in Seq(DeadOnes)
    BY <1>1, RowsAre
  <2>2. LiveRows = At(Rows, I)
    BY <1>3 DEF LiveRows, RowsFile, Written
  <2> HIDE DEF b
  <2>3. ASSUME NEW i \in DOMAIN (LiveOnes \o b)
        PROVE  i \in I <=> i <= Len(LiveOnes)
    <3>1. CASE i <= Len(LiveOnes)
      <4>1. i \in DOMAIN LiveOnes /\ Rows[i] = LiveOnes[i]
        BY <2>1, <3>1
      <4>2. LiveOnes[i].dead = FALSE
        BY <4>1 DEF LiveOnes
      <4> QED BY <2>1, <3>1, <4>1, <4>2
    <3>2. CASE ~ (i <= Len(LiveOnes))
      <4>1. i - Len(LiveOnes) \in 1 .. Len(b) /\ Rows[i] = b[i - Len(LiveOnes)]
        BY <2>1, <3>2
      <4>2. Rows[i] \in DeadOnes
        BY <2>1, <4>1
      <4>3. Rows[i].dead = TRUE
        BY <4>2 DEF DeadOnes
      <4> QED BY <3>2, <4>3
    <3> QED BY <3>1, <3>2
  <2> HIDE DEF I
  <2>4. At(LiveOnes \o b, I) = LiveOnes
    BY <2>1, <2>3, AtPrefix
  <2> QED BY <1>3, <2>1, <2>2, <2>4
<1> QED BY <1>2, <1>3

LEMMA ReadBack ==
  ASSUME TypeInv, Written, job # Absent, job.step = "publish"
  PROVE  LoadEntries \in {<<>>, job.stored} /\ LoadChunks \in {<<>>, job.chunks}
<1>1. job \in Writing
  BY StepsApart DEF TypeInv, Running
<1>2. job.stored \in Seq(Entry) /\ job.chunks \in Seq(Chunk)
  BY <1>1 DEF Writing
<1>3. disk.docs \in {Absent, DocsFile}
  BY DEF Written, Steps
<1>4. LoadEntries \in {<<>>, job.stored}
  BY EntriesBack DEF LoadEntries
<1>5. ASSUME LoadChunks # <<>>
      PROVE  LoadChunks = job.chunks
  <2>1. /\ disk.docs # Absent
        /\ \A i \in DOMAIN LiveRows : LiveRows[i].entry \in DOMAIN LoadEntries
        /\ LoadChunks = [i \in DOMAIN LiveRows |->
             [path |-> LoadEntries[LiveRows[i].entry].path,
              text |-> IF i \in DOMAIN disk.docs
                       THEN disk.docs[i]
                       ELSE [path |-> Absent, version |-> Stub]]]
    BY <1>5 DEF LoadChunks
  <2>2. LiveRows # <<>>
    <3> SUFFICES ASSUME LiveRows = <<>> PROVE FALSE
      OBVIOUS
    <3>1. DOMAIN LoadChunks = {}
      BY <2>1
    <3>2. LoadChunks \in Seq(ReadChunk)
      BY LoadChunksType DEF TypeInv, Stores
    <3> QED BY <3>1, <3>2, <1>5
  <2>3. LiveRows = LiveOnes /\ disk.docs = DocsFile
    BY <1>3, <2>1, <2>2, RowsBack
  <2>4. LiveOnes \in Seq(Row) /\ DOMAIN LiveOnes = DOMAIN job.chunks
    BY <1>1, RowsAre DEF LiveOnes
  <2>5. LoadEntries = job.stored
    <3>1. \E i : i \in DOMAIN LiveRows
      <4>1. LiveRows \in Seq(Row)
        BY <2>3, <2>4
      <4>2. 1 \in DOMAIN LiveRows
        BY <2>2, <4>1
      <4> QED BY <4>2
    <3>2. LoadEntries # <<>>
      BY <2>1, <3>1
    <3> QED BY <1>4, <3>2
  <2>6. ASSUME NEW i \in DOMAIN job.chunks
        PROVE  LoadChunks[i] = job.chunks[i]
    <3> DEFINE p == job.chunks[i].path
    <3>1. LiveRows[i].entry = EntryOf(p)
      BY <2>3, <2>4 DEF LiveOnes
    <3>2. EntryOf(p) \in DOMAIN job.stored
      BY <2>1, <2>3, <2>4, <2>5, <3>1
    <3>3. LoadEntries[EntryOf(p)].path = p
      BY <1>1, <2>5, <3>2, EntryOfType
    <3>4. i \in DOMAIN disk.docs /\ disk.docs[i] = job.chunks[i].text
      BY <2>3 DEF DocsFile, Texts
    <3>5. LoadChunks[i] = [path |-> p, text |-> job.chunks[i].text]
      BY <2>1, <2>3, <2>4, <3>1, <3>3, <3>4
    <3>6. job.chunks[i] \in Chunk
      BY <1>2
    <3> QED BY <3>5, <3>6 DEF Chunk
  <2>7. LoadChunks \in Seq(ReadChunk) /\ DOMAIN LoadChunks = DOMAIN job.chunks
    <3>1. LoadChunks \in Seq(ReadChunk)
      BY LoadChunksType DEF TypeInv, Stores
    <3> QED BY <3>1, <2>1, <2>3, <2>4
  <2> QED BY <1>2, <2>6, <2>7
<1> QED BY <1>4, <1>5

\* Nothing but the files on disk decides what is read, and nothing but the run
\* what it writes.
LEMMA SameReading ==
  ASSUME disk'.paths = disk.paths, disk'.entries = disk.entries,
         disk'.docs = disk.docs, disk'.rows = disk.rows
  PROVE  LoadEntries' = LoadEntries /\ LoadChunks' = LoadChunks
<1>1. LoadEntries' = LoadEntries
  BY DEF LoadEntries
<1>2. LiveRows' = LiveRows
  BY DEF LiveRows
<1> QED BY <1>1, <1>2 DEF LoadChunks

LEMMA SameWriting ==
  ASSUME job'.stored = job.stored, job'.chunks = job.chunks, job'.dead = job.dead,
         job'.mode = job.mode, model' = model
  PROVE  /\ PathsFile' = PathsFile /\ EntriesFile' = EntriesFile
         /\ DocsFile' = DocsFile /\ RowsFile' = RowsFile
         /\ VectorsFile' = VectorsFile
<1>1. PathsFile' = PathsFile /\ EntriesFile' = EntriesFile
  BY DEF PathsFile, EntriesFile
<1>2. DocsFile' = DocsFile
  BY DEF DocsFile, Texts
<1>3. VectorsFile' = VectorsFile
  BY DEF VectorsFile, Embedded
<1>4. RowsFile' = RowsFile
  BY DEF RowsFile, Rows, EntryOf, PathsOf
<1> QED BY <1>1, <1>2, <1>3, <1>4
-----------------------------------------------------------------------------
(* What the files, the memory and the runs hold fits together *)

Firm == ~torn \/ Full

DiskClean ==
  ~torn /\ ~Rewriting => Clean(present, version, LoadEntries, LoadChunks)
MemoryClean ==
  ~torn => Clean(present, version, runtime.binaries, runtime.chunks)
LoadedClean ==
  ~torn /\ boot = "publish" =>
    Clean(present, version, loaded.entries, loaded.chunks)
ScanClean ==
  Firm /\ job # Absent /\ job.step = "extract" =>
    Clean(present, version, job.found, job.reused)
JobClean ==
  Firm /\ job # Absent /\ job.step \in Steps =>
    Clean(present, version, job.stored, job.chunks)

\* Before the bootstrap has published there is no watcher, and a run may look
\* at the files but writes none without overtaking the bootstrap.
Before ==
  Early => /\ ~dirty
           /\ "watch" \notin queue \cup {writer}
           /\ Underway => torn

AllClean == DiskClean /\ MemoryClean /\ LoadedClean /\ ScanClean /\ JobClean
SoundInv == TypeInv /\ Before /\ Written /\ AllClean

LEMMA InitSound == Init => SoundInv
<1> SUFFICES ASSUME Init PROVE SoundInv
  OBVIOUS
<1>1. TypeInv
  BY InitTypes
<1>2. LoadEntries = <<>> /\ LoadChunks = <<>>
  BY DEF Init, EmptyDisk, LoadEntries, LoadChunks
<1>3. AllClean
  BY <1>2, CleanNothing
  DEF Init, AllClean, DiskClean, MemoryClean, LoadedClean, ScanClean, JobClean,
      EmptyRuntime
<1>4. Before /\ Written
  BY DEF Init, Before, Underway, Written, Nobody
<1> QED BY <1>1, <1>3, <1>4 DEF SoundInv

LEMMA WorldSound ==
  ASSUME SoundInv, World
  PROVE  SoundInv'
<1> USE DEF SoundInv
<1>1. TypeInv'
  BY WorldTypes
<1>2. /\ UNCHANGED <<disk, runtime, model, boot, loaded, writer, job, queue, torn>>
      /\ dirty' = (dirty \/ boot = "done")
  BY DEF World, Install, Uninstall, MayChange, bootVars, lockVars
<1>3. MovesOn(present, version, present', version')
  BY WorldMovesOn DEF TypeInv
<1>4. LoadEntries' = LoadEntries /\ LoadChunks' = LoadChunks
  BY <1>2, SameReading
<1>5. Full' = Full /\ Rewriting' = Rewriting /\ Firm' = Firm
  BY <1>2 DEF Full, Rewriting, Firm
<1>6. DiskClean'
  BY <1>2, <1>3, <1>4, <1>5, CleanMovesOn DEF AllClean, DiskClean
<1>7. MemoryClean' /\ LoadedClean'
  BY <1>2, <1>3, CleanMovesOn DEF AllClean, MemoryClean, LoadedClean
<1>8. ScanClean' /\ JobClean'
  BY <1>2, <1>3, <1>5, CleanMovesOn DEF AllClean, ScanClean, JobClean
<1>9. Before'
  BY <1>2 DEF Before, Early, Underway
<1>10. Written'
  <2>1. /\ PathsFile' = PathsFile /\ EntriesFile' = EntriesFile
        /\ DocsFile' = DocsFile /\ RowsFile' = RowsFile
        /\ VectorsFile' = VectorsFile
    BY <1>2, SameWriting
  <2> QED BY <1>2, <2>1 DEF Written
<1> QED BY <1>1, <1>6, <1>7, <1>8, <1>9, <1>10 DEF AllClean

\* A step that only puts a run in the queue.
LEMMA QueueSound ==
  ASSUME SoundInv,
         WatchChange \/ RequestDelta \/ RequestCompact
  PROVE  SoundInv'
<1> USE DEF SoundInv
<1>1. TypeInv'
  BY QueueTypes
<1>2. /\ UNCHANGED <<present, version, disk, runtime, model, boot, loaded, writer,
                     job, torn>>
      /\ dirty' => dirty
      /\ queue' \subseteq queue \cup {"watch", "delta", "compact"}
      /\ "watch" \in queue' => "watch" \in queue \/ dirty
  BY DEF WatchChange, RequestDelta, RequestCompact, Queue, worldVars,
         bootVars, historyVars
<1>4. LoadEntries' = LoadEntries /\ LoadChunks' = LoadChunks
  BY <1>2, SameReading
<1>5. Full' = Full /\ Rewriting' = Rewriting /\ Firm' = Firm
  BY <1>2 DEF Full, Rewriting, Firm
<1>6. AllClean'
  BY <1>2, <1>4, <1>5
  DEF AllClean, DiskClean, MemoryClean, LoadedClean, ScanClean, JobClean
<1>7. Before'
  BY <1>2 DEF Before, Early, Underway
<1>8. Written'
  <2>1. /\ PathsFile' = PathsFile /\ EntriesFile' = EntriesFile
        /\ DocsFile' = DocsFile /\ RowsFile' = RowsFile
        /\ VectorsFile' = VectorsFile
    BY <1>2, SameWriting
  <2> QED BY <1>2, <2>1 DEF Written
<1> QED BY <1>1, <1>6, <1>7, <1>8

LEMMA EmptyReading ==
  ASSUME disk' = EmptyDisk
  PROVE  LoadEntries' = <<>> /\ LoadChunks' = <<>>
BY DEF LoadEntries, LoadChunks, EmptyDisk

LEMMA RequestFullSound ==
  ASSUME SoundInv, RequestFull
  PROVE  SoundInv'
<1> USE DEF SoundInv
<1>1. TypeInv'
  BY QueueTypes
<1>2. /\ UNCHANGED <<present, version, runtime, model, boot, loaded, writer,
                     job, torn, dirty>>
      /\ disk' = EmptyDisk /\ queue' = queue \cup {"full"}
  BY DEF RequestFull, Queue, worldVars, bootVars
<1>4. LoadEntries' = <<>> /\ LoadChunks' = <<>>
  BY <1>2, EmptyReading
<1>5. Full' = Full /\ Firm' = Firm
  BY <1>2 DEF Full, Firm
<1>6. AllClean'
  BY <1>2, <1>4, <1>5, CleanNothing
  DEF AllClean, DiskClean, MemoryClean, LoadedClean, ScanClean, JobClean
<1>7. Before'
  BY <1>2 DEF Before, Early, Underway
<1>8. Written'
  BY <1>2 DEF Written, EmptyDisk
<1> QED BY <1>1, <1>6, <1>7, <1>8

\* A run that starts knows nothing yet.
LEMMA StartSound ==
  ASSUME SoundInv, TypeInv',
         \/ BackgroundDelta
         \/ \E run \in Waiting : Acquire(run)
  PROVE  SoundInv'
<1> USE DEF SoundInv
<1>1. /\ UNCHANGED <<present, version, disk, runtime, model, boot, loaded, torn,
                     dirty>>
      /\ job' # Absent => job'.step \in {"scan", "collect"}
      /\ queue' \subseteq queue /\ writer' \in queue \cup {"background"}
  BY DEF BackgroundDelta, Acquire, worldVars, bootVars, historyVars
<1>2. job = Absent
  BY DEF BackgroundDelta, Acquire, TypeInv, Running
<1>4. LoadEntries' = LoadEntries /\ LoadChunks' = LoadChunks
  BY <1>1, SameReading
<1>5. ~Rewriting /\ ~Rewriting'
  BY <1>1, <1>2 DEF Rewriting, Steps
<1>6. DiskClean' /\ MemoryClean' /\ LoadedClean'
  BY <1>1, <1>4, <1>5 DEF AllClean, DiskClean, MemoryClean, LoadedClean
<1>7. ScanClean' /\ JobClean' /\ Written'
  BY <1>1 DEF ScanClean, JobClean, Written, Steps
<1>8. Before'
  BY <1>1 DEF Before, Early, Underway, Steps
<1> QED BY <1>6, <1>7, <1>8 DEF AllClean

LEMMA BootLoadSound ==
  ASSUME SoundInv, BootLoad
  PROVE  SoundInv'
<1> USE DEF SoundInv
<1>1. TypeInv'
  BY BootLoadTypes
<1>2. /\ UNCHANGED <<present, version, disk, runtime, model, writer, job, queue,
                     torn, dirty>>
      /\ boot = "load" /\ boot' = "publish"
  BY DEF BootLoad, worldVars, lockVars, historyVars
<1>3. ~torn => ~Rewriting
  BY <1>2 DEF Before, Early, Underway, Rewriting
<1>4. LoadEntries' = LoadEntries /\ LoadChunks' = LoadChunks
  BY <1>2, SameReading
<1>5. Rewriting' = Rewriting /\ Full' = (writer = "full") /\ (Full => Firm)
  BY <1>2 DEF Rewriting, Full, Firm, TypeInv, Turns
<1>6. LoadedClean'
  <2> SUFFICES ASSUME ~torn
               PROVE  Clean(present, version, loaded'.entries, loaded'.chunks)
    BY <1>2 DEF LoadedClean
  <2>1. CASE NeedsFull
    BY <2>1, CleanNothing DEF BootLoad
  <2>2. CASE ~NeedsFull
    <3> DEFINE kept == Pruned(LoadEntries, LoadChunks)
    <3>1. loaded'.entries = kept.entries /\ loaded'.chunks = kept.chunks
      BY <2>2 DEF BootLoad
    <3>2. /\ \A i \in DOMAIN kept.entries : \E j \in DOMAIN LoadEntries :
               kept.entries[i] = LoadEntries[j]
          /\ \A i \in DOMAIN kept.chunks : \E j \in DOMAIN LoadChunks :
               kept.chunks[i] = LoadChunks[j]
      BY PrunedType, LoadEntriesType, LoadChunksType DEF TypeInv, Places, Stores
    <3>3. Clean(present, version, LoadEntries, LoadChunks)
      BY <1>3 DEF AllClean, DiskClean
    <3> HIDE DEF kept
    <3>4. Clean(present, version, kept.entries, kept.chunks)
      BY <3>2, <3>3, CleanPart
    <3> QED BY <3>1, <3>4
  <2> QED BY <2>1, <2>2
<1>7. DiskClean' /\ MemoryClean'
  BY <1>2, <1>4, <1>5 DEF AllClean, DiskClean, MemoryClean
<1>8. ScanClean' /\ JobClean'
  BY <1>2, <1>5 DEF AllClean, ScanClean, JobClean, Firm, Full
<1>9. Before'
  BY <1>2 DEF Before, Early, Underway
<1>10. Written'
  <2>1. /\ PathsFile' = PathsFile /\ EntriesFile' = EntriesFile
        /\ DocsFile' = DocsFile /\ RowsFile' = RowsFile
        /\ VectorsFile' = VectorsFile
    BY <1>2, SameWriting
  <2> QED BY <1>2, <2>1 DEF Written
<1> QED BY <1>1, <1>6, <1>7, <1>8, <1>9, <1>10 DEF AllClean

LEMMA BootPublishIs ==
  ASSUME TypeInv, BootPublish, loaded.chunks # <<>>
  PROVE  /\ loaded.chunks \in Seq(Chunk) /\ loaded.entries \in Seq(Entry)
         /\ runtime'.chunks = loaded.chunks
         /\ \/ runtime'.binaries = loaded.entries
            \/ runtime'.binaries = [i \in DOMAIN loaded.chunks |->
                 [path |-> loaded.chunks[i].path,
                  sig |-> [path |-> loaded.chunks[i].path, version |-> Stub]]]
BY DEF BootPublish, Retriever, TypeInv, Booting, Loaded

\* Entries that are made up vouch for nothing.
LEMMA MadeUpClean ==
  ASSUME TypeInv, NEW entries, NEW chunks, Clean(present, version, entries, chunks)
  PROVE  Clean(present, version,
               [i \in DOMAIN chunks |->
                  [path |-> chunks[i].path,
                   sig |-> [path |-> chunks[i].path, version |-> Stub]]],
               chunks)
<1> DEFINE madeUp == [i \in DOMAIN chunks |->
                        [path |-> chunks[i].path,
                         sig |-> [path |-> chunks[i].path, version |-> Stub]]]
<1>1. MaxVersion \in Nat \ {0} /\ \A p \in Path : version[p] \in Nat \ {0}
  BY IndexAssumption DEF TypeInv, Places
<1>2. ASSUME NEW e \in DOMAIN madeUp
      PROVE  /\ madeUp[e].path \in Command /\ madeUp[e].sig \in Text
             /\ madeUp[e].sig.path = madeUp[e].path
             /\ Past(version, madeUp[e].sig)
             /\ madeUp[e].sig # SigIn(version, madeUp[e].path)
  <2>1. chunks[e].path \in Command
    BY DEF Clean
  <2>2. /\ madeUp[e].path = chunks[e].path
        /\ madeUp[e].sig = [path |-> chunks[e].path, version |-> Stub]
    OBVIOUS
  <2>3. SigIn(version, chunks[e].path).version \in Nat \ {0}
    BY <1>1 DEF SigIn
  <2> QED BY <2>1, <2>2, <2>3 DEF Text, Past, Stub
<1> HIDE DEF madeUp
<1>3. Clean(present, version, madeUp, chunks)
  BY <1>2 DEF Clean
<1> QED BY <1>3 DEF madeUp

LEMMA BootPublishSound ==
  ASSUME SoundInv, BootPublish
  PROVE  SoundInv'
<1> USE DEF SoundInv
<1>1. TypeInv'
  BY BootPublishTypes
<1>2. /\ UNCHANGED <<present, version, disk, model, loaded, writer, job, torn, dirty>>
      /\ boot = "publish" /\ boot' = "queued"
  BY DEF BootPublish, worldVars
<1>4. LoadEntries' = LoadEntries /\ LoadChunks' = LoadChunks
  BY <1>2, SameReading
<1>5. Rewriting' = Rewriting /\ Full' = Full /\ Firm' = Firm
  BY <1>2 DEF Rewriting, Full, Firm
<1>6. MemoryClean'
  <2> SUFFICES ASSUME ~torn
               PROVE  Clean(present, version, runtime'.binaries, runtime'.chunks)
    BY <1>2 DEF MemoryClean
  <2>1. CASE loaded.chunks = <<>>
    BY <2>1 DEF BootPublish, AllClean, MemoryClean
  <2>2. CASE loaded.chunks # <<>>
    <3>1. Clean(present, version, loaded.entries, loaded.chunks)
      BY <1>2 DEF AllClean, LoadedClean
    <3> QED BY <2>2, <3>1, BootPublishIs, MadeUpClean
  <2> QED BY <2>1, <2>2
<1>7. DiskClean' /\ LoadedClean'
  BY <1>2, <1>4, <1>5 DEF AllClean, DiskClean, LoadedClean
<1>8. ScanClean' /\ JobClean'
  BY <1>2, <1>5 DEF AllClean, ScanClean, JobClean
<1>9. Before'
  BY <1>2 DEF Before, Early
<1>10. Written'
  <2>1. /\ PathsFile' = PathsFile /\ EntriesFile' = EntriesFile
        /\ DocsFile' = DocsFile /\ RowsFile' = RowsFile
        /\ VectorsFile' = VectorsFile
    BY <1>2, SameWriting
  <2> QED BY <1>2, <2>1 DEF Written
<1> QED BY <1>1, <1>6, <1>7, <1>8, <1>9, <1>10 DEF AllClean

LEMMA CrashSound ==
  ASSUME SoundInv, Crash
  PROVE  SoundInv'
<1> USE DEF SoundInv
<1>1. TypeInv'
  BY CrashTypes
<1>2. /\ UNCHANGED <<present, version, disk>>
      /\ torn' = (torn \/ HalfWritten) /\ runtime' = EmptyRuntime
      /\ boot' = "load" /\ writer' = Nobody /\ job' = Absent /\ queue' = {}
      /\ dirty' = FALSE
  BY DEF Crash, worldVars
<1>3. LoadEntries' = LoadEntries /\ LoadChunks' = LoadChunks
  BY <1>2, SameReading
<1>4. DiskClean'
  <2> SUFFICES ASSUME ~torn, ~HalfWritten
               PROVE  Clean(present, version, LoadEntries, LoadChunks)
    BY <1>2, <1>3 DEF DiskClean
  <2>1. CASE Rewriting
    <3>1. job # Absent /\ job.step = "publish"
      BY <2>1 DEF Rewriting, HalfWritten, Steps
    <3>2. Clean(present, version, job.stored, job.chunks)
      BY <3>1 DEF AllClean, JobClean, Firm, Steps
    <3>3. LoadEntries \in {<<>>, job.stored} /\ LoadChunks \in {<<>>, job.chunks}
      BY <3>1, ReadBack
    <3> QED BY <3>2, <3>3, CleanPart
  <2>2. CASE ~Rewriting
    BY <2>2 DEF AllClean, DiskClean
  <2> QED BY <2>1, <2>2
<1>5. MemoryClean'
  BY <1>2, CleanNothing DEF MemoryClean, EmptyRuntime
<1>6. LoadedClean' /\ ScanClean' /\ JobClean' /\ Written'
  BY <1>2 DEF LoadedClean, ScanClean, JobClean, Written
<1>7. Before'
  BY <1>2 DEF Before, Underway, Nobody
<1> QED BY <1>1, <1>4, <1>5, <1>6, <1>7 DEF AllClean

LEMMA ScanIs ==
  ASSUME TypeInv, Scan
  PROVE  \E order \in Orders :
           LET found == Found(order) IN
           /\ found \in Seq(Command)
           /\ job'.step = "extract" /\ DOMAIN job'.found = DOMAIN found
           /\ \A i \in DOMAIN found :
                /\ found[i] \in Command /\ found[i] \in Wanted
                /\ job'.found[i] = [path |-> found[i], sig |-> SigOf(found[i])]
           /\ \A k \in DOMAIN job'.reused :
                /\ ~Full
                /\ \E i \in DOMAIN LoadChunks : job'.reused[k] = LoadChunks[i]
                /\ job'.reused[k].path \in ToSet(found)
                /\ \E e \in DOMAIN LoadEntries :
                     LoadEntries[e] = [path |-> job'.reused[k].path,
                                       sig |-> SigOf(job'.reused[k].path)]
<1> DEFINE entries == IF Full THEN <<>> ELSE LoadEntries
           chunks == IF Full THEN <<>> ELSE LoadChunks
<1>1. entries \in Seq(Read) /\ chunks \in Seq(ReadChunk)
  BY LoadEntriesType, LoadChunksType DEF TypeInv, Stores
<1> HIDE DEF entries, chunks
<1>2. PICK order \in Orders :
        LET found == Found(order)
            reuse == {p \in ToSet(found) : Reusable(entries, chunks, p)}
        IN job' = [step |-> "extract",
                   found |-> [i \in DOMAIN found |->
                                [path |-> found[i], sig |-> SigOf(found[i])]],
                   reused |-> At(chunks, {i \in DOMAIN chunks :
                                             chunks[i].path \in reuse}),
                   dead |-> PathsOf(chunks) \ reuse,
                   removed |-> PathsOf(entries) \ ToSet(found)]
  BY DEF Scan, entries, chunks
<1> DEFINE found == Found(order)
           reuse == {p \in ToSet(found) : Reusable(entries, chunks, p)}
           I == {i \in DOMAIN chunks : chunks[i].path \in reuse}
<1>3. found \in Seq(Command) /\ \A i \in DOMAIN found : found[i] \in Wanted
  BY FoundType
<1>4. ASSUME NEW k \in DOMAIN At(chunks, I)
      PROVE  /\ ~Full
             /\ \E i \in DOMAIN LoadChunks : At(chunks, I)[k] = LoadChunks[i]
             /\ At(chunks, I)[k].path \in ToSet(found)
             /\ \E e \in DOMAIN LoadEntries :
                  LoadEntries[e] = [path |-> At(chunks, I)[k].path,
                                    sig |-> SigOf(At(chunks, I)[k].path)]
  <2>1. PICK i \in DOMAIN chunks : i \in I /\ At(chunks, I)[k] = chunks[i]
    <3> HIDE DEF I
    <3> QED BY <1>1, <1>4, AtItems
  <2>2. ~Full /\ chunks = LoadChunks /\ entries = LoadEntries
    BY <2>1 DEF chunks, entries
  <2>3. chunks[i].path \in reuse
    BY <2>1
  <2>4. chunks[i].path \in ToSet(found) /\ Reusable(entries, chunks, chunks[i].path)
    BY <2>3
  <2>5. \E e \in DOMAIN entries :
          entries[e] = [path |-> chunks[i].path, sig |-> SigOf(chunks[i].path)]
    BY <2>4 DEF Reusable
  <2> HIDE DEF found, I
  <2> QED BY <2>1, <2>2, <2>4, <2>5
<1>5. /\ job'.step = "extract" /\ job'.reused = At(chunks, I)
      /\ job'.found = [i \in DOMAIN found |-> [path |-> found[i], sig |-> SigOf(found[i])]]
  BY <1>2
<1> HIDE DEF I
<1>6. \A k \in DOMAIN job'.reused :
        /\ ~Full
        /\ \E i \in DOMAIN LoadChunks : job'.reused[k] = LoadChunks[i]
        /\ job'.reused[k].path \in ToSet(found)
        /\ \E e \in DOMAIN LoadEntries :
             LoadEntries[e] = [path |-> job'.reused[k].path,
                               sig |-> SigOf(job'.reused[k].path)]
  <2> HIDE DEF found
  <2> QED BY <1>4, <1>5
<1>7. /\ DOMAIN job'.found = DOMAIN found
      /\ \A i \in DOMAIN found :
           /\ found[i] \in Command /\ found[i] \in Wanted
           /\ job'.found[i] = [path |-> found[i], sig |-> SigOf(found[i])]
  <2> HIDE DEF found
  <2> QED BY <1>3, <1>5
<1> QED BY <1>3, <1>5, <1>6, <1>7

LEMMA ScanSound ==
  ASSUME SoundInv, Scan
  PROVE  SoundInv'
<1> USE DEF SoundInv
<1>1. TypeInv'
  BY ScanTypes
<1>2. /\ UNCHANGED <<present, version, disk, runtime, model, loaded, writer, queue,
                     torn, dirty>>
      /\ job # Absent /\ job.step = "scan"
      /\ boot' = IF writer = "boot" THEN "indexing" ELSE boot
  BY DEF Scan, worldVars
<1>4. LoadEntries' = LoadEntries /\ LoadChunks' = LoadChunks
  BY <1>2, SameReading
<1>5. job'.step = "extract"
  BY ScanIs
<1>6. ~Rewriting /\ ~Rewriting'
  BY <1>2, <1>5 DEF Rewriting, Steps
<1>7. Full' = Full /\ Firm' = Firm
  BY <1>2 DEF Full, Firm
<1>8. ScanClean'
  <2> SUFFICES ASSUME Firm
               PROVE  Clean(present, version, job'.found, job'.reused)
    BY <1>2, <1>7 DEF ScanClean
  <2>1. PICK order \in Orders :
          LET found == Found(order) IN
          /\ found \in Seq(Command)
          /\ job'.step = "extract" /\ DOMAIN job'.found = DOMAIN found
          /\ \A i \in DOMAIN found :
               /\ found[i] \in Command /\ found[i] \in Wanted
               /\ job'.found[i] = [path |-> found[i], sig |-> SigOf(found[i])]
          /\ \A k \in DOMAIN job'.reused :
               /\ ~Full
               /\ \E i \in DOMAIN LoadChunks : job'.reused[k] = LoadChunks[i]
               /\ job'.reused[k].path \in ToSet(found)
               /\ \E e \in DOMAIN LoadEntries :
                    LoadEntries[e] = [path |-> job'.reused[k].path,
                                      sig |-> SigOf(job'.reused[k].path)]
    BY ScanIs
  <2> DEFINE found == Found(order)
  <2>2. ASSUME NEW e \in DOMAIN job'.found
        PROVE  /\ job'.found[e].path \in Command /\ job'.found[e].sig \in Text
               /\ job'.found[e].sig.path = job'.found[e].path
               /\ Past(version, job'.found[e].sig)
    <3>1. found[e] \in Command /\ job'.found[e] = [path |-> found[e], sig |-> SigOf(found[e])]
      BY <2>1, <2>2
    <3>2. SigOf(found[e]) \in Text /\ SigOf(found[e]).path = found[e]
      BY <3>1, TextTypes DEF TypeInv, Places
    <3>3. Past(version, SigOf(found[e]))
      BY <3>1, SigOfIs DEF TypeInv
    <3> HIDE DEF found
    <3> QED BY <3>1, <3>2, <3>3
  <2>3. ASSUME NEW k \in DOMAIN job'.reused
        PROVE  /\ job'.reused[k].path \in Command /\ job'.reused[k].text \in Text
               /\ job'.reused[k].text.path = job'.reused[k].path
               /\ Past(version, job'.reused[k].text)
               /\ job'.reused[k].text = SigIn(version, job'.reused[k].path)
    <3> DEFINE p == job'.reused[k].path
    <3>1. ~Full /\ ~torn
      BY <2>1, <2>3 DEF Firm
    <3>2. Clean(present, version, LoadEntries, LoadChunks)
      BY <1>6, <3>1 DEF AllClean, DiskClean
    <3>3. PICK i \in DOMAIN LoadChunks : job'.reused[k] = LoadChunks[i]
      BY <2>1, <2>3
    <3>4. PICK e \in DOMAIN LoadEntries : LoadEntries[e] = [path |-> p, sig |-> SigOf(p)]
      BY <2>1, <2>3
    <3>5. p \in Wanted
      <4>1. p \in ToSet(found)
        BY <2>1, <2>3
      <4> HIDE DEF p
      <4> QED BY <2>1, <4>1 DEF ToSet
    <3>6. LoadEntries[e].sig = SigIn(version, p)
      BY <3>4, SigOfIs
    <3>7. LoadChunks[i].text = SigIn(version, p)
      BY <3>2, <3>3, <3>4, <3>5, <3>6 DEF Clean, Wanted
    <3> QED BY <3>2, <3>3, <3>7 DEF Clean
  <2>4. ASSUME NEW e \in DOMAIN job'.found, NEW k \in DOMAIN job'.reused,
               job'.found[e].path = job'.reused[k].path
        PROVE  job'.reused[k].text = SigIn(version, job'.found[e].path)
    BY <2>3, <2>4
  <2> HIDE DEF found
  <2> QED BY <2>2, <2>3, <2>4 DEF Clean
<1>9. DiskClean' /\ MemoryClean'
  BY <1>2, <1>4, <1>6 DEF AllClean, DiskClean, MemoryClean
<1>10. LoadedClean' /\ Before'
  BY <1>2, <1>5 DEF AllClean, LoadedClean, Before, Early, Underway, Steps
<1>11. JobClean' /\ Written'
  BY <1>5 DEF JobClean, Written, Steps
<1> QED BY <1>1, <1>8, <1>9, <1>10, <1>11 DEF AllClean

\* The bootstrap is past its publication while files are written, unless the
\* run has overtaken it.
LEMMA NotBefore ==
  ASSUME Before, Underway, ~torn
  PROVE  ~Early
BY DEF Before

LEMMA ExtractSound ==
  ASSUME SoundInv, Extract
  PROVE  SoundInv'
<1> USE DEF SoundInv
<1>1. TypeInv'
  BY ExtractTypes
<1>2. /\ UNCHANGED <<present, version, runtime, model, boot, loaded, writer, queue,
                     torn, dirty>>
      /\ job # Absent /\ job.step = "extract"
      /\ disk' = IF Full THEN EmptyDisk ELSE disk
  BY DEF Extract, worldVars, bootVars, historyVars
<1>3. PICK mode \in Modes :
        job' = [step |-> "manifest", chunks |-> Extracted,
                stored |-> SubSeq(job.found, 1, Fitting),
                dead |-> job.dead, mode |-> mode]
  BY ExtractIs
<1>4. Full' = Full /\ Firm' = Firm /\ ~Rewriting /\ ~Rewriting'
  BY <1>2, <1>3 DEF Full, Firm, Rewriting, Steps
<1>5. DiskClean'
  <2>1. CASE Full
    BY <1>2, <2>1, EmptyReading, CleanNothing DEF DiskClean
  <2>2. CASE ~Full
    <3>1. LoadEntries' = LoadEntries /\ LoadChunks' = LoadChunks
      BY <1>2, <2>2, SameReading
    <3> QED BY <1>2, <1>4, <3>1 DEF AllClean, DiskClean
  <2> QED BY <2>1, <2>2
<1>6. JobClean'
  <2> DEFINE stored == SubSeq(job.found, 1, Fitting)
  <2> SUFFICES ASSUME Firm
               PROVE  Clean(present, version, stored, Extracted)
    BY <1>2, <1>3, <1>4 DEF JobClean
  <2>1. Clean(present, version, job.found, job.reused)
    BY <1>2 DEF AllClean, ScanClean
  <2>2. /\ job \in Scanned /\ Fitting \in Nat /\ Fitting <= Len(job.found)
        /\ Extracted \in Seq(Chunk) /\ Len(Extracted) = Fitting
        /\ \A i \in 1 .. Fitting :
              /\ Extracted[i].path = job.found[i].path
              /\ \/ Extracted[i].text = TextOf(job.found[i].path)
                 \/ \E j \in DOMAIN job.reused : Extracted[i] = job.reused[j]
    BY ExtractIs
  <2>3. job.found \in Seq(Entry)
    BY <2>2 DEF Scanned
  <2>4. /\ DOMAIN stored = 1 .. Fitting
        /\ \A i \in 1 .. Fitting : stored[i] = job.found[i] /\ i \in DOMAIN job.found
    BY <2>2, <2>3, CutType
  <2> HIDE DEF stored
  <2>5. ASSUME NEW i \in DOMAIN Extracted
        PROVE  /\ Extracted[i].path \in Command /\ Extracted[i].text \in Text
               /\ Extracted[i].text.path = Extracted[i].path
               /\ Past(version, Extracted[i].text)
    <3> DEFINE p == job.found[i].path
    <3>1. i \in 1 .. Fitting
      BY <2>2
    <3>2. p \in Command /\ Extracted[i].path = p
      BY <2>1, <2>2, <2>4, <3>1 DEF Clean
    <3>3. CASE Extracted[i].text = TextOf(p)
      BY <3>2, <3>3, TextTypes, SigOfIs DEF TypeInv, Places
    <3>4. CASE \E j \in DOMAIN job.reused : Extracted[i] = job.reused[j]
      BY <2>1, <3>4 DEF Clean
    <3> QED BY <2>2, <3>1, <3>3, <3>4
  <2>6. ASSUME NEW e \in DOMAIN stored, NEW i \in DOMAIN Extracted,
               stored[e].path = Extracted[i].path,
               stored[e].path \in present \cup Virtual,
               stored[e].sig = SigIn(version, stored[e].path)
        PROVE  Extracted[i].text = SigIn(version, stored[e].path)
    <3>1. i \in 1 .. Fitting /\ Extracted[i].path = job.found[i].path
      BY <2>2
    <3>2. CASE Extracted[i].text = TextOf(job.found[i].path)
      <4>1. Extracted[i].text = TextOf(stored[e].path)
        BY <2>6, <3>1, <3>2
      <4>2. TextOf(stored[e].path) = SigOf(stored[e].path)
        BY <2>6, IndexAssumption DEF TextOf
      <4> QED BY <4>1, <4>2, SigOfIs
    <3>3. CASE \E j \in DOMAIN job.reused : Extracted[i] = job.reused[j]
      <4>1. PICK j \in DOMAIN job.reused : Extracted[i] = job.reused[j]
        BY <3>3
      <4>2. e \in DOMAIN job.found /\ stored[e] = job.found[e]
        BY <2>4
      <4> QED BY <2>1, <2>6, <4>1, <4>2 DEF Clean
    <3> QED BY <2>2, <3>1, <3>2, <3>3
  <2>7. \A e \in DOMAIN stored :
          /\ stored[e].path \in Command /\ stored[e].sig \in Text
          /\ stored[e].sig.path = stored[e].path /\ Past(version, stored[e].sig)
    BY <2>1, <2>4 DEF Clean
  <2> QED BY <2>5, <2>6, <2>7 DEF Clean
<1>7. MemoryClean' /\ LoadedClean' /\ Before'
  BY <1>2, <1>3
  DEF AllClean, MemoryClean, LoadedClean, Before, Early, Underway, Steps
<1>8. ScanClean' /\ Written'
  BY <1>3 DEF ScanClean, Written, Steps
<1> QED BY <1>1, <1>5, <1>6, <1>7, <1>8 DEF AllClean

LEMMA CollectSound ==
  ASSUME SoundInv, Collect
  PROVE  SoundInv'
<1> USE DEF SoundInv
<1>1. /\ TypeInv' /\ writer = "compact" /\ job'.step = "manifest"
      /\ job'.chunks = runtime.chunks /\ job'.stored = runtime.binaries
  BY CollectTypes
<1>2. /\ UNCHANGED <<present, version, disk, runtime, model, boot, loaded, writer,
                     queue, torn, dirty>>
      /\ job # Absent /\ job.step = "collect"
  BY DEF Collect, worldVars, bootVars, historyVars
<1>3. LoadEntries' = LoadEntries /\ LoadChunks' = LoadChunks
  BY <1>2, SameReading
<1>4. ~Full' /\ ~Rewriting /\ ~Rewriting'
  BY <1>1, <1>2 DEF Full, Rewriting, Steps
<1>5. JobClean'
  BY <1>1, <1>2, <1>4 DEF JobClean, Firm, AllClean, MemoryClean
<1>6. DiskClean' /\ MemoryClean' /\ LoadedClean'
  BY <1>2, <1>3, <1>4 DEF AllClean, DiskClean, MemoryClean, LoadedClean
<1>7. ScanClean' /\ Written'
  BY <1>1 DEF ScanClean, Written, Steps
<1>8. Before'
  BY <1>1, <1>2 DEF Before, Early, Underway, Steps
<1> QED BY <1>1, <1>5, <1>6, <1>7, <1>8 DEF AllClean

LEMMA WriteLayoutSound ==
  ASSUME SoundInv, WriteLayout
  PROVE  SoundInv'
<1> USE DEF SoundInv
<1>1. TypeInv'
  BY WriteLayoutTypes
<1>2. /\ job \in Writing /\ job # Absent /\ job.step # "publish"
      /\ UNCHANGED <<present, version, runtime, model, boot, loaded, writer, queue,
                     dirty>>
      /\ torn' = (torn \/ Early)
  BY WriteLayoutIs DEF worldVars, bootVars
<1>3. PICK next \in Steps : job' = [job EXCEPT !.step = next]
  BY WriteLayoutIs
<1>4. /\ job'.stored = job.stored /\ job'.chunks = job.chunks
      /\ job'.dead = job.dead /\ job'.mode = job.mode /\ job'.step = next
      /\ job' # Absent /\ job.step \in Steps
  BY <1>1, <1>2, <1>3, AbsentAssumption DEF Writing, Steps
<1>5. Full' = Full /\ (Firm' => Firm)
  BY <1>2 DEF Full, Firm
<1>6. JobClean'
  BY <1>2, <1>4, <1>5 DEF AllClean, JobClean
<1>7. DiskClean'
  <2>1. CASE WriteManifest
    <3>1. disk' = [disk EXCEPT !.manifest = [mode |-> job.mode, model |-> model]]
      BY <2>1 DEF WriteManifest, WriteFile
    <3>2. disk \in Files /\ job.step = "manifest"
      BY <2>1 DEF TypeInv, Stores, WriteManifest, WriteFile
    <3>3. LoadEntries' = LoadEntries /\ LoadChunks' = LoadChunks
      BY <3>1, <3>2, SameReading DEF Files
    <3>4. ~Rewriting
      BY <3>2 DEF Rewriting
    <3> QED BY <1>2, <3>3, <3>4 DEF AllClean, DiskClean
  <2>2. CASE ~WriteManifest
    <3>1. PICK step \in Steps \ {"manifest", "paths"} : job' = [job EXCEPT !.step = step]
      BY <2>2 DEF WriteLayout, WritePaths, WriteEntries, WriteDocs, WriteRows,
                  WriteLexical, WriteVectors, WriteFile, Steps
    <3>2. job'.step = step
      BY <1>2, <3>1 DEF Writing
    <3>3. Rewriting'
      BY <1>4, <3>2 DEF Rewriting
    <3> QED BY <3>3 DEF DiskClean
  <2> QED BY <2>1, <2>2
<1>8. MemoryClean' /\ LoadedClean' /\ Before'
  BY <1>2 DEF AllClean, MemoryClean, LoadedClean, Before, Early
<1>9. ScanClean'
  BY <1>4 DEF ScanClean, Steps
<1>10. Written'
  <2>1. /\ PathsFile' = PathsFile /\ EntriesFile' = EntriesFile
        /\ DocsFile' = DocsFile /\ RowsFile' = RowsFile
        /\ VectorsFile' = VectorsFile
    BY <1>2, <1>4, SameWriting
  <2>2. disk \in Files /\ disk' \in Files
    BY <1>1 DEF TypeInv, Stores
  <2>3. CASE WriteManifest
    BY <2>3 DEF WriteManifest, WriteFile, Written, Steps
  <2>4. CASE WritePaths
    <3>1. job'.step = "entries" /\ disk'.paths = PathsFile
      BY <2>2, <2>4, <1>2 DEF WritePaths, WriteFile, PathsFile, Files, Writing
    <3> QED BY <2>1, <3>1 DEF Written, Steps
  <2>5. CASE WriteEntries
    <3>1. /\ job.step = "entries" /\ job'.step = "docs"
          /\ disk'.entries = EntriesFile /\ disk'.paths = disk.paths
      BY <2>2, <2>5, <1>2 DEF WriteEntries, WriteFile, EntriesFile, Files, Writing
    <3> QED BY <1>2, <2>1, <3>1 DEF Written, Steps
  <2>6. CASE WriteDocs
    <3>1. /\ job.step = "docs" /\ job'.step = "rows" /\ disk'.docs = DocsFile
          /\ disk'.entries = disk.entries /\ disk'.paths = disk.paths
      BY <2>2, <2>6, <1>2 DEF WriteDocs, WriteFile, DocsFile, Files, Writing
    <3> QED BY <1>2, <2>1, <3>1 DEF Written, Steps
  <2>7. CASE WriteRows
    <3>1. /\ job.step = "rows" /\ job'.step = "lexical" /\ disk'.rows = RowsFile
          /\ disk'.docs = disk.docs
          /\ disk'.entries = disk.entries /\ disk'.paths = disk.paths
      BY <2>2, <2>7, <1>2 DEF WriteRows, WriteFile, RowsFile, Files, Writing
    <3> QED BY <1>2, <2>1, <3>1 DEF Written, Steps
  <2>8. CASE WriteLexical
    <3>1. /\ job.step = "lexical" /\ job'.step = "vectors" /\ disk'.lexical = DocsFile
          /\ disk'.rows = disk.rows /\ disk'.docs = disk.docs
          /\ disk'.entries = disk.entries /\ disk'.paths = disk.paths
      BY <2>2, <2>8, <1>2 DEF WriteLexical, WriteFile, DocsFile, Files, Writing
    <3> QED BY <1>2, <2>1, <3>1 DEF Written, Steps
  <2>9. CASE WriteVectors
    <3>1. /\ job.step = "vectors" /\ job'.step = "publish"
          /\ disk'.vectors = VectorsFile /\ disk'.lexical = disk.lexical
          /\ disk'.rows = disk.rows /\ disk'.docs = disk.docs
          /\ disk'.entries = disk.entries /\ disk'.paths = disk.paths
      BY <2>2, <2>9, <1>2 DEF WriteVectors, WriteFile, VectorsFile, Files, Writing
    <3> QED BY <1>2, <2>1, <3>1 DEF Written, Steps
  <2> QED BY <2>3, <2>4, <2>5, <2>6, <2>7, <2>8, <2>9 DEF WriteLayout
<1> QED BY <1>1, <1>6, <1>7, <1>8, <1>9, <1>10 DEF AllClean

LEMMA UnchangedIs ==
  ASSUME TypeInv, Unchanged
  PROVE  /\ UNCHANGED <<present, version, disk, model, queue, torn, dirty>>
         /\ job \in Scanned /\ job # Absent /\ job.step = "extract" /\ ~Full
         /\ job' = Absent /\ writer' = Nobody
         /\ boot' = IF writer = "boot" THEN "done" ELSE boot
         /\ \/ runtime' = runtime
            \/ /\ runtime.chunks = <<>>
               /\ runtime'.binaries = job.found
               /\ \A i \in DOMAIN runtime'.chunks : \E j \in DOMAIN job.reused :
                    runtime'.chunks[i] = job.reused[j]
<1> DEFINE chunks == [i \in DOMAIN job.found |-> ReusedOf(job.found[i].path)]
<1>1. /\ UNCHANGED <<present, version, disk, model, queue, torn, dirty>>
      /\ job # Absent /\ job.step = "extract" /\ ~Full
      /\ job' = Absent /\ writer' = Nobody
      /\ boot' = IF writer = "boot" THEN "done" ELSE boot
  BY DEF Unchanged, Nothing, Finish, worldVars
<1>2. job \in Scanned
  BY <1>1, StepsApart DEF TypeInv, Running
<1>3. ASSUME NEW i \in DOMAIN job.found
      PROVE  \E j \in DOMAIN job.reused : chunks[i] = job.reused[j]
  <2>1. job.found[i].path \in PathsOf(job.reused)
    BY DEF Unchanged, Nothing, ToExtract, PathsOf
  <2> QED BY <1>2, <2>1, ReusedOfType
<1>4. \A i \in DOMAIN chunks : \E j \in DOMAIN job.reused : chunks[i] = job.reused[j]
  BY <1>3
<1>5. runtime' = IF runtime.chunks = <<>> /\ chunks # <<>>
                 THEN Retriever(chunks, job.found,
                                IF disk.manifest = Absent THEN "disabled"
                                ELSE disk.manifest.mode)
                 ELSE runtime
  BY DEF Unchanged
<1> HIDE DEF chunks
<1>6. CASE runtime.chunks = <<>> /\ chunks # <<>>
  <2>1. runtime'.chunks = chunks /\ runtime'.binaries = job.found
    BY <1>5, <1>6 DEF Retriever
  <2> QED BY <1>1, <1>2, <1>4, <1>6, <2>1
<1>7. CASE ~ (runtime.chunks = <<>> /\ chunks # <<>>)
  BY <1>1, <1>2, <1>5, <1>7
<1> QED BY <1>6, <1>7

LEMMA UnchangedSound ==
  ASSUME SoundInv, Unchanged
  PROVE  SoundInv'
<1> USE DEF SoundInv
<1>1. TypeInv'
  BY UnchangedTypes
<1>2. /\ UNCHANGED <<present, version, disk, model, queue, torn, dirty>>
      /\ job \in Scanned /\ job # Absent /\ job.step = "extract" /\ ~Full
      /\ job' = Absent /\ writer' = Nobody
      /\ boot' = IF writer = "boot" THEN "done" ELSE boot
  BY UnchangedIs
<1>3. LoadEntries' = LoadEntries /\ LoadChunks' = LoadChunks
  BY <1>2, SameReading
<1>4. ~Rewriting /\ ~Rewriting'
  BY <1>2 DEF Rewriting, Steps
<1>5. MemoryClean'
  <2> SUFFICES ASSUME ~torn
               PROVE  Clean(present, version, runtime'.binaries, runtime'.chunks)
    BY <1>2 DEF MemoryClean
  <2>1. Clean(present, version, job.found, job.reused)
    BY <1>2 DEF AllClean, ScanClean, Firm
  <2>2. CASE runtime' = runtime
    BY <2>2 DEF AllClean, MemoryClean
  <2>3. CASE /\ runtime'.binaries = job.found
             /\ \A i \in DOMAIN runtime'.chunks : \E j \in DOMAIN job.reused :
                  runtime'.chunks[i] = job.reused[j]
    BY <2>1, <2>3, CleanPart
  <2> QED BY <2>2, <2>3, UnchangedIs
<1>6. DiskClean' /\ LoadedClean' /\ Before'
  <2>1. boot' \in {"load", "publish"} => boot' = boot /\ loaded' = loaded
    BY <1>2 DEF Unchanged, Finish
  <2>2. ~Underway'
    BY <1>2 DEF Underway
  <2> QED BY <1>2, <1>3, <1>4, <2>1, <2>2
          DEF AllClean, DiskClean, LoadedClean, Before, Early, Nobody
<1>7. ScanClean' /\ JobClean' /\ Written'
  BY <1>2 DEF ScanClean, JobClean, Written
<1> QED BY <1>1, <1>5, <1>6, <1>7 DEF AllClean

LEMMA PublishSound ==
  ASSUME SoundInv, Publish
  PROVE  SoundInv'
<1> USE DEF SoundInv
<1>1. /\ TypeInv' /\ job \in Writing /\ job # Absent
      /\ runtime'.chunks = job.chunks /\ runtime'.binaries = job.stored
  BY PublishTypes
<1>2. /\ UNCHANGED <<present, version, disk, model, queue, dirty>>
      /\ job.step = "publish" /\ torn' = (torn /\ (Early \/ ~Full))
      /\ job' = Absent /\ writer' = Nobody
      /\ boot' = IF writer = "boot" THEN "done" ELSE boot
  BY DEF Publish, Finish, worldVars
<1>3. LoadEntries' = LoadEntries /\ LoadChunks' = LoadChunks
  BY <1>2, SameReading
<1>4. ~torn' => Clean(present, version, job.stored, job.chunks)
  BY <1>1, <1>2 DEF AllClean, JobClean, Firm, Steps
<1>5. MemoryClean'
  BY <1>1, <1>2, <1>4 DEF MemoryClean
<1>6. DiskClean'
  <2> SUFFICES ASSUME ~torn'
               PROVE  Clean(present, version, LoadEntries, LoadChunks)
    BY <1>2, <1>3 DEF DiskClean
  <2>1. LoadEntries \in {<<>>, job.stored} /\ LoadChunks \in {<<>>, job.chunks}
    BY <1>1, <1>2, ReadBack
  <2> QED BY <1>4, <2>1, CleanPart
<1>7. LoadedClean' /\ Before'
  <2>1. boot' \in {"load", "publish"} => Early
    BY <1>2 DEF Early
  <2>2. Underway /\ ~Underway'
    BY <1>1, <1>2 DEF Underway, Steps
  <2>3. Early => torn /\ torn'
    BY <1>2, <2>2, NotBefore
  <2> QED BY <1>2, <2>1, <2>2, <2>3 DEF LoadedClean, Before, Early, Nobody
<1>8. ScanClean' /\ JobClean' /\ Written'
  BY <1>2 DEF ScanClean, JobClean, Written
<1> QED BY <1>1, <1>5, <1>6, <1>7, <1>8 DEF AllClean

LEMMA StutterSound ==
  ASSUME SoundInv, UNCHANGED vars
  PROVE  SoundInv'
<1> USE DEF SoundInv
<1>1. TypeInv'
  BY NextTypes
<1>2. UNCHANGED <<present, version, disk, runtime, model, boot, loaded, writer, job,
                  queue, dirty, torn>>
  BY DEF vars, worldVars, bootVars, lockVars, historyVars
<1>3. LoadEntries' = LoadEntries /\ LoadChunks' = LoadChunks
  BY <1>2, SameReading
<1>4. Full' = Full /\ Rewriting' = Rewriting /\ Firm' = Firm
  BY <1>2 DEF Full, Rewriting, Firm
<1>5. AllClean'
  BY <1>2, <1>3, <1>4
  DEF AllClean, DiskClean, MemoryClean, LoadedClean, ScanClean, JobClean
<1>6. /\ PathsFile' = PathsFile /\ EntriesFile' = EntriesFile
      /\ DocsFile' = DocsFile /\ RowsFile' = RowsFile
      /\ VectorsFile' = VectorsFile
  BY <1>2, SameWriting
<1>7. Before' /\ Written'
  BY <1>2, <1>6 DEF Before, Early, Underway, Written
<1> QED BY <1>1, <1>5, <1>7

LEMMA NextSound == SoundInv /\ [Next]_vars => SoundInv'
<1> SUFFICES ASSUME SoundInv, [Next]_vars PROVE SoundInv'
  OBVIOUS
<1>1. TypeInv'
  BY NextTypes DEF SoundInv
<1>2. CASE World \/ Boot \/ WatchChange \/ Client \/ Crash
  BY <1>1, <1>2, WorldSound, BootLoadSound, BootPublishSound, QueueSound, StartSound,
     RequestFullSound, CrashSound
  DEF Boot, Client
<1>3. CASE Run
  BY <1>3, ScanSound, UnchangedSound, ExtractSound, CollectSound, WriteLayoutSound,
     PublishSound
  DEF Run
<1>4. CASE \E run \in Waiting : Acquire(run)
  BY <1>1, <1>4, StartSound
<1>5. CASE UNCHANGED vars
  BY <1>5, StutterSound
<1> QED BY <1>2, <1>3, <1>4, <1>5 DEF Next

LEMMA CleanReuse ==
  ASSUME NEW entries, NEW chunks, Clean(present, version, entries, chunks),
         NEW e \in DOMAIN entries, NEW i \in DOMAIN chunks,
         entries[e].path = chunks[i].path, entries[e].path \in Wanted,
         entries[e].sig = SigOf(entries[e].path)
  PROVE  chunks[i].text = SigOf(entries[e].path)
BY SigOfIs DEF Clean, Wanted

LEMMA SoundReuse == SoundInv => ReuseIsSound
<1> SUFFICES ASSUME SoundInv, ~torn, ~HalfWritten,
                    NEW i \in DOMAIN LoadChunks, NEW e \in DOMAIN LoadEntries,
                    LoadEntries[e].path = LoadChunks[i].path,
                    LoadEntries[e].path \in Wanted,
                    LoadEntries[e].sig = SigOf(LoadEntries[e].path)
             PROVE  LoadChunks[i].text = SigOf(LoadEntries[e].path)
  BY DEF ReuseIsSound
<1> USE DEF SoundInv
<1>1. Clean(present, version, LoadEntries, LoadChunks)
  <2>1. CASE Rewriting
    <3>1. job # Absent /\ job.step = "publish"
      BY <2>1 DEF Rewriting, HalfWritten, Steps
    <3>2. Clean(present, version, job.stored, job.chunks)
      BY <3>1 DEF AllClean, JobClean, Firm, Steps
    <3>3. LoadEntries \in {<<>>, job.stored} /\ LoadChunks \in {<<>>, job.chunks}
      BY <3>1, ReadBack
    <3> QED BY <3>2, <3>3, CleanPart
  <2>2. CASE ~Rewriting
    BY <2>2 DEF AllClean, DiskClean
  <2> QED BY <2>1, <2>2
<1> QED BY <1>1, CleanReuse

\* What the next run may reuse without looking is right, however runs, changes,
\* requests - early ones too - and crashes follow one another: the chunk of an
\* entry whose signature is that of the command today documents that very
\* version.  Excepted are, until a full reindex, files that a crash left of two
\* generations and files that a run wrote before the bootstrap had published
\* what it read (main.rs 14143): these flags are torn.
THEOREM ReuseSound == Spec => []ReuseIsSound
<1>1. Init => SoundInv
  BY InitSound
<1>2. SoundInv /\ [Next]_vars => SoundInv'
  BY NextSound
<1>3. SoundInv => ReuseIsSound
  BY SoundReuse
<1> QED BY <1>1, <1>2, <1>3, PTL DEF Spec
-----------------------------------------------------------------------------
(* The index keeps its promise *)

Items(s) == {s[i] : i \in DOMAIN s}

\* The documents that may be served, or written again, without a look at the
\* commands: those in memory and in the files, those that the bootstrap has
\* read, and those that a run reuses.
Known ==
  Items(runtime.chunks)
    \cup (IF Rewriting THEN {} ELSE Items(LoadChunks))
    \cup (IF boot = "publish" THEN Items(loaded.chunks) ELSE {})
    \cup (IF job # Absent /\ job.step = "extract" THEN Items(job.reused) ELSE {})

\* No two of them tell different things of a command.
Alike(docs) == \A c, d \in docs : c.path = d.path => c.text = d.text

\* A document that takes the place of old ones is a stub or not older.
NotOlder(old, doc) ==
  \A c \in old : c.path = doc.path => \/ doc.text.version = Stub
                                      \/ doc.text.version >= c.text.version

Fresh ==
  /\ ~torn => Alike(Known)
  /\ job # Absent /\ job.step \in Steps =>
       /\ Firm => Alike(Items(job.chunks))
       /\ ~torn => \A doc \in Items(job.chunks) : NotOlder(Known, doc)

\* What is known is of versions that there have been.
LEMMA KnownClean ==
  ASSUME SoundInv, ~torn, NEW c \in Known
  PROVE  /\ c.path \in Command /\ c.text \in Text
         /\ c.text.path = c.path /\ Past(version, c.text)
<1> USE DEF SoundInv
<1>1. CASE c \in Items(runtime.chunks)
  BY <1>1 DEF AllClean, MemoryClean, Clean, Items
<1>2. CASE ~Rewriting /\ c \in Items(LoadChunks)
  BY <1>2 DEF AllClean, DiskClean, Clean, Items
<1>3. CASE boot = "publish" /\ c \in Items(loaded.chunks)
  BY <1>3 DEF AllClean, LoadedClean, Clean, Items
<1>4. CASE job # Absent /\ job.step = "extract" /\ c \in Items(job.reused)
  BY <1>4 DEF AllClean, ScanClean, Clean, Items, Firm
<1> QED BY <1>1, <1>2, <1>3, <1>4 DEF Known

\* Nothing that is known is newer than the commands are.
LEMMA CurrentNotOlder ==
  ASSUME SoundInv, ~torn, NEW doc, doc.path \in Command,
         doc.text = SigOf(doc.path) \/ doc.text = TextOf(doc.path)
  PROVE  NotOlder(Known, doc)
<1> SUFFICES ASSUME NEW c \in Known, c.path = doc.path, doc.text.version # Stub
             PROVE  doc.text.version >= c.text.version
  BY DEF NotOlder
<1>1. c.text \in Text /\ c.text.path = doc.path /\ Past(version, c.text)
  BY KnownClean
<1>2. doc.text = SigOf(doc.path)
  BY DEF TextOf
<1>3. doc.text.version = SigIn(version, doc.path).version
  BY <1>2, SigOfIs
<1>4. c.text.version <= SigIn(version, doc.path).version
  BY <1>1 DEF Past
<1>5. c.text.version \in Nat
  BY <1>1 DEF Text
<1>6. SigIn(version, doc.path).version \in Nat
  <2>1. MaxVersion \in Nat /\ \A p \in Path : version[p] \in Nat
    BY IndexAssumption DEF SoundInv, TypeInv, Places
  <2> QED BY <2>1 DEF SigIn
<1> QED BY <1>3, <1>4, <1>5, <1>6

\* What is known already is not older than what is known.
LEMMA KnownNotOlder ==
  ASSUME SoundInv, ~torn, Alike(Known), NEW doc \in Known
  PROVE  NotOlder(Known, doc)
<1> SUFFICES ASSUME NEW c \in Known, c.path = doc.path
             PROVE  doc.text.version >= c.text.version
  BY DEF NotOlder
<1>1. doc.text = c.text
  BY DEF Alike
<1>2. c.text.version \in Nat
  BY KnownClean DEF Text
<1> QED BY <1>1, <1>2

\* A step that learns nothing new and leaves the run's chunks alone.
LEMMA LearnsNothing ==
  ASSUME Fresh, ~torn' => ~torn /\ Known' \subseteq Known,
         \/ job' = job /\ (Firm' => Firm)
         \/ job' = Absent
         \/ job'.step \notin Steps
  PROVE  Fresh'
<1>1. ~torn' => Alike(Known')
  BY DEF Fresh, Alike
<1>2. ASSUME job' # Absent, job'.step \in Steps
      PROVE  /\ job' = job
             /\ Firm' => Alike(Items(job.chunks))
             /\ ~torn' => \A doc \in Items(job.chunks) : NotOlder(Known', doc)
  BY <1>2 DEF Fresh, NotOlder
<1> QED BY <1>1, <1>2 DEF Fresh

LEMMA ScanFresh ==
  ASSUME SoundInv, Fresh, Scan
  PROVE  Fresh'
<1> USE DEF SoundInv
<1>1. /\ UNCHANGED <<disk, runtime, loaded, torn>> /\ job'.step = "extract"
      /\ job # Absent /\ job.step = "scan" /\ (boot' = "publish" => boot = "publish")
  BY ScanIs DEF Scan
<1>2. \A k \in DOMAIN job'.reused : job'.reused[k] \in Items(LoadChunks)
  BY ScanIs DEF Items
<1>3. ~Rewriting /\ ~Rewriting' /\ LoadChunks' = LoadChunks
  BY <1>1, SameReading DEF Rewriting, Steps
<1>4. Known' \subseteq Known
  BY <1>1, <1>2, <1>3 DEF Known, Items
<1> QED BY <1>1, <1>4, LearnsNothing DEF Steps

LEMMA ExtractFresh ==
  ASSUME SoundInv, Fresh, Extract
  PROVE  Fresh'
<1> USE DEF SoundInv
<1>1. /\ UNCHANGED <<runtime, boot, loaded, torn>>
      /\ job # Absent /\ job.step = "extract"
      /\ disk' = disk \/ disk' = EmptyDisk
  BY DEF Extract, bootVars, historyVars
<1>2. /\ job'.step = "manifest" /\ job'.chunks = Extracted
      /\ job.found \in Seq(Entry)
      /\ Fitting \in Nat /\ Fitting <= Len(job.found)
      /\ Extracted \in Seq(Chunk) /\ Len(Extracted) = Fitting
      /\ \A i \in 1 .. Fitting :
            /\ Extracted[i].path = job.found[i].path
            /\ \/ Extracted[i].text = TextOf(job.found[i].path)
               \/ \E j \in DOMAIN job.reused : Extracted[i] = job.reused[j]
  BY ExtractIs DEF Scanned
<1>3. Known' \subseteq Known
  <2>1. ~Rewriting /\ ~Rewriting'
    BY <1>1, <1>2 DEF Rewriting, Steps
  <2>2. LoadChunks' = LoadChunks \/ LoadChunks' = <<>>
    BY <1>1, SameReading, EmptyReading
  <2> QED BY <1>1, <1>2, <2>1, <2>2 DEF Known, Items
<1>4. Alike(Items(Extracted))
  <2> SUFFICES ASSUME NEW i \in 1 .. Fitting, NEW j \in 1 .. Fitting,
                      Extracted[i].path = Extracted[j].path
               PROVE  Extracted[i].text = Extracted[j].text
    BY <1>2 DEF Alike, Items
  <2>1. job.found[i].path = job.found[j].path
    BY <1>2
  <2>2. \A k \in 1 .. Fitting :
          Extracted[k] = IF job.found[k].path \in ToExtract
                         THEN [path |-> job.found[k].path, text |-> TextOf(job.found[k].path)]
                         ELSE ReusedOf(job.found[k].path)
    BY DEF Extracted
  <2> QED BY <2>1, <2>2
<1>5. ASSUME ~torn, NEW i \in DOMAIN Extracted
      PROVE  NotOlder(Known, Extracted[i])
  <2>1. i \in 1 .. Fitting /\ Extracted[i] \in Chunk
    BY <1>2
  <2>2. CASE Extracted[i].text = TextOf(job.found[i].path)
    BY <1>2, <1>5, <2>1, <2>2, CurrentNotOlder DEF Chunk
  <2>3. CASE \E j \in DOMAIN job.reused : Extracted[i] = job.reused[j]
    <3>1. Extracted[i] \in Known
      BY <1>1, <2>3 DEF Known, Items
    <3> QED BY <1>5, <3>1, KnownNotOlder DEF Fresh
  <2> QED BY <1>2, <2>1, <2>2, <2>3
<1>6. ~torn => Alike(Known')
  BY <1>3 DEF Fresh, Alike
<1>7. ~torn => \A doc \in Items(Extracted) : NotOlder(Known', doc)
  BY <1>3, <1>5 DEF NotOlder, Items
<1> QED BY <1>1, <1>2, <1>4, <1>6, <1>7 DEF Fresh

LEMMA CollectFresh ==
  ASSUME SoundInv, Fresh, Collect
  PROVE  Fresh'
<1> USE DEF SoundInv
<1>1. /\ job'.step = "manifest" /\ job'.chunks = runtime.chunks
      /\ writer = "compact"
  BY CollectTypes
<1>2. /\ UNCHANGED <<disk, runtime, boot, loaded, writer, torn>>
      /\ job # Absent /\ job.step = "collect"
  BY DEF Collect, bootVars, historyVars
<1>3. Known' = Known
  <2>1. ~Rewriting /\ ~Rewriting' /\ LoadChunks' = LoadChunks
    BY <1>1, <1>2, SameReading DEF Rewriting, Steps
  <2> QED BY <1>1, <1>2, <2>1 DEF Known
<1>4. Items(runtime.chunks) \subseteq Known
  BY DEF Known
<1>5. ~torn => \A doc \in Items(runtime.chunks) : NotOlder(Known, doc)
  BY <1>4, KnownNotOlder DEF Fresh
<1>6. Firm' => ~torn
  BY <1>1, <1>2 DEF Firm, Full
<1>7. ~torn => Alike(Items(runtime.chunks))
  BY <1>4 DEF Fresh, Alike
<1> QED BY <1>1, <1>2, <1>3, <1>5, <1>6, <1>7 DEF Fresh

LEMMA WriteLayoutFresh ==
  ASSUME SoundInv, Fresh, WriteLayout
  PROVE  Fresh'
<1> USE DEF SoundInv
<1>1. /\ job \in Writing /\ job # Absent /\ torn' = (torn \/ Early)
      /\ UNCHANGED <<runtime, writer, boot, loaded>>
  BY WriteLayoutIs DEF bootVars
<1>2. PICK next \in Steps : job' = [job EXCEPT !.step = next]
  BY WriteLayoutIs
<1>3. job'.chunks = job.chunks /\ job'.step \in Steps /\ job.step \in Steps
  BY <1>1, <1>2 DEF Writing, Steps
<1>4. Known' \subseteq Known
  <2>1. CASE WriteManifest
    <3>1. disk' = [disk EXCEPT !.manifest = [mode |-> job.mode, model |-> model]]
      BY <2>1 DEF WriteManifest, WriteFile
    <3>2. disk \in Files /\ job.step = "manifest"
      BY <2>1 DEF TypeInv, Stores, WriteManifest, WriteFile
    <3>3. LoadChunks' = LoadChunks /\ ~Rewriting
      BY <3>1, <3>2, SameReading DEF Files, Rewriting
    <3> QED BY <1>1, <1>3, <3>3 DEF Known, Steps
  <2>2. CASE ~WriteManifest
    <3>1. PICK step \in Steps \ {"manifest", "paths"} : job' = [job EXCEPT !.step = step]
      BY <2>2 DEF WriteLayout, WritePaths, WriteEntries, WriteDocs, WriteRows,
                  WriteLexical, WriteVectors, WriteFile, Steps
    <3>2. job'.step = step /\ job' # Absent
      <4>1. job' \in Writing
        BY <1>1, <1>2 DEF Writing, Steps
      <4> QED BY <1>1, <3>1, <4>1, AbsentAssumption DEF Writing
    <3>3. Rewriting'
      BY <3>2 DEF Rewriting
    <3> QED BY <1>1, <1>3, <3>3 DEF Known, Steps
  <2> QED BY <2>1, <2>2
<1>5. Firm' => Firm
  BY <1>1 DEF Firm, Full
<1>6. ~torn' => ~torn /\ Alike(Known')
  BY <1>1, <1>4 DEF Fresh, Alike
<1>7. ~torn' => \A doc \in Items(job.chunks) : NotOlder(Known', doc)
  BY <1>1, <1>3, <1>4 DEF Fresh, NotOlder
<1> QED BY <1>1, <1>3, <1>5, <1>6, <1>7 DEF Fresh

\* What has been published, or was left by a crash, is what one run wrote.
LEMMA WrittenAlike ==
  ASSUME SoundInv, Fresh, job # Absent, job.step = "publish", Firm
  PROVE  Alike(Items(job.chunks)) /\ Items(LoadChunks) \subseteq Items(job.chunks)
<1>1. LoadChunks \in {<<>>, job.chunks}
  BY ReadBack DEF SoundInv
<1> QED BY <1>1 DEF Fresh, Steps, Items

LEMMA PublishFresh ==
  ASSUME SoundInv, Fresh, Publish
  PROVE  Fresh'
<1> USE DEF SoundInv
<1>1. /\ job # Absent /\ job.step = "publish" /\ disk' = disk
      /\ runtime'.chunks = job.chunks /\ job' = Absent
      /\ torn' = (torn /\ (Early \/ ~Full))
      /\ boot' = "publish" => boot = "publish"
  BY PublishTypes DEF Publish, Finish
<1> SUFFICES ASSUME ~torn' PROVE Alike(Known')
  BY <1>1 DEF Fresh
<1>2. Firm /\ ~Early
  BY <1>1, NotBefore DEF Firm, Underway, Steps
<1>3. LoadChunks' = LoadChunks
  BY <1>1, SameReading
<1>4. Known' \subseteq Items(job.chunks)
  <2>1. Items(LoadChunks) \subseteq Items(job.chunks)
    BY <1>1, <1>2, WrittenAlike
  <2> QED BY <1>1, <1>2, <1>3, <2>1 DEF Known, Early
<1> QED BY <1>1, <1>2, <1>4, WrittenAlike DEF Alike

LEMMA CrashFresh ==
  ASSUME SoundInv, Fresh, Crash
  PROVE  Fresh'
<1> USE DEF SoundInv
<1>1. /\ disk' = disk /\ runtime' = EmptyRuntime /\ job' = Absent /\ boot' = "load"
      /\ torn' = (torn \/ HalfWritten)
  BY DEF Crash
<1> SUFFICES ASSUME ~torn' PROVE Alike(Known')
  BY <1>1 DEF Fresh
<1>2. Known' \subseteq Items(LoadChunks)
  BY <1>1, SameReading DEF Known, EmptyRuntime, Items
<1>3. CASE Rewriting
  <2>1. job # Absent /\ job.step = "publish" /\ Firm
    BY <1>1, <1>3 DEF Rewriting, HalfWritten, Steps, Firm
  <2> QED BY <1>2, <2>1, WrittenAlike DEF Alike
<1>4. CASE ~Rewriting
  <2>1. Known' \subseteq Known
    BY <1>2, <1>4 DEF Known
  <2> QED BY <1>1, <2>1 DEF Fresh, Alike
<1> QED BY <1>3, <1>4

LEMMA BootFresh ==
  ASSUME SoundInv, Fresh, Boot
  PROVE  Fresh'
<1> USE DEF SoundInv
<1>1. CASE BootLoad
  <2>1. /\ UNCHANGED <<disk, runtime, writer, job, torn>>
        /\ boot = "load" /\ boot' = "publish"
    BY <1>1 DEF BootLoad, lockVars, historyVars
  <2>2. LoadChunks' = LoadChunks /\ Rewriting' = Rewriting
    BY <2>1, SameReading DEF Rewriting
  <2>3. Items(loaded'.chunks) \subseteq Items(LoadChunks)
    <3>1. CASE NeedsFull
      BY <1>1, <3>1 DEF BootLoad, Items
    <3>2. CASE ~NeedsFull
      <4>1. loaded'.chunks = Pruned(LoadEntries, LoadChunks).chunks
        BY <1>1, <3>2 DEF BootLoad
      <4>2. \A i \in DOMAIN Pruned(LoadEntries, LoadChunks).chunks :
              \E j \in DOMAIN LoadChunks :
                 Pruned(LoadEntries, LoadChunks).chunks[i] = LoadChunks[j]
        BY PrunedType, LoadEntriesType, LoadChunksType DEF TypeInv, Places, Stores
      <4> QED BY <4>1, <4>2 DEF Items
    <3> QED BY <3>1, <3>2
  <2>4. ~torn => ~Rewriting
    BY <2>1 DEF Before, Early, Underway, Rewriting
  <2>5. ~torn => Known' \subseteq Known
    BY <2>1, <2>2, <2>3, <2>4 DEF Known
  <2>6. Firm' => Firm
    BY <2>1 DEF Firm, Full, TypeInv, Turns
  <2> QED BY <2>1, <2>5, <2>6, LearnsNothing
<1>2. CASE BootPublish
  <2>1. /\ UNCHANGED <<disk, writer, loaded, job, torn>>
        /\ boot = "publish" /\ boot' = "queued"
    BY <1>2 DEF BootPublish
  <2>2. LoadChunks' = LoadChunks /\ Rewriting' = Rewriting /\ Firm' = Firm
    BY <2>1, SameReading DEF Rewriting, Firm, Full
  <2>3. runtime' = runtime \/ runtime'.chunks = loaded.chunks
    BY <1>2, BootPublishIs DEF BootPublish
  <2>4. Known' \subseteq Known
    BY <2>1, <2>2, <2>3 DEF Known
  <2> QED BY <2>1, <2>2, <2>4, LearnsNothing
<1> QED BY <1>1, <1>2 DEF Boot

LEMMA UnchangedFresh ==
  ASSUME SoundInv, Fresh, Unchanged
  PROVE  Fresh'
<1> USE DEF SoundInv
<1>1. /\ UNCHANGED <<disk, torn>> /\ job # Absent /\ job.step = "extract"
      /\ job' = Absent
      /\ \/ runtime' = runtime
         \/ \A i \in DOMAIN runtime'.chunks : \E j \in DOMAIN job.reused :
              runtime'.chunks[i] = job.reused[j]
  BY UnchangedIs
<1>2. boot' = "publish" => boot = "publish" /\ loaded' = loaded
  BY DEF Unchanged, Finish
<1>3. LoadChunks' = LoadChunks /\ ~Rewriting
  BY <1>1, SameReading DEF Rewriting, Steps
<1>4. Items(runtime'.chunks) \subseteq Items(runtime.chunks) \cup Items(job.reused)
  BY <1>1 DEF Items
<1>5. Known' \subseteq Known
  BY <1>1, <1>2, <1>3, <1>4 DEF Known
<1> QED BY <1>1, <1>5, LearnsNothing

LEMMA NextFresh == SoundInv /\ Fresh /\ [Next]_vars => Fresh'
<1> SUFFICES ASSUME SoundInv, Fresh, [Next]_vars PROVE Fresh'
  OBVIOUS
<1> USE DEF SoundInv
<1>1. CASE Scan \/ Unchanged \/ Extract \/ Collect \/ WriteLayout \/ Publish \/ Crash
           \/ Boot
  BY <1>1, ScanFresh, UnchangedFresh, ExtractFresh, CollectFresh, WriteLayoutFresh,
     PublishFresh, CrashFresh, BootFresh
<1>2. CASE World \/ WatchChange \/ RequestDelta \/ RequestCompact \/ UNCHANGED vars
  <2>1. UNCHANGED <<disk, runtime, boot, loaded, writer, torn, job>>
    BY <1>2 DEF World, Install, Uninstall, MayChange, WatchChange, RequestDelta,
       RequestCompact, vars, bootVars, lockVars, historyVars
  <2>2. Known' = Known /\ Firm' = Firm
    BY <2>1, SameReading DEF Known, Rewriting, Firm, Full
  <2> QED BY <2>1, <2>2, LearnsNothing
<1>3. CASE RequestFull
  <2>1. UNCHANGED <<runtime, boot, loaded, writer, torn, job>> /\ disk' = EmptyDisk
    BY <1>3 DEF RequestFull, bootVars
  <2>2. Known' \subseteq Known /\ Firm' = Firm
    BY <2>1, EmptyReading DEF Known, Rewriting, Firm, Full, Items
  <2> QED BY <2>1, <2>2, LearnsNothing
<1>4. CASE BackgroundDelta \/ \E run \in Waiting : Acquire(run)
  <2>1. /\ UNCHANGED <<disk, runtime, boot, loaded, torn>> /\ writer = Nobody
        /\ job'.step \in {"scan", "collect"}
    BY <1>4 DEF BackgroundDelta, Acquire, bootVars, historyVars
  <2>2. job = Absent
    BY <2>1 DEF TypeInv, Running
  <2>3. ~Rewriting /\ ~Rewriting' /\ LoadChunks' = LoadChunks
    BY <2>1, <2>2, SameReading DEF Rewriting, Steps
  <2>4. Known' = Known
    BY <2>1, <2>2, <2>3 DEF Known
  <2> QED BY <2>1, <2>4, LearnsNothing DEF Steps
<1> QED BY <1>1, <1>2, <1>3, <1>4 DEF Next, Run, Client

Served == Items(runtime.chunks)

\* What a step must keep to when it changes what memory holds.
LEMMA PublishKeeps ==
  ASSUME TypeInv, TypeInv', UNCHANGED <<present, version>>,
         \/ torn
         \/ \A i \in DOMAIN runtime'.chunks :
              /\ runtime'.chunks[i].path \in Command
              /\ runtime'.chunks[i].text.path = runtime'.chunks[i].path
              /\ Past(version, runtime'.chunks[i].text)
              /\ NotOlder(Served, runtime'.chunks[i])
  PROVE  Promise!Publish
<1>1. (~torn)' \in BOOLEAN
  <2>1. torn' \in BOOLEAN
    BY DEF TypeInv, Flags
  <2> QED BY <2>1, Zenon
<1>2. \/ ~(~torn)
      \/ \A doc \in Served' : /\ doc.path \in Path \cup Virtual
                             /\ Promise!Genuine(doc) /\ Promise!NoOlder(doc)
  <2> SUFFICES ASSUME ~torn, NEW doc \in Served'
               PROVE  /\ doc.path \in Path \cup Virtual
                      /\ Promise!Genuine(doc) /\ Promise!NoOlder(doc)
    OBVIOUS
  <2>1. PICK i \in DOMAIN runtime'.chunks : doc = runtime'.chunks[i]
    BY DEF Served, Items
  <2>2. /\ doc.path \in Command /\ doc.text.path = doc.path
        /\ Past(version, doc.text) /\ NotOlder(Served, doc)
    BY <2>1
  <2>3. Promise!Genuine(doc)
    BY <2>2 DEF Promise!Genuine, Past, SigIn
  <2>4. Promise!NoOlder(doc)
    BY <2>2 DEF Promise!NoOlder, NotOlder, Promise!Stub, Stub, Served, Items
  <2> QED BY <2>2, <2>3, <2>4 DEF Command
<1> QED BY <1>1, <1>2 DEF Promise!Publish, Served, Items

LEMMA InitKeeps == Init => Promise!Init
BY DEF Init, Promise!Init, EmptyRuntime

LEMMA NextKeeps ==
  SoundInv /\ SoundInv' /\ Fresh /\ [Next]_vars => [Promise!Next]_(Promise!vars)
<1> SUFFICES ASSUME SoundInv, SoundInv', Fresh, [Next]_vars
             PROVE  Promise!Next \/ UNCHANGED Promise!vars
  BY DEF Promise!vars
<1> USE DEF SoundInv
<1>1. CASE World
  <2>1. UNCHANGED <<runtime, torn>>
    BY <1>1 DEF World, Install, Uninstall, MayChange
  <2>2. present' \in SUBSET Path
    BY DEF TypeInv, Places
  <2>3. \A p \in Path : version'[p] \in {version[p], version[p] + 1}
    <3>1. PICK p \in Changing : Install(p) \/ Uninstall(p)
      BY <1>1 DEF World
    <3> QED BY <3>1 DEF Install, Uninstall, TypeInv, Places
  <2> QED BY <2>1, <2>2, <2>3 DEF Promise!Next, Promise!Change
<1>2. CASE BootPublish
  <2>1. UNCHANGED <<present, version, torn>> /\ boot = "publish" /\ MemoryClean'
    BY <1>2 DEF BootPublish, worldVars, AllClean
  <2>2. CASE loaded.chunks = <<>>
    BY <1>2, <2>1, <2>2 DEF BootPublish, Promise!vars
  <2>3. CASE loaded.chunks # <<>>
    <3>1. runtime'.chunks = loaded.chunks
      BY <1>2, <2>3, BootPublishIs
    <3>2. ASSUME ~torn, NEW i \in DOMAIN loaded.chunks
          PROVE  NotOlder(Served, loaded.chunks[i])
      <4>1. loaded.chunks[i] \in Known /\ Served \subseteq Known
        BY <2>1 DEF Known, Served, Items
      <4>2. NotOlder(Known, loaded.chunks[i])
        BY <3>2, <4>1, KnownNotOlder DEF Fresh
      <4> QED BY <4>1, <4>2 DEF NotOlder
    <3>3. Promise!Publish
      BY <2>1, <3>1, <3>2, PublishKeeps DEF MemoryClean, Clean
    <3> QED BY <3>3 DEF Promise!Next
  <2> QED BY <2>2, <2>3
<1>3. CASE Unchanged
  <2>1. UNCHANGED <<present, version, torn>> /\ MemoryClean'
    BY <1>3, UnchangedIs DEF AllClean
  <2>2. CASE runtime' = runtime
    BY <2>1, <2>2 DEF Promise!vars
  <2>3. CASE runtime.chunks = <<>>
    <3>1. \A doc : NotOlder(Served, doc)
      BY <2>3 DEF NotOlder, Served, Items
    <3>2. Promise!Publish
      BY <2>1, <3>1, PublishKeeps DEF MemoryClean, Clean
    <3> QED BY <3>2 DEF Promise!Next
  <2> QED BY <1>3, <2>2, <2>3, UnchangedIs
<1>4. CASE Publish
  <2>1. UNCHANGED <<present, version>> /\ job.step = "publish" /\ job # Absent
    BY <1>4 DEF Publish, worldVars
  <2>2. runtime'.chunks = job.chunks /\ MemoryClean' /\ (~torn => ~torn')
    BY <1>4, PublishTypes DEF AllClean, Publish
  <2>3. ~torn => \A i \in DOMAIN job.chunks : NotOlder(Served, job.chunks[i])
    <3>1. Served \subseteq Known
      BY DEF Known, Served
    <3> QED BY <2>1, <3>1 DEF Fresh, Steps, NotOlder, Items
  <2>4. Promise!Publish
    BY <2>1, <2>2, <2>3, PublishKeeps DEF MemoryClean, Clean
  <2> QED BY <2>4 DEF Promise!Next
<1>5. CASE Crash
  <2>1. UNCHANGED <<present, version>> /\ runtime'.chunks = <<>>
    BY <1>5 DEF Crash, worldVars, EmptyRuntime
  <2>2. (~torn)' \in BOOLEAN
    <3>1. torn' \in BOOLEAN
      BY DEF TypeInv, Flags
    <3> QED BY <3>1, Zenon
  <2>3. Promise!Lose
    BY <2>1, <2>2 DEF Promise!Lose
  <2> QED BY <2>3 DEF Promise!Next
<1>6. CASE WriteLayout
  <2>1. UNCHANGED <<present, version, runtime>>
    BY <1>6, WriteLayoutIs DEF worldVars
  <2>2. CASE torn' = torn
    BY <2>1, <2>2 DEF Promise!vars
  <2>3. CASE torn' # torn
    <3>1. ASSUME ~torn, NEW i \in DOMAIN runtime.chunks
          PROVE  NotOlder(Served, runtime.chunks[i])
      <4>1. runtime.chunks[i] \in Known /\ Served \subseteq Known
        BY DEF Known, Served, Items
      <4>2. NotOlder(Known, runtime.chunks[i])
        BY <3>1, <4>1, KnownNotOlder DEF Fresh
      <4> QED BY <4>1, <4>2 DEF NotOlder
    <3>2. ~torn => MemoryClean
      BY DEF AllClean
    <3>3. Promise!Publish
      BY <2>1, <3>1, <3>2, PublishKeeps DEF MemoryClean, Clean
    <3> QED BY <3>3 DEF Promise!Next
  <2> QED BY <2>2, <2>3
<1>7. CASE \/ BootLoad \/ WatchChange \/ Client \/ Scan \/ Extract \/ Collect
           \/ UNCHANGED vars
           \/ \E run \in Waiting : Acquire(run)
  <2>1. UNCHANGED <<present, version, runtime, torn>>
    BY <1>7
    DEF BootLoad, WatchChange, Client, BackgroundDelta, RequestDelta, RequestCompact,
        RequestFull, Scan, Extract, Collect, vars, Acquire, worldVars, historyVars
  <2> QED BY <2>1 DEF Promise!vars
<1> QED BY <1>1, <1>2, <1>3, <1>4, <1>5, <1>6, <1>7 DEF Next, Boot, Run

\* The index implements IndexPromise: what process_retrieve and the prompts are
\* given from memory is a command's own documentation, and never an older one
\* than before, until the process ends, whatever clients ask for and when.  Every
\* run, start and crash is a step of the promise or none.  While torn is set - by
\* a crash between two files, or a run that wrote before the bootstrap had
\* published - the promise is suspended, and a full reindex restores it.
THEOREM IndexKeepsPromise == Spec => KeepsPromise
<1>1. Init => SoundInv /\ Fresh
  <2>1. Init => LoadChunks = <<>>
    BY DEF Init, EmptyDisk, LoadChunks
  <2> QED BY <2>1, InitSound DEF Init, Fresh, Known, Items, Alike, EmptyRuntime
<1>2. SoundInv /\ Fresh /\ [Next]_vars => (SoundInv /\ Fresh)'
  BY NextSound, NextFresh
<1>3. SoundInv /\ SoundInv' /\ Fresh /\ [Next]_vars => [Promise!Next]_(Promise!vars)
  BY NextKeeps
<1>4. Init => Promise!Init
  BY InitKeeps
<1> QED BY <1>1, <1>2, <1>3, <1>4, PTL DEF Spec, KeepsPromise, Promise!Spec
-----------------------------------------------------------------------------
(* Positions *)

(***************************************************************************)
(* The files fit together, position by position (FilesFit).  Memory fits   *)
(* as well, but for what the start has dropped from the chunks alone       *)
(* (MemoryFits): executables that have gone since, and then the            *)
(* bootstrap's run has something to write (Due), or built-ins, which no    *)
(* scan misses (pruned).                                                   *)
(***************************************************************************)

LEMMA AtAll ==
  ASSUME NEW T, NEW s \in Seq(T), NEW I, DOMAIN s \subseteq I
  PROVE  At(s, I) = s
<1>1. <<>> \in Seq(T) /\ s \o <<>> = s
  OBVIOUS
<1>2. \A i \in DOMAIN (s \o <<>>) : i \in I <=> i <= Len(s)
  BY <1>1
<1> QED BY <1>1, <1>2, AtPrefix

LEMMA TextsAppend ==
  ASSUME NEW T, NEW s \in Seq(T), NEW x \in T
  PROVE  Texts(Append(s, x)) = Append(Texts(s), x.text)
<1> DEFINE U == {s[i].text : i \in DOMAIN s} \cup {x.text}
<1>1. Len(s) \in Nat /\ DOMAIN s = 1 .. Len(s)
  OBVIOUS
<1>2. Texts(s) \in Seq(U) /\ Len(Texts(s)) = Len(s)
  BY <1>1 DEF Texts
<1>3. Texts(Append(s, x)) \in Seq(U) /\ Len(Texts(Append(s, x))) = Len(s) + 1
  <2>1. /\ DOMAIN Append(s, x) = 1 .. (Len(s) + 1)
        /\ \A i \in 1 .. (Len(s) + 1) :
             Append(s, x)[i] = IF i <= Len(s) THEN s[i] ELSE x
    BY <1>1
  <2>2. \A i \in 1 .. (Len(s) + 1) : Append(s, x)[i].text \in U
    BY <1>1, <2>1
  <2> HIDE DEF U
  <2> QED BY <1>1, <2>1, <2>2 DEF Texts
<1>4. x.text \in U
  OBVIOUS
<1>5. ASSUME NEW i \in 1 .. (Len(s) + 1)
      PROVE  Texts(Append(s, x))[i] = Append(Texts(s), x.text)[i]
  <2>1. Texts(Append(s, x))[i] = Append(s, x)[i].text
    BY <1>1 DEF Texts
  <2>2. CASE i <= Len(s)
    <3>1. Append(s, x)[i] = s[i] /\ i \in DOMAIN s
      BY <1>1, <2>2
    <3>2. Texts(s)[i] = s[i].text
      BY <3>1 DEF Texts
    <3>3. Append(Texts(s), x.text)[i] = Texts(s)[i]
      <4> HIDE DEF U
      <4> QED BY <1>1, <1>2, <2>2
    <3> QED BY <2>1, <3>1, <3>2, <3>3
  <2>3. CASE i = Len(s) + 1
    <3>1. Append(s, x)[i] = x
      BY <1>1, <2>3
    <3>2. Append(Texts(s), x.text)[i] = x.text
      <4> HIDE DEF U
      <4> QED BY <1>1, <1>2, <1>4, <2>3
    <3> QED BY <2>1, <3>1, <3>2
  <2>4. i <= Len(s) \/ i = Len(s) + 1
    BY <1>1
  <2> QED BY <2>2, <2>3, <2>4
<1> HIDE DEF U
<1>6. Append(Texts(s), x.text) \in Seq(U) /\ Len(Append(Texts(s), x.text)) = Len(s) + 1
  BY <1>1, <1>2, <1>4
<1> QED BY <1>1, <1>3, <1>5, <1>6

\* The texts of a selection are the selection of the texts.
LEMMA AtTexts ==
  ASSUME NEW T, NEW s \in Seq(T), NEW I
  PROVE  Texts(At(s, I)) = At(Texts(s), I)
<1> DEFINE U == {s[i].text : i \in DOMAIN s}
<1>0. Len(s) \in Nat /\ DOMAIN s = 1 .. Len(s)
  OBVIOUS
<1>1. PICK u : Unfolds(u, s, I, Len(s)) /\ At(s, I) = u[Len(s)]
  BY AtUnfolds
<1>2. Texts(s) \in Seq(U) /\ Len(Texts(s)) = Len(s)
  BY <1>0 DEF Texts
<1> HIDE DEF U
<1>3. PICK w : Unfolds(w, Texts(s), I, Len(s)) /\ At(Texts(s), I) = w[Len(s)]
  BY <1>2, AtUnfolds
<1> DEFINE B == {n \in 0 .. Len(s) : ~ (u[n] \in Seq(T) /\ w[n] = Texts(u[n]))}
<1>4. SUFFICES ASSUME B # {} PROVE FALSE
  <2>1. Len(s) \in 0 .. Len(s)
    BY <1>0
  <2> QED BY <1>1, <1>3, <2>1
<1>5. B \in SUBSET Nat
  OBVIOUS
<1> HIDE DEF B
<1>6. PICK n \in B : \A m \in B : n <= m
  BY <1>4, <1>5, Least1
<1>7. n \in 0 .. Len(s) /\ ~ (u[n] \in Seq(T) /\ w[n] = Texts(u[n]))
  BY DEF B
<1>8. n # 0
  <2>1. u[0] = <<>> /\ w[0] = <<>>
    BY <1>1, <1>3 DEF Unfolds
  <2>2. <<>> \in Seq(T) /\ Texts(<<>>) = <<>>
    BY DEF Texts
  <2> QED BY <1>7, <2>1, <2>2
<1>9. n \in 1 .. Len(s) /\ n - 1 \in 0 .. Len(s) /\ n - 1 \notin B
  BY <1>6, <1>7, <1>8
<1>10. u[n - 1] \in Seq(T) /\ w[n - 1] = Texts(u[n - 1])
  BY <1>9 DEF B
<1>11. /\ u[n] = IF n \in I THEN Append(u[n - 1], s[n]) ELSE u[n - 1]
       /\ w[n] = IF n \in I THEN Append(w[n - 1], Texts(s)[n]) ELSE w[n - 1]
  BY <1>1, <1>3, <1>9 DEF Unfolds
<1>12. s[n] \in T /\ Texts(s)[n] = s[n].text
  BY <1>0, <1>9 DEF Texts
<1>13. u[n] \in Seq(T)
  BY <1>10, <1>11, <1>12
<1>14. w[n] = Texts(u[n])
  <2>1. CASE n \in I
    <3>1. Texts(Append(u[n - 1], s[n])) = Append(Texts(u[n - 1]), s[n].text)
      BY <1>10, <1>12, TextsAppend
    <3> QED BY <1>10, <1>11, <1>12, <2>1, <3>1
  <2>2. CASE n \notin I
    BY <1>10, <1>11, <2>2
  <2> QED BY <2>1, <2>2
<1> QED BY <1>7, <1>13, <1>14

\* A lexical index and vectors that belong to some chunks, position by position,
\* and those that belong to them once the lost commands are left out.
Fits(lexical, vectors, chunks) ==
  /\ lexical = Texts(chunks)
  /\ vectors # Absent => Texts(vectors) = lexical
FitsBut(lost, lexical, vectors, chunks) ==
  /\ Texts(chunks) = At(lexical, {i \in DOMAIN lexical : lexical[i].path \notin lost})
  /\ vectors # Absent => Texts(vectors) = lexical
ByModel(vectors, m) == vectors # Absent => \A i \in DOMAIN vectors : vectors[i].model = m

\* Every text names the command that it is the text of.
Told(chunks) == \A i \in DOMAIN chunks : chunks[i].text.path = chunks[i].path

LEMMA CleanTold ==
  ASSUME NEW here, NEW ver, NEW entries, NEW chunks, Clean(here, ver, entries, chunks)
  PROVE  Told(chunks)
BY DEF Clean, Told

LEMMA FitsSome ==
  ASSUME NEW T, NEW chunks \in Seq(T), Told(chunks), NEW lexical, NEW vectors,
         Fits(lexical, vectors, chunks), NEW lost
  PROVE  FitsBut(lost, lexical, vectors,
                 At(chunks, {i \in DOMAIN chunks : chunks[i].path \notin lost}))
<1> DEFINE I == {i \in DOMAIN chunks : chunks[i].path \notin lost}
           J == {i \in DOMAIN lexical : lexical[i].path \notin lost}
<1>1. lexical = Texts(chunks) /\ (vectors # Absent => Texts(vectors) = lexical)
  BY DEF Fits
<1>2. DOMAIN lexical = DOMAIN chunks /\ \A i \in DOMAIN chunks : lexical[i] = chunks[i].text
  BY <1>1 DEF Texts
<1>3. I = J
  BY <1>2 DEF Told
<1>4. Texts(At(chunks, I)) = At(lexical, I)
  <2> HIDE DEF I
  <2> QED BY <1>1, AtTexts
<1> QED BY <1>1, <1>3, <1>4 DEF FitsBut

LEMMA FitsAll ==
  ASSUME NEW T, NEW chunks \in Seq(T), Told(chunks), NEW lexical, NEW vectors,
         Fits(lexical, vectors, chunks), NEW lost, PathsOf(chunks) \cap lost = {}
  PROVE  FitsBut(lost, lexical, vectors, chunks)
<1> DEFINE I == {i \in DOMAIN chunks : chunks[i].path \notin lost}
<1>1. DOMAIN chunks \subseteq I
  BY DEF PathsOf
<1>2. At(chunks, I) = chunks
  <2> HIDE DEF I
  <2> QED BY <1>1, AtAll
<1>3. FitsBut(lost, lexical, vectors, At(chunks, I))
  BY FitsSome
<1> HIDE DEF I
<1> QED BY <1>2, <1>3

\* A command that the files know and that has gone, or has been replaced since:
\* no scan will find it as it was.
Outdated(p) ==
  /\ p \in PathsOf(LoadEntries)
  /\ \/ p \notin present
     \/ \A e \in DOMAIN LoadEntries :
          LoadEntries[e].path = p => LoadEntries[e].sig.version < version[p]
Dropped == \E p \in Path : Outdated(p)

\* The run that comes next, or is under way, has something to write.
Due ==
  /\ job = Absent \/ job.step \in {"scan", "collect"} => Dropped
  /\ job # Absent /\ job.step = "extract" => ~Nothing \/ (writer # "boot" /\ Dropped)

Remade == loaded # Absent /\ loaded.full
Filling == "full" \in queue \cup {writer}

\* What the start leaves of the files: the built-ins' paths do not exist.
Lasting == At(LoadChunks, {i \in DOMAIN LoadChunks : LoadChunks[i].path \notin Virtual})

ManifestWritten ==
  job # Absent /\ job.step \in Steps \ {"manifest"} =>
    disk.manifest \in {Absent, [mode |-> job.mode, model |-> model]}
ManifestNamed ==
  boot # "load" /\ ~Remade => disk.manifest = Absent \/ disk.manifest.model = model
LexicalWritten ==
  job # Absent /\ job.step \in {"vectors", "publish"} /\ disk.lexical = Absent =>
    disk.rows = Absent
FilesFit ==
  ~torn /\ ~Rewriting /\ LoadChunks # <<>> =>
    disk.lexical # Absent /\ Fits(disk.lexical, disk.vectors, LoadChunks)
FilesNamed ==
  /\ ~renamed /\ ~Rewriting /\ (job # Absent => job.step # "paths")
  /\ disk.manifest # Absent
  => ByModel(disk.vectors, disk.manifest.model)
LoadedFits ==
  boot = "publish" =>
    /\ loaded.full => loaded.chunks = <<>>
    /\ ~torn /\ ~loaded.full => disk.manifest # Absent \/ disk.vectors = Absent
    /\ ~torn /\ ~Filling /\ ~loaded.full => loaded.chunks = Lasting \/ Dropped

\* Memory is in step with itself but for the built-ins that a start has dropped,
\* unless the bootstrap's run is still to come and will write everything anew.
MemoryFits ==
  ~torn /\ ~Filling /\ ~reordered =>
    \/ FitsBut(pruned, runtime.lexical, runtime.vectors, runtime.chunks)
    \/ boot \in {"queued", "indexing"} /\ (loaded.full \/ Due)
MemoryNamed ==
  ~torn /\ ~renamed =>
    /\ boot # "load" /\ ~Remade => ByModel(runtime.vectors, model)
    /\ boot = "load" => \/ disk.manifest = Absent
                        \/ ByModel(runtime.vectors, disk.manifest.model)

PlaceInv ==
  /\ ManifestWritten /\ ManifestNamed /\ LexicalWritten /\ FilesFit /\ FilesNamed
  /\ LoadedFits /\ MemoryFits /\ MemoryNamed

LEMMA EmptyFits ==
  /\ FitsBut({}, <<>>, Absent, <<>>)
  /\ \A m : ByModel(Absent, m)
<1>1. Texts(<<>>) = <<>>
  BY DEF Texts
<1>2. Fits(<<>>, Absent, <<>>) /\ Told(<<>>)
  BY <1>1 DEF Fits, Told
<1>3. <<>> \in Seq({}) /\ PathsOf(<<>>) \cap {} = {}
  OBVIOUS
<1>4. FitsBut({}, <<>>, Absent, <<>>)
  BY <1>2, <1>3, FitsAll
<1> QED BY <1>4 DEF ByModel

LEMMA InitPlace == Init => PlaceInv
<1> SUFFICES ASSUME Init PROVE PlaceInv
  OBVIOUS
<1>1. /\ job = Absent /\ boot = "load" /\ disk = EmptyDisk /\ runtime = EmptyRuntime
      /\ pruned = {}
  BY DEF Init
<1>2. LoadChunks = <<>>
  BY <1>1 DEF LoadChunks, LoadEntries, EmptyDisk
<1>3. /\ ManifestWritten /\ ManifestNamed /\ LexicalWritten /\ FilesFit
      /\ FilesNamed /\ LoadedFits
  BY <1>1, <1>2
  DEF ManifestWritten, ManifestNamed, LexicalWritten, FilesFit, FilesNamed, LoadedFits, EmptyDisk
<1>4. MemoryFits /\ MemoryNamed
  BY <1>1, EmptyFits DEF MemoryFits, MemoryNamed, EmptyRuntime
<1> QED BY <1>3, <1>4 DEF PlaceInv

\* Nothing is being written over while the bootstrap reads, if nothing is torn.
LEMMA EarlyStill ==
  ASSUME Before, Early, ~torn
  PROVE  ~Underway /\ ~Rewriting /\ (job # Absent => job.step # "paths")
BY DEF Before, Underway, Rewriting, Steps

\* Where the files, the memory and the bootstrap are left alone.
LEMMA StandStill ==
  ASSUME SoundInv, PlaceInv,
         UNCHANGED <<disk, runtime, model, boot, loaded, torn, renamed, pruned,
                     reordered>>,
         \/ job' = job /\ writer' = writer
         \/ job = Absent /\ job' # Absent /\ job'.step \in {"scan", "collect"},
         Filling => Filling',
         ~torn /\ ~Rewriting /\ Dropped => Dropped'
  PROVE  PlaceInv'
<1> USE DEF PlaceInv
<1>1. LoadEntries' = LoadEntries /\ LoadChunks' = LoadChunks
  BY SameReading
<1>2. Rewriting' <=> Rewriting
  BY DEF Rewriting, Steps
<1>3. ~torn /\ Due => Due'
  BY DEF Due, Nothing, ToExtract, Full, Rewriting, Steps
<1>4. (Remade' <=> Remade) /\ Lasting' = Lasting
  BY <1>1 DEF Remade, Lasting
<1>5. ManifestWritten' /\ ManifestNamed' /\ LexicalWritten'
  BY <1>4 DEF ManifestWritten, ManifestNamed, LexicalWritten, Steps
<1>6. FilesFit'
  BY <1>1, <1>2 DEF FilesFit
<1>7. FilesNamed'
  BY <1>2 DEF FilesNamed
<1>8. LoadedFits'
  <2>1. boot = "publish" /\ ~torn => ~Rewriting
    BY EarlyStill DEF SoundInv, Early
  <2> QED BY <1>4, <2>1 DEF LoadedFits
<1>9. MemoryFits'
  BY <1>3 DEF MemoryFits
<1>10. MemoryNamed'
  BY <1>4 DEF MemoryNamed
<1> QED BY <1>5, <1>6, <1>7, <1>8, <1>9, <1>10

LEMMA WorldDropped ==
  ASSUME SoundInv, World, ~torn, ~Rewriting, Dropped
  PROVE  Dropped'
<1> USE DEF SoundInv
<1>1. PICK p \in Path : Outdated(p)
  BY DEF Dropped
<1>2. PICK q \in Changing : Install(q) \/ Uninstall(q)
  BY DEF World
<1>3. disk' = disk
  BY <1>2 DEF Install, Uninstall, MayChange
<1>4. LoadEntries' = LoadEntries
  BY <1>3, SameReading
<1>5. ASSUME NEW e \in DOMAIN LoadEntries, LoadEntries[e].path = p
      PROVE  LoadEntries[e].sig.version \in Nat /\ LoadEntries[e].sig.version <= version[p]
  <2>1. Clean(present, version, LoadEntries, LoadChunks)
    BY DEF AllClean, DiskClean
  <2>2. /\ LoadEntries[e].sig \in Text /\ LoadEntries[e].sig.path = p
        /\ Past(version, LoadEntries[e].sig)
    BY <1>5, <2>1 DEF Clean
  <2> QED BY <2>2 DEF Past, SigIn, Text
<1>6. version[p] \in Nat
  BY IndexAssumption DEF TypeInv, Places
<1>7. CASE Install(q) /\ q = p
  <2>1. version'[p] = version[p] + 1
    BY <1>7 DEF Install, TypeInv, Places
  <2>2. \A e \in DOMAIN LoadEntries :
          LoadEntries[e].path = p => LoadEntries[e].sig.version < version'[p]
    BY <1>5, <1>6, <2>1
  <2> QED BY <1>1, <1>4, <2>2 DEF Dropped, Outdated
<1>8. CASE Uninstall(q) \/ q # p
  <2>1. version'[p] = version[p] /\ (p \in present' => p \in present)
    BY <1>2, <1>8 DEF Install, Uninstall, TypeInv, Places
  <2> QED BY <1>1, <1>4, <2>1 DEF Dropped, Outdated
<1> QED BY <1>2, <1>7, <1>8

\* Commands come and go, a run is asked for or begins.
Beginning ==
  \/ World \/ WatchChange \/ BackgroundDelta \/ RequestDelta \/ RequestCompact
  \/ UNCHANGED vars \/ \E run \in Waiting : Acquire(run)

LEMMA BeginningIs ==
  ASSUME SoundInv, Beginning
  PROVE  /\ UNCHANGED <<disk, runtime, model, boot, loaded, torn, renamed, pruned,
                         reordered>>
         /\ \/ job' = job /\ writer' = writer
            \/ job = Absent /\ job' # Absent /\ job'.step \in {"scan", "collect"}
         /\ Filling => Filling'
         /\ ~torn /\ ~Rewriting /\ Dropped => Dropped'
<1> USE DEF SoundInv, Beginning
<1>1. UNCHANGED <<disk, runtime, model, boot, loaded, torn, renamed, pruned,
                  reordered>>
  BY DEF World, Install, Uninstall, MayChange, WatchChange, BackgroundDelta,
     RequestDelta, RequestCompact, vars, Acquire, bootVars, historyVars
<1>2. \/ job' = job /\ writer' = writer
      \/ job = Absent /\ job' # Absent /\ job'.step \in {"scan", "collect"}
  <2>1. CASE World \/ WatchChange \/ RequestDelta \/ RequestCompact \/ UNCHANGED vars
    BY <2>1 DEF World, Install, Uninstall, MayChange, WatchChange, RequestDelta,
       RequestCompact, vars, lockVars
  <2>2. CASE BackgroundDelta \/ \E run \in Waiting : Acquire(run)
    <3>1. writer = Nobody /\ job'.step \in {"scan", "collect"}
      BY <2>2 DEF BackgroundDelta, Acquire
    <3>2. job' \in Starting
      BY <2>2 DEF BackgroundDelta, Acquire, Starting
    <3> QED BY <3>1, <3>2, AbsentAssumption DEF TypeInv, Running
  <2> QED BY <2>1, <2>2
<1>3. Filling => Filling'
  BY DEF Filling, World, Install, Uninstall, MayChange, WatchChange, BackgroundDelta,
     RequestDelta, RequestCompact, vars, Acquire, lockVars, Queue, Nobody
<1>4. ~torn /\ ~Rewriting /\ Dropped => Dropped'
  <2>1. CASE World
    BY <2>1, WorldDropped
  <2>2. CASE ~World
    <3>1. UNCHANGED <<present, version>>
      BY <2>2 DEF WatchChange, BackgroundDelta, RequestDelta, RequestCompact, vars,
         Acquire, worldVars
    <3>2. LoadEntries' = LoadEntries
      BY <1>1, SameReading
    <3> QED BY <3>1, <3>2 DEF Dropped, Outdated
  <2> QED BY <2>1, <2>2
<1> QED BY <1>1, <1>2, <1>3, <1>4

LEMMA StartPlace ==
  ASSUME SoundInv, PlaceInv, Beginning
  PROVE  PlaceInv'
BY BeginningIs, StandStill

LEMMA RequestFullPlace ==
  ASSUME SoundInv, PlaceInv, RequestFull
  PROVE  PlaceInv'
<1> USE DEF SoundInv, PlaceInv
<1>1. /\ UNCHANGED <<present, version, runtime, model, boot, loaded, writer, job,
                     torn, renamed, pruned, reordered>>
      /\ disk' = EmptyDisk /\ Filling'
  BY DEF RequestFull, Queue, Filling, worldVars, bootVars
<1>2. LoadChunks' = <<>>
  BY <1>1, EmptyReading
<1>3. disk'.manifest = Absent /\ disk'.vectors = Absent /\ disk'.rows = Absent
  BY <1>1 DEF EmptyDisk
<1>4. ManifestWritten' /\ ManifestNamed' /\ LexicalWritten' /\ FilesFit' /\ FilesNamed'
  BY <1>2, <1>3
  DEF ManifestWritten, ManifestNamed, LexicalWritten, FilesFit, FilesNamed
<1>5. LoadedFits'
  BY <1>1, <1>3 DEF LoadedFits
<1>6. MemoryFits'
  BY <1>1 DEF MemoryFits
<1>7. MemoryNamed'
  BY <1>1, <1>3 DEF MemoryNamed, Remade
<1> QED BY <1>4, <1>5, <1>6, <1>7

\* A document is dropped at a start because its command has gone, or is built in.
LEMMA PrunedAll ==
  ASSUME TypeInv, Clean(present, version, LoadEntries, LoadChunks), ~Dropped
  PROVE  Pruned(LoadEntries, LoadChunks).chunks = Lasting
<1> DEFINE keep == {i \in DOMAIN LoadEntries : LoadEntries[i].path \in present}
           kept == At(LoadEntries, keep)
           live == IF kept = <<>> THEN present ELSE PathsOf(kept)
           I == {i \in DOMAIN LoadChunks : LoadChunks[i].path \in live}
           J == {i \in DOMAIN LoadChunks : LoadChunks[i].path \notin Virtual}
<1>1. LoadEntries \in Seq(Read)
  BY LoadEntriesType DEF TypeInv, Stores
<1>2. \A e \in DOMAIN LoadEntries :
        LoadEntries[e].path \in Path => LoadEntries[e].path \in present
  BY DEF Dropped, Outdated, PathsOf
<1>3. ASSUME NEW p \in PathsOf(LoadEntries), p \in present
      PROVE  p \in PathsOf(kept)
  <2>1. PICK e \in DOMAIN LoadEntries : LoadEntries[e].path = p
    BY DEF PathsOf
  <2>2. e \in keep
    BY <1>3, <2>1
  <2>3. PICK k \in DOMAIN kept : kept[k] = LoadEntries[e]
    <3> HIDE DEF keep
    <3> QED BY <1>1, <2>1, <2>2, AtHolds
  <2> HIDE DEF kept
  <2> QED BY <2>1, <2>3 DEF PathsOf
<1>4. live \subseteq present
  <2>1. ASSUME NEW k \in DOMAIN kept PROVE kept[k].path \in present
    <3>1. PICK e \in DOMAIN LoadEntries : e \in keep /\ kept[k] = LoadEntries[e]
      <4> HIDE DEF keep
      <4> QED BY <1>1, <2>1, AtItems
    <3> HIDE DEF kept
    <3> QED BY <3>1
  <2> HIDE DEF kept
  <2> QED BY <2>1 DEF PathsOf
<1>5. ASSUME NEW i \in DOMAIN LoadChunks
      PROVE  i \in I <=> i \in J
  <2>1. PICK e \in DOMAIN LoadEntries : LoadChunks[i].path = LoadEntries[e].path
    BY DEF LoadChunks
  <2>2. LoadChunks[i].path \in Command
    BY <2>1 DEF Clean
  <2>3. CASE LoadChunks[i].path \in Virtual
    <3>1. LoadChunks[i].path \notin present
      BY <2>3, IndexAssumption DEF TypeInv, Places
    <3> HIDE DEF live
    <3> QED BY <1>4, <2>3, <3>1
  <2>4. CASE LoadChunks[i].path \notin Virtual
    <3>1. LoadChunks[i].path \in present
      BY <1>2, <2>1, <2>2, <2>4 DEF Command
    <3>2. LoadChunks[i].path \in PathsOf(LoadEntries)
      BY <2>1 DEF PathsOf
    <3>3. LoadChunks[i].path \in PathsOf(kept)
      BY <1>3, <3>1, <3>2
    <3>4. LoadChunks[i].path \in live
      <4> HIDE DEF kept
      <4> QED BY <3>1, <3>3
    <3> HIDE DEF live
    <3> QED BY <2>4, <3>4
  <2> QED BY <2>3, <2>4
<1>6. I = J
  BY <1>5
<1>7. Pruned(LoadEntries, LoadChunks).chunks = At(LoadChunks, I)
  BY DEF Pruned
<1> HIDE DEF I
<1> QED BY <1>6, <1>7 DEF Lasting

LEMMA BootLoadPlace ==
  ASSUME SoundInv, PlaceInv, BootLoad
  PROVE  PlaceInv'
<1> USE DEF SoundInv, PlaceInv
<1>1. /\ UNCHANGED <<present, version, disk, runtime, model, writer, job, queue,
                     torn, renamed, pruned, reordered>>
      /\ boot = "load" /\ boot' = "publish"
  BY DEF BootLoad, worldVars, lockVars, historyVars
<1>2. ~torn => ~Rewriting
  BY <1>1, EarlyStill DEF Early
<1>3. LoadEntries' = LoadEntries /\ LoadChunks' = LoadChunks
  BY <1>1, SameReading
<1>4. loaded' # Absent
  BY <1>1, BootLoadTypes DEF TypeInv, Booting
<1>5. \/ loaded'.full /\ loaded'.chunks = <<>>
      \/ /\ ~loaded'.full
         /\ loaded'.chunks = Pruned(LoadEntries, LoadChunks).chunks
         /\ disk.manifest # Absent /\ disk.manifest.model = model
  BY DEF BootLoad, NeedsFull
<1>6. ManifestWritten' /\ LexicalWritten' /\ FilesFit' /\ FilesNamed'
  BY <1>1, <1>3
  DEF ManifestWritten, LexicalWritten, FilesFit, FilesNamed, Rewriting
<1>7. ManifestNamed'
  BY <1>1, <1>4, <1>5 DEF ManifestNamed, Remade
<1>8. LoadedFits'
  <2>1. ASSUME ~torn, ~loaded'.full
        PROVE  loaded'.chunks = Lasting \/ Dropped
    <3>1. Clean(present, version, LoadEntries, LoadChunks)
      BY <1>2, <2>1 DEF AllClean, DiskClean
    <3> QED BY <1>5, <2>1, <3>1, PrunedAll
  <2>2. Lasting' = Lasting /\ (Dropped' <=> Dropped)
    BY <1>1, <1>3 DEF Lasting, Dropped, Outdated
  <2> QED BY <1>1, <1>5, <2>1, <2>2 DEF LoadedFits
<1>9. MemoryFits'
  BY <1>1 DEF MemoryFits, Filling
<1>10. MemoryNamed'
  <2>1. ~Remade' => disk.manifest # Absent /\ disk.manifest.model = model
    BY <1>4, <1>5 DEF Remade
  <2> QED BY <1>1, <2>1 DEF MemoryNamed
<1> QED BY <1>6, <1>7, <1>8, <1>9, <1>10

\* What a retriever is built from.
LEMMA RetrieverIs ==
  ASSUME NEW chunks, NEW binaries, NEW mode
  PROVE  LET r == Retriever(chunks, binaries, mode) IN
         /\ r.chunks = chunks
         /\ r.lexical = IF disk.lexical = Absent THEN Texts(chunks) ELSE disk.lexical
         /\ r.vectors \in {Absent, disk.vectors}
         /\ r.vectors # Absent => mode = "provider"
BY DEF Retriever

\* What is read back from the files is told, and its paths are of commands.
LEMMA ReadTold ==
  ASSUME SoundInv, ~torn, ~Rewriting
  PROVE  LoadChunks \in Seq(ReadChunk) /\ Told(LoadChunks)
<1>1. LoadChunks \in Seq(ReadChunk)
  BY LoadChunksType DEF SoundInv, TypeInv, Stores
<1>2. Clean(present, version, LoadEntries, LoadChunks)
  BY DEF SoundInv, AllClean, DiskClean
<1> QED BY <1>1, <1>2, CleanTold

\* The start drops the built-ins that the files hold, and nothing else of them.
LEMMA LastingFits ==
  ASSUME SoundInv, ~torn, ~Rewriting, NEW lexical, NEW vectors,
         Fits(lexical, vectors, LoadChunks)
  PROVE  FitsBut(Virtual \cap PathsOf(LoadChunks), lexical, vectors, Lasting)
<1> DEFINE lost == Virtual \cap PathsOf(LoadChunks)
           I == {i \in DOMAIN LoadChunks : LoadChunks[i].path \notin Virtual}
           J == {i \in DOMAIN LoadChunks : LoadChunks[i].path \notin lost}
<1>1. LoadChunks \in Seq(ReadChunk) /\ Told(LoadChunks)
  BY ReadTold
<1>2. \A i \in DOMAIN LoadChunks : LoadChunks[i].path \in PathsOf(LoadChunks)
  BY DEF PathsOf
<1>3. I = J
  BY <1>2
<1>4. FitsBut(lost, lexical, vectors, At(LoadChunks, J))
  <2> HIDE DEF lost
  <2> QED BY <1>1, FitsSome
<1>5. Lasting = At(LoadChunks, I)
  BY DEF Lasting
<1> HIDE DEF I, J
<1> QED BY <1>3, <1>4, <1>5

LEMMA BootPublishPlace ==
  ASSUME SoundInv, PlaceInv, BootPublish
  PROVE  PlaceInv'
<1> USE DEF SoundInv, PlaceInv
<1>1. /\ UNCHANGED <<present, version, disk, model, loaded, writer, job, torn, renamed>>
      /\ boot = "publish" /\ boot' = "queued" /\ queue' = queue \cup {"boot"}
  BY DEF BootPublish, worldVars
<1>2. ~torn => ~Rewriting /\ ~Underway /\ (job # Absent => job.step # "paths")
  BY <1>1, EarlyStill DEF Early
<1>3. LoadEntries' = LoadEntries /\ LoadChunks' = LoadChunks
  BY <1>1, SameReading
<1>4. loaded # Absent /\ writer # "boot" /\ (Filling' <=> Filling)
  BY <1>1 DEF TypeInv, Booting, Turns, Filling
<1>5. Remade <=> loaded.full
  BY <1>4 DEF Remade
<1>6. /\ ManifestWritten' /\ ManifestNamed' /\ LexicalWritten' /\ FilesFit'
      /\ FilesNamed' /\ LoadedFits'
  BY <1>1, <1>3
  DEF ManifestWritten, ManifestNamed, LexicalWritten, FilesFit, FilesNamed, Rewriting,
      LoadedFits, Remade
<1>7. CASE loaded.chunks = <<>>
  <2>1. UNCHANGED <<runtime, pruned, reordered>>
    BY <1>7 DEF BootPublish
  <2>2. MemoryFits'
    BY <1>1, <1>4, <2>1 DEF MemoryFits
  <2>3. MemoryNamed'
    BY <1>1, <2>1 DEF MemoryNamed, Remade
  <2> QED BY <1>6, <2>2, <2>3
<1>8. CASE loaded.chunks # <<>>
  <2>1. /\ runtime'.chunks = loaded.chunks
        /\ runtime'.lexical = IF disk.lexical = Absent THEN Texts(loaded.chunks)
                                                       ELSE disk.lexical
        /\ runtime'.vectors \in {Absent, disk.vectors}
        /\ pruned' = Virtual \cap PathsOf(LoadChunks)
    BY <1>8, RetrieverIs DEF BootPublish
  <2>2. ~loaded.full
    BY <1>1, <1>8 DEF LoadedFits
  <2>3. MemoryNamed'
    <3> SUFFICES ASSUME ~torn, ~renamed, disk.vectors # Absent
                 PROVE  ByModel(disk.vectors, model)
      BY <1>1, <2>1 DEF MemoryNamed, ByModel
    <3>1. disk.manifest # Absent
      BY <1>1, <2>2 DEF LoadedFits
    <3>2. disk.manifest.model = model
      BY <1>1, <1>5, <2>2, <3>1 DEF ManifestNamed
    <3> QED BY <1>2, <3>1, <3>2 DEF FilesNamed
  <2>4. MemoryFits'
    <3> SUFFICES ASSUME ~torn, ~Filling
                 PROVE  \/ FitsBut(pruned', runtime'.lexical, runtime'.vectors,
                                   runtime'.chunks)
                        \/ Due'
      BY <1>1, <1>4 DEF MemoryFits
    <3>1. CASE Dropped
      <4>1. Dropped' /\ writer' # "boot"
        BY <1>1, <1>3, <1>4, <3>1 DEF Dropped, Outdated
      <4> QED BY <4>1 DEF Due
    <3>2. CASE ~Dropped
      <4>1. loaded.chunks = Lasting
        BY <1>1, <2>2, <3>2 DEF LoadedFits
      <4>2. LoadChunks # <<>>
        <5> SUFFICES ASSUME LoadChunks = <<>> PROVE FALSE
          OBVIOUS
        <5>1. Lasting = <<>>
          <6>1. <<>> \in Seq({}) /\ \A I : DOMAIN <<>> \subseteq I
            OBVIOUS
          <6>2. \A I : At(<<>>, I) = <<>>
            BY <6>1, AtAll
          <6> QED BY <6>2 DEF Lasting
        <5> QED BY <1>8, <4>1, <5>1
      <4>3. disk.lexical # Absent /\ Fits(disk.lexical, disk.vectors, LoadChunks)
        BY <1>2, <4>2 DEF FilesFit
      <4>4. FitsBut(pruned', disk.lexical, disk.vectors, Lasting)
        BY <1>2, <2>1, <4>3, LastingFits
      <4> QED BY <2>1, <4>1, <4>3, <4>4 DEF FitsBut
    <3> QED BY <3>1, <3>2
  <2> QED BY <1>6, <2>3, <2>4
<1> QED BY <1>7, <1>8

\* The files of a run that has written them all.
LEMMA WrittenFits ==
  ASSUME TypeInv, Written, LexicalWritten, job # Absent, job.step = "publish"
  PROVE  /\ Fits(IF disk.lexical = Absent THEN Texts(job.chunks) ELSE disk.lexical,
                 disk.vectors, job.chunks)
         /\ ByModel(disk.vectors, model)
         /\ LoadChunks # <<>> =>
              disk.lexical # Absent /\ Fits(disk.lexical, disk.vectors, LoadChunks)
<1>1. disk.lexical \in {Absent, Texts(job.chunks)} /\ disk.vectors \in {Absent, VectorsFile}
  BY DEF Written, DocsFile, Steps
<1>2. ASSUME disk.vectors # Absent
      PROVE  Texts(disk.vectors) = Texts(job.chunks) /\ ByModel(disk.vectors, model)
  <2>1. disk.vectors = [i \in DOMAIN job.chunks |->
                          [text |-> job.chunks[i].text, model |-> model]]
    BY <1>1, <1>2 DEF VectorsFile
  <2> QED BY <2>1 DEF Texts, ByModel
<1>3. LoadChunks # <<>> => disk.rows # Absent
  BY DEF LoadChunks, LiveRows
<1>4. LoadChunks \in {<<>>, job.chunks}
  BY ReadBack
<1>5. LoadChunks # <<>> => disk.lexical # Absent
  BY <1>3 DEF LexicalWritten
<1>6. Fits(IF disk.lexical = Absent THEN Texts(job.chunks) ELSE disk.lexical,
           disk.vectors, job.chunks)
  BY <1>1, <1>2 DEF Fits
<1>7. ByModel(disk.vectors, model)
  BY <1>2 DEF ByModel
<1> QED BY <1>4, <1>5, <1>6, <1>7

LEMMA CrashPlace ==
  ASSUME SoundInv, PlaceInv, Crash
  PROVE  PlaceInv'
<1> USE DEF SoundInv, PlaceInv
<1>1. /\ UNCHANGED <<present, version, disk>> /\ job' = Absent /\ boot' = "load"
      /\ runtime' = EmptyRuntime /\ loaded' = Absent /\ pruned' = {}
      /\ torn' = (torn \/ HalfWritten) /\ renamed' = Misnamed
  BY DEF Crash, worldVars
<1>2. LoadEntries' = LoadEntries /\ LoadChunks' = LoadChunks
  BY <1>1, SameReading
<1>3. /\ ManifestWritten' /\ ManifestNamed' /\ LexicalWritten' /\ LoadedFits'
      /\ MemoryFits' /\ MemoryNamed'
  BY <1>1, EmptyFits
  DEF ManifestWritten, ManifestNamed, LexicalWritten, LoadedFits, MemoryFits,
      MemoryNamed, EmptyRuntime
<1>4. FilesNamed'
  BY <1>1 DEF FilesNamed, Misnamed, ByModel
<1>5. FilesFit'
  <2> SUFFICES ASSUME ~torn, ~HalfWritten, LoadChunks # <<>>
               PROVE  disk.lexical # Absent /\ Fits(disk.lexical, disk.vectors, LoadChunks)
    BY <1>1, <1>2 DEF FilesFit
  <2>1. CASE ~Rewriting
    BY <2>1 DEF FilesFit
  <2>2. CASE Rewriting
    <3>1. job # Absent /\ job.step = "publish"
      BY <2>2 DEF Rewriting, HalfWritten, Steps
    <3> QED BY <3>1, WrittenFits
  <2> QED BY <2>1, <2>2
<1> QED BY <1>3, <1>4, <1>5

\* A scan does not find what has gone or been replaced.
LEMMA ScanDue ==
  ASSUME TypeInv, Scan, Dropped, ~Full
  PROVE  job'.removed # {} \/ PathsOf(job'.found) \ PathsOf(job'.reused) # {}
<1>1. PICK p \in Path : Outdated(p)
  BY DEF Dropped
<1>2. PICK order \in Orders :
        LET found == Found(order)
            reuse == {q \in ToSet(found) : Reusable(LoadEntries, LoadChunks, q)}
        IN job' = [step |-> "extract",
                   found |-> [i \in DOMAIN found |->
                                [path |-> found[i], sig |-> SigOf(found[i])]],
                   reused |-> At(LoadChunks, {i \in DOMAIN LoadChunks :
                                                 LoadChunks[i].path \in reuse}),
                   dead |-> PathsOf(LoadChunks) \ reuse,
                   removed |-> PathsOf(LoadEntries) \ ToSet(found)]
  BY DEF Scan
<1> DEFINE found == Found(order)
           reuse == {q \in ToSet(found) : Reusable(LoadEntries, LoadChunks, q)}
           I == {i \in DOMAIN LoadChunks : LoadChunks[i].path \in reuse}
<1>3. /\ job'.removed = PathsOf(LoadEntries) \ ToSet(found)
      /\ job'.found = [i \in DOMAIN found |-> [path |-> found[i], sig |-> SigOf(found[i])]]
      /\ job'.reused = At(LoadChunks, I)
  BY <1>2
<1>4. CASE p \notin ToSet(found)
  BY <1>1, <1>3, <1>4 DEF Outdated
<1>5. CASE p \in ToSet(found)
  <2>1. PICK i \in DOMAIN found : p = found[i]
    BY <1>5 DEF ToSet
  <2>2. p \in present
    <3>1. found[i] \in Wanted
      BY FoundType
    <3> HIDE DEF found
    <3> QED BY <2>1, <3>1, IndexAssumption DEF Wanted
  <2>3. ~Reusable(LoadEntries, LoadChunks, p)
    <3> SUFFICES ASSUME NEW e \in DOMAIN LoadEntries,
                        LoadEntries[e] = [path |-> p, sig |-> SigOf(p)]
                 PROVE  FALSE
      BY DEF Reusable
    <3>1. LoadEntries[e].path = p /\ LoadEntries[e].sig.version = version[p]
      BY DEF SigOf
    <3>2. LoadEntries[e].sig.version < version[p]
      BY <1>1, <2>2, <3>1 DEF Outdated
    <3>3. version[p] \in Nat
      BY IndexAssumption DEF TypeInv, Places
    <3> QED BY <3>1, <3>2, <3>3
  <2>4. p \notin reuse
    BY <2>3
  <2>5. ASSUME NEW k \in DOMAIN job'.reused
        PROVE  job'.reused[k].path \in reuse
    <3>1. LoadChunks \in Seq(ReadChunk)
      BY LoadChunksType DEF TypeInv, Stores
    <3>2. PICK j \in DOMAIN LoadChunks : j \in I /\ job'.reused[k] = LoadChunks[j]
      <4> HIDE DEF I
      <4> QED BY <1>3, <2>5, <3>1, AtItems
    <3> QED BY <3>2
  <2>6. p \notin PathsOf(job'.reused)
    <3> HIDE DEF reuse
    <3> QED BY <2>4, <2>5 DEF PathsOf
  <2>7. p \in PathsOf(job'.found)
    <3> HIDE DEF found
    <3> QED BY <1>3, <2>1 DEF PathsOf
  <2> QED BY <2>6, <2>7
<1> QED BY <1>4, <1>5

LEMMA NoItems ==
  ASSUME NEW T, NEW s \in Seq(T), DOMAIN s = {}
  PROVE  s = <<>>
<1>1. DOMAIN s = 1 .. Len(s) /\ Len(s) \in Nat
  OBVIOUS
<1>2. Len(s) = 0
  <2>1. Len(s) > 0 => 1 \in DOMAIN s
    BY <1>1
  <2> QED BY <1>1, <2>1
<1> QED BY <1>2

LEMMA ScanStaysDue ==
  ASSUME SoundInv, Scan
  PROVE  Due => Due'
<1> USE DEF SoundInv
<1>1. job # Absent /\ job.step = "scan" /\ writer' = writer /\ loaded' = loaded
  BY DEF Scan
<1>2. job'.step = "extract" /\ job' # Absent
  BY ScanIs, ScanTypes, <1>1 DEF TypeInv, Running
<1> SUFFICES ASSUME Dropped PROVE ~Nothing'
  BY <1>1, <1>2 DEF Due
<1>3. CASE Full
  BY <1>1, <1>3 DEF Nothing, Full
<1>4. CASE ~Full
  BY <1>4, ScanDue DEF Nothing, ToExtract
<1> QED BY <1>3, <1>4

LEMMA ScanPlace ==
  ASSUME SoundInv, PlaceInv, Scan
  PROVE  PlaceInv'
<1> USE DEF SoundInv, PlaceInv
<1>1. /\ UNCHANGED <<present, version, disk, runtime, model, loaded, writer, queue,
                     torn, renamed, pruned, reordered>>
      /\ job # Absent /\ job.step = "scan"
      /\ boot' = IF writer = "boot" THEN "indexing" ELSE boot
  BY DEF Scan, worldVars
<1>2. writer = "boot" => boot = "queued"
  BY <1>1 DEF TypeInv, Turns
<1>3. LoadEntries' = LoadEntries /\ LoadChunks' = LoadChunks
  BY <1>1, SameReading
<1>4. job'.step = "extract" /\ job' # Absent
  BY ScanIs, ScanTypes, <1>1 DEF TypeInv, Running
<1>5. ~Rewriting /\ ~Rewriting'
  BY <1>1, <1>4 DEF Rewriting, Steps
<1>6. Due => Due'
  BY ScanStaysDue
<1>7. /\ Lasting' = Lasting /\ (Dropped' <=> Dropped)
      /\ (Remade' <=> Remade) /\ (Filling' <=> Filling)
  BY <1>1, <1>3 DEF Lasting, Dropped, Outdated, Remade, Filling
<1>8. /\ ManifestWritten' /\ ManifestNamed' /\ LexicalWritten' /\ FilesFit'
      /\ FilesNamed'
  BY <1>1, <1>2, <1>3, <1>4, <1>5, <1>7
  DEF ManifestWritten, ManifestNamed, LexicalWritten, FilesFit, FilesNamed, Steps
<1>9. LoadedFits'
  BY <1>1, <1>2, <1>7 DEF LoadedFits
<1>10. MemoryFits' /\ MemoryNamed'
  BY <1>1, <1>2, <1>6, <1>7 DEF MemoryFits, MemoryNamed
<1> QED BY <1>8, <1>9, <1>10

LEMMA WritingDue ==
  ASSUME job' # Absent, job'.step \in Steps
  PROVE  Due'
BY DEF Due, Steps

\* A run that has begun to write, or goes on.
LEMMA ExtractPlace ==
  ASSUME SoundInv, PlaceInv, Extract \/ Collect
  PROVE  PlaceInv'
<1> USE DEF SoundInv, PlaceInv
<1>1. /\ UNCHANGED <<present, version, runtime, model, boot, loaded, writer, queue,
                     torn, renamed, pruned, reordered>>
      /\ job # Absent /\ job.step \in {"extract", "collect"}
      /\ disk' = disk \/ (disk' = EmptyDisk /\ Full)
  BY DEF Extract, Collect, worldVars, bootVars, historyVars
<1>2. job'.step = "manifest"
  BY ExtractIs, CollectTypes
<1>3. job' # Absent
  BY <1>1, ExtractTypes, CollectTypes DEF TypeInv, Running
<1>4. ~Rewriting /\ ~Rewriting'
  BY <1>1, <1>2 DEF Rewriting, Steps
<1>5. Due'
  BY <1>2, <1>3, WritingDue DEF Steps
<1>6. (Remade' <=> Remade) /\ (Filling' <=> Filling)
  BY <1>1 DEF Remade, Filling
<1>7. ManifestWritten' /\ LexicalWritten'
  BY <1>2 DEF ManifestWritten, LexicalWritten
<1>8. MemoryFits'
  BY <1>1, <1>5, <1>6 DEF MemoryFits
<1>9. CASE disk' = disk
  <2>1. LoadEntries' = LoadEntries /\ LoadChunks' = LoadChunks
    BY <1>9, SameReading
  <2>2. Lasting' = Lasting /\ (Dropped' <=> Dropped)
    BY <1>1, <2>1 DEF Lasting, Dropped, Outdated
  <2>3. ManifestNamed' /\ FilesFit' /\ FilesNamed'
    BY <1>1, <1>2, <1>4, <1>6, <1>9, <2>1 DEF ManifestNamed, FilesFit, FilesNamed
  <2>4. LoadedFits' /\ MemoryNamed'
    BY <1>1, <1>6, <1>9, <2>2 DEF LoadedFits, MemoryNamed
  <2> QED BY <1>7, <1>8, <2>3, <2>4
<1>10. CASE disk' = EmptyDisk /\ Full
  <2>1. LoadChunks' = <<>> /\ disk'.manifest = Absent /\ disk'.vectors = Absent
    BY <1>10, EmptyReading DEF EmptyDisk
  <2>2. boot = "publish" => Filling
    BY <1>10 DEF Full, Filling, TypeInv, Turns
  <2>3. ManifestNamed' /\ FilesFit' /\ FilesNamed'
    BY <2>1 DEF ManifestNamed, FilesFit, FilesNamed
  <2>4. LoadedFits' /\ MemoryNamed'
    BY <1>1, <1>6, <2>1, <2>2 DEF LoadedFits, MemoryNamed
  <2> QED BY <1>7, <1>8, <2>3, <2>4
<1> QED BY <1>1, <1>9, <1>10

\* A file that has been written is there.
LEMMA Contents ==
  ASSUME TypeInv, job \in Writing
  PROVE  /\ PathsFile # Absent /\ EntriesFile # Absent /\ DocsFile # Absent
         /\ RowsFile # Absent
<1>1. /\ PathsFile \in Seq(Command) /\ EntriesFile \in Seq(Text)
      /\ Texts(job.chunks) \in Seq(Text)
  BY ContentTypes DEF TypeInv, Stores
<1>2. Rows \in Seq(Row)
  BY RowsAre
<1> QED BY <1>1, <1>2, AbsentAssumption DEF DocsFile, RowsFile

LEMMA WriteLayoutPlace ==
  ASSUME SoundInv, PlaceInv, WriteLayout
  PROVE  PlaceInv'
<1> USE DEF SoundInv, PlaceInv
<1>1. /\ job \in Writing /\ job # Absent /\ torn' = (torn \/ Early)
      /\ UNCHANGED <<present, version, runtime, model, boot, loaded, writer, queue,
                     renamed, pruned, reordered>>
  BY WriteLayoutIs DEF worldVars, bootVars
<1>2. PICK next \in Steps : job' = [job EXCEPT !.step = next]
  BY WriteLayoutIs
<1>3. /\ job'.step = next /\ job'.mode = job.mode /\ job' # Absent
      /\ job.step \in Steps
  BY <1>1, <1>2, WriteLayoutTypes DEF Writing, Steps, TypeInv, Running
<1>4. Due'
  BY <1>3, WritingDue
<1>5. ~torn' => ~torn /\ boot \notin {"load", "publish"}
  BY <1>1 DEF Early
<1>6. (Remade' <=> Remade) /\ (Filling' <=> Filling)
  BY <1>1 DEF Remade, Filling
<1>7. LoadedFits'
  BY <1>1, <1>5 DEF LoadedFits
<1>8. MemoryFits' /\ MemoryNamed'
  BY <1>1, <1>4, <1>5, <1>6 DEF MemoryFits, MemoryNamed
<1>9. disk \in Files
  BY DEF TypeInv, Stores
<1>10. CASE WriteManifest
  <2>1. /\ job.step = "manifest" /\ job'.step = "paths"
        /\ disk' = [disk EXCEPT !.manifest = [mode |-> job.mode, model |-> model]]
    BY <1>1, <1>10 DEF WriteManifest, WriteFile, Writing
  <2>2. /\ disk'.manifest = [mode |-> job.mode, model |-> model]
        /\ disk'.lexical = disk.lexical /\ disk'.vectors = disk.vectors
        /\ disk'.paths = disk.paths /\ disk'.entries = disk.entries
        /\ disk'.docs = disk.docs /\ disk'.rows = disk.rows
    BY <1>9, <2>1 DEF Files
  <2>3. LoadChunks' = LoadChunks
    BY <2>2, SameReading
  <2>4. ~Rewriting
    BY <2>1 DEF Rewriting
  <2>5. ManifestWritten' /\ ManifestNamed' /\ LexicalWritten' /\ FilesNamed'
    BY <1>1, <1>3, <2>1, <2>2
    DEF ManifestWritten, ManifestNamed, LexicalWritten, FilesNamed
  <2>6. FilesFit'
    BY <1>5, <2>2, <2>3, <2>4 DEF FilesFit
  <2> QED BY <1>7, <1>8, <2>5, <2>6
<1>11. CASE ~WriteManifest
  <2>1. /\ job.step \in Steps \ {"manifest"}
        /\ \E step \in Steps \ {"manifest", "paths"} : job' = [job EXCEPT !.step = step]
        /\ \E file \in {"paths", "entries", "docs", "rows", "lexical", "vectors"} :
             \E content : disk' = [disk EXCEPT ![file] = content]
    BY <1>11 DEF WriteLayout, WritePaths, WriteEntries, WriteDocs, WriteRows,
                WriteLexical, WriteVectors, WriteFile, Steps
  <2>2. Rewriting'
    BY <1>1, <1>3, <2>1 DEF Rewriting, Writing
  <2>3. disk'.manifest = disk.manifest
    BY <1>9, <2>1 DEF Files
  <2>4. ManifestWritten' /\ ManifestNamed'
    BY <1>1, <1>3, <1>6, <2>1, <2>3 DEF ManifestWritten, ManifestNamed
  <2>5. LexicalWritten'
    <3>1. CASE WriteLexical
      <4>1. disk'.lexical = DocsFile
        BY <1>9, <3>1 DEF WriteLexical, WriteFile, DocsFile, Files
      <4> QED BY <1>1, <4>1, Contents DEF LexicalWritten
    <3>2. CASE WriteVectors
      <4>1. job.step = "vectors" /\ disk'.lexical = disk.lexical /\ disk'.rows = disk.rows
        BY <1>9, <3>2 DEF WriteVectors, WriteFile, Files
      <4> QED BY <1>1, <4>1 DEF LexicalWritten
    <3>3. CASE WritePaths \/ WriteEntries \/ WriteDocs \/ WriteRows
      <4>1. job'.step \notin {"vectors", "publish"}
        BY <1>1, <3>3 DEF WritePaths, WriteEntries, WriteDocs, WriteRows, WriteFile, Writing
      <4> QED BY <4>1 DEF LexicalWritten
    <3> QED BY <1>11, <3>1, <3>2, <3>3 DEF WriteLayout
  <2> QED BY <1>7, <1>8, <2>2, <2>4, <2>5 DEF FilesFit, FilesNamed
<1> QED BY <1>10, <1>11

\* The fill-in of a memory that is empty.
LEMMA FillIs ==
  ASSUME TypeInv, Unchanged, ~ UNCHANGED <<runtime, pruned, reordered>>
  PROVE  /\ runtime.chunks = <<>> /\ runtime'.chunks # <<>>
         /\ runtime'.chunks = [i \in DOMAIN job.found |-> ReusedOf(job.found[i].path)]
         /\ runtime'.binaries = job.found
         /\ runtime'.lexical = IF disk.lexical = Absent THEN Texts(runtime'.chunks)
                                                        ELSE disk.lexical
         /\ runtime'.vectors \in {Absent, disk.vectors}
         /\ runtime'.vectors # Absent => disk.manifest # Absent
         /\ pruned' = pruned \ PathsOf(runtime'.chunks)
         /\ ~reordered' => runtime'.chunks = LoadChunks
<1> DEFINE chunks == [i \in DOMAIN job.found |-> ReusedOf(job.found[i].path)]
           mode == IF disk.manifest = Absent THEN "disabled" ELSE disk.manifest.mode
<1>1. /\ runtime.chunks = <<>> /\ chunks # <<>>
      /\ runtime' = Retriever(chunks, job.found, mode)
      /\ pruned' = pruned \ PathsOf(chunks)
      /\ reordered' = (chunks # LoadChunks)
  BY DEF Unchanged
<1> HIDE DEF chunks
<1>2. runtime'.chunks = chunks /\ runtime'.binaries = job.found
  BY <1>1 DEF Retriever
<1>3. runtime'.vectors # Absent => disk.manifest # Absent
  BY <1>1, RetrieverIs
<1>4. /\ runtime'.lexical = IF disk.lexical = Absent THEN Texts(chunks) ELSE disk.lexical
      /\ runtime'.vectors \in {Absent, disk.vectors}
  BY <1>1, RetrieverIs
<1> QED BY <1>1, <1>2, <1>3, <1>4 DEF chunks

LEMMA UnchangedPlace ==
  ASSUME SoundInv, PlaceInv, Unchanged
  PROVE  PlaceInv'
<1> USE DEF SoundInv, PlaceInv
<1>1. /\ UNCHANGED <<present, version, disk, model, queue, torn, renamed>>
      /\ job \in Scanned /\ job # Absent /\ job.step = "extract"
      /\ ~Full /\ Nothing
      /\ job' = Absent /\ writer' = Nobody
      /\ boot' = IF writer = "boot" THEN "done" ELSE boot
      /\ loaded' = IF writer = "boot" THEN Absent ELSE loaded
  BY UnchangedIs DEF Unchanged, Finish, Nothing
<1>2. /\ (boot' = "load" <=> boot = "load")
      /\ (writer = "boot" => boot \in {"queued", "indexing"})
  BY <1>1 DEF TypeInv, Turns
<1>3. LoadEntries' = LoadEntries /\ LoadChunks' = LoadChunks
  BY <1>1, SameReading
<1>4. Remade => Remade' /\ writer # "boot"
  BY <1>1 DEF Full, Remade
<1>5. ~Filling' => ~Filling
  BY <1>1 DEF Filling, Full
<1>6. ~Rewriting /\ ~Rewriting'
  BY <1>1 DEF Rewriting, Steps
<1>7. Lasting' = Lasting /\ (Dropped' <=> Dropped)
  BY <1>1, <1>3 DEF Lasting, Dropped, Outdated
<1>8. ManifestWritten' /\ LexicalWritten' /\ FilesFit' /\ FilesNamed'
  BY <1>1, <1>3, <1>6
  DEF ManifestWritten, LexicalWritten, FilesFit, FilesNamed
<1>9. ManifestNamed'
  BY <1>1, <1>2, <1>4 DEF ManifestNamed
<1>10. LoadedFits'
  BY <1>1, <1>2, <1>5, <1>7 DEF LoadedFits
<1>11. CASE UNCHANGED <<runtime, pruned, reordered>>
  <2>1. MemoryNamed'
    BY <1>1, <1>2, <1>4, <1>11 DEF MemoryNamed
  <2>2. MemoryFits'
    <3> SUFFICES ASSUME ~torn, ~Filling, ~reordered,
                        boot \in {"queued", "indexing"}, loaded.full \/ Due
                 PROVE  boot' \in {"queued", "indexing"} /\ (loaded'.full \/ Due')
      BY <1>1, <1>5, <1>11 DEF MemoryFits
    <3>1. CASE loaded.full
      <4>1. writer # "boot"
        BY <1>1, <3>1 DEF Full
      <4> QED BY <1>1, <3>1, <4>1
    <3>2. CASE Due
      <4>1. writer # "boot" /\ Dropped
        BY <1>1, <3>2 DEF Due
      <4> QED BY <1>1, <1>7, <4>1 DEF Due
    <3> QED BY <3>1, <3>2
  <2> QED BY <1>8, <1>9, <1>10, <2>1, <2>2
<1>12. CASE ~ UNCHANGED <<runtime, pruned, reordered>>
  <2>1. MemoryNamed'
    <3> SUFFICES ASSUME ~torn, ~renamed, disk.vectors # Absent, disk.manifest # Absent
                 PROVE  /\ boot' # "load" /\ ~Remade' => ByModel(disk.vectors, model)
                        /\ ByModel(disk.vectors, disk.manifest.model)
      BY <1>1, <1>12, FillIs DEF MemoryNamed, ByModel
    <3>1. ByModel(disk.vectors, disk.manifest.model)
      BY <1>1, <1>6 DEF FilesNamed
    <3>2. boot' # "load" /\ ~Remade' => disk.manifest.model = model
      BY <1>2, <1>4 DEF ManifestNamed
    <3> QED BY <3>1, <3>2
  <2>2. MemoryFits'
    <3> SUFFICES ASSUME ~torn, ~reordered'
                 PROVE  FitsBut(pruned', runtime'.lexical, runtime'.vectors, runtime'.chunks)
      BY <1>1 DEF MemoryFits
    <3>1. /\ runtime'.chunks = LoadChunks /\ LoadChunks # <<>>
          /\ pruned' = pruned \ PathsOf(LoadChunks)
      BY <1>12, FillIs
    <3>2. disk.lexical # Absent /\ Fits(disk.lexical, disk.vectors, LoadChunks)
      BY <1>6, <3>1 DEF FilesFit
    <3>3. runtime'.lexical = disk.lexical /\ runtime'.vectors \in {Absent, disk.vectors}
      BY <1>12, <3>2, FillIs
    <3>4. Fits(runtime'.lexical, runtime'.vectors, LoadChunks)
      BY <3>2, <3>3 DEF Fits
    <3>5. LoadChunks \in Seq(ReadChunk) /\ Told(LoadChunks)
      BY <1>6, ReadTold
    <3>6. PathsOf(LoadChunks) \cap pruned' = {}
      BY <3>1
    <3> QED BY <3>1, <3>4, <3>5, <3>6, FitsAll
  <2> QED BY <1>8, <1>9, <1>10, <2>1, <2>2
<1> QED BY <1>11, <1>12

LEMMA PublishPlace ==
  ASSUME SoundInv, PlaceInv, Publish
  PROVE  PlaceInv'
<1> USE DEF SoundInv, PlaceInv
<1>1. /\ UNCHANGED <<present, version, disk, model, queue>>
      /\ job # Absent /\ job.step = "publish"
      /\ torn' = (torn /\ (Early \/ ~Full))
      /\ job' = Absent /\ boot' = IF writer = "boot" THEN "done" ELSE boot
      /\ loaded' = IF writer = "boot" THEN Absent ELSE loaded
      /\ runtime' = Retriever(job.chunks, job.stored, job.mode)
      /\ pruned' = IF writer = "compact" THEN pruned \ PathsOf(job.chunks) ELSE {}
  BY DEF Publish, Finish, worldVars
<1>2. Early => torn /\ torn'
  BY <1>1, EarlyStill DEF Underway, Steps
<1>3. ~torn' => boot \notin {"load", "publish"} /\ Firm
  BY <1>1, <1>2 DEF Early, Firm
<1>4. boot' \in {"load", "publish"} => boot' = boot /\ writer # "boot"
  BY <1>1
<1>5. LoadEntries' = LoadEntries /\ LoadChunks' = LoadChunks
  BY <1>1, SameReading
<1>6. /\ Fits(IF disk.lexical = Absent THEN Texts(job.chunks) ELSE disk.lexical,
              disk.vectors, job.chunks)
      /\ ByModel(disk.vectors, model)
      /\ LoadChunks # <<>> =>
           disk.lexical # Absent /\ Fits(disk.lexical, disk.vectors, LoadChunks)
  BY <1>1, WrittenFits
<1>7. /\ runtime'.chunks = job.chunks
      /\ runtime'.lexical = IF disk.lexical = Absent THEN Texts(job.chunks)
                                                     ELSE disk.lexical
      /\ runtime'.vectors \in {Absent, disk.vectors}
  BY <1>1, RetrieverIs
<1>8. Fits(runtime'.lexical, runtime'.vectors, runtime'.chunks)
  BY <1>6, <1>7 DEF Fits
<1>9. ByModel(runtime'.vectors, model)
  BY <1>6, <1>7 DEF ByModel
<1>10. disk.manifest # Absent => disk.manifest.model = model
  <2>1. disk.manifest \in {Absent, [mode |-> job.mode, model |-> model]}
    BY <1>1 DEF ManifestWritten, Steps
  <2> QED BY <2>1
<1>11. ManifestWritten' /\ ManifestNamed' /\ LexicalWritten'
  BY <1>1, <1>10 DEF ManifestWritten, ManifestNamed, LexicalWritten
<1>12. FilesFit'
  BY <1>1, <1>5, <1>6 DEF FilesFit
<1>13. FilesNamed'
  BY <1>1, <1>6, <1>10 DEF FilesNamed
<1>14. LoadedFits'
  BY <1>1, <1>2, <1>4 DEF LoadedFits, Early
<1>15. MemoryNamed'
  <2>1. ByModel(runtime'.vectors, model) = ByModel(runtime.vectors, model)'
    BY <1>1 DEF ByModel
  <2>2. ~torn' => boot' # "load"
    BY <1>2, <1>4 DEF Early
  <2> QED BY <1>9, <2>1, <2>2 DEF MemoryNamed
<1>16. MemoryFits'
  <2> SUFFICES ASSUME ~torn'
               PROVE  FitsBut(pruned', runtime'.lexical, runtime'.vectors, runtime'.chunks)
    BY DEF MemoryFits
  <2>1. Clean(present, version, job.stored, job.chunks)
    BY <1>1, <1>3 DEF AllClean, JobClean, Steps
  <2>2. Told(job.chunks)
    BY <2>1, CleanTold
  <2>3. job.chunks \in Seq(Chunk)
    BY PublishTypes DEF Writing
  <2>4. PathsOf(job.chunks) \cap pruned' = {}
    BY <1>1
  <2> QED BY <1>7, <1>8, <2>2, <2>3, <2>4, FitsAll
<1> QED BY <1>11, <1>12, <1>13, <1>14, <1>15, <1>16

LEMMA NextPlace ==
  SoundInv /\ PlaceInv /\ [Next]_vars => PlaceInv'
BY StartPlace, RequestFullPlace, BootLoadPlace, BootPublishPlace, CrashPlace,
   ScanPlace, ExtractPlace, WriteLayoutPlace, UnchangedPlace, PublishPlace
DEF Next, Boot, Client, Run, Beginning

LEMMA PlacesAgree == SoundInv /\ PlaceInv => PositionsAgree
<1> SUFFICES ASSUME SoundInv, PlaceInv, boot = "done", ~torn, ~reordered, ~Filling
             PROVE  /\ FitsBut(pruned, runtime.lexical, runtime.vectors, runtime.chunks)
                    /\ ~renamed => ByModel(runtime.vectors, model)
  BY DEF PositionsAgree, Filling, FitsBut, ByModel
<1> USE DEF SoundInv, PlaceInv
<1>1. FitsBut(pruned, runtime.lexical, runtime.vectors, runtime.chunks)
  BY DEF MemoryFits
<1>2. ~Remade
  BY DEF Remade, TypeInv, Booting
<1> QED BY <1>1, <1>2 DEF MemoryNamed

\* Once the bootstrap is done the lexical index and the vectors belong to the
\* chunks position by position, and the vectors to the model that embeds the
\* queries - but for the built-ins that prune_stale_loaded_index has dropped from
\* the chunks alone (main.rs 14194): every position is then off by exactly those.
\* Executables that it drops do no such harm, since the bootstrap's own run then
\* has something to write.
THEOREM PositionsRight == Spec => []PositionsAgree
<1>1. Init => SoundInv /\ PlaceInv
  BY InitSound, InitPlace
<1>2. SoundInv /\ PlaceInv /\ [Next]_vars => (SoundInv /\ PlaceInv)'
  BY NextSound, NextPlace
<1>3. SoundInv /\ PlaceInv => PositionsAgree
  BY PlacesAgree
<1> QED BY <1>1, <1>2, <1>3, PTL DEF Spec
-----------------------------------------------------------------------------
(* Memory is current *)

(***************************************************************************)
(* A run takes up every change that came before its scan: what it has      *)
(* found is the commands as they are (ScanSeen), what it makes of that is  *)
(* their documentation (JobSeen), and publishing moves it to memory        *)
(* (MemorySeen) - unless a change has come since, and then a later run is  *)
(* due (Behind).  A run that finds nothing to do publishes nothing: it is  *)
(* right to leave memory alone because memory holds what the files hold,   *)
(* but for the built-ins that the start has dropped (Kept), which needs    *)
(* that a run's files read back as what it made, row for row (Whole,       *)
(* Housed).  That memory is as large as the cap allows is counting: a scan *)
(* meets each command once.                                                *)
(***************************************************************************)

\* What a selection of the first n items of a sequence holds: those selected, each
\* once.
Selects(t, s, I, n) ==
  /\ \A k \in DOMAIN t : \E i \in 1 .. n : i \in I /\ t[k] = s[i]
  /\ \A i \in 1 .. n : i \in I => \E k \in DOMAIN t : t[k] = s[i]
  /\ IsInjective(t)

LEMMA SelectsMore ==
  ASSUME NEW T, NEW s \in Seq(T), NEW I, NEW n \in 1 .. Len(s), IsInjective(s),
         NEW t \in Seq(T), Selects(t, s, I, n - 1)
  PROVE  Selects(IF n \in I THEN Append(t, s[n]) ELSE t, s, I, n)
<1>0. /\ Len(s) \in Nat /\ DOMAIN s = 1 .. Len(s) /\ n \in Nat /\ s[n] \in T
      /\ DOMAIN t = 1 .. Len(t) /\ Len(t) \in Nat
  OBVIOUS
<1>1. CASE n \notin I
  <2>1. \A i \in 1 .. n : i \in I => i \in 1 .. (n - 1)
    BY <1>0, <1>1
  <2>2. \A i \in 1 .. (n - 1) : i \in 1 .. n
    BY <1>0
  <2> QED BY <1>1, <2>1, <2>2 DEF Selects
<1>2. CASE n \in I
  <2> DEFINE w == Append(t, s[n])
  <2>1. /\ DOMAIN w = 1 .. (Len(t) + 1) /\ w[Len(t) + 1] = s[n]
        /\ \A k \in DOMAIN t : w[k] = t[k] /\ k \in DOMAIN w
    BY <1>0
  <2> HIDE DEF w
  <2>2. \A k \in DOMAIN w : k \in DOMAIN t \/ k = Len(t) + 1
    BY <1>0, <2>1
  <2>3. \A i \in 1 .. n : i \in 1 .. (n - 1) \/ i = n
    BY <1>0
  <2>4. \A k \in DOMAIN w : \E i \in 1 .. n : i \in I /\ w[k] = s[i]
    <3> SUFFICES ASSUME NEW k \in DOMAIN w
                 PROVE  \E i \in 1 .. n : i \in I /\ w[k] = s[i]
      OBVIOUS
    <3>1. CASE k \in DOMAIN t
      <4>1. PICK i \in 1 .. (n - 1) : i \in I /\ t[k] = s[i]
        BY <3>1 DEF Selects
      <4>2. i \in 1 .. n
        BY <1>0
      <4> QED BY <2>1, <3>1, <4>1, <4>2
    <3>2. CASE k = Len(t) + 1
      BY <1>0, <1>2, <2>1, <3>2
    <3> QED BY <2>2, <3>1, <3>2
  <2>5. \A i \in 1 .. n : i \in I => \E k \in DOMAIN w : w[k] = s[i]
    <3> SUFFICES ASSUME NEW i \in 1 .. n, i \in I PROVE \E k \in DOMAIN w : w[k] = s[i]
      OBVIOUS
    <3>1. CASE i \in 1 .. (n - 1)
      <4>1. PICK k \in DOMAIN t : t[k] = s[i]
        BY <3>1 DEF Selects
      <4> QED BY <2>1, <4>1
    <3>2. CASE i = n
      <4>1. Len(t) + 1 \in DOMAIN w
        BY <1>0, <2>1
      <4> QED BY <2>1, <3>2, <4>1
    <3> QED BY <2>3, <3>1, <3>2
  <2>6. \A k \in DOMAIN t : t[k] # s[n]
    <3> SUFFICES ASSUME NEW k \in DOMAIN t, t[k] = s[n] PROVE FALSE
      OBVIOUS
    <3>1. PICK i \in 1 .. (n - 1) : t[k] = s[i]
      BY DEF Selects
    <3>2. i \in DOMAIN s /\ n \in DOMAIN s /\ i # n
      BY <1>0
    <3> QED BY <3>1, <3>2 DEF IsInjective
  <2>7. IsInjective(w)
    <3> SUFFICES ASSUME NEW a \in DOMAIN w, NEW b \in DOMAIN w, w[a] = w[b]
                 PROVE  a = b
      BY DEF IsInjective
    <3>1. CASE a \in DOMAIN t /\ b \in DOMAIN t
      BY <2>1, <3>1 DEF Selects, IsInjective
    <3>2. CASE a = Len(t) + 1 /\ b \in DOMAIN t
      BY <2>1, <2>6, <3>2
    <3>3. CASE b = Len(t) + 1 /\ a \in DOMAIN t
      BY <2>1, <2>6, <3>3
    <3> QED BY <2>2, <3>1, <3>2, <3>3
  <2>8. Selects(w, s, I, n)
    BY <2>4, <2>5, <2>7 DEF Selects
  <2> QED BY <1>2, <2>8 DEF w
<1> QED BY <1>1, <1>2

LEMMA AtSelects ==
  ASSUME NEW T, NEW s \in Seq(T), NEW I, IsInjective(s)
  PROVE  Selects(At(s, I), s, I, Len(s))
<1>1. PICK u : Unfolds(u, s, I, Len(s)) /\ At(s, I) = u[Len(s)]
  BY AtUnfolds
<1> DEFINE B == {n \in 0 .. Len(s) : ~ (u[n] \in Seq(T) /\ Selects(u[n], s, I, n))}
<1>2. SUFFICES ASSUME B # {} PROVE FALSE
  <2>1. Len(s) \in 0 .. Len(s)
    OBVIOUS
  <2> QED BY <1>1, <2>1
<1>3. B \in SUBSET Nat
  OBVIOUS
<1> HIDE DEF B
<1>4. PICK n \in B : \A m \in B : n <= m
  BY <1>2, <1>3, Least1
<1>5. n \in 0 .. Len(s) /\ ~ (u[n] \in Seq(T) /\ Selects(u[n], s, I, n))
  BY DEF B
<1>6. n # 0
  <2>1. u[0] = <<>>
    BY <1>1 DEF Unfolds
  <2>2. <<>> \in Seq(T) /\ Selects(<<>>, s, I, 0)
    BY DEF Selects, IsInjective
  <2> QED BY <1>5, <2>1, <2>2
<1>7. n \in 1 .. Len(s) /\ n - 1 \in 0 .. Len(s) /\ n - 1 \notin B
  BY <1>4, <1>5, <1>6
<1>8. u[n - 1] \in Seq(T) /\ Selects(u[n - 1], s, I, n - 1)
  BY <1>7 DEF B
<1>9. u[n] = IF n \in I THEN Append(u[n - 1], s[n]) ELSE u[n - 1]
  BY <1>1, <1>7 DEF Unfolds
<1>10. Selects(u[n], s, I, n)
  BY <1>7, <1>8, <1>9, SelectsMore
<1>11. u[n] \in Seq(T)
  <2>1. s[n] \in T
    BY <1>7
  <2> QED BY <1>8, <1>9, <2>1
<1> QED BY <1>5, <1>10, <1>11

\* A scan finds every command there is, once.
LEMMA FoundAll ==
  ASSUME NEW order \in Orders, present \in SUBSET Path
  PROVE  IsInjective(Found(order)) /\ ToSet(Found(order)) = Wanted
<1> DEFINE I == {i \in DOMAIN order : order[i] \in Wanted}
<1>1. order \in Seq(Command) /\ IsInjective(order) /\ Command \subseteq ToSet(order)
  BY IndexAssumption
<1>2. Found(order) = At(order, I)
  BY DEF Found
<1>3. Selects(At(order, I), order, I, Len(order))
  <2> HIDE DEF I
  <2> QED BY <1>1, AtSelects
<1>4. \A k \in DOMAIN Found(order) : Found(order)[k] \in Wanted
  BY FoundType
<1>5. ASSUME NEW p \in Wanted PROVE \E k \in DOMAIN Found(order) : Found(order)[k] = p
  <2>1. p \in Command
    BY DEF Wanted, Command
  <2>2. PICK i \in DOMAIN order : order[i] = p
    BY <1>1, <2>1 DEF ToSet
  <2>3. i \in 1 .. Len(order) /\ i \in I
    BY <1>1, <2>2
  <2> HIDE DEF I
  <2> QED BY <1>2, <1>3, <2>2, <2>3 DEF Selects
<1>6. IsInjective(Found(order))
  <2> HIDE DEF I
  <2> QED BY <1>2, <1>3 DEF Selects
<1> QED BY <1>4, <1>5, <1>6 DEF ToSet

\* The paths of items that are each of another command are as many as the items.
Distinct(items) ==
  \A i, j \in DOMAIN items : items[i].path = items[j].path => i = j

LEMMA DistinctCount ==
  ASSUME NEW T, NEW items \in Seq(T), Distinct(items)
  PROVE  /\ IsFiniteSet(PathsOf(items))
         /\ Cardinality(PathsOf(items)) = Len(items)
<1> DEFINE f == [i \in 1 .. Len(items) |-> items[i].path]
<1>1. Len(items) \in Nat /\ DOMAIN items = 1 .. Len(items)
  OBVIOUS
<1>2. f \in Bijection(1 .. Len(items), PathsOf(items))
  BY <1>1 DEF Bijection, Injection, Surjection, IsInjective, PathsOf, Distinct
<1>3. ExistsBijection(1 .. Len(items), PathsOf(items))
  BY <1>2 DEF ExistsBijection
<1>4. Cardinality(PathsOf(items)) = Len(items)
  BY <1>1, <1>3, FS_CountingElements
<1>5. IsFiniteSet(PathsOf(items))
  BY <1>1, <1>3, FS_NatBijection
<1> QED BY <1>4, <1>5

Few(chunks) == Cardinality(PathsOf(chunks)) <= MaxChunks

LEMMA FewNone == Few(<<>>)
<1>1. PathsOf(<<>>) = {}
  BY DEF PathsOf
<1>2. Cardinality(PathsOf(<<>>)) = 0 /\ MaxChunks \in Nat
  BY <1>1, FS_EmptySet, IndexAssumption
<1> QED BY <1>2 DEF Few

LEMMA FinitePaths ==
  ASSUME NEW chunks, PathsOf(chunks) \subseteq Command \cup {Absent}
  PROVE  IsFiniteSet(PathsOf(chunks)) /\ Cardinality(PathsOf(chunks)) \in Nat
<1>1. IsFiniteSet(Command \cup {Absent})
  BY IndexAssumption, FS_AddElement
<1> QED BY <1>1, FS_Subset, FS_CardinalityType

LEMMA FewPart ==
  ASSUME NEW chunks, NEW part, PathsOf(chunks) \subseteq Command \cup {Absent}, Few(chunks),
         PathsOf(part) \subseteq PathsOf(chunks)
  PROVE  Few(part)
<1>1. IsFiniteSet(PathsOf(chunks)) /\ Cardinality(PathsOf(chunks)) \in Nat
  BY FinitePaths
<1>2. Cardinality(PathsOf(part)) <= Cardinality(PathsOf(chunks))
  BY <1>1, FS_Subset
<1>3. Cardinality(PathsOf(part)) \in Nat
  BY <1>1, FS_Subset, FS_CardinalityType
<1> QED BY <1>1, <1>2, <1>3, IndexAssumption DEF Few

\* A change of the commands may have come that no scan has seen yet.
Behind ==
  \/ boot \in {"load", "publish", "queued"} \/ dirty \/ unseen \/ "watch" \in queue
  \/ writer = "watch" /\ job.step = "scan"

\* What Current says of memory and what was dropped from it, of any of both.
UpToDate(chunks, lost) ==
  /\ \A i \in DOMAIN chunks : /\ chunks[i].path \in Wanted
                             /\ chunks[i].text = SigOf(chunks[i].path)
  /\ Cardinality(PathsOf(chunks) \cup lost) = Least(MaxChunks, Cardinality(Wanted))

\* Every chunk has the entry its row will name.
Housed ==
  /\ PathsOf(runtime.chunks) \subseteq PathsOf(runtime.binaries)
  /\ boot = "publish" =>
       loaded.entries = <<>> \/ PathsOf(loaded.chunks) \subseteq PathsOf(loaded.entries)
  /\ job # Absent /\ job.step \in Steps =>
       PathsOf(job.chunks) \subseteq PathsOf(job.stored)

\* What a run has written is there, unless a full reindex was asked for since.
Whole ==
  job # Absent /\ "full" \notin queue =>
    /\ job.step \in Steps \ {"manifest", "paths"} => disk.paths # Absent
    /\ job.step \in Steps \ {"manifest", "paths", "entries"} => disk.entries # Absent
    /\ job.step \in Steps \ {"manifest", "paths", "entries", "docs"} =>
         disk.docs # Absent
    /\ job.step \in {"lexical", "vectors", "publish"} => disk.rows # Absent

\* Nowhere are there more documents than the cap allows.
Capped ==
  /\ ~torn /\ ~Rewriting => Few(LoadChunks)
  /\ ~torn => Few(runtime.chunks)
  /\ ~torn /\ boot = "publish" => Few(loaded.chunks)
  /\ Firm /\ job # Absent /\ job.step = "extract" => Few(job.reused)
  /\ Firm /\ job # Absent /\ job.step \in Steps => Few(job.chunks)

\* Memory holds nothing yet, or what the files hold but for the built-ins that the
\* start has dropped - unless the bootstrap's run is still to come and will write
\* everything anew.
Kept ==
  ~torn /\ ~Filling /\ ~Rewriting =>
    \/ runtime.chunks = <<>>
    \/ /\ \A i \in DOMAIN runtime.chunks : \E j \in DOMAIN LoadChunks :
             runtime.chunks[i] = LoadChunks[j]
       /\ PathsOf(LoadChunks) \subseteq PathsOf(runtime.chunks) \cup pruned
    \/ boot \in {"queued", "indexing"} /\ (loaded.full \/ Due)

\* What a scan has found: every command once, and what it reuses is of the commands as
\* they are; when it finds nothing to do it reuses all that there is.
ScanSeen ==
  Firm /\ job # Absent /\ job.step = "extract" =>
    /\ Distinct(job.found)
    /\ PathsOf(job.reused) \subseteq PathsOf(job.found)
    /\ ~torn /\ ~Filling /\ Nothing => job.reused = LoadChunks
    /\ ~Behind =>
         /\ PathsOf(job.found) = Wanted
         /\ \A j \in DOMAIN job.reused : job.reused[j].text = SigOf(job.reused[j].path)
JobSeen ==
  Firm /\ ~Behind /\ job # Absent /\ job.step \in Steps /\ writer # "compact" =>
    UpToDate(job.chunks, {})

\* A compaction under way holds what memory holds.
Collected ==
  job # Absent /\ job.step \in Steps /\ writer = "compact" /\ boot = "done" =>
    job.chunks = runtime.chunks
MemorySeen ==
  /\ ~torn /\ boot = "done" /\ ~Behind /\ ~Filling
  /\ job = Absent \/ writer = "compact" \/ job.step = "scan"
  => UpToDate(runtime.chunks, pruned)

SeenInv ==
  /\ Housed /\ Whole /\ Capped /\ Kept
  /\ ScanSeen /\ JobSeen /\ Collected /\ MemorySeen

LEMMA SeenIsCurrent == TypeInv /\ SeenInv => MemoryIsCurrent
<1> SUFFICES ASSUME TypeInv, SeenInv, Quiet, ~torn PROVE Current
  BY DEF MemoryIsCurrent
<1>1. job = Absent /\ ~Behind /\ ~Filling /\ boot = "done"
  BY DEF TypeInv, Running, Quiet, Behind, Filling, Nobody
<1>2. UpToDate(runtime.chunks, pruned)
  BY <1>1 DEF SeenInv, MemorySeen
<1> QED BY <1>2 DEF Current, UpToDate

LEMMA InitSeen == Init => SeenInv
<1> SUFFICES ASSUME Init PROVE SeenInv
  OBVIOUS
<1>1. /\ job = Absent /\ boot = "load" /\ disk = EmptyDisk /\ runtime = EmptyRuntime
  BY DEF Init
<1>2. LoadChunks = <<>>
  BY <1>1 DEF LoadChunks, LoadEntries, EmptyDisk
<1>3. Housed
  BY <1>1 DEF Housed, EmptyRuntime
<1>4. Capped
  BY <1>1, <1>2, FewNone DEF Capped, EmptyRuntime
<1>5. Whole /\ Kept /\ ScanSeen /\ JobSeen /\ Collected /\ MemorySeen
  BY <1>1 DEF Whole, Kept, ScanSeen, JobSeen, Collected, MemorySeen, EmptyRuntime
<1> QED BY <1>3, <1>4, <1>5 DEF SeenInv

\* Where the files, the memory and the bootstrap are left alone.
LEMMA BeginningSeen ==
  ASSUME SoundInv, SeenInv, Beginning
  PROVE  SeenInv'
<1> USE DEF SeenInv
<1>1. /\ UNCHANGED <<disk, runtime, model, boot, loaded, torn, pruned>>
      /\ \/ job' = job /\ writer' = writer
         \/ job = Absent /\ job' # Absent /\ job'.step \in {"scan", "collect"}
      /\ Filling => Filling'
      /\ ~torn /\ ~Rewriting /\ Dropped => Dropped'
  BY BeginningIs
<1>2. LoadEntries' = LoadEntries /\ LoadChunks' = LoadChunks
  BY <1>1, SameReading
<1>3. Rewriting' <=> Rewriting
  BY <1>1 DEF Rewriting, Steps
<1>4. ~torn /\ Due => Due'
  BY <1>1 DEF Due, Nothing, ToExtract, Full, Rewriting, Steps
<1>5. job' = job => (Firm' <=> Firm) /\ (Nothing' <=> Nothing)
  BY <1>1 DEF Firm, Full, Nothing, ToExtract
<1>6. Behind' \/ (~Behind /\ UNCHANGED <<present, version>>)
  <2>1. CASE World
    <3>1. dirty' = (dirty \/ boot = "done") /\ unseen' = (unseen \/ boot = "indexing")
      BY <2>1 DEF World, Install, Uninstall, MayChange
    <3> QED BY <1>1, <3>1 DEF Behind, SoundInv, TypeInv, Booting
  <2>2. CASE WatchChange
    BY <2>2 DEF WatchChange, Behind, Queue
  <2>3. CASE \E run \in Waiting : Acquire(run)
    BY <2>3 DEF Acquire, Behind, worldVars, historyVars, bootVars, Nobody
  <2>4. CASE BackgroundDelta \/ RequestDelta \/ RequestCompact \/ UNCHANGED vars
    BY <2>4 DEF BackgroundDelta, RequestDelta, RequestCompact, Behind, Queue, vars,
       worldVars, historyVars, bootVars, lockVars, Nobody
  <2> QED BY <2>1, <2>2, <2>3, <2>4 DEF Beginning
<1>7. Housed'
  BY <1>1 DEF Housed, Steps
<1>8. Whole'
  <2>1. job' = job => queue \subseteq queue'
    <3>1. CASE \E run \in Waiting : Acquire(run)
      <4>1. writer' # writer
        BY <3>1 DEF Acquire, Waiting, Nobody
      <4> QED BY <1>1, <4>1
    <3>2. CASE ~ \E run \in Waiting : Acquire(run)
      BY <3>2 DEF Beginning, World, Install, Uninstall, MayChange, WatchChange,
         BackgroundDelta, RequestDelta, RequestCompact, vars, lockVars, Queue
    <3> QED BY <3>1, <3>2
  <2> QED BY <1>1, <2>1 DEF Whole, Steps
<1>9. Capped'
  BY <1>1, <1>2, <1>3, <1>5 DEF Capped, Steps
<1>10. Kept'
  BY <1>1, <1>2, <1>3, <1>4 DEF Kept
<1>11. UNCHANGED <<present, version>> =>
         \A chunks, lost : UpToDate(chunks, lost) => UpToDate(chunks, lost)'
  BY DEF UpToDate, Wanted, SigOf
<1>12. ScanSeen'
  <2> SUFFICES ASSUME job' = job, writer' = writer, Firm, job # Absent, job.step = "extract"
               PROVE  ScanSeen'
    BY <1>1, <1>5 DEF ScanSeen
  <2>1. ~Behind' => /\ PathsOf(job.found) = Wanted'
                    /\ \A j \in DOMAIN job.reused : job.reused[j].text = SigOf(job.reused[j].path)'
    BY <1>6 DEF ScanSeen, Wanted, SigOf
  <2> QED BY <1>1, <1>2, <1>5, <2>1 DEF ScanSeen
<1>13. JobSeen'
  <2> SUFFICES ASSUME job' = job, writer' = writer, Firm, ~Behind', job # Absent,
                      job.step \in Steps, writer # "compact"
               PROVE  UpToDate(job.chunks, {})'
    BY <1>1, <1>5 DEF JobSeen, Steps
  <2> QED BY <1>5, <1>6, <1>11 DEF JobSeen
<1>14. MemorySeen'
  BY <1>1, <1>6, <1>11 DEF MemorySeen
<1>15. Collected'
  BY <1>1 DEF Collected, Steps
<1> QED BY <1>7, <1>8, <1>9, <1>10, <1>12, <1>13, <1>14, <1>15

LEMMA RequestFullSeen ==
  ASSUME SoundInv, SeenInv, RequestFull
  PROVE  SeenInv'
<1> USE DEF SeenInv
<1>1. /\ UNCHANGED <<present, version, runtime, model, boot, loaded, writer, job,
                     torn, dirty, unseen, pruned>>
      /\ disk' = EmptyDisk /\ "full" \in queue'
      /\ "watch" \in queue' <=> "watch" \in queue
  BY DEF RequestFull, Requesting, Queue, worldVars, bootVars
<1>2. Filling' /\ (Behind' <=> Behind) /\ (Firm' <=> Firm)
  BY <1>1 DEF Filling, Behind, Firm, Full
<1>3. LoadChunks' = <<>>
  BY <1>1, EmptyReading
<1>4. Housed' /\ Whole' /\ Kept' /\ Collected' /\ MemorySeen'
  BY <1>1, <1>2 DEF Housed, Whole, Kept, Collected, MemorySeen
<1>5. Capped'
  BY <1>1, <1>2, <1>3, FewNone DEF Capped
<1>6. ScanSeen'
  BY <1>1, <1>2 DEF ScanSeen, Wanted, SigOf
<1>7. JobSeen'
  <2>1. \A chunks : UpToDate(chunks, {}) => UpToDate(chunks, {})'
    BY <1>1 DEF UpToDate, Wanted, SigOf
  <2> QED BY <1>1, <1>2, <2>1 DEF JobSeen
<1> QED BY <1>4, <1>5, <1>6, <1>7

LEMMA ReadPaths ==
  ASSUME TypeInv
  PROVE  PathsOf(LoadChunks) \subseteq Command \cup {Absent}
<1>1. LoadChunks \in Seq(ReadChunk)
  BY LoadChunksType DEF TypeInv, Stores
<1>2. \A i \in DOMAIN LoadChunks : LoadChunks[i] \in ReadChunk
  BY <1>1
<1> QED BY <1>2 DEF PathsOf, ReadChunk

LEMMA ChunkPaths ==
  ASSUME NEW chunks \in Seq(Chunk)
  PROVE  PathsOf(chunks) \subseteq Command \cup {Absent}
<1>1. \A i \in DOMAIN chunks : chunks[i] \in Chunk
  OBVIOUS
<1> QED BY <1>1 DEF PathsOf, Chunk

LEMMA PrunedHoused ==
  ASSUME TypeInv, NEW kept, kept = Pruned(LoadEntries, LoadChunks)
  PROVE  kept.entries = <<>> \/ PathsOf(kept.chunks) \subseteq PathsOf(kept.entries)
<1> DEFINE es == At(LoadEntries, {i \in DOMAIN LoadEntries : LoadEntries[i].path \in present})
           live == IF es = <<>> THEN present ELSE PathsOf(es)
           I == {i \in DOMAIN LoadChunks : LoadChunks[i].path \in live}
<1>1. kept.entries = es /\ kept.chunks = At(LoadChunks, I)
  BY DEF Pruned
<1>2. LoadChunks \in Seq(ReadChunk)
  BY LoadChunksType DEF TypeInv, Stores
<1>3. ASSUME NEW k \in DOMAIN At(LoadChunks, I)
      PROVE  At(LoadChunks, I)[k].path \in live
  <2>1. PICK i \in DOMAIN LoadChunks : i \in I /\ At(LoadChunks, I)[k] = LoadChunks[i]
    <3> HIDE DEF I
    <3> QED BY <1>2, <1>3, AtItems
  <2>2. LoadChunks[i].path \in live
    BY <2>1
  <2> HIDE DEF live, I
  <2> QED BY <2>1, <2>2
<1>4. PathsOf(kept.chunks) \subseteq live
  <2> HIDE DEF live, I
  <2> QED BY <1>1, <1>3 DEF PathsOf
<1> HIDE DEF es
<1> QED BY <1>1, <1>4

LEMMA BootLoadSeen ==
  ASSUME SoundInv, SeenInv, BootLoad
  PROVE  SeenInv'
<1> USE DEF SoundInv, SeenInv
<1>1. /\ UNCHANGED <<present, version, disk, runtime, model, writer, job, queue,
                     torn, pruned>>
      /\ boot = "load" /\ boot' = "publish"
  BY DEF BootLoad, worldVars, lockVars, historyVars
<1>2. /\ ~torn => ~Rewriting
      /\ (Full' <=> Full) /\ (Firm' <=> Firm) /\ (Rewriting' <=> Rewriting)
  <2>1. writer # "boot"
    BY <1>1 DEF TypeInv, Turns
  <2>2. ~torn => ~Rewriting
    BY <1>1, EarlyStill DEF Early
  <2> QED BY <1>1, <2>1, <2>2 DEF Full, Firm, Rewriting
<1>3. LoadChunks' = LoadChunks
  BY <1>1, SameReading
<1>4. \/ loaded'.chunks = <<>> /\ loaded'.entries = <<>>
      \/ /\ loaded'.chunks = Pruned(LoadEntries, LoadChunks).chunks
         /\ loaded'.entries = Pruned(LoadEntries, LoadChunks).entries
  BY DEF BootLoad
<1>5. Housed'
  BY <1>1, <1>4, PrunedHoused DEF Housed
<1>6. ~torn => Few(loaded'.chunks)
  <2> SUFFICES ASSUME ~torn, loaded'.chunks = Pruned(LoadEntries, LoadChunks).chunks
               PROVE  Few(loaded'.chunks)
    BY <1>4, FewNone
  <2>1. \A i \in DOMAIN loaded'.chunks : \E j \in DOMAIN LoadChunks :
          loaded'.chunks[i] = LoadChunks[j]
    BY PrunedType, LoadEntriesType, LoadChunksType DEF TypeInv, Places, Stores
  <2>2. PathsOf(loaded'.chunks) \subseteq PathsOf(LoadChunks)
    BY <2>1 DEF PathsOf
  <2>3. Few(LoadChunks)
    BY <1>2 DEF Capped
  <2> QED BY <2>2, <2>3, FewPart, ReadPaths
<1>7. Capped'
  BY <1>1, <1>2, <1>3, <1>6 DEF Capped
<1>8. Kept'
  BY <1>1, <1>2, <1>3 DEF Kept, Filling
<1>9. Behind' /\ (Nothing' <=> Nothing) /\ (Filling' <=> Filling)
  BY <1>1, <1>2 DEF Behind, Nothing, ToExtract, Filling
<1>10. Whole' /\ ScanSeen' /\ JobSeen' /\ Collected' /\ MemorySeen'
  BY <1>1, <1>2, <1>3, <1>9 DEF Whole, ScanSeen, JobSeen, Collected, MemorySeen
<1> QED BY <1>5, <1>7, <1>8, <1>10

LEMMA BootPublishSeen ==
  ASSUME SoundInv, PlaceInv, SeenInv, BootPublish
  PROVE  SeenInv'
<1> USE DEF SoundInv, SeenInv
<1>1. /\ UNCHANGED <<present, version, disk, model, loaded, writer, job, torn>>
      /\ boot = "publish" /\ boot' = "queued" /\ queue' = queue \cup {"boot"}
  BY DEF BootPublish, worldVars
<1>2. /\ ~torn => ~Rewriting
      /\ loaded # Absent /\ writer # "boot"
  BY <1>1, EarlyStill DEF Early, TypeInv, Booting, Turns
<1>3. LoadEntries' = LoadEntries /\ LoadChunks' = LoadChunks
  BY <1>1, SameReading
<1>4. /\ (Full' <=> Full) /\ (Firm' <=> Firm) /\ (Rewriting' <=> Rewriting)
      /\ (Nothing' <=> Nothing) /\ (Filling' <=> Filling) /\ Behind'
  BY <1>1 DEF Full, Firm, Rewriting, Nothing, ToExtract, Filling, Behind
<1>5. Whole' /\ ScanSeen' /\ JobSeen' /\ Collected' /\ MemorySeen'
  BY <1>1, <1>3, <1>4 DEF Whole, ScanSeen, JobSeen, Collected, MemorySeen
<1>6. CASE loaded.chunks = <<>>
  <2>1. runtime' = runtime /\ pruned' = pruned
    BY <1>6 DEF BootPublish
  <2>2. Housed' /\ Capped'
    BY <1>1, <1>3, <1>4, <2>1 DEF Housed, Capped
  <2>3. Kept'
    BY <1>1, <1>3, <1>4, <2>1 DEF Kept
  <2> QED BY <1>5, <2>2, <2>3
<1>7. CASE loaded.chunks # <<>>
  <2>1. /\ runtime'.chunks = loaded.chunks
        /\ \/ loaded.entries # <<>> /\ runtime'.binaries = loaded.entries
           \/ runtime'.binaries = [i \in DOMAIN loaded.chunks |->
                [path |-> loaded.chunks[i].path,
                 sig |-> [path |-> loaded.chunks[i].path, version |-> Stub]]]
        /\ pruned' = Virtual \cap PathsOf(LoadChunks)
    BY <1>7 DEF BootPublish, Retriever
  <2>2. PathsOf(runtime'.chunks) \subseteq PathsOf(runtime'.binaries)
    <3>1. CASE loaded.entries # <<>> /\ runtime'.binaries = loaded.entries
      BY <1>1, <2>1, <3>1 DEF Housed
    <3>2. CASE runtime'.binaries =
                 [i \in DOMAIN loaded.chunks |->
                    [path |-> loaded.chunks[i].path,
                     sig |-> [path |-> loaded.chunks[i].path, version |-> Stub]]]
      <4>1. /\ DOMAIN runtime'.binaries = DOMAIN runtime'.chunks
            /\ \A i \in DOMAIN runtime'.chunks :
                 runtime'.binaries[i].path = runtime'.chunks[i].path
        BY <2>1, <3>2
      <4> QED BY <4>1 DEF PathsOf
    <3> QED BY <2>1, <3>1, <3>2
  <2>3. Housed'
    BY <1>1, <2>2 DEF Housed
  <2>4. Capped'
    BY <1>1, <1>3, <1>4, <2>1 DEF Capped
  <2>5. ~loaded.full
    BY <1>1, <1>7 DEF PlaceInv, LoadedFits
  <2>6. Kept'
    <3> SUFFICES ASSUME ~torn, ~Filling, ~Dropped
                 PROVE  /\ \A i \in DOMAIN runtime'.chunks : \E j \in DOMAIN LoadChunks :
                             runtime'.chunks[i] = LoadChunks[j]
                        /\ PathsOf(LoadChunks) \subseteq PathsOf(runtime'.chunks) \cup pruned'
      <4>1. Dropped => Due'
        BY <1>1, <1>2, <1>3 DEF Due, Dropped, Outdated
      <4> QED BY <1>1, <1>3, <1>4, <4>1 DEF Kept
    <3> DEFINE I == {i \in DOMAIN LoadChunks : LoadChunks[i].path \notin Virtual}
    <3>1. runtime'.chunks = At(LoadChunks, I)
      BY <1>1, <2>1, <2>5 DEF PlaceInv, LoadedFits, Lasting
    <3>2. LoadChunks \in Seq(ReadChunk)
      BY LoadChunksType DEF TypeInv, Stores
    <3>3. ASSUME NEW i \in DOMAIN LoadChunks
          PROVE  LoadChunks[i].path \in PathsOf(runtime'.chunks) \cup pruned'
      <4>1. CASE LoadChunks[i].path \in Virtual
        BY <2>1, <4>1 DEF PathsOf
      <4>2. CASE i \in I
        <5>1. PICK k \in DOMAIN At(LoadChunks, I) : At(LoadChunks, I)[k] = LoadChunks[i]
          <6> HIDE DEF I
          <6> QED BY <3>2, <4>2, AtHolds
        <5> HIDE DEF I
        <5> QED BY <3>1, <5>1 DEF PathsOf
      <4> QED BY <4>1, <4>2
    <3>4. PathsOf(LoadChunks) \subseteq PathsOf(runtime'.chunks) \cup pruned'
      <4>1. \A p \in PathsOf(LoadChunks) : \E i \in DOMAIN LoadChunks : p = LoadChunks[i].path
        BY DEF PathsOf
      <4> QED BY <3>3, <4>1
    <3> HIDE DEF I
    <3> QED BY <3>1, <3>2, <3>4, AtItems
  <2> QED BY <1>5, <2>3, <2>4, <2>6
<1> QED BY <1>6, <1>7

LEMMA CrashSeen ==
  ASSUME SoundInv, SeenInv, Crash
  PROVE  SeenInv'
<1> USE DEF SoundInv, SeenInv
<1>1. /\ UNCHANGED <<present, version, disk>> /\ job' = Absent /\ boot' = "load"
      /\ runtime' = EmptyRuntime /\ torn' = (torn \/ HalfWritten)
  BY DEF Crash, worldVars
<1>2. LoadChunks' = LoadChunks
  BY <1>1, SameReading
<1>3. ~torn' => Few(LoadChunks)
  <2> SUFFICES ASSUME ~torn, ~HalfWritten PROVE Few(LoadChunks)
    BY <1>1
  <2>1. CASE ~Rewriting
    BY <2>1 DEF Capped
  <2>2. CASE Rewriting
    <3>1. job # Absent /\ job.step = "publish"
      BY <2>2 DEF Rewriting, HalfWritten, Steps
    <3>2. LoadChunks \in {<<>>, job.chunks}
      BY <3>1, ReadBack
    <3>3. Few(job.chunks)
      BY <3>1 DEF Capped, Firm, Steps
    <3> QED BY <3>2, <3>3, FewNone
  <2> QED BY <2>1, <2>2
<1>4. Capped'
  BY <1>1, <1>2, <1>3, FewNone DEF Capped, EmptyRuntime
<1>5. Housed'
  BY <1>1 DEF Housed, EmptyRuntime
<1>6. Whole' /\ Kept' /\ ScanSeen' /\ JobSeen' /\ Collected' /\ MemorySeen'
  BY <1>1 DEF Whole, Kept, ScanSeen, JobSeen, Collected, MemorySeen, EmptyRuntime
<1> QED BY <1>4, <1>5, <1>6

\* A chunk that is read has an entry.
LEMMA ReadHoused == PathsOf(LoadChunks) \subseteq PathsOf(LoadEntries)
<1> SUFFICES ASSUME NEW i \in DOMAIN LoadChunks
             PROVE  LoadChunks[i].path \in PathsOf(LoadEntries)
  BY DEF PathsOf
<1>1. LoadChunks # <<>>
  OBVIOUS
<1>2. /\ \A k \in DOMAIN LiveRows : LiveRows[k].entry \in DOMAIN LoadEntries
      /\ LoadChunks = [k \in DOMAIN LiveRows |->
             [path |-> LoadEntries[LiveRows[k].entry].path,
              text |-> IF k \in DOMAIN disk.docs
                       THEN disk.docs[k]
                       ELSE [path |-> Absent, version |-> Stub]]]
  BY <1>1 DEF LoadChunks
<1>3. /\ i \in DOMAIN LiveRows /\ LiveRows[i].entry \in DOMAIN LoadEntries
      /\ LoadChunks[i].path = LoadEntries[LiveRows[i].entry].path
  BY <1>2
<1> QED BY <1>3 DEF PathsOf

\* A scan that finds nothing to do reuses all there is.
LEMMA ScanAll ==
  ASSUME TypeInv, Scan, Nothing', ~Full
  PROVE  job'.reused = LoadChunks
<1>1. PICK order \in Orders :
        LET found == Found(order)
            reuse == {q \in ToSet(found) : Reusable(LoadEntries, LoadChunks, q)}
        IN job' = [step |-> "extract",
                   found |-> [i \in DOMAIN found |->
                                [path |-> found[i], sig |-> SigOf(found[i])]],
                   reused |-> At(LoadChunks, {i \in DOMAIN LoadChunks :
                                                 LoadChunks[i].path \in reuse}),
                   dead |-> PathsOf(LoadChunks) \ reuse,
                   removed |-> PathsOf(LoadEntries) \ ToSet(found)]
  BY DEF Scan
<1> DEFINE found == Found(order)
           reuse == {q \in ToSet(found) : Reusable(LoadEntries, LoadChunks, q)}
           I == {i \in DOMAIN LoadChunks : LoadChunks[i].path \in reuse}
<1>2. /\ job'.removed = PathsOf(LoadEntries) \ ToSet(found)
      /\ job'.found = [i \in DOMAIN found |-> [path |-> found[i], sig |-> SigOf(found[i])]]
      /\ job'.reused = At(LoadChunks, I)
  BY <1>1
<1>3. LoadChunks \in Seq(ReadChunk)
  BY LoadChunksType DEF TypeInv, Stores
<1>4. ASSUME NEW i \in DOMAIN LoadChunks
      PROVE  LoadChunks[i].path \in reuse
  <2> DEFINE p == LoadChunks[i].path
  <2>1. p \in PathsOf(LoadEntries)
    BY ReadHoused DEF PathsOf
  <2>2. p \in ToSet(found)
    <3> HIDE DEF found
    <3> QED BY <1>2, <2>1 DEF Nothing
  <2>3. p \in PathsOf(job'.found)
    <3>1. PICK k \in DOMAIN found : found[k] = p
      BY <2>2 DEF ToSet
    <3> HIDE DEF found, p
    <3> QED BY <1>2, <3>1 DEF PathsOf
  <2>4. p \in PathsOf(job'.reused)
    <3> HIDE DEF p
    <3> QED BY <2>3 DEF Nothing, ToExtract
  <2>5. PICK k \in DOMAIN job'.reused : job'.reused[k].path = p
    BY <2>4 DEF PathsOf
  <2>6. PICK j \in DOMAIN LoadChunks : j \in I /\ job'.reused[k] = LoadChunks[j]
    <3> HIDE DEF I
    <3> QED BY <1>2, <1>3, <2>5, AtItems
  <2>7. LoadChunks[j].path \in reuse
    BY <2>6
  <2> HIDE DEF reuse
  <2> QED BY <2>5, <2>6, <2>7
<1>5. DOMAIN LoadChunks \subseteq I
  BY <1>4
<1> HIDE DEF I
<1> QED BY <1>2, <1>3, <1>5, AtAll

LEMMA ScanSeenStep ==
  ASSUME SoundInv, SeenInv, Scan
  PROVE  SeenInv'
<1> USE DEF SoundInv, SeenInv
<1>1. /\ UNCHANGED <<present, version, disk, runtime, model, loaded, writer, queue,
                     torn, pruned>>
      /\ job # Absent /\ job.step = "scan"
      /\ boot' = IF writer = "boot" THEN "indexing" ELSE boot
  BY DEF Scan, worldVars
<1>2. writer = "boot" => boot = "queued"
  BY <1>1 DEF TypeInv, Turns
<1>3. LoadEntries' = LoadEntries /\ LoadChunks' = LoadChunks
  BY <1>1, SameReading
<1>4. /\ job'.step = "extract" /\ job' # Absent /\ TypeInv'
      /\ writer # "compact"
  BY ScanIs, ScanTypes, <1>1 DEF TypeInv, Running, Turns
<1>5. ~Rewriting /\ ~Rewriting' /\ (Firm' <=> Firm) /\ (Full' <=> Full)
  BY <1>1, <1>4 DEF Rewriting, Steps, Firm, Full
<1>6. Kept'
  BY <1>1, <1>2, <1>3, <1>5, ScanStaysDue DEF Kept, Filling
<1>7. PICK order \in Orders :
        LET found == Found(order) IN
        /\ found \in Seq(Command)
        /\ DOMAIN job'.found = DOMAIN found
        /\ \A i \in DOMAIN found :
             job'.found[i] = [path |-> found[i], sig |-> SigOf(found[i])]
        /\ \A k \in DOMAIN job'.reused :
             /\ ~Full
             /\ \E i \in DOMAIN LoadChunks : job'.reused[k] = LoadChunks[i]
             /\ job'.reused[k].path \in ToSet(found)
             /\ \E e \in DOMAIN LoadEntries :
                  LoadEntries[e] = [path |-> job'.reused[k].path,
                                    sig |-> SigOf(job'.reused[k].path)]
  BY ScanIs
<1>8. IsInjective(Found(order)) /\ ToSet(Found(order)) = Wanted
  BY FoundAll DEF TypeInv, Places
<1>9. ASSUME NEW i \in DOMAIN Found(order) PROVE job'.found[i].path = Found(order)[i]
  <2>1. job'.found[i] = [path |-> Found(order)[i], sig |-> SigOf(Found(order)[i])]
    BY <1>7
  <2> QED BY <2>1
<1>10. PathsOf(job'.found) = Wanted
  <2>1. PathsOf(job'.found) = ToSet(Found(order))
    BY <1>7, <1>9 DEF PathsOf, ToSet
  <2> QED BY <1>8, <2>1
<1>11. Distinct(job'.found)
  BY <1>7, <1>8, <1>9 DEF Distinct, IsInjective
<1>12. PathsOf(job'.reused) \subseteq Wanted
  BY <1>7, <1>8 DEF PathsOf
<1>13. ASSUME Firm, NEW k \in DOMAIN job'.reused
       PROVE  job'.reused[k].text = SigOf(job'.reused[k].path)
  <2>1. ~torn
    BY <1>7, <1>13 DEF Firm
  <2>2. Clean(present, version, LoadEntries, LoadChunks)
    BY <1>5, <2>1 DEF AllClean, DiskClean
  <2>3. PICK i \in DOMAIN LoadChunks : job'.reused[k] = LoadChunks[i]
    BY <1>7
  <2>4. PICK e \in DOMAIN LoadEntries :
          LoadEntries[e] = [path |-> job'.reused[k].path,
                            sig |-> SigOf(job'.reused[k].path)]
    BY <1>7
  <2>5. job'.reused[k].path \in Wanted
    BY <1>12 DEF PathsOf
  <2> QED BY <2>2, <2>3, <2>4, <2>5, CleanReuse
<1>14. ScanSeen'
  <2>1. Nothing' => job'.reused = LoadChunks
    <3>1. Nothing' => ~Full
      BY <1>5 DEF Nothing
    <3> QED BY <3>1, ScanAll
  <2>2. PICK reused : reused = job'.reused
    OBVIOUS
  <2>3. Firm => \A k \in DOMAIN reused : (reused[k].text = SigOf(reused[k].path))'
    BY <1>1, <1>13, <2>2 DEF SigOf
  <2>4. Wanted' = Wanted
    BY <1>1 DEF Wanted
  <2> QED BY <1>3, <1>5, <1>10, <1>11, <1>12, <2>1, <2>2, <2>3, <2>4 DEF ScanSeen
<1>15. Firm => Few(job'.reused)
  <2>1. CASE Full
    <3>1. PathsOf(job'.reused) = {}
      BY <1>7, <2>1 DEF PathsOf
    <3>2. PathsOf(<<>>) = {}
      BY DEF PathsOf
    <3> QED BY <3>1, <3>2, FewNone DEF Few
  <2>2. CASE ~torn
    <3>1. Few(LoadChunks)
      BY <1>5, <2>2 DEF Capped
    <3>2. PathsOf(job'.reused) \subseteq PathsOf(LoadChunks)
      BY <1>7 DEF PathsOf
    <3> QED BY <3>1, <3>2, FewPart, ReadPaths
  <2> QED BY <2>1, <2>2 DEF Firm
<1>16. Capped'
  BY <1>1, <1>2, <1>3, <1>4, <1>5, <1>15 DEF Capped, Steps
<1>17. Housed' /\ Whole' /\ JobSeen' /\ Collected' /\ MemorySeen'
  BY <1>1, <1>2, <1>4 DEF Housed, Whole, JobSeen, Collected, MemorySeen, Steps
<1> QED BY <1>6, <1>14, <1>16, <1>17

LEMMA ExtractSeen ==
  ASSUME SoundInv, SeenInv, Extract
  PROVE  SeenInv'
<1> USE DEF SoundInv, SeenInv
<1>1. /\ UNCHANGED <<present, version, runtime, model, boot, loaded, writer, queue,
                     torn, dirty, unseen, pruned>>
      /\ job # Absent /\ job.step = "extract"
      /\ disk' = IF Full THEN EmptyDisk ELSE disk
  BY DEF Extract, worldVars, bootVars, historyVars
<1>2. /\ TypeInv' /\ writer # "compact"
      /\ writer = "boot" => boot \in {"queued", "indexing"}
  BY <1>1, ExtractTypes DEF TypeInv, Turns
<1>3. /\ job'.step = "manifest" /\ job'.chunks = Extracted
      /\ job'.stored = SubSeq(job.found, 1, Fitting)
  BY ExtractIs
<1>4. /\ job \in Scanned /\ Fitting \in Nat /\ Fitting <= Len(job.found)
      /\ Extracted \in Seq(Chunk) /\ Len(Extracted) = Fitting
      /\ \A i \in 1 .. Fitting :
            /\ Extracted[i].path = job.found[i].path
            /\ \/ Extracted[i].text = TextOf(job.found[i].path)
               \/ \E j \in DOMAIN job.reused : Extracted[i] = job.reused[j]
  BY ExtractIs
<1>5. job.found \in Seq(Entry)
  BY <1>4 DEF Scanned
<1>6. /\ DOMAIN job'.stored = 1 .. Fitting
      /\ \A i \in 1 .. Fitting : job'.stored[i] = job.found[i] /\ i \in DOMAIN job.found
  BY <1>3, <1>4, <1>5, CutType
<1>7. job' # Absent
  BY <1>2, <1>1 DEF TypeInv, Running
<1>8. /\ ~Rewriting /\ ~Rewriting' /\ (Firm' <=> Firm) /\ (Filling' <=> Filling)
      /\ (Behind' <=> Behind)
  BY <1>1, <1>3 DEF Rewriting, Steps, Firm, Full, Filling, Behind
<1>9. DOMAIN Extracted = 1 .. Fitting
  BY <1>4
<1>10. PathsOf(Extracted) \subseteq PathsOf(job'.stored)
  BY <1>4, <1>6, <1>9 DEF PathsOf
<1>11. ASSUME Firm
       PROVE  Cardinality(PathsOf(Extracted)) = Fitting
  <2>1. Distinct(job.found)
    BY <1>1, <1>11 DEF ScanSeen
  <2>2. \A i \in DOMAIN Extracted :
          i \in DOMAIN job.found /\ Extracted[i].path = job.found[i].path
    BY <1>4, <1>6, <1>9
  <2>3. Distinct(Extracted)
    BY <2>1, <2>2 DEF Distinct
  <2> QED BY <1>4, <2>3, DistinctCount
<1>12. MaxChunks \in Nat /\ Len(job.found) \in Nat
  BY <1>5, IndexAssumption
<1>13. Firm => Few(job'.chunks)
  BY <1>3, <1>4, <1>11, <1>12 DEF Few, Fitting
<1>14. LoadChunks' = IF Full THEN <<>> ELSE LoadChunks
  BY <1>1, EmptyReading, SameReading
<1>15. Capped'
  BY <1>1, <1>2, <1>3, <1>8, <1>13, <1>14, FewNone DEF Capped
<1>16. Kept'
  <2>1. Due'
    BY <1>3, <1>7, WritingDue DEF Steps
  <2>2. CASE ~Full
    BY <1>1, <1>2, <1>8, <1>14, <2>1, <2>2 DEF Kept
  <2>3. CASE Full
    BY <1>1, <1>2, <2>1, <2>3 DEF Kept, Full, Filling
  <2> QED BY <2>2, <2>3
<1>17. Housed' /\ Whole' /\ ScanSeen' /\ Collected' /\ MemorySeen'
  BY <1>1, <1>2, <1>3, <1>7, <1>10
  DEF Housed, Whole, ScanSeen, Collected, MemorySeen, Steps
<1>18. ASSUME Firm, ~Behind PROVE UpToDate(Extracted, {})
  <2>1. /\ Distinct(job.found) /\ PathsOf(job.found) = Wanted
        /\ \A j \in DOMAIN job.reused : job.reused[j].text = SigOf(job.reused[j].path)
    BY <1>1, <1>18 DEF ScanSeen
  <2>2. ASSUME NEW i \in DOMAIN Extracted
        PROVE  Extracted[i].path \in Wanted /\ Extracted[i].text = SigOf(Extracted[i].path)
    <3>1. i \in 1 .. Fitting /\ i \in DOMAIN job.found
      BY <1>6, <1>9
    <3>2. Extracted[i].path = job.found[i].path
      BY <1>4, <3>1
    <3>3. Extracted[i].path \in Wanted
      BY <2>1, <3>1, <3>2 DEF PathsOf
    <3>4. CASE Extracted[i].text = TextOf(job.found[i].path)
      BY <3>2, <3>3, <3>4, IndexAssumption DEF TextOf, Wanted
    <3>5. CASE \E j \in DOMAIN job.reused : Extracted[i] = job.reused[j]
      BY <2>1, <3>3, <3>5
    <3> QED BY <1>4, <3>1, <3>4, <3>5
  <2>3. Cardinality(Wanted) = Len(job.found)
    BY <1>5, <2>1, DistinctCount
  <2>4. Fitting = Least(MaxChunks, Cardinality(Wanted))
    BY <1>12, <2>3 DEF Fitting, Least
  <2>5. PathsOf(Extracted) \cup {} = PathsOf(Extracted)
    OBVIOUS
  <2> QED BY <1>11, <1>18, <2>2, <2>4, <2>5 DEF UpToDate
<1>19. JobSeen'
  <2>1. UpToDate(Extracted, {}) => UpToDate(job'.chunks, {})
    BY <1>3
  <2>2. \A chunks : UpToDate(chunks, {}) => UpToDate(chunks, {})'
    BY <1>1 DEF UpToDate, Wanted, SigOf
  <2>3. PICK chunks : chunks = job'.chunks
    OBVIOUS
  <2>4. Firm /\ ~Behind => UpToDate(chunks, {})'
    BY <1>18, <2>1, <2>2, <2>3
  <2>5. UpToDate(chunks, {})' = UpToDate(job.chunks, {})'
    BY <2>3 DEF UpToDate
  <2> QED BY <1>8, <2>4, <2>5 DEF JobSeen
<1> QED BY <1>15, <1>16, <1>17, <1>19

LEMMA CollectSeen ==
  ASSUME SoundInv, SeenInv, Collect
  PROVE  SeenInv'
<1> USE DEF SoundInv, SeenInv
<1>1. /\ TypeInv' /\ writer = "compact" /\ job'.step = "manifest"
      /\ job'.chunks = runtime.chunks /\ job'.stored = runtime.binaries
  BY CollectTypes
<1>2. /\ UNCHANGED <<present, version, disk, runtime, model, boot, loaded, writer,
                     queue, torn, dirty, unseen, pruned>>
      /\ job # Absent /\ job.step = "collect"
  BY DEF Collect, worldVars, bootVars, historyVars
<1>3. LoadEntries' = LoadEntries /\ LoadChunks' = LoadChunks
  BY <1>2, SameReading
<1>4. job' # Absent
  BY <1>1, <1>2 DEF TypeInv, Running
<1>5. ~Full' /\ ~Rewriting /\ ~Rewriting' /\ (Filling' <=> Filling) /\ (Behind' <=> Behind)
  BY <1>1, <1>2 DEF Full, Rewriting, Steps, Filling, Behind
<1>6. Housed' /\ Whole' /\ ScanSeen' /\ JobSeen' /\ Collected'
  BY <1>1, <1>2, <1>4 DEF Housed, Whole, ScanSeen, JobSeen, Collected, Steps
<1>7. Capped'
  BY <1>1, <1>2, <1>3, <1>4, <1>5 DEF Capped, Firm
<1>8. Kept'
  <2>1. Due'
    BY <1>1, <1>4, WritingDue DEF Steps
  <2> QED BY <1>2, <1>3, <1>5, <2>1 DEF Kept
<1>9. MemorySeen'
  <2>1. \A chunks, lost : UpToDate(chunks, lost) => UpToDate(chunks, lost)'
    BY <1>2 DEF UpToDate, Wanted, SigOf
  <2> QED BY <1>1, <1>2, <1>5, <2>1 DEF MemorySeen
<1> QED BY <1>6, <1>7, <1>8, <1>9

LEMMA WriteLayoutWhole ==
  ASSUME SoundInv, Whole, WriteLayout
  PROVE  Whole'
<1> USE DEF SoundInv
<1>1. job \in Writing /\ job # Absent /\ queue' = queue
  BY WriteLayoutIs
<1>2. disk \in Files
  BY DEF TypeInv, Stores
<1>3. /\ PathsFile # Absent /\ EntriesFile # Absent /\ DocsFile # Absent
      /\ RowsFile # Absent
  BY <1>1, Contents
<1>4. CASE WriteManifest
  BY <1>4, <1>1 DEF WriteManifest, WriteFile, Whole, Steps, Writing
<1>5. CASE WritePaths
  <2>1. job'.step = "entries" /\ disk'.paths = PathsFile
    BY <1>1, <1>2, <1>5 DEF WritePaths, WriteFile, PathsFile, Files, Writing
  <2> QED BY <1>3, <2>1 DEF Whole
<1>6. CASE WriteEntries
  <2>1. /\ job.step = "entries" /\ job'.step = "docs"
        /\ disk'.entries = EntriesFile /\ disk'.paths = disk.paths
    BY <1>1, <1>2, <1>6 DEF WriteEntries, WriteFile, EntriesFile, Files, Writing
  <2> QED BY <1>1, <1>3, <2>1 DEF Whole, Steps
<1>7. CASE WriteDocs
  <2>1. /\ job.step = "docs" /\ job'.step = "rows" /\ disk'.docs = DocsFile
        /\ disk'.entries = disk.entries /\ disk'.paths = disk.paths
    BY <1>1, <1>2, <1>7 DEF WriteDocs, WriteFile, DocsFile, Files, Writing
  <2> QED BY <1>1, <1>3, <2>1 DEF Whole, Steps
<1>8. CASE WriteRows
  <2>1. /\ job.step = "rows" /\ job'.step = "lexical" /\ disk'.rows = RowsFile
        /\ disk'.docs = disk.docs
        /\ disk'.entries = disk.entries /\ disk'.paths = disk.paths
    BY <1>1, <1>2, <1>8 DEF WriteRows, WriteFile, RowsFile, Files, Writing
  <2> QED BY <1>1, <1>3, <2>1 DEF Whole, Steps
<1>9. CASE WriteLexical \/ WriteVectors
  <2>1. /\ job.step \in {"lexical", "vectors"} /\ job'.step \in {"vectors", "publish"}
        /\ disk'.rows = disk.rows /\ disk'.docs = disk.docs
        /\ disk'.entries = disk.entries /\ disk'.paths = disk.paths
    BY <1>1, <1>2, <1>9 DEF WriteLexical, WriteVectors, WriteFile, Files, Writing
  <2> QED BY <1>1, <2>1 DEF Whole, Steps
<1> QED BY <1>4, <1>5, <1>6, <1>7, <1>8, <1>9 DEF WriteLayout

LEMMA WriteLayoutSeen ==
  ASSUME SoundInv, SeenInv, WriteLayout
  PROVE  SeenInv'
<1> USE DEF SoundInv, SeenInv
<1>1. /\ job \in Writing /\ job # Absent
      /\ UNCHANGED <<present, version, runtime, model, boot, loaded, writer, queue,
                     dirty, unseen, pruned>>
      /\ torn' = (torn \/ Early)
  BY WriteLayoutIs DEF worldVars, bootVars, historyVars
<1>2. PICK next \in Steps : job' = [job EXCEPT !.step = next]
  BY WriteLayoutIs
<1>3. /\ job'.step = next /\ job'.chunks = job.chunks /\ job'.stored = job.stored
      /\ job' # Absent /\ job.step \in Steps
  BY <1>1, <1>2, WriteLayoutTypes DEF Writing, Steps, TypeInv, Running
<1>4. ~torn' => ~torn
  BY <1>1
<1>5. (Firm' => Firm) /\ (Filling' <=> Filling) /\ (Behind' <=> Behind)
  BY <1>1, <1>3 DEF Firm, Full, Filling, Behind, Steps
<1>6. \/ Rewriting'
      \/ ~Rewriting /\ ~Rewriting' /\ LoadChunks' = LoadChunks
  <2>1. CASE WriteManifest
    <3>1. /\ disk' = [disk EXCEPT !.manifest = [mode |-> job.mode, model |-> model]]
          /\ job.step = "manifest" /\ job'.step = "paths" /\ disk \in Files
      BY <1>1, <2>1 DEF WriteManifest, WriteFile, TypeInv, Stores, Writing
    <3>2. LoadChunks' = LoadChunks
      BY <3>1, SameReading DEF Files
    <3> QED BY <3>1, <3>2 DEF Rewriting
  <2>2. CASE ~WriteManifest
    <3>1. PICK step \in Steps \ {"manifest", "paths"} : job' = [job EXCEPT !.step = step]
      BY <2>2 DEF WriteLayout, WritePaths, WriteEntries, WriteDocs, WriteRows,
                  WriteLexical, WriteVectors, WriteFile, Steps
    <3>2. job'.step = step
      BY <1>1, <3>1 DEF Writing
    <3> QED BY <1>3, <3>2 DEF Rewriting
  <2> QED BY <2>1, <2>2
<1>7. Housed' /\ ScanSeen' /\ Collected'
  BY <1>1, <1>3 DEF Housed, ScanSeen, Collected, Steps
<1>8. Whole'
  BY WriteLayoutWhole
<1>9. Capped'
  BY <1>1, <1>3, <1>4, <1>5, <1>6 DEF Capped, Steps
<1>10. Kept'
  <2>1. Due'
    BY <1>3, WritingDue
  <2> QED BY <1>1, <1>4, <1>5, <1>6, <2>1 DEF Kept
<1>11. \A chunks, lost : UpToDate(chunks, lost) => UpToDate(chunks, lost)'
  BY <1>1 DEF UpToDate, Wanted, SigOf
<1>12. MemorySeen'
  BY <1>1, <1>3, <1>4, <1>5, <1>11 DEF MemorySeen, Steps
<1>13. JobSeen'
  <2>1. UpToDate(job'.chunks, {}) = UpToDate(job.chunks, {})
    BY <1>3
  <2>2. UpToDate(job.chunks, {})' = (UpToDate(job'.chunks, {}))
    BY <1>1 DEF UpToDate, Wanted, SigOf
  <2> QED BY <1>1, <1>3, <1>5, <2>1, <2>2 DEF JobSeen
<1> QED BY <1>7, <1>8, <1>9, <1>10, <1>12, <1>13

\* The fill-in of a memory that is empty holds every command that was found.
LEMMA FillHoused ==
  ASSUME TypeInv, Unchanged, ~ UNCHANGED <<runtime, pruned, reordered>>
  PROVE  /\ PathsOf(runtime'.chunks) = PathsOf(job.found)
         /\ PathsOf(runtime'.binaries) = PathsOf(job.found)
         /\ \A i \in DOMAIN runtime'.chunks : \E j \in DOMAIN job.reused :
              runtime'.chunks[i] = job.reused[j]
<1> DEFINE chunks == [i \in DOMAIN job.found |-> ReusedOf(job.found[i].path)]
<1>1. job \in Scanned
  BY UnchangedIs
<1>2. runtime'.chunks = chunks /\ runtime'.binaries = job.found
  BY FillIs
<1>3. ASSUME NEW i \in DOMAIN job.found
      PROVE  /\ chunks[i].path = job.found[i].path
             /\ \E j \in DOMAIN job.reused : chunks[i] = job.reused[j]
  <2>1. job.found[i].path \in PathsOf(job.reused)
    BY DEF Unchanged, Nothing, ToExtract, PathsOf
  <2> QED BY <1>1, <2>1, ReusedOfType
<1>4. DOMAIN chunks = DOMAIN job.found
  OBVIOUS
<1> HIDE DEF chunks
<1> QED BY <1>2, <1>3, <1>4 DEF PathsOf

LEMMA UnchangedSeen ==
  ASSUME SoundInv, SeenInv, Unchanged
  PROVE  SeenInv'
<1> USE DEF SoundInv, SeenInv
<1> DEFINE Still == UNCHANGED <<runtime, pruned, reordered>>
<1>1. /\ UNCHANGED <<present, version, disk, model, queue, torn, dirty, unseen>>
      /\ job \in Scanned /\ job # Absent /\ job.step = "extract"
      /\ ~Full /\ Nothing
      /\ job' = Absent /\ writer' = Nobody
      /\ boot' = IF writer = "boot" THEN "done" ELSE boot
      /\ loaded' = IF writer = "boot" THEN Absent ELSE loaded
  BY UnchangedIs DEF Unchanged, Finish, Nothing, worldVars, historyVars
<1>2. /\ (writer = "boot" => boot = "indexing") /\ (boot = "indexing" => writer = "boot")
      /\ writer # "compact"
  BY <1>1 DEF TypeInv, Turns
<1>3. LoadEntries' = LoadEntries /\ LoadChunks' = LoadChunks
  BY <1>1, SameReading
<1>4. ~Rewriting /\ ~Rewriting' /\ (Due => writer # "boot" /\ Dropped)
  BY <1>1 DEF Rewriting, Steps, Due
<1>5. ~Filling' => ~Filling
  BY <1>1 DEF Filling, Full
<1>6. job.reused \in Seq(Chunk) /\ pruned \subseteq Virtual /\ pruned' \subseteq pruned
  <2>1. job.reused \in Seq(Chunk) /\ pruned \subseteq Virtual
    BY <1>1 DEF Scanned, TypeInv, Flags
  <2>2. CASE Still
    BY <2>1, <2>2
  <2>3. CASE ~Still
    BY <2>1, <2>3, FillIs
  <2> QED BY <2>2, <2>3
<1>7. ASSUME ~torn, ~Filling PROVE job.reused = LoadChunks
  BY <1>1, <1>7 DEF ScanSeen, Firm
<1>8. Housed'
  <2>1. PathsOf(runtime'.chunks) \subseteq PathsOf(runtime'.binaries)
    <3>1. CASE Still
      BY <3>1 DEF Housed
    <3>2. CASE ~Still
      BY <3>2, FillHoused
    <3> QED BY <3>1, <3>2
  <2> QED BY <1>1, <2>1 DEF Housed
<1>9. ASSUME ~torn PROVE Few(runtime'.chunks)
  <2>1. CASE Still
    BY <1>9, <2>1 DEF Capped
  <2>2. CASE ~Still
    <3>1. Few(job.reused)
      BY <1>1, <1>9 DEF Capped, Firm
    <3>2. PathsOf(runtime'.chunks) \subseteq PathsOf(job.reused)
      BY <2>2, FillHoused DEF PathsOf
    <3> QED BY <1>6, <3>1, <3>2, ChunkPaths, FewPart
  <2> QED BY <2>1, <2>2
<1>10. Capped'
  BY <1>1, <1>3, <1>4, <1>9 DEF Capped
<1>11. Kept'
  <2> SUFFICES ASSUME ~torn, ~Filling
               PROVE  Kept'
    BY <1>1, <1>5 DEF Kept
  <2>1. CASE Still
    <3>1. CASE \/ runtime.chunks = <<>>
               \/ /\ \A i \in DOMAIN runtime.chunks : \E j \in DOMAIN LoadChunks :
                       runtime.chunks[i] = LoadChunks[j]
                  /\ PathsOf(LoadChunks) \subseteq PathsOf(runtime.chunks) \cup pruned
      BY <1>3, <2>1, <3>1 DEF Kept
    <3>2. CASE boot \in {"queued", "indexing"} /\ loaded.full
      <4>1. writer # "boot"
        BY <1>1, <3>2 DEF Full
      <4> QED BY <1>1, <3>2, <4>1 DEF Kept
    <3>3. CASE boot \in {"queued", "indexing"} /\ Due
      <4>1. writer # "boot" /\ Dropped
        BY <1>4, <3>3
      <4>2. Due'
        BY <1>1, <1>3, <4>1 DEF Due, Dropped, Outdated
      <4> QED BY <1>1, <3>3, <4>1, <4>2 DEF Kept
    <3> QED BY <1>4, <3>1, <3>2, <3>3 DEF Kept
  <2>2. CASE ~Still
    <3>1. /\ PathsOf(runtime'.chunks) = PathsOf(job.found)
          /\ \A i \in DOMAIN runtime'.chunks : \E j \in DOMAIN LoadChunks :
               runtime'.chunks[i] = LoadChunks[j]
      BY <1>7, <2>2, FillHoused
    <3>2. PathsOf(LoadChunks) \subseteq PathsOf(job.found)
      BY <1>1, <1>7 DEF ScanSeen, Firm
    <3> QED BY <1>3, <3>1, <3>2 DEF Kept
  <2> QED BY <2>1, <2>2
<1>12. Whole' /\ ScanSeen' /\ JobSeen' /\ Collected'
  BY <1>1 DEF Whole, ScanSeen, JobSeen, Collected
<1>13. MemorySeen'
  <2> SUFFICES ASSUME ~torn, boot' = "done", ~Behind', ~Filling'
               PROVE  UpToDate(runtime.chunks, pruned)'
    BY <1>1 DEF MemorySeen
  <2>1. ~Behind /\ ~Filling
    BY <1>1, <1>2, <1>5 DEF Behind
  <2>2. /\ job.reused = LoadChunks
        /\ PathsOf(job.reused) \subseteq PathsOf(job.found) /\ PathsOf(job.found) = Wanted
        /\ \A j \in DOMAIN job.reused : job.reused[j].text = SigOf(job.reused[j].path)
    BY <1>1, <1>7, <2>1 DEF ScanSeen, Firm
  <2>3. PathsOf(job.reused) = Wanted
    BY <1>1, <2>2 DEF Nothing, ToExtract
  <2>4. pruned' \subseteq Wanted
    BY <1>6 DEF Wanted
  <2>5. /\ \A i \in DOMAIN runtime'.chunks : \E j \in DOMAIN job.reused :
             runtime'.chunks[i] = job.reused[j]
        /\ Wanted \subseteq PathsOf(runtime'.chunks) \cup pruned'
    <3>1. CASE ~Still
      BY <2>2, <3>1, FillHoused
    <3>2. CASE Still /\ runtime.chunks = <<>>
      <4> DEFINE chunks == [i \in DOMAIN job.found |-> ReusedOf(job.found[i].path)]
      <4>1. chunks = <<>>
        <5> SUFFICES ASSUME chunks # <<>> PROVE FALSE
          OBVIOUS
        <5> HIDE DEF chunks
        <5>1. runtime' = Retriever(chunks, job.found,
                                   IF disk.manifest = Absent THEN "disabled"
                                   ELSE disk.manifest.mode)
          BY <3>2 DEF Unchanged, chunks
        <5>2. runtime'.chunks = chunks
          BY <5>1 DEF Retriever
        <5> QED BY <3>2, <5>2
      <4>2. DOMAIN job.found = {}
        BY <4>1
      <4>3. Wanted = {}
        BY <2>2, <4>2 DEF PathsOf
      <4> QED BY <3>2, <4>3
    <3>3. CASE Still /\ runtime.chunks # <<>>
      <4>1. boot \in {"queued", "indexing"} => ~loaded.full /\ ~Due
        BY <1>1, <1>2, <1>4 DEF Full
      <4>2. /\ \A i \in DOMAIN runtime.chunks : \E j \in DOMAIN LoadChunks :
                 runtime.chunks[i] = LoadChunks[j]
            /\ PathsOf(LoadChunks) \subseteq PathsOf(runtime.chunks) \cup pruned
        BY <1>4, <2>1, <3>3, <4>1 DEF Kept
      <4> QED BY <2>2, <2>3, <3>3, <4>2
    <3> QED BY <3>1, <3>2, <3>3
  <2>6. \A i \in DOMAIN runtime'.chunks :
          /\ runtime'.chunks[i].path \in Wanted
          /\ runtime'.chunks[i].text = SigOf(runtime'.chunks[i].path)
    BY <2>2, <2>3, <2>5 DEF PathsOf
  <2>7. PathsOf(runtime'.chunks) \cup pruned' = Wanted
    <3>1. PathsOf(runtime'.chunks) \subseteq Wanted
      BY <2>6 DEF PathsOf
    <3> QED BY <2>4, <2>5, <3>1
  <2>8. Cardinality(Wanted) = Least(MaxChunks, Cardinality(Wanted))
    <3>1. Cardinality(PathsOf(job.reused)) <= MaxChunks
      BY <1>1 DEF Capped, Firm, Few
    <3>2. Cardinality(PathsOf(job.reused)) \in Nat /\ MaxChunks \in Nat
      BY <1>6, ChunkPaths, FinitePaths, IndexAssumption
    <3> QED BY <2>3, <3>1, <3>2 DEF Least
  <2>9. PICK chunks, lost : chunks = runtime'.chunks /\ lost = pruned'
    OBVIOUS
  <2>10. UpToDate(chunks, lost)
    BY <2>6, <2>7, <2>8, <2>9 DEF UpToDate
  <2>11. UpToDate(chunks, lost)'
    BY <1>1, <2>10 DEF UpToDate, Wanted, SigOf
  <2> QED BY <2>9, <2>11 DEF UpToDate
<1> QED BY <1>8, <1>10, <1>11, <1>12, <1>13

\* Unless a full reindex was asked for meanwhile, a run that publishes what it has
\* made leaves files that read as the same.
LEMMA ReadExactly ==
  ASSUME TypeInv, Written, Whole, Housed, job # Absent, job.step = "publish",
         "full" \notin queue
  PROVE  LoadChunks = job.chunks
<1> SUFFICES ASSUME LoadChunks = <<>> PROVE job.chunks = <<>>
  BY ReadBack
<1>1. job \in Writing
  BY StepsApart DEF TypeInv, Running
<1>2. job.chunks \in Seq(Chunk) /\ job.stored \in Seq(Entry)
  BY <1>1 DEF Writing
<1>3. /\ disk.paths # Absent /\ disk.entries # Absent
      /\ disk.docs # Absent /\ disk.rows # Absent
  BY DEF Whole, Steps
<1>4. LoadEntries = job.stored /\ LiveRows = LiveOnes
  BY <1>3, EntriesBack, RowsBack
<1>5. DOMAIN LiveOnes = DOMAIN job.chunks
  BY DEF LiveOnes
<1>6. ASSUME NEW i \in DOMAIN job.chunks
      PROVE  LiveRows[i].entry \in DOMAIN LoadEntries
  <2> DEFINE p == job.chunks[i].path
  <2>1. p \in PathsOf(job.stored)
    BY DEF Housed, PathsOf, Steps
  <2>2. \E k \in DOMAIN job.stored : job.stored[k].path = p
    BY <2>1 DEF PathsOf
  <2>3. EntryOf(p) \in DOMAIN job.stored
    BY <2>1, <2>2 DEF EntryOf
  <2>4. LiveRows[i].entry = EntryOf(p)
    BY <1>4 DEF LiveOnes
  <2> QED BY <1>4, <2>3, <2>4
<1>7. LoadChunks = [i \in DOMAIN LiveRows |->
        [path |-> LoadEntries[LiveRows[i].entry].path,
         text |-> IF i \in DOMAIN disk.docs
                  THEN disk.docs[i]
                  ELSE [path |-> Absent, version |-> Stub]]]
  BY <1>3, <1>4, <1>5, <1>6 DEF LoadChunks
<1>8. DOMAIN job.chunks = DOMAIN LoadChunks
  BY <1>4, <1>5, <1>7
<1>9. DOMAIN job.chunks = {}
  BY <1>8
<1> QED BY <1>2, <1>9, NoItems

LEMMA PublishSeen ==
  ASSUME SoundInv, SeenInv, Publish
  PROVE  SeenInv'
<1> USE DEF SoundInv, SeenInv
<1>1. /\ job \in Writing /\ job # Absent
      /\ runtime'.chunks = job.chunks /\ runtime'.binaries = job.stored
  BY PublishTypes
<1>2. /\ UNCHANGED <<present, version, disk, model, queue, dirty, unseen>>
      /\ job.step = "publish" /\ torn' = (torn /\ (Early \/ ~Full))
      /\ job' = Absent /\ writer' = Nobody
      /\ boot' = IF writer = "boot" THEN "done" ELSE boot
      /\ loaded' = IF writer = "boot" THEN Absent ELSE loaded
      /\ pruned' = IF writer = "compact" THEN pruned \ PathsOf(job.chunks) ELSE {}
  BY DEF Publish, Finish, worldVars
<1>3. job.step \in Steps /\ (writer = "boot" => boot = "indexing")
  BY <1>2 DEF TypeInv, Turns, Steps
<1>4. LoadChunks' = LoadChunks /\ LoadChunks \in {<<>>, job.chunks}
  BY <1>1, <1>2, SameReading, ReadBack
<1>5. ~torn' => Firm
  BY <1>2 DEF Firm
<1>6. ~torn' => Few(job.chunks)
  BY <1>1, <1>3, <1>5 DEF Capped
<1>7. Capped'
  <2>1. ~torn' /\ boot' = "publish" => ~torn
    BY <1>2 DEF Early
  <2>2. ~torn' /\ boot' = "publish" => Few(loaded'.chunks)
    BY <1>2, <2>1 DEF Capped
  <2> QED BY <1>1, <1>2, <1>4, <1>6, <2>2, FewNone DEF Capped
<1>8. Housed'
  BY <1>1, <1>2 DEF Housed, Steps
<1>9. Kept'
  <2>1. "full" \notin queue => LoadChunks = job.chunks
    BY <1>1, <1>2, ReadExactly
  <2> QED BY <1>1, <1>2, <1>4, <2>1 DEF Kept, Filling
<1>10. Whole' /\ ScanSeen' /\ JobSeen' /\ Collected'
  BY <1>2 DEF Whole, ScanSeen, JobSeen, Collected
<1>11. MemorySeen'
  <2> SUFFICES ASSUME ~torn', boot' = "done", ~Behind', ~Filling'
               PROVE  UpToDate(runtime.chunks, pruned)'
    BY DEF MemorySeen
  <2>1. ~Behind /\ Firm /\ "full" \notin queue
    BY <1>2, <1>3, <1>5 DEF Behind, Filling
  <2>2. UpToDate(job.chunks, pruned')
    <3>1. CASE writer # "compact"
      BY <1>1, <1>2, <1>3, <2>1, <3>1 DEF JobSeen
    <3>2. CASE writer = "compact"
      <4>1. ~torn /\ boot = "done" /\ ~Filling
        BY <1>2, <2>1, <3>2 DEF Firm, Full, Filling
      <4>2. job.chunks = runtime.chunks
        BY <1>1, <1>3, <3>2, <4>1 DEF Collected
      <4>3. UpToDate(job.chunks, pruned)
        BY <2>1, <3>2, <4>1, <4>2 DEF MemorySeen
      <4>4. PathsOf(job.chunks) \cup pruned' = PathsOf(job.chunks) \cup pruned
        BY <1>2, <3>2
      <4> QED BY <4>3, <4>4 DEF UpToDate
    <3> QED BY <3>1, <3>2
  <2>3. PICK chunks, lost : chunks = job.chunks /\ lost = pruned'
    OBVIOUS
  <2>4. UpToDate(chunks, lost)'
    BY <1>2, <2>2, <2>3 DEF UpToDate, Wanted, SigOf
  <2> QED BY <1>1, <2>3, <2>4 DEF UpToDate
<1> QED BY <1>7, <1>8, <1>9, <1>10, <1>11

LEMMA NextSeen ==
  SoundInv /\ PlaceInv /\ SeenInv /\ [Next]_vars => SeenInv'
BY BeginningSeen, RequestFullSeen, BootLoadSeen, BootPublishSeen, CrashSeen,
   ScanSeenStep, ExtractSeen, CollectSeen, WriteLayoutSeen, UnchangedSeen, PublishSeen
DEF Next, Boot, Client, Run, Beginning

\* FR-64, "in-memory state is always current": once no run is due, memory holds the
\* documentation of exactly the commands there are, up to indexer.max_chunks,
\* though a run may find nothing to do, be overtaken by changes, be cut off by a
\* crash or have its files emptied under it by a full request - but for the
\* built-ins that the start-up prune has dropped, which no scan misses (main.rs
\* 14194), and for files that a crash left half written or a run wrote before the
\* bootstrap had published what it read.
THEOREM MemoryCurrent == Spec => []MemoryIsCurrent
<1> DEFINE Inv == SoundInv /\ PlaceInv /\ SeenInv
<1>1. Init => Inv
  BY InitSound, InitPlace, InitSeen
<1>2. Inv /\ [Next]_vars => Inv'
  BY NextSound, NextPlace, NextSeen
<1>3. Inv => MemoryIsCurrent
  BY SeenIsCurrent DEF SoundInv
<1> QED BY <1>1, <1>2, <1>3, PTL DEF Spec
=============================================================================
