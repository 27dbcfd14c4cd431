--------------------------- MODULE Observer_proofs ---------------------------
(***************************************************************************)
(* For any number of shells, commands, registrations and deaths, and a     *)
(* ring of any length: what the daemon remembers of a command is backed by *)
(* an output of that command, and no output is left behind.  At the end,   *)
(* the services side by side.                                              *)
(***************************************************************************)
EXTENDS MCServices, Services_proofs

(* What shells send, and what the daemon keeps of it, as sets of reports.  *)
\* What a command can have printed to: only the capture of its shell, into which
\* earlier commands may have printed too.
Printed(z, n) == {o \in Zsh \X (1..MaxCommands) : o[1] = z /\ o[2] <= n}

Report == [op : {"ack", "observed"}, by : Registration, seq : 1..MaxCommands,
           n : 1..MaxCommands, what : What, out : SUBSET (Zsh \X (1..MaxCommands))]
Context == [op : {"context"}, version : AliasSet]
Reports(s) == {i \in DOMAIN s : s[i].op # "context"}

\* A report is known by who sent it, its number there, and the command it is about.
Item(m) == [by |-> m.by, seq |-> m.seq, n |-> m.n]
Sending(s) == {Item(s[i]) : i \in Reports(s)}
Listing(s) == {Item(s[i]) : i \in DOMAIN s}
Holding(h) == IF h = Absent THEN {} ELSE Listing(h.entries)
Items ==
  (UNION {Sending(line[r]) : r \in Registration}) \cup
  (UNION {Holding(hand[r]) : r \in Registration}) \cup Listing(ring)

\* A command is reported once, and its report is in one place.
Apart(A, B) == \A x \in A, y \in B : x.n # y.n
SentOnce(s) == \A i, j \in Reports(s) : s[i].n = s[j].n => i = j
ListedOnce(s) == \A i, j \in DOMAIN s : s[i].n = s[j].n => i = j
InOnePlace ==
  /\ \A r \in Registration :
       /\ SentOnce(line[r]) /\ (hand[r] # Absent => ListedOnce(hand[r].entries))
       /\ Apart(Sending(line[r]), Listing(ring)) /\ Apart(Holding(hand[r]), Listing(ring))
  /\ \A r, o \in Registration :
       /\ Apart(Sending(line[r]), Holding(hand[o]))
       /\ r # o => /\ Apart(Sending(line[r]), Sending(line[o]))
                   /\ Apart(Holding(hand[r]), Holding(hand[o]))
  /\ ListedOnce(ring)

\* A command that runs is not reported yet, and what is reported has run.
RunsNow(z) == running[z] # Absent
NotYet ==
  /\ \A x \in Items : x.n <= ran /\ \A z \in Zsh : RunsNow(z) => running[z].n # x.n
  /\ \A z \in Zsh : RunsNow(z) => running[z].n <= ran
  /\ \A z, y \in Zsh : RunsNow(z) /\ RunsNow(y) /\ z # y => running[z].n # running[y].n

\* A number of the present registration has been passed by one of the two counters; two
\* reports with the same number, and the approved command that runs and a report, have
\* been numbered by both.
Numbers ==
  /\ \A x \in Items :
       LET s == shell[x.by[1]] IN
       /\ x.by[2] <= s.ids
       /\ x.by[2] = s.id => x.seq <= s.observed \/ x.seq <= s.approved
  /\ \A x, y \in Items : x.by = y.by /\ x.seq = y.seq /\ x.n # y.n => NumberedTwice(<<x.by, x.seq>>)
  /\ \A z \in Zsh : RunsNow(z) =>
       LET c == running[z] IN
       /\ c.by = shell[z].id /\ 1 <= c.seq /\ c.seq <= c.n
       /\ c.approved => /\ c.by # 0 /\ c.seq = shell[z].approved
                        /\ \A x \in Items : x.by = <<z, c.by>> /\ x.seq = c.seq
                                              => c.seq <= shell[z].observed
       /\ ~c.approved => c.seq = shell[z].observed + 1
Counted ==
  \A z \in Zsh : /\ shell[z].id <= shell[z].ids
                 /\ shell[z].observed <= ran /\ shell[z].approved <= ran

\* What captures and reports hold was printed by their shell, and not after the command.
Captured ==
  /\ \A z \in Zsh, k \in Target :
       /\ held[z][k] \subseteq Printed(z, ran)
       /\ RunsNow(z) => held[z][k] \subseteq Printed(z, running[z].n)
  /\ \A r \in Registration : \A i \in Reports(line[r]) :
       line[r][i].out \subseteq Printed(line[r][i].by[1], line[r][i].n)

\* The file of an entry is there and its own, but for the names used twice.
Fine(e, f) == f.holds = {<<e.by[1], e.n>>} \/ LeftOn(e, f)
Backed(e) == e.ref = Absent \/ NumberedTwice(e.ref) \/ \E f \in files : f.name = e.ref /\ Fine(e, f)
Named(e) == e.ref \in {Absent, <<e.by, e.seq>>}
RefsRight ==
  /\ \A i \in DOMAIN ring : Named(ring[i]) /\ Backed(ring[i])
  /\ \A r \in Registration : hand[r] # Absent =>
       \A i \in DOMAIN hand[r].entries :
         /\ Named(hand[r].entries[i])
         /\ hand[r].do = "push" => Backed(hand[r].entries[i])
FilesNamed ==
  \A f \in files : f.name \in Refs(ring)
    \cup UNION {Refs(hand[r].entries) : r \in {other \in Registration : hand[other] # Absent}}

RingInv ==
  /\ ObserverTypeOK /\ line \in [Registration -> Seq(Report \cup Context)]
  /\ InOnePlace /\ NotYet /\ Numbers /\ Counted /\ Captured /\ RefsRight /\ FilesNamed

-----------------------------------------------------------------------------
(* Sequences of messages and of entries *)

Message == Report \cup Context

LEMMA HeadOff ==
  ASSUME NEW s \in Seq(Message), s # <<>>, SentOnce(s), NEW t, t = Tail(s)
  PROVE  /\ t \in Seq(Message) /\ Head(s) \in Message
         /\ SentOnce(t) /\ Sending(t) \subseteq Sending(s)
         /\ \A i \in Reports(t) : \E j \in Reports(s) : t[i] = s[j]
         /\ Head(s).op # "context" => /\ 1 \in Reports(s) /\ Head(s) = s[1]
                                      /\ Item(Head(s)) \in Sending(s)
                                      /\ \A x \in Sending(t) : x.n # Head(s).n
<1>2. /\ t \in Seq(Message) /\ Len(s) \in Nat /\ Len(s) > 0 /\ Len(t) = Len(s) - 1
      /\ DOMAIN s = 1..Len(s) /\ DOMAIN t = 1..Len(t)
      /\ Head(s) = s[1] /\ \A i \in 1..Len(t) : t[i] = s[i + 1]
  OBVIOUS
<1>3. \A i \in Reports(t) : i + 1 \in Reports(s) /\ t[i] = s[i + 1]
  BY <1>2 DEF Reports
<1>4. SentOnce(t)
  <2> SUFFICES ASSUME NEW i \in Reports(t), NEW j \in Reports(t), t[i].n = t[j].n PROVE i = j
    BY DEF SentOnce
  <2>1. i + 1 = j + 1
    BY <1>3 DEF SentOnce
  <2>2. i \in Nat /\ j \in Nat
    BY <1>2 DEF Reports
  <2> QED
    BY <2>1, <2>2
<1>5. Sending(t) \subseteq Sending(s)
  BY <1>3 DEF Sending
<1>6. Head(s).op # "context" => 1 \in Reports(s)
  BY <1>2 DEF Reports
<1>7. ASSUME Head(s).op # "context", NEW x \in Sending(t) PROVE x.n # Head(s).n
  <2>1. PICK i \in Reports(t) : x = Item(t[i])
    BY <1>7 DEF Sending
  <2>2. x.n = s[i + 1].n /\ i + 1 \in Reports(s) /\ i \in Nat /\ i # 0
    BY <1>2, <1>3, <2>1 DEF Item, Reports
  <2>3. x.n = s[1].n => i + 1 = 1
    BY <1>6, <1>7, <2>2 DEF SentOnce
  <2> QED
    BY <1>2, <2>2, <2>3
<1>8. Head(s).op # "context" => Item(Head(s)) \in Sending(s)
  BY <1>2, <1>6 DEF Sending
<1>9. \A i \in Reports(t) : \E j \in Reports(s) : t[i] = s[j]
  BY <1>3
<1>10. Head(s).op # "context" => \A x \in Sending(t) : x.n # Head(s).n
  BY <1>7
<1>11. t \in Seq(Message) /\ Head(s) \in Message /\ Head(s) = s[1]
  BY <1>2
<1> QED
  BY <1>4, <1>5, <1>6, <1>8, <1>9, <1>10, <1>11

LEMMA CutShort ==
  ASSUME NEW s \in Seq(Message), NEW k \in 0..Len(s), SentOnce(s), NEW t, t = SubSeq(s, 1, k)
  PROVE  /\ t \in Seq(Message) /\ SentOnce(t)
         /\ Sending(t) \subseteq Sending(s)
         /\ \A i \in Reports(t) : i \in Reports(s) /\ t[i] = s[i]
<1>2. k \in Nat /\ \A i \in 1..k : s[i] \in Message
  OBVIOUS
<1>3. t \in Seq(Message) /\ Len(t) = k + 1 - 1 /\ \A i \in 1..k + 1 - 1 : t[i] = s[1 - 1 + i]
  BY <1>2, SubSeqFacts
<1>4. DOMAIN t = 1..k /\ \A i \in 1..k : t[i] = s[i] /\ i \in DOMAIN s
  BY <1>2, <1>3
<1>5. \A i \in Reports(t) : i \in Reports(s) /\ t[i] = s[i]
  BY <1>4 DEF Reports
<1>6. Sending(t) \subseteq Sending(s)
  BY <1>5 DEF Sending
<1>7. SentOnce(t)
  BY <1>5 DEF SentOnce
<1> QED
  BY <1>3, <1>5, <1>6, <1>7

Joined(s, t, u) ==
  /\ u \in Seq(Message) /\ Sending(u) \subseteq Sending(s) \cup Sending(t)
  /\ \A i \in Reports(u) : (\E j \in Reports(s) : u[i] = s[j]) \/ (\E j \in Reports(t) : u[i] = t[j])
  /\ SentOnce(s) /\ SentOnce(t) /\ Apart(Sending(s), Sending(t)) => SentOnce(u)

LEMMA SentMore ==
  ASSUME NEW s \in Seq(Message), NEW t \in Seq(Message)
  PROVE  Joined(s, t, s \o t)
<1>1. PICK u : u = s \o t
  OBVIOUS
<1>2. /\ u \in Seq(Message) /\ Len(u) = Len(s) + Len(t) /\ Len(s) \in Nat /\ Len(t) \in Nat
      /\ DOMAIN u = 1..Len(s) + Len(t) /\ DOMAIN s = 1..Len(s) /\ DOMAIN t = 1..Len(t)
      /\ \A i \in 1..Len(s) + Len(t) : u[i] = IF i <= Len(s) THEN s[i] ELSE t[i - Len(s)]
  BY <1>1
<1>3. ASSUME NEW i \in Reports(u)
      PROVE  \/ i \in Reports(s) /\ u[i] = s[i]
             \/ i - Len(s) \in Reports(t) /\ u[i] = t[i - Len(s)] /\ i > Len(s)
  <2>1. CASE i <= Len(s)
    BY <1>2, <2>1 DEF Reports
  <2>2. CASE ~(i <= Len(s))
    <3>1. i - Len(s) \in 1..Len(t) /\ i \in Nat /\ i > Len(s)
      BY <1>2, <2>2 DEF Reports
    <3> QED
      BY <1>2, <2>2, <3>1 DEF Reports
  <2> QED
    BY <2>1, <2>2
<1>4. Sending(u) \subseteq Sending(s) \cup Sending(t)
  BY <1>3 DEF Sending
<1>5. ASSUME SentOnce(s), SentOnce(t), Apart(Sending(s), Sending(t)),
             NEW i \in Reports(u), NEW j \in Reports(u), u[i].n = u[j].n
      PROVE  i = j
  <2>1. i \in Nat /\ j \in Nat
    BY <1>2 DEF Reports
  <2>2. ASSUME NEW p \in Reports(s), NEW o \in Reports(t) PROVE s[p].n # t[o].n
    <3>1. Item(s[p]) \in Sending(s) /\ Item(t[o]) \in Sending(t)
      BY DEF Sending
    <3>2. Item(s[p]).n # Item(t[o]).n
      BY <1>5, <3>1 DEF Apart
    <3> QED
      BY <3>2 DEF Item
  <2>3. CASE i \in Reports(s) /\ u[i] = s[i] /\ j \in Reports(s) /\ u[j] = s[j]
    BY <1>5, <2>3 DEF SentOnce
  <2>4. CASE /\ i - Len(s) \in Reports(t) /\ u[i] = t[i - Len(s)]
             /\ j - Len(s) \in Reports(t) /\ u[j] = t[j - Len(s)]
    <3>1. i - Len(s) = j - Len(s)
      BY <1>5, <2>4 DEF SentOnce
    <3> QED
      BY <1>2, <2>1, <3>1
  <2> QED
    BY <1>3, <1>5, <2>2, <2>3, <2>4
<1> QED
  BY <1>1, <1>2, <1>3, <1>4, <1>5 DEF SentOnce, Joined

\* The ring with new entries at its end, and the two parts it is then cut into.
LEMMA Pushed ==
  ASSUME NEW s \in Seq(Observed), NEW t \in Seq(Observed),
         ListedOnce(s), ListedOnce(t), Apart(Listing(s), Listing(t))
  PROVE  /\ s \o t \in Seq(Observed) /\ ListedOnce(s \o t) /\ Len(s \o t) \in Nat
         /\ Listing(s \o t) = Listing(s) \cup Listing(t)
         /\ \A i \in DOMAIN (s \o t) : \/ \E j \in DOMAIN s : (s \o t)[i] = s[j]
                                       \/ \E j \in DOMAIN t : (s \o t)[i] = t[j]
         /\ \A j \in DOMAIN s : \E i \in DOMAIN (s \o t) : (s \o t)[i] = s[j]
         /\ \A j \in DOMAIN t : \E i \in DOMAIN (s \o t) : (s \o t)[i] = t[j]
<1>1. PICK u : u = s \o t
  OBVIOUS
<1>2. /\ u \in Seq(Observed) /\ Len(u) = Len(s) + Len(t) /\ Len(s) \in Nat /\ Len(t) \in Nat
      /\ DOMAIN u = 1..Len(s) + Len(t) /\ DOMAIN s = 1..Len(s) /\ DOMAIN t = 1..Len(t)
      /\ \A i \in 1..Len(s) + Len(t) : u[i] = IF i <= Len(s) THEN s[i] ELSE t[i - Len(s)]
  BY <1>1
<1>3. ASSUME NEW i \in DOMAIN u
      PROVE  \/ i \in DOMAIN s /\ u[i] = s[i]
             \/ i - Len(s) \in DOMAIN t /\ u[i] = t[i - Len(s)] /\ i > Len(s)
  <2>1. CASE i <= Len(s)
    BY <1>2, <2>1
  <2>2. CASE ~(i <= Len(s))
    <3>1. i - Len(s) \in 1..Len(t) /\ i \in Nat /\ i > Len(s)
      BY <1>2, <2>2
    <3> QED
      BY <1>2, <2>2, <3>1
  <2> QED
    BY <2>1, <2>2
<1>4. \A j \in DOMAIN s : j \in DOMAIN u /\ u[j] = s[j]
  BY <1>2
<1>5. ASSUME NEW j \in DOMAIN t PROVE Len(s) + j \in DOMAIN u /\ u[Len(s) + j] = t[j]
  <2>1. Len(s) + j \in DOMAIN u /\ ~(Len(s) + j <= Len(s)) /\ Len(s) + j - Len(s) = j
    BY <1>2
  <2> QED
    BY <1>2, <2>1
<1>6. Listing(u) = Listing(s) \cup Listing(t)
  <2>1. Listing(u) \subseteq Listing(s) \cup Listing(t)
    BY <1>3 DEF Listing
  <2>2. Listing(s) \subseteq Listing(u)
    BY <1>4 DEF Listing
  <2>3. Listing(t) \subseteq Listing(u)
    BY <1>5 DEF Listing
  <2> QED
    BY <2>1, <2>2, <2>3
<1>7. ASSUME NEW i \in DOMAIN u, NEW j \in DOMAIN u, u[i].n = u[j].n PROVE i = j
  <2>1. i \in Nat /\ j \in Nat
    BY <1>2
  <2>2. ASSUME NEW p \in DOMAIN s, NEW o \in DOMAIN t PROVE s[p].n # t[o].n
    <3>1. Item(s[p]) \in Listing(s) /\ Item(t[o]) \in Listing(t)
      BY DEF Listing
    <3>2. Item(s[p]).n # Item(t[o]).n
      BY <3>1 DEF Apart
    <3> QED
      BY <3>2 DEF Item
  <2>3. CASE i \in DOMAIN s /\ u[i] = s[i] /\ j \in DOMAIN s /\ u[j] = s[j]
    BY <1>7, <2>3 DEF ListedOnce
  <2>4. CASE /\ i - Len(s) \in DOMAIN t /\ u[i] = t[i - Len(s)]
             /\ j - Len(s) \in DOMAIN t /\ u[j] = t[j - Len(s)]
    <3>1. i - Len(s) = j - Len(s)
      BY <1>7, <2>4 DEF ListedOnce
    <3> QED
      BY <1>2, <2>1, <3>1
  <2> QED
    BY <1>3, <1>7, <2>2, <2>3, <2>4
<1>8. ListedOnce(u)
  BY <1>7 DEF ListedOnce
<1>9. \A j \in DOMAIN s : \E i \in DOMAIN u : u[i] = s[j]
  BY <1>4
<1>10. \A j \in DOMAIN t : \E i \in DOMAIN u : u[i] = t[j]
  BY <1>5
<1> QED
  BY <1>1, <1>2, <1>3, <1>6, <1>8, <1>9, <1>10

LEMMA RestFacts ==
  ASSUME NEW E, NEW c \in Seq(E), NEW k \in Nat, k <= Len(c)
  PROVE  /\ SubSeq(c, k + 1, Len(c)) \in Seq(E) /\ Len(SubSeq(c, k + 1, Len(c))) = Len(c) - k
         /\ \A i \in 1..Len(c) - k : SubSeq(c, k + 1, Len(c))[i] = c[k + i]
<1>1. PICK m, n : m = k + 1 /\ n = Len(c)
  OBVIOUS
<1>2. m \in Nat /\ n \in Nat /\ m # 0 /\ m <= n + 1 /\ n + 1 - m = n - k /\ m - 1 = k
  BY <1>1
<1>3. \A i \in m..n : c[i] \in E
  BY <1>1, <1>2
<1>4. /\ SubSeq(c, m, n) \in Seq(E) /\ Len(SubSeq(c, m, n)) = n + 1 - m
      /\ \A i \in 1..n + 1 - m : SubSeq(c, m, n)[i] = c[m - 1 + i]
  BY <1>2, <1>3, SubSeqFacts
<1> QED
  BY <1>1, <1>2, <1>4

Halves(u, a, b) ==
  /\ a \in Seq(Observed) /\ b \in Seq(Observed)
  /\ ListedOnce(a) /\ ListedOnce(b) /\ Apart(Listing(a), Listing(b))
  /\ Listing(a) \subseteq Listing(u) /\ Listing(b) \subseteq Listing(u)
  /\ \A i \in DOMAIN a : \E j \in DOMAIN u : a[i] = u[j]
  /\ \A i \in DOMAIN b : \E j \in DOMAIN u : b[i] = u[j]
  /\ \A j \in DOMAIN u : (\E i \in DOMAIN a : a[i] = u[j]) \/ (\E i \in DOMAIN b : b[i] = u[j])

LEMMA CutInTwo ==
  ASSUME NEW u \in Seq(Observed), ListedOnce(u), NEW k \in 0..Len(u),
         NEW a, a = SubSeq(u, 1, k), NEW b, b = SubSeq(u, k + 1, Len(u))
  PROVE  Halves(u, a, b)
<1>1. PICK n \in Nat : n = Len(u)
  OBVIOUS
<1>2. k \in Nat /\ k <= n /\ DOMAIN u = 1..n /\ \A i \in 1..n : u[i] \in Observed
  BY <1>1
<1>3. a \in Seq(Observed) /\ Len(a) = k + 1 - 1 /\ \A i \in 1..k + 1 - 1 : a[i] = u[1 - 1 + i]
  <2>1. \A i \in 1..k : u[i] \in Observed
    BY <1>2
  <2> QED
    BY <1>2, <2>1, SubSeqFacts
<1>6. DOMAIN a = 1..k /\ \A i \in 1..k : a[i] = u[i] /\ i \in DOMAIN u
  BY <1>2, <1>3
<1>5. b \in Seq(Observed) /\ Len(b) = n - k /\ \A i \in 1..n - k : b[i] = u[k + i]
  BY <1>1, <1>2, RestFacts
<1>13. n - k \in Nat
  BY <1>2
<1>7. DOMAIN b = 1..n - k /\ Len(b) = n - k /\ \A i \in 1..n - k : b[i] = u[k + i] /\ k + i \in DOMAIN u
  BY <1>2, <1>5, <1>13
<1>8. ListedOnce(a)
  BY <1>6 DEF ListedOnce
<1>9. ListedOnce(b)
  <2> SUFFICES ASSUME NEW i \in DOMAIN b, NEW j \in DOMAIN b, b[i].n = b[j].n PROVE i = j
    BY DEF ListedOnce
  <2>1. k + i = k + j
    BY <1>7 DEF ListedOnce
  <2> QED
    BY <1>2, <1>7, <2>1
<1>10. Apart(Listing(a), Listing(b))
  <2> SUFFICES ASSUME NEW i \in DOMAIN a, NEW j \in DOMAIN b, a[i].n = b[j].n PROVE FALSE
    BY DEF Apart, Listing, Item
  <2>1. u[i].n = u[k + j].n /\ i \in DOMAIN u /\ k + j \in DOMAIN u
    BY <1>6, <1>7
  <2>2. i = k + j
    BY <2>1 DEF ListedOnce
  <2> QED
    BY <1>2, <1>6, <1>7, <2>2
<1>11. Listing(a) \subseteq Listing(u) /\ Listing(b) \subseteq Listing(u)
  BY <1>6, <1>7 DEF Listing
<1>12. ASSUME NEW j \in DOMAIN u
       PROVE  (\E i \in DOMAIN a : a[i] = u[j]) \/ (\E i \in DOMAIN b : b[i] = u[j])
  <2>1. CASE j <= k
    BY <1>2, <1>6, <2>1
  <2>2. CASE ~(j <= k)
    <3>3. j \in Nat /\ j <= n
      BY <1>2
    <3>4. j - k \in 1..n - k /\ k + (j - k) = j
      BY <1>2, <2>2, <3>3
    <3>1. j - k \in DOMAIN b /\ k + (j - k) = j
      BY <1>7, <3>4
    <3>2. b[j - k] = u[j]
      BY <1>7, <3>1
    <3> QED
      BY <3>1, <3>2
  <2> QED
    BY <2>1, <2>2
<1> QED
  BY <1>1, <1>3, <1>5, <1>6, <1>7, <1>8, <1>9, <1>10, <1>11, <1>12 DEF Halves

-----------------------------------------------------------------------------
(* What steps have in common *)

LEMMA ItemsAre ==
  ASSUME NEW x
  PROVE  /\ x \in Items <=> (\/ \E r \in Registration : x \in Sending(line[r]) \/ x \in Holding(hand[r])
                            \/ x \in Listing(ring))
         /\ x \in Items' <=> (\/ \E r \in Registration : x \in Sending(line'[r]) \/ x \in Holding(hand'[r])
                             \/ x \in Listing(ring'))
<1> DEFINE S == UNION {Sending(line[r]) : r \in Registration}
           H == UNION {Holding(hand[r]) : r \in Registration}
           T == UNION {Sending(line'[r]) : r \in Registration}
           I == UNION {Holding(hand'[r]) : r \in Registration}
<1>1. /\ x \in S <=> \E r \in Registration : x \in Sending(line[r])
      /\ x \in H <=> \E r \in Registration : x \in Holding(hand[r])
      /\ x \in T <=> \E r \in Registration : x \in Sending(line'[r])
      /\ x \in I <=> \E r \in Registration : x \in Holding(hand'[r])
  OBVIOUS
<1>2. Items = S \cup H \cup Listing(ring)
  BY DEF Items
<1>3. Items' = T \cup I \cup Listing(ring')
  BY DEF Items
<1> HIDE DEF S, H, T, I
<1> QED
  BY <1>1, <1>2, <1>3

LEMMA ItemsTyped ==
  ASSUME RingInv, NEW x \in Items
  PROVE  x.by \in Registration /\ x.by[1] \in Zsh /\ x.by[2] \in 1..MaxRegistrations /\ x.seq \in Nat
         /\ x.n \in 1..MaxCommands
<1>1. \A m \in Report \cup Observed : Item(m).by \in Registration /\ Item(m).seq \in Nat
                                      /\ Item(m).n \in 1..MaxCommands
  BY ObserverAssumption DEF Item, Report, Observed
<1>2. PICK m \in Report \cup Observed : x = Item(m)
  <2>1. CASE \E r \in Registration : x \in Sending(line[r])
    <3>5. PICK r \in Registration : x \in Sending(line[r])
      BY <2>1
    <3>1. PICK i \in DOMAIN line[r] : line[r][i].op # "context" /\ x = Item(line[r][i])
      BY <3>5 DEF Sending, Reports
    <3>2. line[r] \in Seq(Report \cup Context)
      BY DEF RingInv
    <3>3. line[r][i] \in Report \cup Context
      BY <3>2
    <3>4. line[r][i] \notin Context
      BY <3>1 DEF Context
    <3> QED
      BY <3>1, <3>3, <3>4
  <2>2. CASE \E r \in Registration : x \in Holding(hand[r])
    <3>1. PICK r \in Registration : x \in Holding(hand[r])
      BY <2>2
    <3>2. hand[r] # Absent /\ x \in Listing(hand[r].entries)
      BY <3>1 DEF Holding
    <3>3. hand[r].entries \in Seq(Observed)
      BY <3>2 DEF RingInv, ObserverTypeOK, Hand
    <3> QED
      BY <3>2, <3>3 DEF Listing
  <2>3. CASE x \in Listing(ring)
    <3>1. ring \in Seq(Observed)
      BY DEF RingInv, ObserverTypeOK
    <3>2. \A i \in DOMAIN ring : ring[i] \in Observed
      BY <3>1
    <3> QED
      BY <2>3, <3>2 DEF Listing
  <2> QED
    BY <2>1, <2>2, <2>3, ItemsAre
<1> QED
  BY <1>1, <1>2 DEF Registration

\* Where no counter moves and no report is added, the numbers stay right.
SameCounters ==
  \A z \in Zsh : /\ shell'[z].id = shell[z].id /\ shell'[z].ids = shell[z].ids
                 /\ shell'[z].observed = shell[z].observed /\ shell'[z].approved = shell[z].approved

LEMMA NamesStay ==
  ASSUME RingInv, Items' \subseteq Items, UNCHANGED <<running, ran>>, SameCounters
  PROVE  /\ NotYet' /\ Numbers' /\ Counted'
         /\ \A x \in Registration \X Nat : NumberedTwice(x) => NumberedTwice(x)'
<1>1. NotYet'
  BY DEF RingInv, NotYet, RunsNow
<1>2. \A x \in Items : x.by[1] \in Zsh /\ <<x.by, x.seq>>[1] = x.by /\ <<x.by, x.seq>>[2] = x.seq
  BY ItemsTyped
<1>3. \A x \in Registration \X Nat : x[1][1] \in Zsh
  BY DEF Registration
<1>4. \A x \in Registration \X Nat : NumberedTwice(x) => NumberedTwice(x)'
  BY <1>3 DEF NumberedTwice, SameCounters
<1>5. \A x \in Items : NumberedTwice(<<x.by, x.seq>>) => NumberedTwice(<<x.by, x.seq>>)'
  BY <1>2 DEF NumberedTwice, SameCounters
<1>6. Counted'
  BY DEF RingInv, Counted, SameCounters
<1>7. \A x \in Items' :
        LET s == shell'[x.by[1]] IN
        /\ x.by[2] <= s.ids
        /\ x.by[2] = s.id => x.seq <= s.observed \/ x.seq <= s.approved
  BY <1>2 DEF RingInv, Numbers, SameCounters
<1>8. \A x, y \in Items' : x.by = y.by /\ x.seq = y.seq /\ x.n # y.n => NumberedTwice(<<x.by, x.seq>>)'
  BY <1>5 DEF RingInv, Numbers
<1>9. \A z \in Zsh : RunsNow(z)' =>
        LET c == running'[z] IN
        /\ c.by = shell'[z].id /\ 1 <= c.seq /\ c.seq <= c.n
        /\ c.approved => /\ c.by # 0 /\ c.seq = shell'[z].approved
                         /\ \A x \in Items' : x.by = <<z, c.by>> /\ x.seq = c.seq
                                               => c.seq <= shell'[z].observed
        /\ ~c.approved => c.seq = shell'[z].observed + 1
  BY DEF RingInv, Numbers, SameCounters, RunsNow
<1>10. Numbers'
  BY <1>7, <1>8, <1>9 DEF Numbers
<1> QED
  BY <1>1, <1>4, <1>6, <1>10

LEMMA CapturesStay ==
  ASSUME RingInv, UNCHANGED <<running, ran, held>>,
         \A r \in Registration : \A i \in Reports(line'[r]) :
           \E j \in Reports(line[r]) : line'[r][i] = line[r][j]
  PROVE  Captured'
  BY DEF RingInv, Captured, RunsNow

\* Entries that are backed stay so where files stay and no counter moves.
LEMMA BackedStays ==
  ASSUME NEW e, e.ref \in (Registration \X Nat) \cup {Absent}, Backed(e),
         \A x \in Registration \X Nat : NumberedTwice(x) => NumberedTwice(x)',
         \A f \in files : f.name = e.ref => f \in files' \/ NumberedTwice(e.ref)
  PROVE  Backed(e)'
  BY DEF Backed, Fine, LeftOn

\* In terms of one connection.
LEMMA Placed ==
  ASSUME RingInv, NEW r \in Registration
  PROVE  /\ line[r] \in Seq(Message) /\ SentOnce(line[r])
         /\ hand[r] # Absent => /\ hand[r] \in Hand /\ hand[r].entries \in Seq(Observed)
                                /\ ListedOnce(hand[r].entries)
                                /\ Holding(hand[r]) = Listing(hand[r].entries)
         /\ ring \in Seq(Observed) /\ ListedOnce(ring)
         /\ Sending(line[r]) \subseteq Items /\ Holding(hand[r]) \subseteq Items /\ Listing(ring) \subseteq Items
<1>1. line[r] \in Seq(Message) /\ SentOnce(line[r]) /\ ListedOnce(ring)
  BY DEF RingInv, InOnePlace, Message
<1>2. ring \in Seq(Observed) /\ hand[r] \in Hand \cup {Absent}
  BY DEF RingInv, ObserverTypeOK
<1>3. hand[r] # Absent => hand[r].entries \in Seq(Observed)
  BY <1>2 DEF Hand
<1>4. hand[r] # Absent => ListedOnce(hand[r].entries)
  BY DEF RingInv, InOnePlace
<1>5. hand[r] # Absent => Holding(hand[r]) = Listing(hand[r].entries)
  BY DEF Holding
<1>6. Sending(line[r]) \subseteq Items /\ Holding(hand[r]) \subseteq Items /\ Listing(ring) \subseteq Items
  BY ItemsAre
<1> QED
  BY <1>1, <1>2, <1>3, <1>4, <1>5, <1>6

-----------------------------------------------------------------------------
(* The daemon's steps *)

LEMMA ReceiveKeeps == ASSUME RingInv, NEW r \in Registration, Receive(r) PROVE RingInv'
<1>1. PICK m : m = Head(line[r])
  OBVIOUS
<1>2. PICK t : t = Tail(line[r])
  OBVIOUS
<1>3. /\ hand[r] = Absent /\ line[r] # <<>> /\ line' = [line EXCEPT ![r] = t]
      /\ UNCHANGED <<adapterVars, registry, ring>>
  BY <1>2 DEF Receive
<1>4. line \in [Registration -> Seq(Message)] /\ hand \in [Registration -> Hand \cup {Absent}]
  BY DEF RingInv, ObserverTypeOK, Message
<1>5. /\ t \in Seq(Message) /\ m \in Message /\ SentOnce(t) /\ Sending(t) \subseteq Sending(line[r])
      /\ \A i \in Reports(t) : \E j \in Reports(line[r]) : t[i] = line[r][j]
      /\ m.op # "context" => /\ 1 \in Reports(line[r]) /\ m = line[r][1]
                             /\ Item(m) \in Sending(line[r])
                             /\ \A x \in Sending(t) : x.n # m.n
  <2>1. PICK s : s = line[r]
    OBVIOUS
  <2>2. s \in Seq(Message) /\ SentOnce(s) /\ s # <<>> /\ t = Tail(s) /\ m = Head(s)
    BY <1>1, <1>2, <1>3, <2>1, Placed
  <2>3. t \in Seq(Message) /\ Head(s) \in Message /\ SentOnce(t) /\ Sending(t) \subseteq Sending(s)
    BY <2>2, HeadOff, Zenon
  <2>4. \A i \in Reports(t) : \E j \in Reports(s) : t[i] = s[j]
    <3>1. \A i \in Reports(t) : i + 1 \in Reports(s) /\ t[i] = s[i + 1]
      BY <2>2 DEF Reports
    <3> QED
      BY <3>1
  <2>5. Head(s).op # "context" => /\ 1 \in Reports(s) /\ Head(s) = s[1] /\ Item(Head(s)) \in Sending(s)
    BY <2>2, HeadOff, Zenon
  <2>6. Head(s).op # "context" => \A x \in Sending(t) : x.n # Head(s).n
    BY <2>2, HeadOff, Zenon
  <2> QED
    BY <2>1, <2>2, <2>3, <2>4, <2>5, <2>6
<1>6. /\ line' \in [Registration -> Seq(Message)] /\ line'[r] = t
      /\ \A o \in Registration \ {r} : line'[o] = line[o]
  BY <1>3, <1>4, <1>5
\* What the handler takes up, if it does.
<1> DEFINE ref == IF m.out = {} \/ m.what = "excluded" THEN Absent ELSE Name(m.by, m.seq)
           entry == [by |-> m.by, seq |-> m.seq, n |-> m.n, ref |-> ref]
<1>7. \/ /\ hand' = hand /\ files' = files
         /\ \/ contexts' = contexts
            \/ m.op = "context" /\ contexts' = [contexts EXCEPT ![r] = m.version]
      \/ /\ m.op # "context" /\ contexts' = contexts
         /\ hand' = [hand EXCEPT ![r] = [do |-> "push", entries |-> <<entry>>]]
         /\ files' = IF ref = Absent THEN files
                     ELSE {f \in files : f.name # ref} \cup {[name |-> ref, holds |-> m.out]}
  BY <1>1 DEF Receive, Observe
<1> HIDE DEF ref, entry
<1>8. ASSUME Items' \subseteq Items PROVE NotYet' /\ Numbers' /\ Counted' /\ Captured'
        /\ \A x \in Registration \X Nat : NumberedTwice(x) => NumberedTwice(x)'
  <2>1. SameCounters /\ UNCHANGED <<running, ran, held>>
    BY <1>3 DEF SameCounters, adapterVars
  <2>2. \A o \in Registration : \A i \in Reports(line'[o]) :
          \E j \in Reports(line[o]) : line'[o][i] = line[o][j]
    <3>1. \A i \in Reports(t) : \E j \in Reports(line[r]) : t[i] = line[r][j]
      BY <1>5
    <3>2. line'[r] = t /\ \A o \in Registration \ {r} : line'[o] = line[o]
      BY <1>6
    <3> QED
      BY <3>1, <3>2
  <2> QED
    BY <1>8, <2>1, <2>2, NamesStay, CapturesStay
<1>9. CASE /\ hand' = hand /\ files' = files
           /\ \/ contexts' = contexts
              \/ m.op = "context" /\ contexts' = [contexts EXCEPT ![r] = m.version]
  <2>1. \A o \in Registration : Sending(line'[o]) \subseteq Sending(line[o]) /\ SentOnce(line'[o])
    BY <1>5, <1>6, Placed
  <2>2. Items' \subseteq Items
    BY <1>3, <1>9, <2>1, ItemsAre
  <2>3. InOnePlace'
    BY <1>3, <1>9, <2>1 DEF RingInv, InOnePlace, Apart
  <2>4. contexts' \in [Registration -> {0} \cup AliasSet]
    <3>1. contexts \in [Registration -> {0} \cup AliasSet]
      BY DEF RingInv, ObserverTypeOK
    <3>2. m.op = "context" => m.version \in AliasSet
      BY <1>5 DEF Message, Report, Context
    <3> QED
      BY <1>9, <3>1, <3>2
  <2>5. ObserverTypeOK'
    BY <1>3, <1>9, <2>4 DEF RingInv, ObserverTypeOK, adapterVars
  <2>6. RefsRight'
    <3>1. NotYet' /\ \A x \in Registration \X Nat : NumberedTwice(x) => NumberedTwice(x)'
      BY <1>8, <2>2
    <3>2. ASSUME NEW e \in Observed, Backed(e) PROVE Backed(e)'
      BY <1>9, <3>1, <3>2, BackedStays DEF Observed
    <3>3. \A i \in DOMAIN ring : ring[i] \in Observed
      BY DEF RingInv, ObserverTypeOK
    <3>4. \A o \in Registration : hand[o] # Absent => \A i \in DOMAIN hand[o].entries : hand[o].entries[i] \in Observed
      BY Placed
    <3> QED
      BY <1>3, <1>9, <3>2, <3>3, <3>4 DEF RingInv, RefsRight, Named
  <2>7. FilesNamed'
    BY <1>3, <1>9 DEF RingInv, FilesNamed
  <2> QED
    BY <1>6, <1>8, <2>2, <2>3, <2>5, <2>6, <2>7 DEF RingInv, Message
<1>10. CASE /\ m.op # "context" /\ contexts' = contexts
            /\ hand' = [hand EXCEPT ![r] = [do |-> "push", entries |-> <<entry>>]]
            /\ files' = IF ref = Absent THEN files
                        ELSE {f \in files : f.name # ref} \cup {[name |-> ref, holds |-> m.out]}
  <2>1. m \in Report /\ Registration \X Nat = Registration \X Nat
    BY <1>5, <1>10 DEF Message, Context
  <2>2. /\ m.by \in Registration /\ m.seq \in 1..MaxCommands /\ m.n \in 1..MaxCommands
        /\ m.seq \in Nat /\ m.out \in SUBSET (Zsh \X (1..MaxCommands))
    BY <2>1, ObserverAssumption DEF Report
  <2>3. entry \in Observed /\ entry.by = m.by /\ entry.seq = m.seq /\ entry.n = m.n /\ entry.ref = ref
        /\ ref \in {Absent, <<m.by, m.seq>>} /\ Named(entry)
    BY <2>2 DEF entry, ref, Observed, Named, Name
  <2>4. PICK h : h = [do |-> "push", entries |-> <<entry>>]
    OBVIOUS
  <2>5. /\ h \in Hand /\ h # Absent /\ h.do = "push" /\ h.entries = <<entry>>
        /\ DOMAIN h.entries = {1} /\ h.entries[1] = entry
    <3>1. PICK es : es = <<entry>>
      OBVIOUS
    <3>2. es \in Seq(Observed) /\ DOMAIN es = {1} /\ es[1] = entry
      BY <2>3, <3>1
    <3>3. h = [do |-> "push", entries |-> es]
      BY <2>4, <3>1
    <3>4. h \in Hand
      BY <3>2, <3>3 DEF Hand
    <3> QED
      BY <3>1, <3>2, <3>3, <3>4, AbsentAssumption
  <2>6. /\ hand' \in [Registration -> Hand \cup {Absent}] /\ hand'[r] = h
        /\ \A o \in Registration \ {r} : hand'[o] = hand[o]
    BY <1>4, <1>10, <2>4, <2>5
  <2>7. Holding(h) = {Item(m)} /\ ListedOnce(h.entries)
    BY <2>3, <2>5 DEF Holding, Listing, Item, ListedOnce
  <2>8. Items' \subseteq Items
    <3>1. Item(m) \in Items
      BY <1>5, <1>10, Placed
    <3>2. \A o \in Registration : Sending(line'[o]) \subseteq Items
      BY <1>5, <1>6, Placed
    <3>3. \A o \in Registration : Holding(hand'[o]) \subseteq Items
      BY <2>6, <2>7, <3>1, Placed
    <3>4. Listing(ring') \subseteq Items
      BY <1>3, Placed
    <3> QED
      BY <3>2, <3>3, <3>4, ItemsAre
  <2>9. InOnePlace'
    <3>1. \A o \in Registration : Sending(line'[o]) \subseteq Sending(line[o]) /\ SentOnce(line'[o])
      BY <1>5, <1>6, Placed
    <3>2. Holding(hand'[r]) = {Item(m)} /\ Item(m) \in Sending(line[r]) /\ Holding(hand[r]) = {}
          /\ Apart({Item(m)}, Sending(line'[r])) /\ Apart(Sending(line'[r]), {Item(m)})
      BY <1>3, <1>5, <1>6, <1>10, <2>6, <2>7 DEF Apart, Item, Holding
    <3>3. \A o \in Registration : hand'[o] # Absent => ListedOnce(hand'[o].entries)
      BY <2>6, <2>7, Placed
    <3>4. \A o \in Registration : Apart(Sending(line'[o]), Listing(ring')) /\ Apart(Holding(hand'[o]), Listing(ring'))
      BY <1>3, <2>6, <3>1, <3>2 DEF RingInv, InOnePlace, Apart
    <3>5. ASSUME NEW o \in Registration, NEW p \in Registration
          PROVE  Apart(Sending(line'[o]), Holding(hand'[p]))
      <4>1. CASE p # r
        <5>1. Apart(Sending(line[o]), Holding(hand[p])) /\ hand'[p] = hand[p]
          BY <2>6, <4>1 DEF RingInv, InOnePlace
        <5> QED
          BY <3>1, <5>1 DEF Apart
      <4>2. CASE p = r /\ o = r
        BY <3>2, <4>2
      <4>3. CASE p = r /\ o # r
        <5>1. Apart(Sending(line[r]), Sending(line[o]))
          BY <4>3 DEF RingInv, InOnePlace
        <5> QED
          BY <3>1, <3>2, <4>3, <5>1 DEF Apart
      <4> QED
        BY <4>1, <4>2, <4>3
    <3>6. \A o, p \in Registration : o # p => /\ Apart(Sending(line'[o]), Sending(line'[p]))
                                              /\ Apart(Holding(hand'[o]), Holding(hand'[p]))
      BY <2>6, <3>1, <3>2 DEF RingInv, InOnePlace, Apart
    <3> QED
      BY <1>3, <3>1, <3>3, <3>4, <3>5, <3>6, Placed DEF InOnePlace
  <2>10. ObserverTypeOK'
    <3>1. files' \subseteq [name : Registration \X Nat, holds : SUBSET (Zsh \X (1..MaxCommands))]
      <4>1. files \subseteq [name : Registration \X Nat, holds : SUBSET (Zsh \X (1..MaxCommands))]
        BY DEF RingInv, ObserverTypeOK
      <4>2. CASE ref = Absent
        BY <1>10, <4>1, <4>2
      <4>3. CASE ref # Absent
        <5>1. ref \in Registration \X Nat
          BY <2>2, <2>3, <4>3
        <5> QED
          BY <1>10, <2>2, <4>1, <4>3, <5>1
      <4> QED
        BY <4>2, <4>3
    <3> QED
      BY <1>3, <1>10, <2>6, <3>1 DEF RingInv, ObserverTypeOK, adapterVars
  <2>11. \A x \in Registration \X Nat : NumberedTwice(x) => NumberedTwice(x)'
    BY <1>8, <2>8
  <2>12. ASSUME NEW e \in Observed, Backed(e), Named(e), Item(e) \in Items,
                NEW A, Item(e) \in A, Apart(Sending(line[r]), A)
         PROVE  Backed(e)'
    <3>1. e.ref \in (Registration \X Nat) \cup {Absent}
      BY <2>12 DEF Observed
    <3>2. ASSUME ref # Absent, e.ref = ref PROVE NumberedTwice(e.ref)
      <4>1. e.ref = <<e.by, e.seq>> /\ ref = <<m.by, m.seq>>
        BY <2>3, <2>12, <3>2 DEF Named
      <4>2. e.by = m.by /\ e.seq = m.seq
        <5>1. <<e.by, e.seq>> = <<m.by, m.seq>>
          BY <3>2, <4>1
        <5> QED
          BY <5>1
      <4>3. Item(e).n # Item(m).n /\ Item(m) \in Items
        BY <1>5, <1>10, <2>12, Placed DEF Apart
      <4>4. Item(e).by = Item(m).by /\ Item(e).seq = Item(m).seq /\ Item(e).by = e.by /\ Item(e).seq = e.seq
        BY <4>2 DEF Item
      <4>5. NumberedTwice(<<e.by, e.seq>>)
        BY <2>12, <4>3, <4>4 DEF RingInv, Numbers
      <4> QED
        BY <4>1, <4>5
    <3>3. \A f \in files : f.name = e.ref => f \in files' \/ NumberedTwice(e.ref)
      BY <1>10, <3>2
    <3> QED
      BY <2>11, <2>12, <3>1, <3>3, BackedStays
  <2>13. Backed(entry)'
    <3>1. CASE ref = Absent
      BY <2>3, <3>1 DEF Backed
    <3>2. CASE ref # Absent
      <4>1. PICK f : f = [name |-> ref, holds |-> m.out]
        OBVIOUS
      <4>2. f \in files' /\ f.name = entry.ref /\ f.holds = m.out /\ m.out # {}
        BY <1>10, <2>3, <3>2, <4>1 DEF ref
      <4>3. m.out \subseteq Printed(m.by[1], m.n)
        BY <1>5, <1>10 DEF RingInv, Captured
      <4>4. Fine(entry, f)
        <5>1. CASE \E o \in m.out : o[2] < m.n
          <6>1. PICK o \in m.out : o[2] < m.n
            BY <5>1
          <6>2. o[1] = m.by[1]
            BY <4>3 DEF Printed
          <6> QED
            BY <2>3, <4>2, <6>1, <6>2 DEF Fine, LeftOn
        <5>2. CASE ~\E o \in m.out : o[2] < m.n
          <6>1. ASSUME NEW o \in m.out PROVE o = <<m.by[1], m.n>>
            <7>1. o \in Zsh \X (1..MaxCommands) /\ o[1] = m.by[1] /\ o[2] <= m.n
              BY <4>3 DEF Printed
            <7>2. o[2] = m.n
              BY <2>2, <5>2, <7>1
            <7> QED
              BY <7>1, <7>2
          <6>2. m.out = {<<m.by[1], m.n>>}
            BY <4>2, <6>1
          <6> QED
            BY <2>3, <4>2, <6>2 DEF Fine
        <5> QED
          BY <5>1, <5>2
      <4> QED
        BY <4>2, <4>4 DEF Backed, Fine, LeftOn
    <3> QED
      BY <3>1, <3>2
  <2>14. RefsRight'
    <3>1. ASSUME NEW i \in DOMAIN ring' PROVE (Named(ring[i]) /\ Backed(ring[i]))'
      <4>1. ring' = ring /\ ring[i] \in Observed /\ Named(ring[i]) /\ Backed(ring[i])
        BY <1>3, <3>1 DEF RingInv, ObserverTypeOK, RefsRight
      <4>2. Item(ring[i]) \in Listing(ring) /\ Item(ring[i]) \in Items
        BY <1>3, <3>1, Placed DEF Listing
      <4>3. Apart(Sending(line[r]), Listing(ring))
        BY DEF RingInv, InOnePlace
      <4>4. PICK e : e = ring[i]
        OBVIOUS
      <4>5. Backed(e)'
        BY <2>12, <4>1, <4>2, <4>3, <4>4
      <4> QED
        BY <4>1, <4>4, <4>5 DEF Backed, Fine, LeftOn, Named
    <3>2. ASSUME NEW o \in Registration \ {r}, hand[o] # Absent, NEW i \in DOMAIN hand[o].entries,
                 hand[o].do = "push"
          PROVE  Backed(hand[o].entries[i])'
      <4>1. PICK e : e = hand[o].entries[i]
        OBVIOUS
      <4>2. e \in Observed /\ Named(e) /\ Backed(e)
        BY <3>2, <4>1, Placed DEF RingInv, RefsRight
      <4>3. Item(e) \in Holding(hand[o]) /\ Item(e) \in Items
        BY <3>2, <4>1, Placed DEF Listing
      <4>4. Apart(Sending(line[r]), Holding(hand[o]))
        BY DEF RingInv, InOnePlace
      <4>5. Backed(e)'
        BY <2>12, <4>2, <4>3, <4>4
      <4>6. e = hand'[o].entries[i]
        BY <2>6, <4>1
      <4> QED
        BY <2>6, <4>5, <4>6 DEF Backed, Fine, LeftOn
    <3> QED
      BY <2>3, <2>5, <2>6, <2>13, <3>1, <3>2 DEF RingInv, RefsRight
  <2>15. FilesNamed'
    <3> SUFFICES ASSUME NEW f \in files'
                 PROVE  \/ f.name \in Refs(ring')
                        \/ \E o \in Registration : hand'[o] # Absent /\ f.name \in Refs(hand'[o].entries)
      BY DEF FilesNamed
    <3>1. CASE f \in files
      <4>1. \/ f.name \in Refs(ring)
            \/ \E o \in Registration : hand[o] # Absent /\ f.name \in Refs(hand[o].entries)
        BY <3>1 DEF RingInv, FilesNamed
      <4> QED
        BY <1>3, <2>6, <4>1
    <3>2. CASE f \notin files
      <4>1. ref # Absent /\ f.name = ref
        BY <1>10, <3>2
      <4>2. ref \in Refs(h.entries)
        BY <2>3, <2>5, <4>1 DEF Refs
      <4> QED
        BY <2>5, <2>6, <4>1, <4>2
    <3> QED
      BY <3>1, <3>2
  <2> QED
    BY <1>6, <1>8, <2>8, <2>9, <2>10, <2>14, <2>15 DEF RingInv, Message
<1> QED
  BY <1>7, <1>9, <1>10

\* A step that leaves lines, hands and the ring alone, or empties some of them, is about
\* nothing new.
LEMMA FewerKeep ==
  ASSUME RingInv, UNCHANGED <<running, ran, held, ring, files>>, SameCounters, ObserverTypeOK',
         line' \in [Registration -> Seq(Message)], hand' = hand,
         \A r \in Registration :
           /\ SentOnce(line'[r]) /\ Sending(line'[r]) \subseteq Sending(line[r])
           /\ \A i \in Reports(line'[r]) : \E j \in Reports(line[r]) : line'[r][i] = line[r][j]
  PROVE  RingInv'
<1>1. Items' \subseteq Items
  BY ItemsAre
<1>2. NotYet' /\ Numbers' /\ Counted' /\ Captured'
      /\ \A x \in Registration \X Nat : NumberedTwice(x) => NumberedTwice(x)'
  BY <1>1, NamesStay, CapturesStay
<1>3. InOnePlace'
  BY DEF RingInv, InOnePlace, Apart
<1>4. RefsRight'
  <2>1. ASSUME NEW e \in Observed, Backed(e) PROVE Backed(e)'
    BY <1>2, <2>1, BackedStays DEF Observed
  <2>2. \A i \in DOMAIN ring : ring[i] \in Observed
    BY DEF RingInv, ObserverTypeOK
  <2>3. \A o \in Registration : hand[o] # Absent => \A i \in DOMAIN hand[o].entries : hand[o].entries[i] \in Observed
    BY Placed
  <2> QED
    BY <2>1, <2>2, <2>3 DEF RingInv, RefsRight, Named
<1>5. FilesNamed'
  BY DEF RingInv, FilesNamed
<1> QED
  BY <1>2, <1>3, <1>4, <1>5 DEF RingInv, Message

\* Every line as it was is a line with nothing new.
LEMMA SameLines ==
  ASSUME RingInv, NEW r \in Registration
  PROVE  /\ SentOnce(line[r]) /\ Sending(line[r]) \subseteq Sending(line[r])
         /\ \A i \in Reports(line[r]) : \E j \in Reports(line[r]) : line[r][i] = line[r][j]
  BY Placed

LEMMA PushKeeps == ASSUME RingInv, NEW r \in Registration, Push(r) PROVE RingInv'
<1>1. PICK es : es = hand[r].entries
  OBVIOUS
<1>2. hand[r] # Absent /\ hand[r].do = "push" /\ UNCHANGED <<adapterVars, line, registry, contexts, files>>
  BY DEF Push
<1>3. /\ es \in Seq(Observed) /\ ListedOnce(es) /\ Holding(hand[r]) = Listing(es)
      /\ ring \in Seq(Observed) /\ ListedOnce(ring) /\ Apart(Listing(es), Listing(ring))
  BY <1>1, <1>2, Placed DEF RingInv, InOnePlace
<1>4. PICK all : all = ring \o es
  OBVIOUS
<1>5. Apart(Listing(ring), Listing(es))
  BY <1>3 DEF Apart
<1>6. /\ all \in Seq(Observed) /\ ListedOnce(all) /\ Len(all) \in Nat
      /\ Listing(all) = Listing(ring) \cup Listing(es)
      /\ \A i \in DOMAIN all : \/ \E j \in DOMAIN ring : all[i] = ring[j]
                               \/ \E j \in DOMAIN es : all[i] = es[j]
      /\ \A j \in DOMAIN ring : \E i \in DOMAIN all : all[i] = ring[j]
      /\ \A j \in DOMAIN es : \E i \in DOMAIN all : all[i] = es[j]
  <2>1. /\ ring \o es \in Seq(Observed) /\ ListedOnce(ring \o es) /\ Len(ring \o es) \in Nat
        /\ Listing(ring \o es) = Listing(ring) \cup Listing(es)
        /\ \A i \in DOMAIN (ring \o es) : \/ \E j \in DOMAIN ring : (ring \o es)[i] = ring[j]
                                          \/ \E j \in DOMAIN es : (ring \o es)[i] = es[j]
        /\ \A j \in DOMAIN ring : \E i \in DOMAIN (ring \o es) : (ring \o es)[i] = ring[j]
        /\ \A j \in DOMAIN es : \E i \in DOMAIN (ring \o es) : (ring \o es)[i] = es[j]
    BY <1>3, <1>5, Pushed, Zenon
  <2> QED BY <1>4, <2>1, Zenon
<1>7. PICK over : over = IF Len(all) > MaxEntries THEN Len(all) - MaxEntries ELSE 0
  OBVIOUS
<1>8. over \in 0..Len(all) /\ Len(all) - over <= MaxEntries
  BY <1>6, <1>7, ObserverAssumption
<1>9. PICK a : a = SubSeq(all, 1, over)
  OBVIOUS
<1>10. PICK b : b = SubSeq(all, over + 1, Len(all))
  OBVIOUS
<1>11. /\ a \in Seq(Observed) /\ b \in Seq(Observed) /\ Len(b) = Len(all) - over
       /\ ListedOnce(a) /\ ListedOnce(b) /\ Apart(Listing(a), Listing(b))
       /\ Listing(a) \subseteq Listing(all) /\ Listing(b) \subseteq Listing(all)
       /\ \A i \in DOMAIN a : \E j \in DOMAIN all : a[i] = all[j]
       /\ \A i \in DOMAIN b : \E j \in DOMAIN all : b[i] = all[j]
       /\ \A j \in DOMAIN all : (\E i \in DOMAIN a : a[i] = all[j]) \/ (\E i \in DOMAIN b : b[i] = all[j])
  <2>1. Halves(all, a, b)
    BY <1>6, <1>8, <1>9, <1>10, CutInTwo, Zenon
  <2>2. Len(b) = Len(all) - over
    BY <1>6, <1>8, <1>10, RestFacts
  <2> QED
    BY <2>1, <2>2 DEF Halves
<1>12. PICK h : h = IF over = 0 THEN Absent ELSE [do |-> "clean", entries |-> a]
  OBVIOUS
<1>13. ring' = b /\ hand' = [hand EXCEPT ![r] = h]
  BY <1>1, <1>4, <1>7, <1>9, <1>10, <1>12 DEF Push
<1>14. over # 0 => h # Absent /\ h \in Hand /\ h.do = "clean" /\ h.entries = a
  BY <1>11, <1>12, AbsentAssumption DEF Hand
<1>15. /\ hand' \in [Registration -> Hand \cup {Absent}] /\ hand'[r] = h
       /\ \A o \in Registration \ {r} : hand'[o] = hand[o]
  <2>1. hand \in [Registration -> Hand \cup {Absent}]
    BY DEF RingInv, ObserverTypeOK
  <2> QED
    BY <1>12, <1>13, <1>14, <2>1
<1>16. over = 0 => a = <<>> /\ h = Absent
  <2>1. over = 0 => Len(a) = 0
    BY <1>9, <1>11
  <2> QED
    BY <1>11, <1>12, <2>1
<1>17. Holding(h) \subseteq Listing(a)
  BY <1>14, <1>16 DEF Holding
<1>18. Items' \subseteq Items
  <2>1. Listing(ring') \subseteq Items /\ Holding(hand'[r]) \subseteq Items
    BY <1>2, <1>3, <1>6, <1>11, <1>13, <1>15, <1>17, Placed
  <2>2. \A o \in Registration : Holding(hand'[o]) \subseteq Items /\ Sending(line'[o]) \subseteq Items
    BY <1>2, <1>15, <2>1, Placed
  <2> QED
    BY <2>1, <2>2, ItemsAre
<1>19. NotYet' /\ Numbers' /\ Counted' /\ Captured'
       /\ \A x \in Registration \X Nat : NumberedTwice(x) => NumberedTwice(x)'
  <2>1. SameCounters /\ UNCHANGED <<running, ran, held>>
    BY <1>2 DEF SameCounters, adapterVars
  <2>2. \A o \in Registration : \A i \in Reports(line'[o]) :
          \E j \in Reports(line[o]) : line'[o][i] = line[o][j]
    BY <1>2
  <2> QED
    BY <1>18, <2>1, <2>2, NamesStay, CapturesStay
\* What is in the ring or about to be cleaned up was in the ring or the hand.
<1>20. InOnePlace'
  <2>1. Listing(b) \subseteq Listing(ring) \cup Holding(hand[r])
        /\ Holding(h) \subseteq Listing(ring) \cup Holding(hand[r]) /\ Apart(Holding(h), Listing(b))
    BY <1>3, <1>6, <1>11, <1>17 DEF Apart
  <2>2. \A o \in Registration : hand'[o] # Absent => ListedOnce(hand'[o].entries)
    BY <1>11, <1>14, <1>15, <1>16, Placed
  <2>3. ASSUME NEW o \in Registration
        PROVE  Apart(Sending(line'[o]), Listing(ring')) /\ Apart(Holding(hand'[o]), Listing(ring'))
    <3>1. Apart(Sending(line[o]), Listing(ring)) /\ Apart(Sending(line[o]), Holding(hand[r]))
      BY DEF RingInv, InOnePlace
    <3>2. Apart(Sending(line'[o]), Listing(ring'))
      BY <1>2, <1>13, <2>1, <3>1 DEF Apart
    <3>3. CASE o = r
      BY <1>13, <1>15, <2>1, <3>2, <3>3
    <3>4. CASE o # r
      <4>1. Apart(Holding(hand[o]), Listing(ring)) /\ Apart(Holding(hand[o]), Holding(hand[r]))
        BY <3>4 DEF RingInv, InOnePlace
      <4> QED
        BY <1>13, <1>15, <2>1, <3>2, <3>4, <4>1 DEF Apart
    <3> QED
      BY <3>3, <3>4
  <2>4. ASSUME NEW o \in Registration, NEW p \in Registration
        PROVE  Apart(Sending(line'[o]), Holding(hand'[p]))
    <3>1. /\ Apart(Sending(line[o]), Listing(ring)) /\ Apart(Sending(line[o]), Holding(hand[r]))
          /\ Apart(Sending(line[o]), Holding(hand[p]))
      BY DEF RingInv, InOnePlace
    <3> QED
      BY <1>2, <1>15, <2>1, <3>1 DEF Apart
  <2>5. ASSUME NEW o \in Registration, NEW p \in Registration, o # p
        PROVE  Apart(Sending(line'[o]), Sending(line'[p])) /\ Apart(Holding(hand'[o]), Holding(hand'[p]))
    <3>1. Apart(Sending(line[o]), Sending(line[p])) /\ Apart(Holding(hand[o]), Holding(hand[p]))
      BY <2>5 DEF RingInv, InOnePlace
    <3>2. Apart(Holding(hand[o]), Listing(ring)) /\ Apart(Holding(hand[p]), Listing(ring))
      BY DEF RingInv, InOnePlace
    <3> QED
      BY <1>2, <1>15, <2>1, <2>5, <3>1, <3>2 DEF Apart
  <2> QED
    BY <1>2, <1>11, <1>13, <2>2, <2>3, <2>4, <2>5, Placed DEF InOnePlace
<1>21. ObserverTypeOK'
  <2>1. Len(ring') <= MaxEntries /\ ring' \in Seq(Observed)
    BY <1>8, <1>11, <1>13
  <2> QED
    BY <1>2, <1>15, <2>1 DEF RingInv, ObserverTypeOK, adapterVars
<1>22. RefsRight'
  <2>1. ASSUME NEW e \in Observed, Backed(e) PROVE Backed(e)'
    BY <1>2, <1>19, <2>1, BackedStays DEF Observed
  <2>2. \A i \in DOMAIN all : Named(all[i]) /\ Backed(all[i]) /\ all[i] \in Observed
    <3>1. \A j \in DOMAIN ring : Named(ring[j]) /\ Backed(ring[j])
      BY DEF RingInv, RefsRight
    <3>2. \A j \in DOMAIN es : Named(es[j]) /\ Backed(es[j])
      BY <1>1, <1>2 DEF RingInv, RefsRight
    <3> QED
      BY <1>6, <3>1, <3>2
  <2>3. \A i \in DOMAIN b : Named(b[i]) /\ Backed(b[i])'
    <3> SUFFICES ASSUME NEW i \in DOMAIN b PROVE Named(b[i]) /\ Backed(b[i])'
      OBVIOUS
    <3>1. PICK j \in DOMAIN all : b[i] = all[j]
      BY <1>11
    <3>2. PICK e : e = all[j]
      OBVIOUS
    <3>3. e \in Observed /\ Named(e) /\ Backed(e)
      BY <2>2, <3>2
    <3>4. Backed(e)'
      BY <2>1, <3>3
    <3> QED
      BY <3>1, <3>2, <3>3, <3>4
  <2>4. \A i \in DOMAIN a : Named(a[i])
    BY <1>11, <2>2
  <2>5. \A i \in DOMAIN ring' : Named(ring'[i]) /\ (Backed(ring[i]))'
    BY <1>13, <2>3 DEF Backed, Fine, LeftOn
  <2>6. ASSUME NEW o \in Registration, hand'[o] # Absent, NEW i \in DOMAIN hand'[o].entries
        PROVE  Named(hand'[o].entries[i]) /\ (hand'[o].do = "push" => (Backed(hand[o].entries[i]))')
    <3>1. CASE o = r
      BY <1>14, <1>15, <1>16, <2>4, <2>6, <3>1
    <3>2. CASE o # r
      <4>1. PICK e : e = hand[o].entries[i]
        OBVIOUS
      <4>2. hand'[o] = hand[o] /\ e \in Observed /\ Named(e)
        BY <1>15, <2>6, <3>2, <4>1, Placed DEF RingInv, RefsRight
      <4>3. hand[o].do = "push" => Backed(e)
        BY <2>6, <3>2, <4>1, <4>2 DEF RingInv, RefsRight
      <4>4. hand[o].do = "push" => Backed(e)'
        BY <2>1, <4>2, <4>3
      <4> QED
        BY <4>1, <4>2, <4>4 DEF Backed, Fine, LeftOn
    <3> QED
      BY <3>1, <3>2
  <2> QED
    BY <2>5, <2>6 DEF RefsRight, Named
<1>23. FilesNamed'
  <2> SUFFICES ASSUME NEW f \in files
               PROVE  \/ f.name \in Refs(b)
                      \/ \E o \in Registration : hand'[o] # Absent /\ f.name \in Refs(hand'[o].entries)
    BY <1>2, <1>13 DEF FilesNamed
  <2>1. \/ f.name \in Refs(ring)
        \/ \E o \in Registration : hand[o] # Absent /\ f.name \in Refs(hand[o].entries)
    BY DEF RingInv, FilesNamed
  <2>2. CASE \E o \in Registration \ {r} : hand[o] # Absent /\ f.name \in Refs(hand[o].entries)
    BY <1>15, <2>2
  <2>3. CASE f.name \in Refs(ring) \cup Refs(es)
    <3>1. PICK j \in DOMAIN all : all[j].ref = f.name /\ f.name # Absent
      BY <1>6, <2>3 DEF Refs
    <3>2. CASE \E i \in DOMAIN b : b[i] = all[j]
      BY <3>1, <3>2 DEF Refs
    <3>3. CASE \E i \in DOMAIN a : a[i] = all[j]
      <4>1. f.name \in Refs(a) /\ a # <<>>
        BY <3>1, <3>3 DEF Refs
      <4>2. over # 0
        BY <1>16, <4>1
      <4> QED
        BY <1>14, <1>15, <4>1, <4>2
    <3> QED
      BY <1>11, <3>2, <3>3
  <2> QED
    BY <1>1, <2>1, <2>2, <2>3
<1> QED
  BY <1>2, <1>19, <1>20, <1>21, <1>22, <1>23 DEF RingInv

LEMMA CleanKeeps == ASSUME RingInv, NEW r \in Registration, Clean(r) PROVE RingInv'
<1>1. PICK es : es = hand[r].entries
  OBVIOUS
<1>2. /\ hand[r] # Absent /\ hand[r].do = "clean" /\ hand' = [hand EXCEPT ![r] = Absent]
      /\ files' = {f \in files : \A i \in DOMAIN es : es[i].ref # f.name}
      /\ UNCHANGED <<adapterVars, line, registry, contexts, ring>>
  BY <1>1 DEF Clean
<1>3. hand \in [Registration -> Hand \cup {Absent}]
  BY DEF RingInv, ObserverTypeOK
<1>4. /\ hand' \in [Registration -> Hand \cup {Absent}] /\ hand'[r] = Absent
      /\ \A o \in Registration \ {r} : hand'[o] = hand[o]
  BY <1>2, <1>3
<1>5. Holding(hand'[r]) = {} /\ \A o \in Registration : Holding(hand'[o]) \subseteq Holding(hand[o])
  BY <1>4 DEF Holding
<1>6. Items' \subseteq Items
  BY <1>2, <1>5, ItemsAre
<1>7. NotYet' /\ Numbers' /\ Counted' /\ Captured'
      /\ \A x \in Registration \X Nat : NumberedTwice(x) => NumberedTwice(x)'
  <2>1. SameCounters /\ UNCHANGED <<running, ran, held>>
    BY <1>2 DEF SameCounters, adapterVars
  <2>2. \A o \in Registration : \A i \in Reports(line'[o]) :
          \E j \in Reports(line[o]) : line'[o][i] = line[o][j]
    BY <1>2
  <2> QED
    BY <1>6, <2>1, <2>2, NamesStay, CapturesStay
<1>8. InOnePlace'
  BY <1>2, <1>4, <1>5 DEF RingInv, InOnePlace, Apart
<1>9. ObserverTypeOK'
  <2>1. files' \subseteq files
    BY <1>2
  <2> QED
    BY <1>2, <1>4, <2>1 DEF RingInv, ObserverTypeOK, adapterVars
\* A file that goes has the name of an entry given up; another entry with that name has
\* the same number, and it is of another command.
<1>10. ASSUME NEW e \in Observed, Named(e), Backed(e), Item(e) \in Items,
              NEW A, Item(e) \in A, Apart(Holding(hand[r]), A)
       PROVE  Backed(e)'
  <2>1. e.ref \in (Registration \X Nat) \cup {Absent}
    BY <1>10 DEF Observed
  <2>2. ASSUME NEW i \in DOMAIN es, es[i].ref = e.ref, e.ref # Absent PROVE NumberedTwice(e.ref)
    <3>1. PICK g : g = es[i]
      OBVIOUS
    <3>2. g \in Observed /\ Named(g) /\ Item(g) \in Holding(hand[r]) /\ Item(g) \in Items
      <4>1. es \in Seq(Observed) /\ Holding(hand[r]) = Listing(es) /\ Holding(hand[r]) \subseteq Items
        BY <1>1, <1>2, Placed
      <4>2. g \in Observed /\ Item(g) \in Listing(es)
        BY <3>1, <4>1 DEF Listing
      <4>3. Named(g)
        BY <1>1, <1>2, <3>1 DEF RingInv, RefsRight
      <4> QED
        BY <4>1, <4>2, <4>3
    <3>3. g.ref = e.ref /\ e.ref = <<e.by, e.seq>> /\ g.ref = <<g.by, g.seq>>
      BY <1>10, <2>2, <3>1, <3>2 DEF Named
    <3>4. g.by = e.by /\ g.seq = e.seq
      <4>1. <<g.by, g.seq>> = <<e.by, e.seq>>
        BY <3>3
      <4> QED
        BY <4>1
    <3>5. Item(g).n # Item(e).n
      BY <1>10, <3>2 DEF Apart
    <3>6. Item(e).by = Item(g).by /\ Item(e).seq = Item(g).seq /\ Item(e).by = e.by /\ Item(e).seq = e.seq
      BY <3>4 DEF Item
    <3>7. NumberedTwice(<<e.by, e.seq>>)
      BY <1>10, <3>2, <3>5, <3>6 DEF RingInv, Numbers
    <3> QED
      BY <3>3, <3>7
  <2>3. \A f \in files : f.name = e.ref => f \in files' \/ NumberedTwice(e.ref)
    <3> SUFFICES ASSUME NEW f \in files, f.name = e.ref, f \notin files' PROVE NumberedTwice(e.ref)
      OBVIOUS
    <3>1. PICK i \in DOMAIN es : es[i].ref = f.name
      BY <1>2
    <3>2. f.name # Absent
      BY DEF RingInv, FilesNamed, Refs
    <3> QED
      BY <2>2, <3>1, <3>2
  <2> QED
    BY <1>7, <1>10, <2>1, <2>3, BackedStays
<1>11. RefsRight'
  <2>1. ASSUME NEW i \in DOMAIN ring PROVE Named(ring[i]) /\ (Backed(ring[i]))'
    <3>1. PICK e : e = ring[i]
      OBVIOUS
    <3>2. e \in Observed /\ Named(e) /\ Backed(e)
      BY <3>1 DEF RingInv, ObserverTypeOK, RefsRight
    <3>3. Item(e) \in Listing(ring) /\ Item(e) \in Items
      BY <3>1, Placed DEF Listing
    <3>4. Apart(Holding(hand[r]), Listing(ring))
      BY DEF RingInv, InOnePlace
    <3>5. Backed(e)'
      BY <1>10, <3>2, <3>3, <3>4
    <3> QED
      BY <1>2, <3>1, <3>2, <3>5 DEF Backed, Fine, LeftOn
  <2>2. ASSUME NEW o \in Registration \ {r}, hand[o] # Absent, NEW i \in DOMAIN hand[o].entries
        PROVE  Named(hand[o].entries[i]) /\ (hand[o].do = "push" => (Backed(hand[o].entries[i]))')
    <3>1. PICK e : e = hand[o].entries[i]
      OBVIOUS
    <3>2. e \in Observed /\ Named(e) /\ (hand[o].do = "push" => Backed(e))
      BY <2>2, <3>1, Placed DEF RingInv, RefsRight
    <3>3. Item(e) \in Holding(hand[o]) /\ Item(e) \in Items
      BY <2>2, <3>1, Placed DEF Listing
    <3>4. Apart(Holding(hand[r]), Holding(hand[o]))
      BY DEF RingInv, InOnePlace
    <3>5. hand[o].do = "push" => Backed(e)'
      BY <1>10, <3>2, <3>3, <3>4
    <3>6. e = hand'[o].entries[i]
      BY <1>4, <3>1
    <3> QED
      BY <3>1, <3>2, <3>5, <3>6 DEF Backed, Fine, LeftOn
  <2> QED
    BY <1>2, <1>4, <2>1, <2>2 DEF RefsRight, Named
<1>12. FilesNamed'
  <2> SUFFICES ASSUME NEW f \in files'
               PROVE  \/ f.name \in Refs(ring)
                      \/ \E o \in Registration : hand'[o] # Absent /\ f.name \in Refs(hand'[o].entries)
    BY <1>2 DEF FilesNamed
  <2>1. f \in files /\ f.name \notin Refs(es)
    BY <1>2 DEF Refs
  <2>2. \/ f.name \in Refs(ring)
        \/ \E o \in Registration : hand[o] # Absent /\ f.name \in Refs(hand[o].entries)
    BY <2>1 DEF RingInv, FilesNamed
  <2> QED
    BY <1>1, <1>4, <2>1, <2>2
<1> QED
  BY <1>2, <1>7, <1>8, <1>9, <1>11, <1>12 DEF RingInv

\* A connection's end and an edit of the file are about no command.
LEMMA NothingNew ==
  ASSUME RingInv, ObserverTypeOK', UNCHANGED <<shell, running, ran, held, line, hand, ring, files>>
  PROVE  RingInv'
<1>1. SameCounters /\ line' \in [Registration -> Seq(Message)]
  BY DEF SameCounters, RingInv, Message
<1>2. \A r \in Registration :
        /\ SentOnce(line'[r]) /\ Sending(line'[r]) \subseteq Sending(line[r])
        /\ \A i \in Reports(line'[r]) : \E j \in Reports(line[r]) : line'[r][i] = line[r][j]
  BY SameLines
<1> QED
  BY <1>1, <1>2, FewerKeep

LEMMA CloseKeeps == ASSUME RingInv, NEW r \in Registration, Close(r) PROVE RingInv'
<1>1. ObserverTypeOK'
  BY DEF Close, RingInv, ObserverTypeOK, adapterVars
<1> QED
  BY <1>1, NothingNew DEF Close, adapterVars

LEMMA EditKeeps == ASSUME RingInv, Edit PROVE RingInv'
<1>1. edits' \in 0..MaxEdits
  BY ObserverAssumption DEF Edit, RingInv, ObserverTypeOK
<1>2. ObserverTypeOK'
  BY <1>1 DEF Edit, RingInv, ObserverTypeOK, daemonVars
<1> QED
  BY <1>2, NothingNew DEF Edit, daemonVars

ShellState == [id : 0..MaxRegistrations, ids : 0..MaxRegistrations, alive : BOOLEAN,
               aliases : AliasSet, told : {0} \cup AliasSet,
               observed : 0..MaxCommands, approved : 0..MaxCommands]

LEMMA IsShell == ASSUME RingInv PROVE shell \in [Zsh -> ShellState]
  BY DEF RingInv, ObserverTypeOK, ShellState

\* A helper that has died changes nothing else of its shell.
LEMMA DownIsShell == ASSUME NEW s \in ShellState PROVE [s EXCEPT !.alive = FALSE] \in ShellState
  BY DEF ShellState

LEMMA HelperDiesKeeps == ASSUME RingInv, NEW z \in Zsh, HelperDies(z) PROVE RingInv'
<1>1. PICK r : r = Id(z, shell[z])
  OBVIOUS
<1>2. PICK k \in 0..Len(line[r]) : line' = [line EXCEPT ![r] = SubSeq(@, 1, k)]
  BY <1>1 DEF HelperDies
<1>3. /\ shell[z].id # 0 /\ deaths < MaxDeaths /\ deaths' = deaths + 1
      /\ shell' = [shell EXCEPT ![z].alive = FALSE]
      /\ UNCHANGED <<switches, loaded, running, tee, held, ran, edits, daemonVars>>
  BY DEF HelperDies, Live
<1>4. shell[z].id \in 0..MaxRegistrations /\ r \in Registration
  BY <1>1, <1>3, ObserverAssumption DEF RingInv, ObserverTypeOK, Id, Registration
<1>5. PICK t : t = SubSeq(line[r], 1, k)
  OBVIOUS
<1>6. line \in [Registration -> Seq(Message)]
  BY DEF RingInv, Message
<1>7. t \in Seq(Message) /\ SentOnce(t) /\ Sending(t) \subseteq Sending(line[r])
      /\ \A i \in Reports(t) : i \in Reports(line[r]) /\ t[i] = line[r][i]
  <2>1. PICK s : s = line[r]
    OBVIOUS
  <2>2. s \in Seq(Message) /\ SentOnce(s) /\ k \in 0..Len(s) /\ t = SubSeq(s, 1, k)
    BY <1>2, <1>4, <1>5, <2>1, Placed
  <2>3. t \in Seq(Message) /\ SentOnce(t) /\ Sending(t) \subseteq Sending(s)
    BY <2>2, CutShort, Zenon
  <2>4. \A i \in Reports(t) : i \in Reports(s) /\ t[i] = s[i]
    BY <2>2, CutShort, Zenon
  <2> QED
    BY <2>1, <2>3, <2>4
<1>8. /\ line' \in [Registration -> Seq(Message)] /\ line'[r] = t
      /\ \A o \in Registration \ {r} : line'[o] = line[o]
  BY <1>2, <1>4, <1>5, <1>6, <1>7
<1>9. \A o \in Registration :
        /\ SentOnce(line'[o]) /\ Sending(line'[o]) \subseteq Sending(line[o])
        /\ \A i \in Reports(line'[o]) : \E j \in Reports(line[o]) : line'[o][i] = line[o][j]
  BY <1>7, <1>8, SameLines
<1>10. SameCounters
  BY <1>3 DEF SameCounters, RingInv, ObserverTypeOK
<1>11. ObserverTypeOK'
  <2>1. deaths' \in 0..MaxDeaths
    BY <1>3, ObserverAssumption DEF RingInv, ObserverTypeOK
  <2>2. shell' \in [Zsh -> [id : 0..MaxRegistrations, ids : 0..MaxRegistrations, alive : BOOLEAN,
                            aliases : AliasSet, told : {0} \cup AliasSet,
                            observed : 0..MaxCommands, approved : 0..MaxCommands]]
    <3>1. shell' \in [Zsh -> ShellState]
      BY <1>3, IsShell, DownIsShell
    <3> QED
      BY <3>1 DEF ShellState
  <2> QED
    BY <1>3, <2>1, <2>2 DEF RingInv, ObserverTypeOK, daemonVars
<1> QED
  BY <1>3, <1>8, <1>9, <1>10, <1>11, FewerKeep DEF daemonVars

LEMMA DaemonDiesKeeps == ASSUME RingInv, DaemonDies PROVE RingInv'
<1>1. /\ deaths < MaxDeaths /\ deaths' = deaths + 1
      /\ shell' = [z \in Zsh |-> [shell[z] EXCEPT !.alive = FALSE]]
      /\ line' = [r \in Registration |-> <<>>] /\ hand' = [r \in Registration |-> Absent]
      /\ registry' = {} /\ contexts' = [r \in Registration |-> 0] /\ ring' = <<>> /\ files' = {}
      /\ UNCHANGED <<switches, loaded, running, tee, held, ran, edits>>
  BY DEF DaemonDies
<1>2. SameCounters
  BY <1>1 DEF SameCounters, RingInv, ObserverTypeOK
<1>3. /\ Sending(<<>>) = {} /\ Reports(<<>>) = {} /\ SentOnce(<<>>)
      /\ Listing(<<>>) = {} /\ ListedOnce(<<>>) /\ Holding(Absent) = {}
  BY DEF Sending, Reports, SentOnce, Listing, ListedOnce, Holding
<1>4. \A r \in Registration : line'[r] = <<>> /\ hand'[r] = Absent
  BY <1>1
<1>5. Items' = {}
  BY <1>1, <1>3, <1>4, ItemsAre
<1>6. NotYet' /\ Numbers' /\ Counted'
  BY <1>1, <1>2, <1>5, NamesStay
<1>7. Captured'
  BY <1>1, <1>3, <1>4, CapturesStay
<1>8. InOnePlace'
  BY <1>1, <1>3, <1>4 DEF InOnePlace, Apart
<1>9. ObserverTypeOK'
  <2>1. deaths' \in 0..MaxDeaths
    BY <1>1, ObserverAssumption DEF RingInv, ObserverTypeOK
  <2>2. shell' \in [Zsh -> [id : 0..MaxRegistrations, ids : 0..MaxRegistrations, alive : BOOLEAN,
                            aliases : AliasSet, told : {0} \cup AliasSet,
                            observed : 0..MaxCommands, approved : 0..MaxCommands]]
    <3>1. shell' \in [Zsh -> ShellState]
      BY <1>1, IsShell, DownIsShell
    <3> QED
      BY <3>1 DEF ShellState
  <2>3. ring' \in Seq(Observed) /\ Len(ring') <= MaxEntries
    BY <1>1, ObserverAssumption
  <2> QED
    BY <1>1, <2>1, <2>2, <2>3 DEF RingInv, ObserverTypeOK
<1>10. RefsRight' /\ FilesNamed'
  BY <1>1, <1>4 DEF RefsRight, FilesNamed
<1>11. line' \in [Registration -> Seq(Report \cup Context)]
  <2>1. <<>> \in Seq(Report \cup Context)
    OBVIOUS
  <2> QED
    BY <1>1, <2>1
<1> QED
  BY <1>6, <1>7, <1>8, <1>9, <1>10, <1>11 DEF RingInv

-----------------------------------------------------------------------------
(* The shells' steps *)

\* Whatever a registration comes to, the counters stay and the id is the old one, none or
\* a new one.
LEMMA RegisteredIs ==
  ASSUME NEW s \in ShellState, NEW r \in Registered(s)
  PROVE  /\ r \in ShellState /\ r.observed = s.observed /\ r.approved = s.approved
         /\ \/ r.id = s.id /\ r.ids = s.ids
            \/ r.id = 0 /\ r.ids = s.ids
            \/ r.id = s.ids + 1 /\ r.ids = s.ids + 1
<1>1. CASE r = s
  BY <1>1
<1>2. CASE r = [s EXCEPT !.id = 0, !.alive = FALSE]
  <2>1. 0 \in 0..MaxRegistrations
    BY ObserverAssumption
  <2> QED
    BY <1>2, <2>1 DEF ShellState
<1>3. CASE s.ids # MaxRegistrations /\ r = [s EXCEPT !.id = s.ids + 1, !.ids = s.ids + 1, !.alive = TRUE]
  <2>1. s.ids + 1 \in 0..MaxRegistrations
    BY <1>3, ObserverAssumption DEF ShellState
  <2> QED
    BY <1>3, <2>1 DEF ShellState
<1>4. \/ r = s
      \/ r = [s EXCEPT !.id = 0, !.alive = FALSE]
      \/ s.ids # MaxRegistrations /\ r = [s EXCEPT !.id = s.ids + 1, !.ids = s.ids + 1, !.alive = TRUE]
  BY DEF Registered, Started
<1> QED
  BY <1>1, <1>2, <1>3, <1>4

LEMMA ToldIs ==
  ASSUME NEW s \in ShellState
  PROVE  /\ Told(s) \in ShellState /\ Told(s).observed = s.observed /\ Told(s).approved = s.approved
         /\ Told(s).id = s.id /\ Told(s).ids = s.ids
  BY DEF Told, ShellState

LEMMA ContextsAre ==
  ASSUME NEW s \in ShellState
  PROVE  Contexts(s) \in Seq(Message) /\ Reports(Contexts(s)) = {}
<1>1. ContextMessage(s) \in Message /\ ContextMessage(s).op = "context"
  BY DEF ContextMessage, ShellState, Message, Context
<1>2. PICK t : t = <<ContextMessage(s)>>
  OBVIOUS
<1>3. t \in Seq(Message) /\ Reports(t) = {}
  BY <1>1, <1>2 DEF Reports
<1>4. <<>> \in Seq(Message) /\ Reports(<<>>) = {}
  BY DEF Reports
<1> QED
  BY <1>2, <1>3, <1>4 DEF Contexts

\* The messages of a prompt: contexts, and at most one report.
LEMMA SpeechIs ==
  ASSUME NEW A \in Seq(Message), Reports(A) = {}, NEW B, NEW C, NEW M \in SUBSET Report,
         \/ M = {} /\ B = <<>> /\ C = <<>>
         \/ \E m : M = {m} /\ B = <<m>> /\ C = <<>>
         \/ \E m : M = {m} /\ B = <<>> /\ C = <<m>>
  PROVE  /\ A \o B \o C \in Seq(Message) /\ SentOnce(A \o B \o C)
         /\ \A i \in Reports(A \o B \o C) : (A \o B \o C)[i] \in M
<1>1. Sending(A) = {} /\ SentOnce(A)
  BY DEF Sending, SentOnce
<1>2. ASSUME NEW m \in Report, NEW t, t = <<m>>
      PROVE  t \in Seq(Message) /\ SentOnce(t) /\ \A i \in Reports(t) : t[i] = m
  <2>1. t \in Seq(Message) /\ DOMAIN t = {1} /\ t[1] = m
    BY <1>2 DEF Message
  <2> QED
    BY <2>1 DEF SentOnce, Reports
<1>3. <<>> \in Seq(Message) /\ SentOnce(<<>>) /\ Reports(<<>>) = {} /\ Sending(<<>>) = {}
  BY DEF SentOnce, Reports, Sending
<1>4. /\ B \in Seq(Message) /\ SentOnce(B) /\ \A i \in Reports(B) : B[i] \in M
      /\ C \in Seq(Message) /\ SentOnce(C) /\ \A i \in Reports(C) : C[i] \in M
      /\ Sending(B) = {} \/ Sending(C) = {}
  BY <1>2, <1>3
<1>5. PICK D : D = A \o B
  OBVIOUS
<1>6. Apart(Sending(A), Sending(B))
  BY <1>1 DEF Apart
<1>7. Joined(A, B, D)
  BY <1>4, <1>5, SentMore
<1>8. /\ D \in Seq(Message) /\ SentOnce(D) /\ Sending(D) \subseteq Sending(B)
      /\ \A i \in Reports(D) : D[i] \in M
  BY <1>1, <1>4, <1>6, <1>7 DEF Joined
<1>9. Apart(Sending(D), Sending(C))
  BY <1>1, <1>4, <1>8 DEF Apart
<1>10. PICK t : t = D \o C
  OBVIOUS
<1>11. Joined(D, C, t)
  BY <1>4, <1>8, <1>10, SentMore
<1>12. t \in Seq(Message) /\ SentOnce(t)
  BY <1>4, <1>8, <1>9, <1>11 DEF Joined
<1>13. \A i \in Reports(t) : t[i] \in M
  BY <1>4, <1>8, <1>11 DEF Joined
<1> QED
  BY <1>5, <1>10, <1>12, <1>13

\* What a line becomes when a shell sends reports of commands that nothing else is about.
LEMMA Spoken ==
  ASSUME RingInv, NEW z \in Zsh, NEW s \in ShellState, NEW t \in Seq(Message), SentOnce(t),
         \A x \in Sending(t) : \A y \in Items : x.n # y.n,
         Sent(z, s, t), UNCHANGED <<hand, ring>>
  PROVE  /\ line' \in [Registration -> Seq(Message)] /\ InOnePlace'
         /\ \A x \in Items' : x \in Items \/ (Live(s) /\ x \in Sending(t))
         /\ \A r \in Registration : \A i \in Reports(line'[r]) :
              \/ \E j \in Reports(line[r]) : line'[r][i] = line[r][j]
              \/ \E j \in Reports(t) : line'[r][i] = t[j]
<1>1. line \in [Registration -> Seq(Message)]
  BY DEF RingInv, Message
<1>2. CASE ~Live(s)
  <2>1. line' = line
    BY <1>2 DEF Sent
  <2>2. InOnePlace'
    BY <2>1 DEF RingInv, InOnePlace
  <2>3. Items' \subseteq Items
    BY <2>1, ItemsAre
  <2> QED
    BY <1>1, <2>1, <2>2, <2>3
<1>3. CASE Live(s)
  <2>1. PICK r : r = Id(z, s)
    OBVIOUS
  <2>2. r \in Registration
    BY <1>3, <2>1, ObserverAssumption DEF Live, Id, Registration, ShellState
  <2>3. PICK old : old = line[r]
    OBVIOUS
  <2>4. PICK u : u = old \o t
    OBVIOUS
  <2>5. old \in Seq(Message) /\ SentOnce(old) /\ Sending(old) \subseteq Items
    BY <2>2, <2>3, Placed
  <2>6. Apart(Sending(old), Sending(t))
    BY <2>5 DEF Apart
  <2>7. Joined(old, t, u)
    BY <2>4, <2>5, SentMore
  <2>8. /\ u \in Seq(Message) /\ SentOnce(u) /\ Sending(u) \subseteq Sending(old) \cup Sending(t)
        /\ \A i \in Reports(u) : (\E j \in Reports(old) : u[i] = old[j]) \/ (\E j \in Reports(t) : u[i] = t[j])
    BY <2>5, <2>6, <2>7 DEF Joined
  <2>9. line' = [line EXCEPT ![r] = u]
    BY <1>3, <2>1, <2>3, <2>4 DEF Sent
  <2>10. /\ line' \in [Registration -> Seq(Message)] /\ line'[r] = u
         /\ \A o \in Registration \ {r} : line'[o] = line[o]
    BY <1>1, <2>2, <2>8, <2>9
  <2>11. \A o \in Registration : SentOnce(line'[o]) /\ Sending(line'[o]) \subseteq Sending(line[o]) \cup Sending(t)
    BY <2>3, <2>8, <2>10, Placed
  <2>12. InOnePlace'
    <3>1. ASSUME NEW o \in Registration
          PROVE  Apart(Sending(line'[o]), Listing(ring'))
      <4>1. Apart(Sending(line[o]), Listing(ring))
        BY DEF RingInv, InOnePlace
      <4> QED
        BY <2>11, <4>1, Placed DEF Apart
    <3>2. ASSUME NEW o \in Registration, NEW p \in Registration
          PROVE  Apart(Sending(line'[o]), Holding(hand'[p]))
      <4>1. Apart(Sending(line[o]), Holding(hand[p]))
        BY DEF RingInv, InOnePlace
      <4> QED
        BY <2>11, <4>1, Placed DEF Apart
    <3>3. ASSUME NEW o \in Registration, NEW p \in Registration, o # p
          PROVE  Apart(Sending(line'[o]), Sending(line'[p]))
      <4>1. Apart(Sending(line[o]), Sending(line[p]))
        BY <3>3 DEF RingInv, InOnePlace
      <4>2. Sending(line[o]) \subseteq Items /\ Sending(line[p]) \subseteq Items
        BY Placed
      <4>3. /\ o = r => Sending(line'[p]) = Sending(line[p])
            /\ o # r => Sending(line'[o]) = Sending(line[o])
        BY <2>10, <3>3
      <4>4. \A x \in Items : \A y \in Sending(t) : x.n # y.n
        OBVIOUS
      <4>5. CASE o = r
        BY <2>11, <4>1, <4>2, <4>3, <4>4, <4>5 DEF Apart
      <4>6. CASE o # r
        BY <2>11, <4>1, <4>2, <4>3, <4>4, <4>6 DEF Apart
      <4> QED
        BY <4>5, <4>6
    <3> QED
      BY <2>11, <3>1, <3>2, <3>3 DEF RingInv, InOnePlace
  <2>13. \A x \in Items' : x \in Items \/ x \in Sending(t)
    BY <2>11, ItemsAre
  <2>14. \A o \in Registration : \A i \in Reports(line'[o]) :
           \/ \E j \in Reports(line[o]) : line'[o][i] = line[o][j]
           \/ \E j \in Reports(t) : line'[o][i] = t[j]
    <3>1. \A i \in Reports(line'[r]) :
            (\E j \in Reports(line[r]) : line'[r][i] = line[r][j]) \/ (\E j \in Reports(t) : line'[r][i] = t[j])
      BY <2>3, <2>8, <2>10
    <3>2. \A o \in Registration \ {r} : \A i \in Reports(line'[o]) :
            \E j \in Reports(line[o]) : line'[o][i] = line[o][j]
      BY <2>10
    <3> QED
      BY <3>1, <3>2
  <2> QED
    BY <1>3, <2>10, <2>12, <2>13, <2>14
<1> QED
  BY <1>2, <1>3

\* Files and entries stay right where neither changes.
LEMMA FilesStay ==
  ASSUME RingInv, UNCHANGED <<hand, ring, files>>,
         \A x \in Registration \X Nat : NumberedTwice(x) => NumberedTwice(x)'
  PROVE  RefsRight' /\ FilesNamed'
<1>1. RefsRight'
  <2>1. ASSUME NEW e \in Observed, Backed(e) PROVE Backed(e)'
    BY <2>1, BackedStays DEF Observed
  <2>2. \A i \in DOMAIN ring : ring[i] \in Observed
    BY DEF RingInv, ObserverTypeOK
  <2>3. \A o \in Registration : hand[o] # Absent => \A i \in DOMAIN hand[o].entries : hand[o].entries[i] \in Observed
    BY Placed
  <2> QED
    BY <2>1, <2>2, <2>3 DEF RingInv, RefsRight, Named
<1>2. FilesNamed'
  BY DEF RingInv, FilesNamed
<1> QED
  BY <1>1, <1>2

LEMMA PromptedKeeps == ASSUME RingInv, NEW z \in Zsh, Prompted(z) PROVE RingInv'
<1>1. PICK s \in Registered(shell[z]) :
        /\ shell' = [shell EXCEPT ![z] = Told(s)]
        /\ Sent(z, s, Contexts(s))
        /\ registry' = Enters(z, s)
  BY DEF Prompted
<1>2. /\ running[z] = Absent
      /\ UNCHANGED <<switches, loaded, running, tee, held, ran, deaths, edits, hand, contexts, ring, files>>
  BY DEF Prompted
<1>3. shell \in [Zsh -> ShellState]
  BY DEF RingInv, ObserverTypeOK, ShellState
<1>4. PICK old : old = shell[z]
  OBVIOUS
<1>5. PICK new : new = Told(s)
  OBVIOUS
<1>6. /\ old \in ShellState /\ s \in ShellState /\ s.observed = old.observed /\ s.approved = old.approved
      /\ \/ s.id = old.id /\ s.ids = old.ids
         \/ s.id = 0 /\ s.ids = old.ids
         \/ s.id = old.ids + 1 /\ s.ids = old.ids + 1
  BY <1>1, <1>3, <1>4, RegisteredIs
<1>7. /\ new \in ShellState /\ new.observed = old.observed /\ new.approved = old.approved
      /\ new.id = s.id /\ new.ids = s.ids
  BY <1>5, <1>6, ToldIs
<1>8. /\ shell' \in [Zsh -> ShellState] /\ shell'[z] = new
      /\ \A y \in Zsh \ {z} : shell'[y] = shell[y]
  BY <1>1, <1>3, <1>5, <1>7
<1>9. PICK t : t = Contexts(s)
  OBVIOUS
<1>10. t \in Seq(Message) /\ Reports(t) = {} /\ SentOnce(t) /\ Sending(t) = {}
  BY <1>6, <1>9, ContextsAre DEF SentOnce, Sending
<1>11. Sent(z, s, t)
  BY <1>1, <1>9
<1>12. /\ line' \in [Registration -> Seq(Message)] /\ InOnePlace' /\ Items' \subseteq Items
       /\ \A r \in Registration : \A i \in Reports(line'[r]) :
            \E j \in Reports(line[r]) : line'[r][i] = line[r][j]
  <2>1. line' \in [Registration -> Seq(Message)] /\ InOnePlace'
    BY <1>2, <1>6, <1>10, <1>11, Spoken
  <2>2. \A x \in Items' : x \in Items \/ (Live(s) /\ x \in Sending(t))
    BY <1>2, <1>6, <1>10, <1>11, Spoken
  <2>3. \A r \in Registration : \A i \in Reports(line'[r]) :
          \/ \E j \in Reports(line[r]) : line'[r][i] = line[r][j]
          \/ \E j \in Reports(t) : line'[r][i] = t[j]
    BY <1>2, <1>6, <1>10, <1>11, Spoken
  <2> QED
    BY <1>10, <2>1, <2>2, <2>3
<1>13. NotYet'
  BY <1>2, <1>12 DEF RingInv, NotYet, RunsNow
<1>14. Captured'
  BY <1>2, <1>12, CapturesStay
<1>15. Counted'
  <2>1. old.id \in Nat /\ old.ids \in Nat
    BY <1>6 DEF ShellState
  <2>2. new.id <= new.ids
    BY <1>4, <1>6, <1>7, <2>1 DEF RingInv, Counted
  <2> QED
    BY <1>2, <1>4, <1>7, <1>8, <2>2 DEF RingInv, Counted
<1>16. \A x \in Registration \X Nat : NumberedTwice(x) => NumberedTwice(x)'
  <2>1. \A y \in Zsh : shell'[y].observed = shell[y].observed /\ shell'[y].approved = shell[y].approved
    BY <1>4, <1>7, <1>8
  <2>2. \A x \in Registration \X Nat : x[1][1] \in Zsh
    BY DEF Registration
  <2> QED
    BY <2>1, <2>2 DEF NumberedTwice
<1>17. Numbers'
  <2>1. ASSUME NEW x \in Items'
        PROVE  /\ x.by[2] <= shell'[x.by[1]].ids
               /\ x.by[2] = shell'[x.by[1]].id => \/ x.seq <= shell'[x.by[1]].observed
                                                  \/ x.seq <= shell'[x.by[1]].approved
    <3>1. x \in Items /\ x.by[1] \in Zsh /\ x.by[2] \in 1..MaxRegistrations
      BY <1>12, ItemsTyped
    <3>2. /\ x.by[2] <= shell[x.by[1]].ids
          /\ x.by[2] = shell[x.by[1]].id => \/ x.seq <= shell[x.by[1]].observed
                                            \/ x.seq <= shell[x.by[1]].approved
      BY <3>1 DEF RingInv, Numbers
    <3>3. CASE x.by[1] # z
      BY <1>8, <3>1, <3>2, <3>3
    <3>4. CASE x.by[1] = z
      <4>1. x.by[2] \in Nat /\ x.by[2] # 0 /\ old.ids \in Nat
        BY <1>6, <3>1 DEF ShellState
      <4>2. x.by[2] <= new.ids /\ (x.by[2] = new.id => x.by[2] = old.id)
        BY <1>4, <1>6, <1>7, <3>2, <3>4, <4>1
      <4> QED
        BY <1>4, <1>7, <1>8, <3>2, <3>4, <4>2
    <3> QED
      BY <3>3, <3>4
  <2>2. \A x, y \in Items' : x.by = y.by /\ x.seq = y.seq /\ x.n # y.n => NumberedTwice(<<x.by, x.seq>>)'
    <3>1. \A x \in Items : <<x.by, x.seq>> \in Registration \X Nat
      BY ItemsTyped
    <3> QED
      BY <1>12, <1>16, <3>1 DEF RingInv, Numbers
  <2>3. ASSUME NEW y \in Zsh, RunsNow(y)'
        PROVE  LET c == running'[y] IN
               /\ c.by = shell'[y].id /\ 1 <= c.seq /\ c.seq <= c.n
               /\ c.approved => /\ c.by # 0 /\ c.seq = shell'[y].approved
                                /\ \A x \in Items' : x.by = <<y, c.by>> /\ x.seq = c.seq
                                                      => c.seq <= shell'[y].observed
               /\ ~c.approved => c.seq = shell'[y].observed + 1
    <3>1. y # z /\ shell'[y] = shell[y] /\ running'[y] = running[y] /\ RunsNow(y)
      BY <1>2, <1>8, <2>3 DEF RunsNow
    <3> QED
      BY <1>12, <3>1 DEF RingInv, Numbers
  <2> QED
    BY <2>1, <2>2, <2>3 DEF Numbers
<1>18. RefsRight' /\ FilesNamed'
  BY <1>2, <1>16, FilesStay
<1>19. ObserverTypeOK'
  <2>1. registry' \subseteq Registration
    <3>1. Live(s) => Id(z, s) \in Registration
      BY <1>6, ObserverAssumption DEF Live, Id, Registration, ShellState
    <3> QED
      BY <1>1, <3>1 DEF Enters, RingInv, ObserverTypeOK
  <2> QED
    BY <1>2, <1>8, <2>1 DEF RingInv, ObserverTypeOK, ShellState
<1> QED
  BY <1>12, <1>13, <1>14, <1>15, <1>17, <1>18, <1>19 DEF RingInv, Message

LEMMA RunKeeps == ASSUME RingInv, NEW z \in Zsh, Run(z) PROVE RingInv'
<1>1. PICK what \in What, approved \in BOOLEAN :
        LET s == shell[z]
            c == [n |-> ran + 1, what |-> what, approved |-> approved, by |-> s.id,
                  seq |-> 1 + IF approved THEN s.approved ELSE s.observed]
            to == IF Captures(z, c) = Absent THEN tee[z] ELSE Captures(z, c)
        IN /\ approved => Live(s)
           /\ running' = [running EXCEPT ![z] = c]
           /\ shell' = IF approved THEN [shell EXCEPT ![z].approved = c.seq] ELSE shell
           /\ tee' = [tee EXCEPT ![z] = to]
           /\ held' = IF to = Absent THEN held
                      ELSE [held EXCEPT ![z][to] = Shown(z, c) \cup
                                          IF Captures(z, c) = Absent THEN @ ELSE {}]
  BY DEF Run
<1>2. /\ running[z] = Absent /\ ran < MaxCommands /\ ran' = ran + 1
      /\ UNCHANGED <<switches, loaded, deaths, edits, line, daemonVars>>
  BY DEF Run
<1>3. shell \in [Zsh -> ShellState] /\ ran \in Nat /\ running \in [Zsh -> Command \cup {Absent}]
      /\ tee \in [Zsh -> Target \cup {Absent}] /\ held \in [Zsh -> [Target -> SUBSET (Zsh \X (1..MaxCommands))]]
  BY ObserverAssumption DEF RingInv, ObserverTypeOK, ShellState
<1>4. PICK s : s = shell[z]
  OBVIOUS
<1>5. /\ s \in ShellState /\ s.id \in Nat /\ s.ids \in Nat /\ s.observed \in Nat /\ s.approved \in Nat
      /\ s.observed <= ran /\ s.approved <= ran
  BY <1>3, <1>4 DEF ShellState, RingInv, Counted
<1>6. PICK c : c = [n |-> ran + 1, what |-> what, approved |-> approved, by |-> s.id,
                    seq |-> 1 + IF approved THEN s.approved ELSE s.observed]
  OBVIOUS
<1>7. PICK to : to = IF Captures(z, c) = Absent THEN tee[z] ELSE Captures(z, c)
  OBVIOUS
<1>8. /\ approved => Live(s)
      /\ running' = [running EXCEPT ![z] = c]
      /\ shell' = IF approved THEN [shell EXCEPT ![z].approved = c.seq] ELSE shell
      /\ tee' = [tee EXCEPT ![z] = to]
      /\ held' = IF to = Absent THEN held
                 ELSE [held EXCEPT ![z][to] = Shown(z, c) \cup
                                     IF Captures(z, c) = Absent THEN @ ELSE {}]
  BY <1>1, <1>4, <1>6, <1>7
<1>9. /\ c.n = ran + 1 /\ c.what = what /\ c.approved = approved /\ c.by = s.id
      /\ c.seq = 1 + IF approved THEN s.approved ELSE s.observed
      /\ c.seq \in Nat /\ 1 <= c.seq /\ c.seq <= c.n
  BY <1>3, <1>5, <1>6
<1>10. c \in Command
  <2>1. ran + 1 \in 1..MaxCommands
    BY <1>2, <1>3, ObserverAssumption
  <2> QED
    BY <1>5, <1>6, <2>1 DEF Command
<1>11. /\ running' \in [Zsh -> Command \cup {Absent}] /\ running'[z] = c
       /\ \A y \in Zsh \ {z} : running'[y] = running[y]
  BY <1>3, <1>8, <1>10
<1>12. /\ shell' \in [Zsh -> ShellState] /\ \A y \in Zsh \ {z} : shell'[y] = shell[y]
       /\ shell'[z].id = s.id /\ shell'[z].ids = s.ids /\ shell'[z].observed = s.observed
       /\ shell'[z].approved = IF approved THEN c.seq ELSE s.approved
  <2>1. CASE approved
    <3>1. c.seq \in 0..MaxCommands
      BY <1>2, <1>3, <1>5, <1>9, ObserverAssumption
    <3>2. PICK new : new = [s EXCEPT !.approved = c.seq]
      OBVIOUS
    <3>3. /\ new \in ShellState /\ new.id = s.id /\ new.ids = s.ids
          /\ new.observed = s.observed /\ new.approved = c.seq
      BY <1>5, <3>1, <3>2 DEF ShellState
    <3>4. shell' = [shell EXCEPT ![z] = new]
      BY <1>3, <1>4, <1>8, <2>1, <3>2
    <3> QED
      BY <1>3, <2>1, <3>3, <3>4
  <2>2. CASE ~approved
    BY <1>3, <1>4, <1>8, <2>2
  <2> QED
    BY <2>1, <2>2
<1>13. to \in Target \cup {Absent} /\ tee' \in [Zsh -> Target \cup {Absent}]
  <2>1. Captures(z, c) \in Target \cup {Absent}
    BY DEF Captures, Target
  <2>2. to \in Target \cup {Absent}
    BY <1>3, <1>7, <2>1
  <2> QED
    BY <1>3, <1>8, <2>2
\* What this command prints joins what was there.
<1>14. /\ held' \in [Zsh -> [Target -> SUBSET (Zsh \X (1..MaxCommands))]]
       /\ \A y \in Zsh \ {z} : held'[y] = held[y]
       /\ \A k \in Target : held'[z][k] \subseteq Printed(z, ran + 1)
  <2>1. \A k \in Target : held[z][k] \subseteq Printed(z, ran + 1)
    <3>1. \A k \in Target : held[z][k] \subseteq Printed(z, ran)
      BY DEF RingInv, Captured
    <3> QED
      BY <1>3, <3>1 DEF Printed
  <2>2. CASE to = Absent
    BY <1>3, <1>8, <2>1, <2>2
  <2>3. CASE to # Absent
    <3>1. PICK v : v = Shown(z, c) \cup IF Captures(z, c) = Absent THEN held[z][to] ELSE {}
      OBVIOUS
    <3>2. to \in Target /\ held' = [held EXCEPT ![z][to] = v]
      BY <1>8, <1>13, <2>3, <3>1
    <3>3. Shown(z, c) \subseteq Printed(z, ran + 1)
      <4>1. <<z, ran + 1>> \in Zsh \X (1..MaxCommands)
        BY <1>2, <1>3, ObserverAssumption
      <4> QED
        BY <1>3, <1>9, <4>1 DEF Shown, Printed
    <3>4. v \subseteq Printed(z, ran + 1)
      BY <2>1, <3>1, <3>2, <3>3
    <3>5. v \in SUBSET (Zsh \X (1..MaxCommands))
      BY <3>4 DEF Printed
    <3>6. PICK h : h = [held[z] EXCEPT ![to] = v]
      OBVIOUS
    <3>7. /\ h \in [Target -> SUBSET (Zsh \X (1..MaxCommands))] /\ h[to] = v
          /\ \A k \in Target \ {to} : h[k] = held[z][k]
      BY <1>3, <3>2, <3>5, <3>6
    <3>8. held' = [held EXCEPT ![z] = h]
      BY <1>3, <3>2, <3>6
    <3>9. held'[z] = h
      BY <1>3, <3>8
    <3>10. held' \in [Zsh -> [Target -> SUBSET (Zsh \X (1..MaxCommands))]]
           /\ \A y \in Zsh \ {z} : held'[y] = held[y]
      BY <1>3, <3>7, <3>8
    <3>11. \A k \in Target : h[k] \subseteq Printed(z, ran + 1)
      BY <2>1, <3>4, <3>7
    <3> QED
      BY <3>9, <3>10, <3>11
  <2> QED
    BY <2>2, <2>3
<1>15. Items' = Items /\ line' = line /\ hand' = hand /\ ring' = ring
  BY <1>2 DEF Items, daemonVars
<1>16. \A x \in Items : x.by[1] \in Zsh /\ x.by[2] \in Nat /\ x.seq \in Nat /\ x.n \in Nat /\ x.n <= ran
  BY ItemsTyped, ObserverAssumption DEF RingInv, NotYet
<1>17. NotYet'
  <2>1. \A x \in Items' : x.n <= ran' /\ \A y \in Zsh : RunsNow(y)' => running'[y].n # x.n
    <3> SUFFICES ASSUME NEW x \in Items
                 PROVE  x.n <= ran' /\ \A y \in Zsh : RunsNow(y)' => running'[y].n # x.n
      BY <1>15
    <3>1. x.n # ran + 1 /\ x.n <= ran'
      BY <1>2, <1>3, <1>16
    <3>2. \A y \in Zsh : RunsNow(y) => running[y].n # x.n
      BY DEF RingInv, NotYet
    <3> QED
      BY <1>9, <1>11, <3>1, <3>2 DEF RunsNow
  <2>2. \A y \in Zsh : RunsNow(y) => running[y].n \in Nat /\ running[y].n <= ran
    BY <1>3 DEF RingInv, NotYet, RunsNow, Command
  <2>3. \A y \in Zsh : RunsNow(y)' => running'[y].n <= ran'
    BY <1>2, <1>3, <1>9, <1>11, <2>2 DEF RunsNow
  <2>4. \A y \in Zsh \ {z} : RunsNow(y) => running[y].n # ran + 1
    BY <1>3, <2>2
  <2>5. \A y, o \in Zsh : RunsNow(y)' /\ RunsNow(o)' /\ y # o => running'[y].n # running'[o].n
    BY <1>9, <1>11, <2>4 DEF RingInv, NotYet, RunsNow
  <2> QED
    BY <2>1, <2>3, <2>5 DEF NotYet
<1>18. \A x \in Registration \X Nat : NumberedTwice(x) => NumberedTwice(x)'
  <2>1. \A y \in Zsh : shell'[y].observed = shell[y].observed
    BY <1>4, <1>12
  <2>2. \A y \in Zsh : shell[y].approved \in Nat /\ shell'[y].approved \in Nat
    BY <1>3, <1>12 DEF ShellState
  <2>3. \A y \in Zsh : shell[y].approved <= shell'[y].approved
    <3>1. s.approved <= shell'[z].approved
      BY <1>5, <1>9, <1>12
    <3> QED
      BY <1>4, <1>12, <2>2, <3>1
  <2>4. \A x \in Registration \X Nat : x[1][1] \in Zsh /\ x[2] \in Nat
    BY DEF Registration
  <2> QED
    BY <2>1, <2>2, <2>3, <2>4 DEF NumberedTwice
<1>19. Numbers'
  <2>1. ASSUME NEW x \in Items'
        PROVE  /\ x.by[2] <= shell'[x.by[1]].ids
               /\ x.by[2] = shell'[x.by[1]].id => \/ x.seq <= shell'[x.by[1]].observed
                                                  \/ x.seq <= shell'[x.by[1]].approved
    <3>1. x \in Items /\ x.by[1] \in Zsh /\ x.seq \in Nat
      BY <1>15, <1>16
    <3>2. /\ x.by[2] <= shell[x.by[1]].ids
          /\ x.by[2] = shell[x.by[1]].id => \/ x.seq <= shell[x.by[1]].observed
                                            \/ x.seq <= shell[x.by[1]].approved
      BY <3>1 DEF RingInv, Numbers
    <3>3. CASE x.by[1] # z
      BY <1>12, <3>1, <3>2, <3>3
    <3>4. CASE x.by[1] = z
      <4>1. x.seq <= s.approved => x.seq <= shell'[z].approved
        BY <1>5, <1>9, <1>12, <3>1
      <4> QED
        BY <1>4, <1>12, <3>2, <3>4, <4>1
    <3> QED
      BY <3>3, <3>4
  <2>2. \A x, y \in Items' : x.by = y.by /\ x.seq = y.seq /\ x.n # y.n => NumberedTwice(<<x.by, x.seq>>)'
    <3>1. \A x \in Items : <<x.by, x.seq>> \in Registration \X Nat
      BY ItemsTyped
    <3> QED
      BY <1>15, <1>18, <3>1 DEF RingInv, Numbers
  <2>3. ASSUME NEW y \in Zsh, RunsNow(y)'
        PROVE  LET d == running'[y] IN
               /\ d.by = shell'[y].id /\ 1 <= d.seq /\ d.seq <= d.n
               /\ d.approved => /\ d.by # 0 /\ d.seq = shell'[y].approved
                                /\ \A x \in Items' : x.by = <<y, d.by>> /\ x.seq = d.seq
                                                      => d.seq <= shell'[y].observed
               /\ ~d.approved => d.seq = shell'[y].observed + 1
    <3>1. CASE y # z
      <4>1. shell'[y] = shell[y] /\ running'[y] = running[y] /\ RunsNow(y)
        BY <1>11, <1>12, <2>3, <3>1 DEF RunsNow
      <4> QED
        BY <1>15, <4>1 DEF RingInv, Numbers
    <3>2. CASE y = z
      <4>1. c.by = shell'[z].id /\ 1 <= c.seq /\ c.seq <= c.n
        BY <1>9, <1>12
      <4>2. c.approved => c.by # 0 /\ c.seq = shell'[z].approved
        BY <1>8, <1>9, <1>12 DEF Live
      <4>3. ~c.approved => c.seq = shell'[z].observed + 1
        BY <1>5, <1>9, <1>12
      <4>4. ASSUME c.approved, NEW x \in Items, x.by = <<z, c.by>>, x.seq = c.seq
            PROVE  c.seq <= shell'[z].observed
        <5>1. x.by[1] = z /\ x.by[2] = s.id
          BY <1>9, <4>4
        <5>2. x.seq <= s.observed \/ x.seq <= s.approved
          BY <1>4, <5>1 DEF RingInv, Numbers
        <5>3. c.seq = 1 + s.approved
          BY <1>9, <4>4
        <5> QED
          BY <1>5, <1>12, <4>4, <5>2, <5>3
      <4> QED
        BY <1>11, <1>15, <3>2, <4>1, <4>2, <4>3, <4>4
    <3> QED
      BY <3>1, <3>2
  <2> QED
    BY <2>1, <2>2, <2>3 DEF Numbers
<1>20. Counted'
  <2>1. \A y \in Zsh : shell[y].observed \in Nat /\ shell[y].approved \in Nat
                       /\ shell[y].observed <= ran /\ shell[y].approved <= ran /\ shell[y].id <= shell[y].ids
    BY <1>3 DEF ShellState, RingInv, Counted
  <2>2. shell'[z].id <= shell'[z].ids /\ shell'[z].observed <= ran' /\ shell'[z].approved <= ran'
    BY <1>2, <1>3, <1>4, <1>5, <1>9, <1>12, <2>1
  <2>3. \A y \in Zsh \ {z} : shell'[y].id <= shell'[y].ids /\ shell'[y].observed <= ran' /\ shell'[y].approved <= ran'
    BY <1>2, <1>3, <1>12, <2>1
  <2> QED
    BY <2>2, <2>3 DEF Counted
<1>21. Captured'
  <2>1. \A y \in Zsh \ {z} : \A k \in Target :
          /\ held'[y][k] \subseteq Printed(y, ran')
          /\ RunsNow(y)' => held'[y][k] \subseteq Printed(y, running'[y].n)
    <3> SUFFICES ASSUME NEW y \in Zsh \ {z}, NEW k \in Target
                 PROVE  /\ held'[y][k] \subseteq Printed(y, ran')
                        /\ RunsNow(y)' => held'[y][k] \subseteq Printed(y, running'[y].n)
      OBVIOUS
    <3>1. held[y][k] \subseteq Printed(y, ran) /\ (RunsNow(y) => held[y][k] \subseteq Printed(y, running[y].n))
      BY DEF RingInv, Captured
    <3>2. Printed(y, ran) \subseteq Printed(y, ran')
      BY <1>2, <1>3 DEF Printed
    <3> QED
      BY <1>11, <1>14, <3>1, <3>2 DEF RunsNow
  <2>2. \A k \in Target : held'[z][k] \subseteq Printed(z, ran') /\ held'[z][k] \subseteq Printed(z, running'[z].n)
    BY <1>2, <1>9, <1>11, <1>14
  <2>3. \A r \in Registration : \A i \in Reports(line'[r]) :
          line'[r][i].out \subseteq Printed(line'[r][i].by[1], line'[r][i].n)
    BY <1>15 DEF RingInv, Captured
  <2> QED
    BY <2>1, <2>2, <2>3 DEF Captured
<1>22. RefsRight' /\ FilesNamed'
  BY <1>2, <1>15, <1>18, FilesStay DEF daemonVars
<1>23. InOnePlace'
  BY <1>15 DEF RingInv, InOnePlace
<1>24. ObserverTypeOK'
  <2>1. ran' \in 0..MaxCommands
    BY <1>2, <1>3, ObserverAssumption
  <2> QED
    BY <1>2, <1>11, <1>12, <1>13, <1>14, <2>1 DEF RingInv, ObserverTypeOK, ShellState, daemonVars
<1> QED
  BY <1>15, <1>17, <1>19, <1>20, <1>21, <1>22, <1>23, <1>24 DEF RingInv

LEMMA PrecmdKeeps == ASSUME RingInv, NEW z \in Zsh, Precmd(z) PROVE RingInv'
<1>3. PICK version \in AliasSet, refreshed \in BOOLEAN, active \in BOOLEAN :
        LET now == running[z]
            pending == now.approved /\ ~refreshed
            before == [shell[z] EXCEPT !.aliases = version]
            s == IF refreshed THEN [before EXCEPT !.id = 0, !.alive = FALSE, !.told = 0]
                              ELSE before
            speaks == Live(s) \/ active \/ pending
        IN /\ refreshed => now.what = "upgrade"
           /\ \E r \in IF speaks THEN Registered(s) ELSE {s} :
                LET observes == ~pending /\ r.id # 0 /\ switches.all
                    told == IF speaks THEN Told(r) ELSE r
                IN /\ shell' = [shell EXCEPT ![z] =
                                  IF observes THEN [told EXCEPT !.observed = now.seq] ELSE told]
                   /\ Sent(z, r, (IF speaks THEN Contexts(r) ELSE <<>>)
                                 \o (IF pending THEN <<AckMessage(z, now)>> ELSE <<>>)
                                 \o (IF observes THEN <<Observation(z, r, now)>> ELSE <<>>))
                   /\ registry' = Enters(z, r)
                   /\ IF pending \/ observes
                      THEN /\ tee' = [tee EXCEPT ![z] = Absent]
                           /\ held' = [held EXCEPT ![z][IF pending THEN "approved" ELSE "observed"] = {}]
                      ELSE UNCHANGED <<tee, held>>
  BY DEF Precmd
<1>1. PICK c : c = running[z]
  OBVIOUS
<1>2. PICK old : old = shell[z]
  OBVIOUS
<1> DEFINE before == [old EXCEPT !.aliases = version]
<1>4. PICK s : s = IF refreshed THEN [before EXCEPT !.id = 0, !.alive = FALSE, !.told = 0] ELSE before
  OBVIOUS
<1>5. PICK pending : pending = (c.approved /\ ~refreshed)
  OBVIOUS
<1>6. PICK speaks : speaks = (Live(s) \/ active \/ pending)
  OBVIOUS
<1>7. PICK r \in IF speaks THEN Registered(s) ELSE {s} :
        LET observes == ~pending /\ r.id # 0 /\ switches.all
            told == IF speaks THEN Told(r) ELSE r
        IN /\ shell' = [shell EXCEPT ![z] =
                          IF observes THEN [told EXCEPT !.observed = c.seq] ELSE told]
           /\ Sent(z, r, (IF speaks THEN Contexts(r) ELSE <<>>)
                         \o (IF pending THEN <<AckMessage(z, c)>> ELSE <<>>)
                         \o (IF observes THEN <<Observation(z, r, c)>> ELSE <<>>))
           /\ registry' = Enters(z, r)
           /\ IF pending \/ observes
              THEN /\ tee' = [tee EXCEPT ![z] = Absent]
                   /\ held' = [held EXCEPT ![z][IF pending THEN "approved" ELSE "observed"] = {}]
              ELSE UNCHANGED <<tee, held>>
  BY <1>1, <1>2, <1>3, <1>4, <1>5, <1>6 DEF before
<1>8. PICK observes : observes = (~pending /\ r.id # 0 /\ switches.all)
  OBVIOUS
<1>9. PICK told : told = IF speaks THEN Told(r) ELSE r
  OBVIOUS
<1>10. PICK A : A = IF speaks THEN Contexts(r) ELSE <<>>
  OBVIOUS
<1>11. PICK B : B = IF pending THEN <<AckMessage(z, c)>> ELSE <<>>
  OBVIOUS
<1>12. PICK C : C = IF observes THEN <<Observation(z, r, c)>> ELSE <<>>
  OBVIOUS
<1>13. PICK new : new = IF observes THEN [told EXCEPT !.observed = c.seq] ELSE told
  OBVIOUS
<1>14. /\ shell' = [shell EXCEPT ![z] = new] /\ Sent(z, r, A \o B \o C) /\ registry' = Enters(z, r)
       /\ IF pending \/ observes
          THEN /\ tee' = [tee EXCEPT ![z] = Absent]
               /\ held' = [held EXCEPT ![z][IF pending THEN "approved" ELSE "observed"] = {}]
          ELSE UNCHANGED <<tee, held>>
  BY <1>7, <1>8, <1>9, <1>10, <1>11, <1>12, <1>13
<1>15. /\ c # Absent /\ loaded' = [loaded EXCEPT ![z] = switches]
       /\ running' = [running EXCEPT ![z] = Absent]
       /\ UNCHANGED <<switches, ran, deaths, edits, hand, contexts, ring, files>>
  BY <1>1 DEF Precmd
<1> HIDE DEF before
<1>16. /\ shell \in [Zsh -> ShellState] /\ ran \in Nat /\ running \in [Zsh -> Command \cup {Absent}]
       /\ tee \in [Zsh -> Target \cup {Absent}]
       /\ held \in [Zsh -> [Target -> SUBSET (Zsh \X (1..MaxCommands))]]
       /\ loaded \in [Zsh -> Switches] /\ switches \in Switches
  <2>1. ObserverTypeOK
    BY DEF RingInv
  <2>2. ran \in Nat
    BY <2>1, ObserverAssumption DEF ObserverTypeOK
  <2> QED BY <2>1, <2>2, IsShell, Zenon DEF ObserverTypeOK
\* What runs: its number, and what nothing else is about.
<1>17. /\ c \in Command /\ c.n \in 1..MaxCommands /\ c.n <= ran /\ c.by = old.id
       /\ c.seq \in 1..MaxCommands /\ c.seq <= c.n /\ c.seq <= ran
       /\ c.approved => c.by # 0 /\ c.seq = old.approved
       /\ ~c.approved => c.seq = old.observed + 1
       /\ \A x \in Items : x.n # c.n
  <2>1. RunsNow(z) /\ c \in Command
    BY <1>1, <1>15, <1>16 DEF RunsNow
  <2>2. c.n \in 1..MaxCommands /\ c.n \in Nat /\ c.seq \in Nat
    BY <2>1, ObserverAssumption DEF Command
  <2>3. c.n <= ran /\ \A x \in Items : x.n # c.n
    BY <1>1, <2>1 DEF RingInv, NotYet
  <2>4. /\ c.by = old.id /\ 1 <= c.seq /\ c.seq <= c.n
        /\ c.approved => c.by # 0 /\ c.seq = old.approved
        /\ ~c.approved => c.seq = old.observed + 1
    BY <1>1, <1>2, <2>1 DEF RingInv, Numbers
  <2>5. c.seq \in 1..MaxCommands /\ c.seq <= ran
    BY <1>16, <2>2, <2>3, <2>4, ObserverAssumption
  <2> QED
    BY <2>1, <2>2, <2>3, <2>4, <2>5
<1>18. /\ old \in ShellState /\ old.id \in Nat /\ old.ids \in Nat /\ old.observed \in Nat /\ old.approved \in Nat
       /\ old.id <= old.ids /\ old.observed <= ran /\ old.approved <= ran
  BY <1>2, <1>16 DEF ShellState, RingInv, Counted
<1>19. /\ s \in ShellState /\ s.ids = old.ids /\ s.observed = old.observed /\ s.approved = old.approved
       /\ s.id = IF refreshed THEN 0 ELSE old.id
  <2>1. /\ before \in ShellState /\ before.id = old.id /\ before.ids = old.ids
        /\ before.observed = old.observed /\ before.approved = old.approved
    BY <1>18 DEF before, ShellState
  <2>2. CASE refreshed
    <3>1. 0 \in 0..MaxRegistrations
      BY ObserverAssumption
    <3> QED
      BY <1>4, <2>1, <2>2, <3>1 DEF ShellState
  <2>3. CASE ~refreshed
    BY <1>4, <2>1, <2>3
  <2> QED
    BY <2>2, <2>3
\* The id is the old one, unless the registration ended with an upgrade, none or a new one.
<1>20. /\ r \in ShellState /\ r.observed = old.observed /\ r.approved = old.approved
       /\ \/ ~refreshed /\ r.id = old.id /\ r.ids = old.ids
          \/ r.id = 0 /\ r.ids = old.ids
          \/ r.id = old.ids + 1 /\ r.ids = old.ids + 1
  <2>1. CASE r = s
    BY <1>19, <2>1
  <2>2. CASE r \in Registered(s)
    <3>1. /\ r \in ShellState /\ r.observed = s.observed /\ r.approved = s.approved
          /\ \/ r.id = s.id /\ r.ids = s.ids
             \/ r.id = 0 /\ r.ids = s.ids
             \/ r.id = s.ids + 1 /\ r.ids = s.ids + 1
      BY <1>19, <2>2, RegisteredIs
    <3> QED
      BY <1>19, <3>1
  <2> QED
    BY <1>7, <2>1, <2>2
<1>21. /\ told \in ShellState /\ told.observed = r.observed /\ told.approved = r.approved
       /\ told.id = r.id /\ told.ids = r.ids
  BY <1>9, <1>20, ToldIs
<1>22. /\ new \in ShellState /\ new.id = r.id /\ new.ids = r.ids /\ new.approved = old.approved
       /\ new.observed = IF observes THEN c.seq ELSE old.observed
  <2>1. CASE observes
    <3>1. c.seq \in 0..MaxCommands
      BY <1>17
    <3> QED
      BY <1>13, <1>20, <1>21, <2>1, <3>1 DEF ShellState
  <2>2. CASE ~observes
    BY <1>13, <1>20, <1>21, <2>2
  <2> QED
    BY <2>1, <2>2
<1>23. /\ shell' \in [Zsh -> ShellState] /\ shell'[z] = new /\ \A y \in Zsh \ {z} : shell'[y] = shell[y]
  BY <1>14, <1>16, <1>22
<1>24. /\ running' \in [Zsh -> Command \cup {Absent}] /\ running'[z] = Absent
       /\ \A y \in Zsh \ {z} : running'[y] = running[y]
  BY <1>15, <1>16
<1>25. /\ held' \in [Zsh -> [Target -> SUBSET (Zsh \X (1..MaxCommands))]] /\ tee' \in [Zsh -> Target \cup {Absent}]
       /\ \A y \in Zsh, k \in Target : held'[y][k] \subseteq held[y][k]
  <2>1. CASE pending \/ observes
    <3>1. PICK k : k = IF pending THEN "approved" ELSE "observed"
      OBVIOUS
    <3>2. k \in Target
      BY <3>1 DEF Target
    <3>3. PICK h : h = [held[z] EXCEPT ![k] = {}]
      OBVIOUS
    <3>4. /\ h \in [Target -> SUBSET (Zsh \X (1..MaxCommands))] /\ \A j \in Target : h[j] \subseteq held[z][j]
      BY <1>16, <3>2, <3>3
    <3>5. held' = [held EXCEPT ![z] = h]
      BY <1>14, <1>16, <2>1, <3>1, <3>3
    <3>6. held' \in [Zsh -> [Target -> SUBSET (Zsh \X (1..MaxCommands))]] /\ held'[z] = h
          /\ \A y \in Zsh \ {z} : held'[y] = held[y]
      BY <1>16, <3>4, <3>5
    <3>7. tee' \in [Zsh -> Target \cup {Absent}]
      BY <1>14, <1>16, <2>1
    <3> QED
      BY <3>4, <3>6, <3>7
  <2>2. CASE ~(pending \/ observes)
    BY <1>14, <1>16, <2>2
  <2> QED
    BY <2>1, <2>2
\* The one report there may be.
<1>26. PICK M : M = IF pending THEN {AckMessage(z, c)} ELSE IF observes THEN {Observation(z, r, c)} ELSE {}
  OBVIOUS
<1>27. \A k \in Target : held[z][k] \subseteq Printed(z, c.n)
  BY <1>1, <1>15 DEF RingInv, Captured, RunsNow
<1>28. \A m \in M : /\ m \in Report /\ m.n = c.n /\ m.seq = c.seq /\ m.by[1] = z
                    /\ m.out \subseteq Printed(m.by[1], m.n)
                    /\ m.by = <<z, IF pending THEN old.id ELSE r.id>>
  <2>1. CASE pending
    <3>1. PICK m : m = AckMessage(z, c)
      OBVIOUS
    <3>2. /\ m.op = "ack" /\ m.by = <<z, c.by>> /\ m.seq = c.seq /\ m.n = c.n /\ m.what = c.what
          /\ m.out = held[z]["approved"]
          /\ m = [op |-> m.op, by |-> m.by, seq |-> m.seq, n |-> m.n, what |-> m.what, out |-> m.out]
      BY <3>1 DEF AckMessage
    <3>3. m.by \in Registration
      <4>1. c.by # 0 /\ c.by \in 0..MaxRegistrations
        BY <1>5, <1>17, <1>18, <2>1 DEF ShellState
      <4>2. c.by \in 1..MaxRegistrations
        BY <4>1, ObserverAssumption
      <4> QED
        BY <3>2, <4>2 DEF Registration
    <3>4. m.out \in SUBSET (Zsh \X (1..MaxCommands)) /\ m.out \subseteq Printed(z, c.n) /\ c.what \in What
      BY <1>16, <1>17, <1>27, <3>2 DEF Target, Command
    <3>5. m \in Report
      BY <1>17, <3>2, <3>3, <3>4 DEF Report
    <3>6. m.by[1] = z
      BY <3>2
    <3> QED
      BY <1>17, <1>26, <2>1, <3>1, <3>2, <3>4, <3>5, <3>6
  <2>2. CASE ~pending /\ observes
    <3>1. PICK m : m = Observation(z, r, c)
      OBVIOUS
    <3>2. /\ m.op = "observed" /\ m.by = <<z, r.id>> /\ m.seq = c.seq /\ m.n = c.n /\ m.what = c.what
          /\ m.out = IF tee[z] # Absent /\ c.what # "excluded" THEN held[z]["observed"] ELSE {}
          /\ m = [op |-> m.op, by |-> m.by, seq |-> m.seq, n |-> m.n, what |-> m.what, out |-> m.out]
      BY <3>1 DEF Observation, Id
    <3>3. m.by \in Registration
      <4>1. r.id # 0 /\ r.id \in 0..MaxRegistrations
        BY <1>8, <1>20, <2>2 DEF ShellState
      <4>2. r.id \in 1..MaxRegistrations
        BY <4>1, ObserverAssumption
      <4> QED
        BY <3>2, <4>2 DEF Registration
    <3>4. m.out \in SUBSET (Zsh \X (1..MaxCommands)) /\ m.out \subseteq Printed(z, c.n) /\ c.what \in What
      BY <1>16, <1>17, <1>27, <3>2 DEF Target, Command
    <3>5. m \in Report
      BY <1>17, <3>2, <3>3, <3>4 DEF Report
    <3>6. m.by[1] = z
      BY <3>2
    <3> QED
      BY <1>17, <1>26, <2>2, <3>1, <3>2, <3>4, <3>5, <3>6
  <2>3. CASE ~pending /\ ~observes
    BY <1>26, <2>3
  <2> QED
    BY <2>1, <2>2, <2>3
<1>29. PICK t : t = A \o B \o C
  OBVIOUS
<1>30. t \in Seq(Message) /\ SentOnce(t) /\ \A i \in Reports(t) : t[i] \in M
  <2>1. A \in Seq(Message) /\ Reports(A) = {}
    <3>1. <<>> \in Seq(Message) /\ Reports(<<>>) = {}
      BY DEF Reports
    <3> QED
      BY <1>10, <1>20, <3>1, ContextsAre
  <2>2. \/ M = {} /\ B = <<>> /\ C = <<>>
        \/ \E m : M = {m} /\ B = <<m>> /\ C = <<>>
        \/ \E m : M = {m} /\ B = <<>> /\ C = <<m>>
    BY <1>8, <1>11, <1>12, <1>26
  <2>3. M \in SUBSET Report
    BY <1>28
  <2>4. t \in Seq(Message) /\ SentOnce(t)
    BY <1>29, <2>1, <2>2, <2>3, SpeechIs
  <2>5. \A i \in Reports(t) : t[i] \in M
    BY <1>29, <2>1, <2>2, <2>3, SpeechIs
  <2> QED
    BY <2>4, <2>5
<1>31. \A x \in Sending(t) : \E m \in M : x = Item(m)
  BY <1>30 DEF Sending
<1>32. \A x \in Sending(t) : /\ x.n = c.n /\ x.seq = c.seq /\ x.by = <<z, IF pending THEN old.id ELSE r.id>>
                             /\ pending \/ observes
  BY <1>26, <1>28, <1>31 DEF Item
<1>33. \A x \in Sending(t) : \A y \in Items : x.n # y.n
  BY <1>17, <1>32
<1>34. line' \in [Registration -> Seq(Message)] /\ InOnePlace'
  BY <1>14, <1>15, <1>20, <1>29, <1>30, <1>33, Spoken
<1>35. \A x \in Items' : x \in Items \/ x \in Sending(t)
  <2>1. Sent(z, r, t) /\ UNCHANGED <<hand, ring>>
    BY <1>14, <1>15, <1>29
  <2>2. \A x \in Items' : x \in Items \/ (Live(r) /\ x \in Sending(t))
    BY <1>20, <1>30, <1>33, <2>1, Spoken
  <2> QED
    BY <2>2
<1>36. \A o \in Registration : \A i \in Reports(line'[o]) :
         \/ \E j \in Reports(line[o]) : line'[o][i] = line[o][j]
         \/ \E j \in Reports(t) : line'[o][i] = t[j]
  BY <1>14, <1>15, <1>20, <1>29, <1>30, <1>33, Spoken
<1>37. NotYet'
  <2>1. \A y \in Zsh : RunsNow(y)' => y # z /\ RunsNow(y) /\ running'[y] = running[y]
    BY <1>24 DEF RunsNow
  <2>2. \A y \in Zsh \ {z} : RunsNow(y) => running[y].n # c.n
    BY <1>1, <1>15 DEF RingInv, NotYet, RunsNow
  <2>3. \A x \in Items' : x.n <= ran' /\ \A y \in Zsh : RunsNow(y)' => running'[y].n # x.n
    <3> SUFFICES ASSUME NEW x \in Items'
                 PROVE  x.n <= ran' /\ \A y \in Zsh : RunsNow(y)' => running'[y].n # x.n
      OBVIOUS
    <3>1. CASE x \in Items
      BY <1>15, <2>1, <3>1 DEF RingInv, NotYet
    <3>2. CASE x \in Sending(t)
      BY <1>15, <1>17, <1>32, <2>1, <2>2, <3>2
    <3> QED
      BY <1>35, <3>1, <3>2
  <2> QED
    BY <1>15, <2>1, <2>3 DEF RingInv, NotYet
\* What both counters have passed stays so: when one moves it moves past the other or on.
<1>38. \A x \in Registration \X Nat : NumberedTwice(x) => NumberedTwice(x)'
  <2> SUFFICES ASSUME NEW x \in Registration \X Nat, NumberedTwice(x) PROVE NumberedTwice(x)'
    OBVIOUS
  <2>1. x[1][1] \in Zsh /\ x[2] \in Nat
    BY DEF Registration
  <2>2. CASE x[1][1] # z
    BY <1>23, <2>1, <2>2 DEF NumberedTwice
  <2>3. CASE x[1][1] = z
    <3>1. old.observed >= x[2] /\ old.approved >= x[2]
      BY <1>2, <2>3 DEF NumberedTwice
    <3>2. c.approved => c.seq >= x[2]
      BY <1>17, <3>1
    <3>3. ~c.approved => c.seq >= x[2]
      BY <1>17, <1>18, <2>1, <3>1
    <3>4. new.observed >= x[2] /\ new.approved >= x[2]
      <4>1. c.seq >= x[2]
        BY <3>2, <3>3
      <4> QED
        BY <1>22, <3>1, <4>1
    <3> QED
      BY <1>23, <2>3, <3>4 DEF NumberedTwice
  <2> QED
    BY <2>2, <2>3
<1>39. ASSUME NEW x \in Items, x.by = <<z, IF pending THEN old.id ELSE r.id>>, x.seq = c.seq, pending \/ observes
       PROVE  new.observed >= c.seq /\ new.approved >= c.seq
  <2>1. x.by[1] = z /\ x.by[2] = IF pending THEN old.id ELSE r.id
    BY <1>39
  <2>2. x.by[2] \in 1..MaxRegistrations /\ x.by[2] <= old.ids
    BY <1>2, <2>1, ItemsTyped DEF RingInv, Numbers
  <2>3. CASE pending
    <3>1. c.approved /\ c.seq = old.approved /\ c.by = old.id
      BY <1>5, <1>17, <2>3
    <3>2. c.seq <= old.observed
      BY <1>1, <1>2, <1>15, <1>39, <2>3, <3>1 DEF RingInv, Numbers, RunsNow
    <3>3. new.observed = old.observed
      BY <1>8, <1>22, <2>3
    <3> QED
      BY <1>17, <1>18, <1>22, <3>1, <3>2, <3>3
  <2>4. CASE ~pending
    <3>1. observes /\ x.by[2] = r.id
      BY <1>39, <2>1, <2>4
    <3>2. r.id # 0 /\ r.id # old.ids + 1
      BY <1>18, <2>2, <3>1
    <3>3. ~refreshed /\ r.id = old.id
      BY <1>20, <3>2
    <3>4. ~c.approved /\ c.seq = old.observed + 1
      BY <1>5, <1>17, <2>4, <3>3
    <3>5. x.seq <= old.observed \/ x.seq <= old.approved
      BY <1>2, <2>1, <3>1, <3>3 DEF RingInv, Numbers
    <3>6. c.seq <= old.approved
      BY <1>17, <1>18, <1>39, <3>4, <3>5
    <3> QED
      BY <1>17, <1>18, <1>22, <3>1, <3>6
  <2> QED
    BY <2>3, <2>4
<1>40. Numbers'
  <2>1. ASSUME NEW x \in Items'
        PROVE  /\ x.by[2] <= shell'[x.by[1]].ids
               /\ x.by[2] = shell'[x.by[1]].id => \/ x.seq <= shell'[x.by[1]].observed
                                                  \/ x.seq <= shell'[x.by[1]].approved
    <3>1. CASE x \in Items
      <4>1. x.by[1] \in Zsh /\ x.by[2] \in 1..MaxRegistrations /\ x.seq \in Nat
        BY <3>1, ItemsTyped
      <4>2. /\ x.by[2] <= shell[x.by[1]].ids
            /\ x.by[2] = shell[x.by[1]].id => \/ x.seq <= shell[x.by[1]].observed
                                              \/ x.seq <= shell[x.by[1]].approved
        BY <3>1 DEF RingInv, Numbers
      <4>3. CASE x.by[1] # z
        BY <1>23, <4>1, <4>2, <4>3
      <4>4. CASE x.by[1] = z
        <5>1. x.by[2] <= new.ids
          BY <1>2, <1>18, <1>20, <1>22, <4>1, <4>2, <4>4
        <5>2. ASSUME x.by[2] = new.id PROVE x.seq <= new.observed \/ x.seq <= new.approved
          <6>1. ~refreshed /\ r.id = old.id
            BY <1>2, <1>18, <1>20, <1>22, <4>1, <4>2, <4>4, <5>2
          <6>2. x.seq <= old.observed \/ x.seq <= old.approved
            BY <1>2, <1>22, <4>2, <4>4, <5>2, <6>1
          <6>3. observes => c.seq = old.observed + 1
            BY <1>5, <1>8, <1>17, <6>1
          <6>4. old.observed <= new.observed /\ new.observed \in Nat /\ new.approved = old.approved
            BY <1>17, <1>18, <1>22, <6>3
          <6> QED
            BY <1>18, <4>1, <6>2, <6>4
        <5> QED
          BY <1>23, <4>4, <5>1, <5>2
      <4> QED
        BY <4>3, <4>4
    <3>2. CASE x \in Sending(t)
      <4>1. x.by[1] = z /\ x.by[2] = (IF pending THEN old.id ELSE r.id) /\ x.seq = c.seq
        BY <1>32, <3>2
      <4>2. x.by[2] <= new.ids
        BY <1>18, <1>20, <1>22, <4>1
      <4>3. x.seq <= new.observed \/ x.seq <= new.approved
        <5>1. CASE pending
          <6>1. x.seq = new.approved /\ new.approved \in Nat
            BY <1>5, <1>17, <1>18, <1>22, <4>1, <5>1
          <6> QED
            BY <6>1
        <5>2. CASE observes
          BY <1>17, <1>22, <4>1, <5>2
        <5> QED
          BY <1>32, <3>2, <5>1, <5>2
      <4> QED
        BY <1>23, <4>1, <4>2, <4>3
    <3> QED
      BY <1>35, <3>1, <3>2
  <2>2. ASSUME NEW x \in Items', NEW y \in Items', x.by = y.by, x.seq = y.seq, x.n # y.n
        PROVE  NumberedTwice(<<x.by, x.seq>>)'
    <3>1. ASSUME NEW o \in Sending(t), NEW i \in Items, o.by = i.by, o.seq = i.seq
          PROVE  NumberedTwice(<<o.by, o.seq>>)'
      <4>1. i.by = <<z, IF pending THEN old.id ELSE r.id>> /\ i.seq = c.seq /\ (pending \/ observes)
        BY <1>32, <3>1
      <4>2. new.observed >= c.seq /\ new.approved >= c.seq
        BY <1>39, <4>1
      <4>3. o.by[1] = z /\ o.seq = c.seq
        BY <3>1, <4>1
      <4> QED
        BY <1>23, <4>2, <4>3 DEF NumberedTwice
    <3>2. CASE x \in Items /\ y \in Items
      <4>1. <<x.by, x.seq>> \in Registration \X Nat
        BY <3>2, ItemsTyped
      <4>2. NumberedTwice(<<x.by, x.seq>>)
        BY <2>2, <3>2 DEF RingInv, Numbers
      <4> QED
        BY <1>38, <4>1, <4>2
    <3>3. CASE x \in Sending(t) /\ y \in Items
      BY <2>2, <3>1, <3>3
    <3>4. CASE y \in Sending(t) /\ x \in Items
      BY <2>2, <3>1, <3>4
    <3>5. ~(x \in Sending(t) /\ y \in Sending(t))
      BY <1>32, <2>2
    <3> QED
      BY <1>35, <3>2, <3>3, <3>4, <3>5
  <2>3. ASSUME NEW y \in Zsh, RunsNow(y)'
        PROVE  LET d == running'[y] IN
               /\ d.by = shell'[y].id /\ 1 <= d.seq /\ d.seq <= d.n
               /\ d.approved => /\ d.by # 0 /\ d.seq = shell'[y].approved
                                /\ \A x \in Items' : x.by = <<y, d.by>> /\ x.seq = d.seq
                                                      => d.seq <= shell'[y].observed
               /\ ~d.approved => d.seq = shell'[y].observed + 1
    <3>1. y # z /\ shell'[y] = shell[y] /\ running'[y] = running[y] /\ RunsNow(y)
      BY <1>23, <1>24, <2>3 DEF RunsNow
    <3>2. \A x \in Sending(t) : x.by[1] # y
      BY <1>32, <3>1
    <3>3. \A x \in Items' : x.by = <<y, running[y].by>> => x \in Items
      BY <1>35, <3>2
    <3> QED
      BY <3>1, <3>3 DEF RingInv, Numbers
  <2> QED
    BY <2>1, <2>2, <2>3 DEF Numbers
<1>41. Counted'
  <2>1. new.id <= new.ids
    BY <1>18, <1>20, <1>22
  <2>2. new.observed <= ran /\ new.approved <= ran
    BY <1>17, <1>18, <1>22
  <2> QED
    BY <1>15, <1>23, <2>1, <2>2 DEF RingInv, Counted
<1>42. Captured'
  <2>1. \A y \in Zsh : RunsNow(y)' => RunsNow(y) /\ running'[y] = running[y]
    BY <1>24 DEF RunsNow
  <2>2. \A y \in Zsh, k \in Target :
          /\ held'[y][k] \subseteq Printed(y, ran')
          /\ RunsNow(y)' => held'[y][k] \subseteq Printed(y, running'[y].n)
    BY <1>15, <1>25, <2>1 DEF RingInv, Captured
  <2>3. ASSUME NEW o \in Registration, NEW i \in Reports(line'[o])
        PROVE  line'[o][i].out \subseteq Printed(line'[o][i].by[1], line'[o][i].n)
    <3>1. CASE \E j \in Reports(line[o]) : line'[o][i] = line[o][j]
      BY <3>1 DEF RingInv, Captured
    <3>2. CASE \E j \in Reports(t) : line'[o][i] = t[j]
      BY <1>28, <1>30, <3>2
    <3> QED
      BY <1>36, <3>1, <3>2
  <2> QED
    BY <2>2, <2>3 DEF Captured
<1>43. RefsRight' /\ FilesNamed'
  BY <1>15, <1>38, FilesStay
<1>44. ObserverTypeOK'
  <2>1. registry' \subseteq Registration
    <3>1. Live(r) => Id(z, r) \in Registration
      BY <1>20, ObserverAssumption DEF Live, Id, Registration, ShellState
    <3> QED
      BY <1>14, <3>1 DEF Enters, RingInv, ObserverTypeOK
  <2>2. loaded' \in [Zsh -> Switches]
    BY <1>15, <1>16
  <2> QED
    BY <1>15, <1>23, <1>24, <1>25, <2>1, <2>2 DEF RingInv, ObserverTypeOK, ShellState
<1> QED
  BY <1>34, <1>37, <1>40, <1>41, <1>42, <1>43, <1>44 DEF RingInv, Message

-----------------------------------------------------------------------------

LEMMA RingStarts == ASSUME ObserverInit PROVE RingInv
<1>1. /\ Sending(<<>>) = {} /\ Reports(<<>>) = {} /\ SentOnce(<<>>)
      /\ Listing(<<>>) = {} /\ ListedOnce(<<>>) /\ Holding(Absent) = {}
  BY DEF Sending, Reports, SentOnce, Listing, ListedOnce, Holding
<1>2. \A r \in Registration : line[r] = <<>> /\ hand[r] = Absent
  BY DEF ObserverInit
<1>3. Items = {}
  BY <1>1, <1>2, ItemsAre DEF ObserverInit
<1>4. ObserverTypeOK
  <2>1. switches \in Switches /\ loaded \in [Zsh -> Switches]
    BY DEF ObserverInit, Switches
  <2>2. shell \in [Zsh -> [id : 0..MaxRegistrations, ids : 0..MaxRegistrations, alive : BOOLEAN,
                           aliases : AliasSet, told : {0} \cup AliasSet,
                           observed : 0..MaxCommands, approved : 0..MaxCommands]]
    BY ObserverAssumption DEF ObserverInit, AliasSet
  <2>3. ring \in Seq(Observed) /\ Len(ring) <= MaxEntries
    BY ObserverAssumption DEF ObserverInit
  <2>4. ran \in 0..MaxCommands /\ deaths \in 0..MaxDeaths /\ edits \in 0..MaxEdits
    BY ObserverAssumption DEF ObserverInit
  <2> QED
    BY <2>1, <2>2, <2>3, <2>4 DEF ObserverInit, ObserverTypeOK
<1>5. line \in [Registration -> Seq(Report \cup Context)]
  <2>1. <<>> \in Seq(Report \cup Context)
    OBVIOUS
  <2> QED
    BY <2>1 DEF ObserverInit
<1>6. InOnePlace
  BY <1>1, <1>2 DEF ObserverInit, InOnePlace, Apart
<1>7. NotYet /\ Numbers
  BY <1>3 DEF ObserverInit, NotYet, Numbers, RunsNow
<1>8. Counted
  BY DEF ObserverInit, Counted
<1>9. Captured
  BY <1>1, <1>2 DEF ObserverInit, Captured, RunsNow
<1>10. RefsRight /\ FilesNamed
  BY <1>2 DEF ObserverInit, RefsRight, FilesNamed
<1> QED
  BY <1>4, <1>5, <1>6, <1>7, <1>8, <1>9, <1>10 DEF RingInv

LEMMA RingStep == ASSUME RingInv, [ObserverNext]_observerVars PROVE RingInv'
<1>1. CASE ObserverNext
  BY <1>1, PromptedKeeps, RunKeeps, PrecmdKeeps, HelperDiesKeeps, ReceiveKeeps, PushKeeps,
     CleanKeeps, CloseKeeps, EditKeeps, DaemonDiesKeeps DEF ObserverNext
<1>2. CASE UNCHANGED observerVars
  <2>1. ObserverTypeOK'
    BY <1>2 DEF RingInv, ObserverTypeOK, observerVars, adapterVars, daemonVars
  <2> QED
    BY <1>2, <2>1, NothingNew DEF observerVars, adapterVars, daemonVars
<1> QED
  BY <1>1, <1>2

\* Whatever shells run side by side, the ring holds no more than its limit and everything
\* else is what the code declares it to be.
THEOREM ObserverTypeCorrect == ObserverSpec => []ObserverTypeOK
<1>1. RingInv => ObserverTypeOK
  BY DEF RingInv
<1> QED
  BY <1>1, RingStarts, RingStep, PTL DEF ObserverSpec

\* process_observed_command, the ring's critical section and cleanup_observed_entry_refs,
\* each on its own connection: a remembered command's output is there and is its own, and
\* no output outlives the command that refers to it, but for a number used by a typed and
\* by an approved command, or a capture that was left on.
THEOREM OutputsCorrect == ObserverSpec => []OutputsMatchRing
<1>1. RingInv => OutputsMatchRing
  <2> SUFFICES ASSUME RingInv PROVE OutputsMatchRing
    OBVIOUS
  <2>1. \A i \in DOMAIN ring : Backed(ring[i])
    BY DEF RingInv, RefsRight
  <2>2. FilesNamed
    BY DEF RingInv
  <2> QED
    BY <2>1, <2>2 DEF OutputsMatchRing, Backed, Fine, FilesNamed
<1> QED
  BY <1>1, RingStarts, RingStep, PTL DEF ObserverSpec

-----------------------------------------------------------------------------
(* The services side by side *)

ServicesInv == ServeInv /\ WebInv /\ CancelInv /\ RingInv

\* Each keeps its own invariant, with the bounds its steps are kept to here and whichever
\* the behaviour is about: the caches of the web never outgrow their room, the ring its.
THEOREM ServicesTypeCorrect == MCSpec => []ServicesTypeOK
<1>1. MCInit => ServicesInv
  BY ServeInit, WebStarts, CancelInit, RingStarts DEF MCInit, ServicesInv
<1>2. ServicesInv /\ [MCNext]_<<toolVars, webVars, inferenceVars, observerVars, focus>> => ServicesInv'
  <2> SUFFICES ASSUME ServicesInv, [MCNext]_<<toolVars, webVars, inferenceVars, observerVars, focus>>
               PROVE  ServicesInv'
    OBVIOUS
  <2>1. /\ [ToolNext]_toolVars /\ [WebNext]_webVars
        /\ [InferenceNext]_inferenceVars /\ [ObserverNext]_observerVars
    BY DEF MCNext, ToolStep, WebStep, InferenceStep, ObserverStep
  <2>2. ServeInv'
    BY <2>1, ServeStep DEF ServicesInv
  <2>3. WebInv'
    BY <2>1, WebKeeps DEF ServicesInv
  <2>4. CancelInv'
    BY <2>1, CancelStep DEF ServicesInv
  <2>5. RingInv'
    BY <2>1, RingStep DEF ServicesInv
  <2> QED
    BY <2>2, <2>3, <2>4, <2>5 DEF ServicesInv
<1>3. ServicesInv => ServicesTypeOK
  <2>1. ServeInv => ToolTypeOK
    BY DEF ServeInv
  <2>2. CancelInv => InferenceTypeOK
    BY DEF CancelInv
  <2>3. RingInv => ObserverTypeOK
    BY DEF RingInv
  <2> QED
    BY <2>1, <2>2, <2>3, WebInvSays DEF ServicesInv, ServicesTypeOK
<1> QED
  BY <1>1, <1>2, <1>3, PTL DEF MCSpec
=============================================================================
