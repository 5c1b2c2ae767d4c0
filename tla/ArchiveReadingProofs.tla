------------------------ MODULE ArchiveReadingProofs ------------------------
(***************************************************************************)
(* Proofs about ArchiveReading, for every reader, any names and archives,  *)
(* and any number of operations and replacements: the window's index is    *)
(* that of one version, what is delivered is the record asked for, and     *)
(* success means that all that was asked for was handled, or decoded.      *)
(***************************************************************************)
EXTENDS ArchiveReading, WellFoundedInduction, SequenceTheorems, TLAPS

\* Other programs only add versions; lengths and times, and the identities of
\* files, do not come back once they have changed.
Versions ==
  /\ vers \in Seq([names : Shapes, stamp : Nat \ {None}, file : Nat \ {None}])
  /\ Now >= 1
  /\ \A v \in 1..Now : vers[v].stamp <= v /\ vers[v].file <= v
  /\ \A v \in 1..Now : vers[v].stamp = v \/ vers[v].file = v
  /\ \A v, w \in 1..Now :
       v <= w => vers[v].stamp <= vers[w].stamp /\ vers[v].file <= vers[w].file

\* The fields of the records.
Shaped ==
  /\ task = [op |-> task.op, pc |-> task.pc, sel |-> task.sel, indexed |-> task.indexed,
             begun |-> task.begun, cap |-> task.cap, held |-> task.held,
             kept |-> task.kept, pass |-> task.pass, entries |-> task.entries,
             k |-> task.k, head |-> task.head, read |-> task.read, seen |-> task.seen,
             got |-> task.got, failed |-> task.failed, result |-> task.result]
  /\ task.cap = [entries |-> task.cap.entries, stamp |-> task.cap.stamp,
                 file |-> task.cap.file, kept |-> task.cap.kept]
  /\ index = [entries |-> index.entries, stamp |-> index.stamp,
              file |-> index.file, kept |-> index.kept]

\* The versions that an operation and the index refer to.
Known ==
  /\ task.held \in 0..Now /\ task.kept \in 0..Now /\ task.pass \in 0..Now
  /\ index.kept \in 0..Now
  /\ task.pc = "walk" /\ fmt.walk # "lookup" => task.pass \in 1..Now

\* The places of a listing, and which versions it has looked at there: it has
\* taken length and time of v, then the file's identity of w, then listed x.
StampOf(v)    == v \in 1..Now /\ task.cap.stamp = vers[v].stamp
FileOf(v, w)  == w \in v..Now /\ task.cap.file = vers[w].file
ListedAs(w, x) ==
  x \in w..Now /\ task.entries = Listed(x) /\ task.kept \in {None, x}

Listing ==
  task.op = "list" =>
    /\ task.pc \in {"idle", "capture", "capture2", "open", "entries", "stamp", "file"}
    /\ ~task.indexed
    /\ task.pc \in {"capture", "capture2", "open", "entries"} => task.kept = None
    /\ task.pc \in {"capture", "capture2", "open"} => task.held = None
    /\ task.pc = "capture2" => \E v \in 1..Now : StampOf(v)
    /\ task.pc = "open" => \E v, w \in 1..Now : StampOf(v) /\ FileOf(v, w)
    /\ task.pc = "entries" =>
         \E v, w \in 1..Now : StampOf(v) /\ FileOf(v, w) /\ task.held \in {None} \cup w..Now
    /\ task.pc = "stamp" =>
         \E v, w, x \in 1..Now : StampOf(v) /\ FileOf(v, w) /\ ListedAs(w, x)
    /\ task.pc = "file" =>
         \E v, w, x \in 1..Now :
           /\ StampOf(v) /\ FileOf(v, w) /\ ListedAs(w, x)
           /\ vers[x].stamp = task.cap.stamp

\* Where decoding stands is where the walk stands, but in place.
Headed ==
  /\ task.k \in Nat \ {0} /\ task.head \in Nat \ {0}
  /\ task.pc \notin {"idle", "walk"} => task.k = 1 /\ task.head = 1
  /\ task.pc = "walk" /\ Decodes /\ ~ByPosition => task.head = task.k

\* Everything delivered so far is a payload of its name.
Delivered ==
  \A d \in task.got : d.ver \in 1..Now /\ (ByPosition \/ Recs(d.ver)[d.rec] = d.name)

IInv == Versions /\ Shaped /\ Known /\ Listing /\ Headed /\ Delivered /\ IndexIsOneVersion

-----------------------------------------------------------------------------
\* Least and greatest numbers.

LessOn == {p \in Nat \X Nat : p[1] < p[2]}

\* Every set of numbers has a least one, and every bounded one a greatest.
LEMMA LessIsWellFounded == IsWellFoundedOn(LessOn, Nat)
  BY NatLessThanWellFounded DEF OpToRel, LessOn

LEMMA Least ==
  ASSUME NEW T, \A y \in T : y \in Nat, T # {}
  PROVE  \E x \in T : \A y \in T : x <= y
<1>1. \E x \in T : \A y \in T : ~ (<<y, x>> \in LessOn)
  BY LessIsWellFounded, WFMin
<1>2. PICK x \in T : \A y \in T : ~ (<<y, x>> \in LessOn)
  BY <1>1
<1>3. ASSUME NEW y \in T PROVE x <= y
  <2>1. x \in Nat /\ y \in Nat
    OBVIOUS
  <2>2. y < x => <<y, x>> \in LessOn
    BY <2>1 DEF LessOn
  <2> QED
    BY <1>2, <2>1, <2>2
<1> QED
  BY <1>3

LEMMA Greatest ==
  ASSUME NEW n \in Nat, NEW T, \A y \in T : y \in 1..n, T # {}
  PROVE  \E x \in T : \A y \in T : y <= x
<1> DEFINE R == {n - y : y \in T}
<1>1. \A r \in R : r \in Nat
  OBVIOUS
<1>2. R # {}
  OBVIOUS
<1> HIDE DEF R
<1>3. PICK r \in R : \A q \in R : r <= q
  BY <1>1, <1>2, Least
<1>4. PICK x \in T : r = n - x
  BY DEF R
<1>5. ASSUME NEW y \in T PROVE y <= x
  <2>1. n - y \in R
    BY DEF R
  <2> QED
    BY <2>1, <1>3, <1>4
<1> QED
  BY <1>5

-----------------------------------------------------------------------------
\* Sequences grow from the empty one, element by element; what the growth
\* preserves holds of them all.

\* Induction over sequences: a least prefix outside G would have a predecessor.
LEMMA SequencesGrow ==
  ASSUME NEW S, NEW G, <<>> \in G,
         \A s \in Seq(S), x \in S : s \in G => Append(s, x) \in G
  PROVE  \A s \in Seq(S) : s \in G
<1> SUFFICES ASSUME NEW s \in Seq(S) PROVE s \in G
  OBVIOUS
<1> DEFINE T == {n \in 0..Len(s) : SubSeq(s, 1, n) \notin G}
<1>1. Len(s) \in Nat /\ \A n \in T : n \in Nat
  BY LenProperties
<1>2. CASE T = {}
  <2>1. Len(s) \in 0..Len(s) /\ SubSeq(s, 1, Len(s)) = s
    BY <1>1
  <2> QED
    BY <1>2, <2>1
<1>3. CASE T # {}
  <2> HIDE DEF T
  <2>1. PICK n \in T : \A m \in T : n <= m
    BY <1>1, <1>3, Least
  <2>2. n \in 0..Len(s) /\ SubSeq(s, 1, n) \notin G
    BY <2>1 DEF T
  <2>3. CASE n = 0
    <3>1. SubSeq(s, 1, 0) = <<>>
      OBVIOUS
    <3> QED
      BY <2>2, <2>3, <3>1
  <2>4. CASE n # 0
    <3>1. n - 1 \in 0..Len(s) /\ n - 1 \notin T
      BY <1>1, <2>1, <2>2, <2>4
    <3>2. SubSeq(s, 1, n - 1) \in G
      BY <3>1 DEF T
    <3>3. SubSeq(s, 1, n - 1) \in Seq(S) /\ s[n] \in S
      BY <1>1, <2>2, <2>4, ElementOfSeq
    <3>4. SubSeq(s, 1, n) = Append(SubSeq(s, 1, n - 1), s[n])
      BY <1>1, <2>2, <2>4
    <3> QED
      BY <2>2, <3>2, <3>3, <3>4
  <2> QED
    BY <2>3, <2>4
<1> QED
  BY <1>2, <1>3

\* The recursive function behind Only, on the first n elements.
Step(s, keep, f, i) ==
  IF i = 0 THEN <<>>
  ELSE IF s[i] \in keep THEN Append(f[i - 1], s[i]) ELSE f[i - 1]

\* Only(s, keep) is the last value of a function on the prefixes of s.
Picks(s, keep, n, f) == f = [i \in 0..n |-> Step(s, keep, f, i)]
Agree(s, t, n) == \A i \in 1..n : s[i] = t[i]

\* The recursive function exists, however long the sequence is,
LEMMA PicksExists ==
  ASSUME NEW s, NEW keep, NEW n \in Nat PROVE \E f : Picks(s, keep, n, f)
<1> DEFINE T == {m \in Nat : ~ \E f : Picks(s, keep, m, f)}
<1>1. \A m \in T : m \in Nat
  OBVIOUS
<1>2. CASE T = {}
  BY <1>2
<1>3. CASE T # {}
  <2> HIDE DEF T
  <2>1. PICK x \in T : \A y \in T : x <= y
    BY <1>1, <1>3, Least
  <2>2. x \in Nat /\ ~ \E f : Picks(s, keep, x, f)
    BY <2>1 DEF T
  <2>3. CASE x = 0
    <3> DEFINE f == [i \in 0..0 |-> <<>>]
    <3>1. f = [i \in 0..0 |-> Step(s, keep, f, i)]
      BY DEF Step
    <3> QED
      BY <2>2, <2>3, <3>1 DEF Picks
  <2>4. CASE x # 0
    <3>1. x - 1 \in Nat /\ x - 1 \notin T
      BY <2>1, <2>2, <2>4
    <3>2. PICK g : Picks(s, keep, x - 1, g)
      BY <3>1 DEF T
    <3> DEFINE f == [i \in 0..x |-> IF i = x THEN Step(s, keep, g, x) ELSE g[i]]
    <3>3. ASSUME NEW i \in 0..x PROVE f[i] = Step(s, keep, f, i)
      <4>1. CASE i = x
        <5>1. f[x] = Step(s, keep, g, x) /\ f[x - 1] = g[x - 1]
          BY <2>2, <2>4
        <5> QED
          BY <2>4, <4>1, <5>1 DEF Step
      <4>2. CASE i # x
        <5>1. i \in 0..(x - 1) /\ f[i] = g[i]
          BY <2>2, <4>2
        <5>2. g[i] = Step(s, keep, g, i)
          BY <3>2, <5>1 DEF Picks
        <5>3. i # 0 => f[i - 1] = g[i - 1]
          BY <2>2, <5>1
        <5> QED
          BY <5>1, <5>2, <5>3 DEF Step
      <4> QED
        BY <4>1, <4>2
    <3>4. f = [i \in 0..x |-> f[i]]
      OBVIOUS
    <3> HIDE DEF f
    <3>5. Picks(s, keep, x, f)
      BY <3>3, <3>4 DEF Picks
    <3> QED
      BY <2>2, <3>5
  <2> QED
    BY <2>3, <2>4
<1> QED
  BY <1>2, <1>3

\* and Only is its last value.
LEMMA OnlyPicks ==
  ASSUME NEW s, NEW keep, Len(s) \in Nat
  PROVE  \E f : Picks(s, keep, Len(s), f) /\ Only(s, keep) = f[Len(s)]
<1> DEFINE F == CHOOSE f : Picks(s, keep, Len(s), f)
<1>1. Picks(s, keep, Len(s), F)
  BY PicksExists
<1>2. Only(s, keep) = F[Len(s)]
  BY DEF Only, Picks, Step
<1> QED
  BY <1>1, <1>2

\* What is picked of the first elements does not depend on the others.
LEMMA PicksAgree ==
  ASSUME NEW s, NEW t, NEW keep, NEW n \in Nat, NEW m \in Nat, n <= m,
         NEW f, Picks(s, keep, n, f), NEW g, Picks(t, keep, m, g),
         Agree(s, t, n)
  PROVE  f[n] = g[n]
<1> DEFINE T == {i \in 0..n : f[i] # g[i]}
<1> SUFFICES ASSUME T # {} PROVE FALSE
  <2>1. n \in 0..n
    OBVIOUS
  <2> QED
    BY <2>1
<1>1. \A i \in T : i \in Nat
  OBVIOUS
<1> HIDE DEF T
<1>2. PICK x \in T : \A y \in T : x <= y
  BY <1>1, Least
<1>3. x \in 0..n /\ x \in 0..m /\ f[x] # g[x]
  BY <1>2 DEF T
<1>4. f[x] = Step(s, keep, f, x) /\ g[x] = Step(t, keep, g, x)
  BY <1>3 DEF Picks
<1>5. x # 0
  BY <1>3, <1>4 DEF Step
<1>6. x - 1 \in 0..n /\ x - 1 \notin T /\ x \in 1..n
  BY <1>2, <1>3, <1>5
<1>7. f[x - 1] = g[x - 1]
  BY <1>6 DEF T
<1> QED
  BY <1>3, <1>4, <1>5, <1>6, <1>7 DEF Step, Agree

\* Nothing is picked of nothing.
LEMMA OnlyEmpty == ASSUME NEW keep PROVE Only(<<>>, keep) = <<>>
<1>1. PICK f : Picks(<<>>, keep, Len(<<>>), f) /\ Only(<<>>, keep) = f[Len(<<>>)]
  BY OnlyPicks
<1> QED
  BY <1>1 DEF Picks, Step

\* One more element is picked if it is to be kept.
LEMMA OnlyAppend ==
  ASSUME NEW S, NEW s \in Seq(S), NEW x \in S, NEW keep
  PROVE  Only(Append(s, x), keep) =
           IF x \in keep THEN Append(Only(s, keep), x) ELSE Only(s, keep)
<1> DEFINE t == Append(s, x)
           n == Len(s)
<1>1. n \in Nat /\ Len(t) = n + 1 /\ t[n + 1] = x /\ \A i \in 1..n : s[i] = t[i]
  BY LenProperties, AppendProperties
<1> HIDE DEF t, n
<1>2. PICK f : Picks(s, keep, n, f) /\ Only(s, keep) = f[n]
  BY <1>1, OnlyPicks DEF n
<1>3. PICK g : Picks(t, keep, n + 1, g) /\ Only(t, keep) = g[n + 1]
  <2>1. Len(t) \in Nat
    BY <1>1
  <2> QED
    BY <1>1, <2>1, OnlyPicks
<1>4. f[n] = g[n]
  <2>1. n <= n + 1 /\ n + 1 \in Nat /\ Agree(s, t, n)
    BY <1>1 DEF Agree
  <2> QED
    BY <1>1, <1>2, <1>3, <2>1, PicksAgree
<1>5. g[n + 1] = Step(t, keep, g, n + 1)
  BY <1>1, <1>3 DEF Picks
<1>6. n + 1 # 0 /\ (n + 1) - 1 = n
  BY <1>1
<1>7. g[n + 1] = IF x \in keep THEN Append(g[n], x) ELSE g[n]
  BY <1>1, <1>5, <1>6 DEF Step
<1> QED
  BY <1>2, <1>3, <1>4, <1>7 DEF t

\* What is picked is in s and in keep.
LEMMA OnlyTypes ==
  ASSUME NEW S, NEW keep PROVE \A s \in Seq(S) : Only(s, keep) \in Seq(S \cap keep)
<1> DEFINE G == {s \in Seq(S) : Only(s, keep) \in Seq(S \cap keep)}
<1>1. <<>> \in G
  <2>1. Only(<<>>, keep) = <<>>
    BY OnlyEmpty
  <2>2. Only(<<>>, keep) \in Seq(S \cap keep)
    <3>1. <<>> \in Seq(S \cap keep)
      OBVIOUS
    <3> QED
      BY <2>1, <3>1, Zenon
  <2> QED
    BY <2>2
<1>2. ASSUME NEW s \in Seq(S), NEW x \in S, s \in G PROVE Append(s, x) \in G
  <2>1. Only(s, keep) \in Seq(S \cap keep) /\ Append(s, x) \in Seq(S)
    BY <1>2
  <2>2. Only(Append(s, x), keep) =
          IF x \in keep THEN Append(Only(s, keep), x) ELSE Only(s, keep)
    BY OnlyAppend
  <2>3. x \in keep => Append(Only(s, keep), x) \in Seq(S \cap keep)
    BY <2>1
  <2> QED
    BY <2>1, <2>2, <2>3
<1> HIDE DEF G
<1>3. \A s \in Seq(S) : s \in G
  BY <1>1, <1>2, SequencesGrow
<1> QED
  BY <1>3 DEF G

\* What a longer sequence holds.
LEMMA HasAppend ==
  ASSUME NEW S, NEW s \in Seq(S), NEW x, NEW n
  PROVE  Has(Append(s, x), n) <=> Has(s, n) \/ n = x
<1>1. /\ Len(s) \in Nat /\ Len(Append(s, x)) = Len(s) + 1 /\ Append(s, x)[Len(s) + 1] = x
      /\ \A i \in 1..Len(s) : Append(s, x)[i] = s[i]
  BY LenProperties
<1>2. ASSUME Has(Append(s, x), n) PROVE Has(s, n) \/ n = x
  <2>1. PICK i \in 1..(Len(s) + 1) : Append(s, x)[i] = n
    BY <1>1, <1>2 DEF Has
  <2> QED
    BY <1>1, <2>1 DEF Has
<1>3. ASSUME Has(s, n) PROVE Has(Append(s, x), n)
  BY <1>1, <1>3 DEF Has
<1>4. ASSUME n = x PROVE Has(Append(s, x), n)
  <2>1. Len(s) + 1 \in 1..Len(Append(s, x))
    BY <1>1
  <2> QED
    BY <1>1, <1>4, <2>1 DEF Has
<1> QED
  BY <1>2, <1>3, <1>4

\* Nothing of keep is left out.
LEMMA OnlyHas ==
  ASSUME NEW S, NEW keep, NEW n
  PROVE  \A s \in Seq(S) : Has(Only(s, keep), n) <=> Has(s, n) /\ n \in keep
<1> DEFINE G == {s \in Seq(S) : Has(Only(s, keep), n) <=> Has(s, n) /\ n \in keep}
<1>1. <<>> \in G
  BY OnlyEmpty DEF Has
<1>2. ASSUME NEW s \in Seq(S), NEW x \in S, s \in G PROVE Append(s, x) \in G
  <2>1. Only(s, keep) \in Seq(S \cap keep) /\ Append(s, x) \in Seq(S)
    BY OnlyTypes
  <2>2. Only(Append(s, x), keep) =
          IF x \in keep THEN Append(Only(s, keep), x) ELSE Only(s, keep)
    BY OnlyAppend
  <2>3. /\ Has(Append(s, x), n) <=> Has(s, n) \/ n = x
        /\ Has(Append(Only(s, keep), x), n) <=> Has(Only(s, keep), n) \/ n = x
    BY <2>1, HasAppend
  <2> QED
    BY <1>2, <2>1, <2>2, <2>3
<1> HIDE DEF G
<1>3. \A s \in Seq(S) : s \in G
  BY <1>1, <1>2, SequencesGrow
<1> QED
  BY <1>3 DEF G

\* Where all is kept, nothing changes.
LEMMA OnlyAll == ASSUME NEW keep PROVE \A s \in Seq(keep) : Only(s, keep) = s
<1> DEFINE G == {s \in Seq(keep) : Only(s, keep) = s}
<1>1. <<>> \in G
  BY OnlyEmpty
<1>2. ASSUME NEW s \in Seq(keep), NEW x \in keep, s \in G PROVE Append(s, x) \in G
  <2>1. Only(Append(s, x), keep) =
          IF x \in keep THEN Append(Only(s, keep), x) ELSE Only(s, keep)
    BY OnlyAppend
  <2> QED
    BY <1>2, <2>1
<1> HIDE DEF G
<1>3. \A s \in Seq(keep) : s \in G
  BY <1>1, <1>2, SequencesGrow
<1> QED
  BY <1>3 DEF G

\* Picking twice keeps what both keep.
LEMMA OnlyTwice ==
  ASSUME NEW S, NEW keep, NEW K
  PROVE  \A s \in Seq(S) : Only(Only(s, keep), K) = Only(s, keep \cap K)
<1> DEFINE G == {s \in Seq(S) : Only(Only(s, keep), K) = Only(s, keep \cap K)}
<1>1. <<>> \in G
  BY OnlyEmpty
<1>2. ASSUME NEW s \in Seq(S), NEW x \in S, s \in G PROVE Append(s, x) \in G
  <2>1. Only(s, keep) \in Seq(S \cap keep) /\ Only(s, keep) \in Seq(S) /\ Append(s, x) \in Seq(S)
    <3>1. Only(s, keep) \in Seq(S \cap keep)
      BY OnlyTypes
    <3> QED
      BY <3>1
  <2>2. /\ Only(Append(s, x), keep) =
             IF x \in keep THEN Append(Only(s, keep), x) ELSE Only(s, keep)
        /\ Only(Append(s, x), keep \cap K) =
             IF x \in keep \cap K THEN Append(Only(s, keep \cap K), x) ELSE Only(s, keep \cap K)
    BY OnlyAppend
  <2>3. Only(Append(Only(s, keep), x), K) =
          IF x \in K THEN Append(Only(Only(s, keep), K), x) ELSE Only(Only(s, keep), K)
    BY <2>1, OnlyAppend
  <2>4. Only(Only(s, keep), K) = Only(s, keep \cap K)
    BY <1>2
  <2>5. CASE x \in keep
    <3>1. /\ Only(Append(s, x), keep) = Append(Only(s, keep), x)
          /\ x \in K <=> x \in keep \cap K
      BY <2>2, <2>5
    <3>2. Only(Only(Append(s, x), keep), K) = Only(Append(s, x), keep \cap K)
      BY <2>2, <2>3, <2>4, <3>1
    <3> QED
      BY <2>1, <3>2
  <2>6. CASE x \notin keep
    <3>1. Only(Only(Append(s, x), keep), K) = Only(Append(s, x), keep \cap K)
      BY <2>2, <2>4, <2>6
    <3> QED
      BY <2>1, <3>1
  <2> QED
    BY <2>5, <2>6
<1> HIDE DEF G
<1>3. \A s \in Seq(S) : s \in G
  BY <1>1, <1>2, SequencesGrow
<1> QED
  BY <1>3 DEF G
-----------------------------------------------------------------------------
\* Versions and what is found in them.

\* The fields of a version.
LEMMA VersionTypes ==
  ASSUME Versions, NEW v \in 1..Now
  PROVE  vers[v].names \in Shapes /\ vers[v].stamp \in Nat /\ vers[v].file \in Nat
<1>1. vers[v] \in [names : Shapes, stamp : Nat \ {None}, file : Nat \ {None}]
  BY ElementOfSeq DEF Versions, Now
<1> QED
  BY <1>1

\* A lookup finds an entry of the name it looks for.
LEMMA FoundIsNamed ==
  ASSUME Versions, NEW v \in 1..Now, NEW n, Has(Recs(v), n)
  PROVE  Recs(v)[Found(v, n)] = n
<1> DEFINE hits == {i \in 1..Len(Recs(v)) : Recs(v)[i] = n}
<1>1. Len(Recs(v)) \in Nat
  BY VersionTypes, ReadingAssumption, LenProperties DEF Recs
<1>2. hits # {} /\ (\A i \in hits : i \in 1..Len(Recs(v))) /\ (\A i \in hits : i \in Nat)
  BY <1>1 DEF Has
<1>3. \E i \in hits : \A j \in hits : IF fmt.same = "last" THEN j <= i ELSE i <= j
  <2> HIDE DEF hits
  <2>1. CASE fmt.same = "last"
    BY <1>1, <1>2, <2>1, Greatest
  <2>2. CASE fmt.same # "last"
    BY <1>2, <2>2, Least
  <2> QED
    BY <2>1, <2>2
<1>4. Found(v, n) \in hits
  BY <1>3 DEF Found
<1> QED
  BY <1>4
-----------------------------------------------------------------------------
\* Versions only come, and none changes.
Grown == Now <= Now' /\ \A v \in 1..Now : vers'[v] = vers[v]

Others == \E s \in Shapes : Replace(s) \/ Rewrite(s)

\* No step changes a version, and only other programs add one.
LEMMA VersionsStep ==
  ASSUME Versions, Shaped, Known, [Next]_vars
  PROVE  /\ Versions' /\ Grown /\ Now \in Nat /\ fmt' = fmt
         /\ Others \/ UNCHANGED vers
<1>1. Now \in Nat /\ Now >= 1
  BY LenProperties DEF Versions, Now
<1>2. CASE UNCHANGED vers
  <2>1. fmt' = fmt
    BY DEF Next, vars, Begin, VerifyOuter, CaptureStamp, CaptureFile, MatchesStamp,
           MatchesFile, Open, ListEntries, ListAgain, Plan, PassBy, Take, Refuse, Unpaired,
           LookUp, RefuseFound, NotFound, Finish, Cancelled, ReadFails, To, Replace, Rewrite
  <2> QED
    BY <1>1, <1>2, <2>1 DEF Versions, Now, Grown
<1>3. CASE Others
  <2>1. PICK s \in Shapes : Replace(s) \/ Rewrite(s)
    BY <1>3 DEF Others
  <2> DEFINE V == [names : Shapes, stamp : Nat \ {None}, file : Nat \ {None}]
  <2>0. ASSUME NEW v \in 1..Now PROVE vers[v] \in V
    <3> HIDE DEF V
    <3>1. vers \in Seq(V)
      BY DEF Versions, V
    <3> QED
      BY <3>1, ElementOfSeq DEF Now
  <2>2. PICK e \in V :
          /\ vers' = Append(vers, e) /\ fmt' = fmt
          /\ e.stamp \in {vers[Now].stamp, Now + 1} /\ e.file \in {vers[Now].file, Now + 1}
          /\ e.stamp = Now + 1 \/ e.file = Now + 1
    <3>1. vers[Now] \in V
      BY <1>1, <2>0
    <3>2. \A st \in {vers[Now].stamp, Now + 1}, f \in {vers[Now].file, Now + 1} :
            [names |-> s, stamp |-> st, file |-> f] \in V
      BY <1>1, <3>1 DEF None
    <3>3. CASE Replace(s)
      BY <3>2, <3>3 DEF Replace
    <3>4. CASE Rewrite(s)
      BY <3>2, <3>4 DEF Rewrite
    <3> QED
      BY <2>1, <3>3, <3>4
  <2>3. vers \in Seq(V)
    BY DEF Versions
  <2>4. /\ vers' \in Seq(V) /\ Now' = Now + 1 /\ vers'[Now + 1] = e
        /\ \A v \in 1..Now : vers'[v] = vers[v]
    BY <2>2, <2>3, AppendProperties DEF Now
  <2>5. \A v \in 1..Now : vers[v].stamp \in Nat /\ vers[v].file \in Nat
    BY <2>0
  <2>6. \A v \in 1..Now' : v \in 1..Now \/ v = Now + 1
    BY <1>1, <2>4
  <2>7. ASSUME NEW v \in 1..Now
        PROVE  /\ vers[v].stamp <= vers[Now].stamp /\ vers[v].file <= vers[Now].file
               /\ vers[v].stamp <= Now /\ vers[v].file <= Now
    <3>1. Now \in 1..Now /\ v <= Now
      BY <1>1
    <3>2. vers[v].stamp <= vers[Now].stamp /\ vers[v].file <= vers[Now].file
      BY <3>1 DEF Versions
    <3>3. vers[v].stamp <= v /\ vers[v].file <= v
      BY DEF Versions
    <3>4. vers[v].stamp \in Nat /\ vers[v].file \in Nat
      BY <2>5
    <3> QED
      BY <1>1, <3>1, <3>2, <3>3, <3>4
  <2>8. \A v \in 1..Now : vers[v].stamp <= e.stamp /\ vers[v].file <= e.file
    BY <1>1, <2>2, <2>5, <2>7
  <2>9. e.stamp <= Now + 1 /\ e.file <= Now + 1
    BY <1>1, <2>2, <2>5, <2>7
  <2>10. \A v \in 1..Now' : vers'[v].stamp <= v /\ vers'[v].file <= v
    BY <2>4, <2>6, <2>9 DEF Versions
  <2>11. ASSUME NEW v \in 1..Now', NEW w \in 1..Now', v <= w
         PROVE  vers'[v].stamp <= vers'[w].stamp /\ vers'[v].file <= vers'[w].file
    <3>1. CASE w \in 1..Now
      <4>1. v \in 1..Now
        BY <1>1, <2>4, <2>11, <3>1
      <4> QED
        BY <2>4, <2>11, <3>1, <4>1 DEF Versions
    <3>2. CASE w = Now + 1 /\ v \in 1..Now
      BY <2>4, <2>8, <3>2
    <3>3. CASE w = Now + 1 /\ v = Now + 1
      <4>1. e.stamp \in Nat /\ e.file \in Nat
        BY <2>2
      <4> QED
        BY <2>4, <3>3, <4>1
    <3> QED
      BY <2>6, <3>1, <3>2, <3>3
  <2>m. \A v \in 1..Now' : vers'[v].stamp = v \/ vers'[v].file = v
    BY <2>2, <2>4, <2>6 DEF Versions
  <2>12. Versions'
    BY <1>1, <2>4, <2>10, <2>11, <2>m DEF Versions
  <2>13. Grown
    BY <1>1, <2>4 DEF Grown
  <2> QED
    BY <1>1, <1>3, <2>2, <2>12, <2>13
<1>4. Others \/ UNCHANGED vers
  BY DEF Next, vars, Begin, VerifyOuter, CaptureStamp, CaptureFile, MatchesStamp,
         MatchesFile, Open, ListEntries, ListAgain, Plan, PassBy, Take, Refuse, Unpaired,
         LookUp, RefuseFound, NotFound, Finish, Cancelled, ReadFails, To, Others
<1> QED
  BY <1>2, <1>3, <1>4

\* What was found in a version is found there after a step.
LEMMA ListedStays ==
  ASSUME Grown, NEW v \in 1..Now PROVE Listed(v)' = Listed(v) /\ Recs(v)' = Recs(v)
  BY DEF Grown, Listed, Recs
-----------------------------------------------------------------------------
\* The records keep their fields.

\* Every step keeps the fields.
LEMMA ShapedStep == ASSUME Shaped, [Next]_vars PROVE Shaped'
<1> USE DEF To, Go, Ended, Drained, Passed, Used, Trailing
<1>1. ASSUME UNCHANGED <<task, index>> PROVE Shaped'
  BY <1>1 DEF Shaped
<1>2. ASSUME NEW o, NEW sel, NEW ix, Begin(o, sel, ix) PROVE Shaped'
  BY <1>2 DEF Begin, Fresh, Shaped, NoIndex
<1>3. CASE VerifyOuter
  BY <1>3 DEF VerifyOuter, Shaped
<1>4. CASE CaptureStamp
  BY <1>4 DEF CaptureStamp, Shaped
<1>5. CASE CaptureFile
  BY <1>5 DEF CaptureFile, Shaped
<1>6. CASE MatchesStamp
  BY <1>6 DEF MatchesStamp, Shaped
<1>7. CASE MatchesFile
  BY <1>7 DEF MatchesFile, Shaped
<1>8. CASE Open
  BY <1>8 DEF Open, Shaped
<1>9. CASE ListEntries
  BY <1>9 DEF ListEntries, Shaped
<1>10. CASE ListAgain
  BY <1>10 DEF ListAgain, Shaped
<1>11. CASE Plan
  BY <1>11 DEF Plan, Shaped
<1>12. CASE PassBy
  BY <1>12 DEF PassBy, Shaped
<1>13. CASE Take
  BY <1>13 DEF Take, Shaped
<1>14. CASE Refuse
  BY <1>14 DEF Refuse, Shaped
<1>15. CASE Unpaired
  BY <1>15 DEF Unpaired, Shaped
<1>16. CASE LookUp
  BY <1>16 DEF LookUp, Shaped
<1>17. CASE RefuseFound
  BY <1>17 DEF RefuseFound, Shaped
<1>18. CASE NotFound
  BY <1>18 DEF NotFound, Shaped
<1>19. CASE Finish
  BY <1>19 DEF Finish, Shaped
<1>20. CASE Cancelled
  BY <1>20 DEF Cancelled, Shaped
<1>21. CASE ReadFails
  BY <1>21 DEF ReadFails, Shaped
<1> QED
  BY <1>1, <1>2, <1>3, <1>4, <1>5, <1>6, <1>7, <1>8, <1>9, <1>10, <1>11, <1>12, <1>13,
     <1>14, <1>15, <1>16, <1>17, <1>18, <1>19, <1>20, <1>21 DEF Next, vars, Replace, Rewrite
-----------------------------------------------------------------------------
\* What an operation refers to are versions there have been.

\* What is read is some version there has been.
LEMMA FromKnown == ASSUME Versions, Known PROVE From \in 1..Now
  BY LenProperties DEF Versions, Known, Now, From, None

\* Every step refers to versions there have been.
LEMMA KnownStep ==
  ASSUME Versions, Shaped, Known, [Next]_vars PROVE Known'
<1> USE DEF To, Go, Ended, Drained, Passed, Used, Trailing, Passing, Looking, At
<1>v. /\ Now \in Nat /\ Now' \in Nat /\ Now >= 1 /\ Grown /\ fmt' = fmt /\ From \in 1..Now
      /\ vers' = vers => Now' = Now
  BY VersionsStep, FromKnown, LenProperties DEF Versions, Now
<1>1. CASE Others
  BY <1>v, <1>1 DEF Others, Replace, Rewrite, Grown, Known, None
<1>2. ASSUME NEW o, NEW sel, NEW ix, Begin(o, sel, ix) PROVE Known'
  BY <1>v, <1>2 DEF Begin, Fresh, Known, Shaped, NoIndex, None, Shared
<1>3. CASE UNCHANGED vars
  BY <1>v, <1>3 DEF vars, Known
<1>4. CASE VerifyOuter
  BY <1>v, <1>4 DEF VerifyOuter, Known, Shaped, None
<1>5. CASE CaptureStamp
  BY <1>v, <1>5 DEF CaptureStamp, Known, Shaped, None
<1>6. CASE CaptureFile
  BY <1>v, <1>6 DEF CaptureFile, Known, Shaped, None
<1>7. CASE MatchesStamp
  BY <1>v, <1>7 DEF MatchesStamp, Known, Shaped, None
<1>8. CASE MatchesFile
  <2>1. index' = index \/ index'.kept \in {task.kept, None}
    BY <1>8 DEF MatchesFile, Shaped
  <2>2. index'.kept \in 0..Now
    BY <1>v, <2>1 DEF Known, None
  <2>3. /\ task'.held = task.held /\ task'.kept = task.kept /\ task'.pass = task.pass
        /\ task'.pc # "walk" /\ vers' = vers
    BY <1>8 DEF MatchesFile, Shaped
  <2> QED
    BY <1>v, <2>2, <2>3 DEF Known
<1>9. CASE Open
  BY <1>v, <1>9 DEF Open, Known, Shaped, None
<1>10. CASE ListEntries
  BY <1>v, <1>10 DEF ListEntries, Known, Shaped, None
<1>11. CASE ListAgain
  BY <1>v, <1>11 DEF ListAgain, Known, Shaped, None
<1>12. CASE Plan
  BY <1>v, <1>12 DEF Plan, Known, Shaped, None
<1>13. CASE PassBy
  BY <1>v, <1>13 DEF PassBy, Known, Shaped, None
<1>14. CASE Take
  BY <1>v, <1>14 DEF Take, Known, Shaped, None
<1>15. CASE Refuse
  BY <1>v, <1>15 DEF Refuse, Known, Shaped, None
<1>16. CASE Unpaired
  BY <1>v, <1>16 DEF Unpaired, Known, Shaped, None
<1>17. CASE LookUp
  BY <1>v, <1>17 DEF LookUp, Known, Shaped, None
<1>18. CASE RefuseFound
  BY <1>v, <1>18 DEF RefuseFound, Known, Shaped, None
<1>19. CASE NotFound
  BY <1>v, <1>19 DEF NotFound, Known, Shaped, None
<1>20. CASE Finish
  BY <1>v, <1>20 DEF Finish, Known, Shaped, None
<1>21. CASE Cancelled
  BY <1>v, <1>21 DEF Cancelled, Known, Shaped, None
<1>22. CASE ReadFails
  BY <1>v, <1>22 DEF ReadFails, Known, Shaped, None
<1> QED
  BY <1>1, <1>2, <1>3, <1>4, <1>5, <1>6, <1>7, <1>8, <1>9, <1>10, <1>11, <1>12, <1>13,
     <1>14, <1>15, <1>16, <1>17, <1>18, <1>19, <1>20, <1>21, <1>22 DEF Next, Others

-----------------------------------------------------------------------------
\* Decoding and walking.

\* Decoding keeps pace with the walk.
LEMMA HeadedStep ==
  ASSUME Shaped, Headed, [Next]_vars PROVE Headed'
<1> USE DEF To, Go, Ended, Drained, Passed, Used, Trailing, Passing, Looking, At
<1>1. CASE Others
  BY <1>1 DEF Others, Replace, Rewrite, Headed, Decodes, ByPosition
<1>2. ASSUME NEW o, NEW sel, NEW ix, Begin(o, sel, ix) PROVE Headed'
  BY <1>2 DEF Begin, Fresh, Headed
<1>3. CASE UNCHANGED vars
  BY <1>3 DEF vars, Headed, Decodes, ByPosition
<1>4. CASE VerifyOuter
  BY <1>4 DEF VerifyOuter, Headed, Shaped, Decodes, ByPosition
<1>5. CASE CaptureStamp
  BY <1>5 DEF CaptureStamp, Headed, Shaped, Decodes, ByPosition
<1>6. CASE CaptureFile
  BY <1>6 DEF CaptureFile, Headed, Shaped, Decodes, ByPosition
<1>7. CASE MatchesStamp
  BY <1>7 DEF MatchesStamp, Headed, Shaped, Decodes, ByPosition
<1>8. CASE MatchesFile
  BY <1>8 DEF MatchesFile, Headed, Shaped, Decodes, ByPosition
<1>9. CASE Open
  BY <1>9 DEF Open, Headed, Shaped, Decodes, ByPosition
<1>10. CASE ListEntries
  BY <1>10 DEF ListEntries, Headed, Shaped, Decodes, ByPosition
<1>11. CASE ListAgain
  BY <1>11 DEF ListAgain, Headed, Shaped, Decodes, ByPosition
<1>12. CASE Plan
  BY <1>12 DEF Plan, Headed, Shaped, Decodes, ByPosition
<1>13. CASE PassBy
  BY <1>13 DEF PassBy, Headed, Shaped, Decodes, ByPosition
<1>14. CASE Take
  BY <1>14 DEF Take, Headed, Shaped, Decodes, ByPosition
<1>15. CASE Refuse
  BY <1>15 DEF Refuse, Headed, Shaped, Decodes, ByPosition
<1>16. CASE Unpaired
  BY <1>16 DEF Unpaired, Paired, Headed, Shaped, Decodes, ByPosition
<1>17. CASE LookUp
  BY <1>17 DEF LookUp, Headed, Shaped, Decodes, ByPosition
<1>18. CASE RefuseFound
  BY <1>18 DEF RefuseFound, Headed, Shaped, Decodes, ByPosition
<1>19. CASE NotFound
  BY <1>19 DEF NotFound, Headed, Shaped, Decodes, ByPosition
<1>20. CASE Finish
  BY <1>20 DEF Finish, Headed, Shaped, Decodes, ByPosition
<1>21. CASE Cancelled
  BY <1>21 DEF Cancelled, Headed, Shaped, Decodes, ByPosition
<1>22. CASE ReadFails
  BY <1>22 DEF ReadFails, Headed, Shaped, Decodes, ByPosition
<1> QED
  BY <1>1, <1>2, <1>3, <1>4, <1>5, <1>6, <1>7, <1>8, <1>9, <1>10, <1>11, <1>12, <1>13,
     <1>14, <1>15, <1>16, <1>17, <1>18, <1>19, <1>20, <1>21, <1>22 DEF Next, Others

\* What is delivered.
LEMMA DeliveredStep ==
  ASSUME Versions, Shaped, Known, Headed, Delivered, [Next]_vars PROVE Delivered'
<1> USE DEF To, Go, Ended, Drained, Passed, Used, Trailing, Passing, Looking, At
<1>n. /\ Grown /\ Now \in Nat /\ Now' \in Nat /\ fmt' = fmt /\ From \in 1..Now
      /\ vers' = vers => Now' = Now
  BY VersionsStep, FromKnown, LenProperties DEF Versions, Now
<1>v. \A v \in 1..Now : v \in 1..Now' /\ Recs(v)' = Recs(v)
  BY <1>n, ListedStays DEF Grown
<1>1. CASE Others
  BY <1>n, <1>v, <1>1 DEF Others, Replace, Rewrite, Delivered, ByPosition
<1>2. ASSUME NEW o, NEW sel, NEW ix, Begin(o, sel, ix) PROVE Delivered'
  BY <1>2 DEF Begin, Fresh, Delivered
<1>3. CASE UNCHANGED vars
  BY <1>n, <1>v, <1>3 DEF vars, Delivered, ByPosition
<1>4. CASE VerifyOuter
  BY <1>n, <1>v, <1>4 DEF VerifyOuter, Delivered, Shaped, ByPosition
<1>5. CASE CaptureStamp
  BY <1>n, <1>v, <1>5 DEF CaptureStamp, Delivered, Shaped, ByPosition
<1>6. CASE CaptureFile
  BY <1>n, <1>v, <1>6 DEF CaptureFile, Delivered, Shaped, ByPosition
<1>7. CASE MatchesStamp
  BY <1>n, <1>v, <1>7 DEF MatchesStamp, Delivered, Shaped, ByPosition
<1>8. CASE MatchesFile
  BY <1>n, <1>v, <1>8 DEF MatchesFile, Delivered, Shaped, ByPosition
<1>9. CASE Open
  BY <1>n, <1>v, <1>9 DEF Open, Delivered, Shaped, ByPosition
<1>10. CASE ListEntries
  BY <1>n, <1>v, <1>10 DEF ListEntries, Delivered, Shaped, ByPosition
<1>11. CASE ListAgain
  BY <1>n, <1>v, <1>11 DEF ListAgain, Delivered, Shaped, ByPosition
<1>12. CASE Plan
  BY <1>n, <1>v, <1>12 DEF Plan, Delivered, Shaped, ByPosition
<1>13. CASE PassBy
  BY <1>n, <1>v, <1>13 DEF PassBy, Delivered, Shaped, ByPosition
<1>14. CASE Take
  <2> DEFINE rec == IF Decodes THEN task.head ELSE task.k
             e   == [name |-> NameAt, ver |-> task.pass, rec |-> rec]
  <2>1. task.pass \in 1..Now
    BY <1>14 DEF Take, Known
  <2>2. ByPosition \/ Recs(task.pass)[rec] = NameAt
    BY <1>14 DEF Take, Headed, NameAt
  <2>3. task'.got = task.got \cup {e} /\ vers' = vers /\ task'.op = task.op
    BY <1>14 DEF Take, Shaped
  <2> HIDE DEF rec
  <2>4. e.ver = task.pass /\ e.rec = rec /\ e.name = NameAt
    OBVIOUS
  <2>5. ASSUME NEW d \in task'.got
        PROVE  d.ver \in 1..Now /\ (ByPosition \/ Recs(d.ver)[d.rec] = d.name)
    BY <2>1, <2>2, <2>3, <2>4 DEF Delivered
  <2> QED
    BY <1>n, <1>v, <2>3, <2>5 DEF Delivered, ByPosition
<1>15. CASE Refuse
  BY <1>n, <1>v, <1>15 DEF Refuse, Delivered, Shaped, ByPosition
<1>16. CASE Unpaired
  BY <1>n, <1>v, <1>16 DEF Unpaired, Delivered, Shaped, ByPosition
<1>17. CASE LookUp
  <2> DEFINE n == task.entries[task.k]
             e == [name |-> n, ver |-> From, rec |-> Found(From, n)]
  <2>1. Recs(From)[Found(From, n)] = n
    BY <1>n, <1>17, FoundIsNamed DEF LookUp
  <2>2. task'.got = task.got \cup {e} /\ vers' = vers /\ task'.op = task.op
    BY <1>17 DEF LookUp, Shaped
  <2>3. e.ver = From /\ e.rec = Found(From, n) /\ e.name = n
    OBVIOUS
  <2>4. ASSUME NEW d \in task'.got
        PROVE  d.ver \in 1..Now /\ (ByPosition \/ Recs(d.ver)[d.rec] = d.name)
    BY <1>n, <2>1, <2>2, <2>3 DEF Delivered
  <2> QED
    BY <1>n, <1>v, <2>2, <2>4 DEF Delivered, ByPosition
<1>18. CASE RefuseFound
  BY <1>n, <1>v, <1>18 DEF RefuseFound, Delivered, Shaped, ByPosition
<1>19. CASE NotFound
  BY <1>n, <1>v, <1>19 DEF NotFound, Delivered, Shaped, ByPosition
<1>20. CASE Finish
  BY <1>n, <1>v, <1>20 DEF Finish, Delivered, Shaped, ByPosition
<1>21. CASE Cancelled
  BY <1>n, <1>v, <1>21 DEF Cancelled, Delivered, Shaped, ByPosition
<1>22. CASE ReadFails
  BY <1>n, <1>v, <1>22 DEF ReadFails, Delivered, Shaped, ByPosition
<1> QED
  BY <1>1, <1>2, <1>3, <1>4, <1>5, <1>6, <1>7, <1>8, <1>9, <1>10, <1>11, <1>12, <1>13,
     <1>14, <1>15, <1>16, <1>17, <1>18, <1>19, <1>20, <1>21, <1>22 DEF Next, Others

\* What a listing has looked at.
LEMMA ListingStep ==
  ASSUME Versions, Shaped, Known, Listing, [Next]_vars PROVE Listing'
<1> USE DEF To, Go, Ended, Drained, Passed, Used, Trailing, Passing, Looking, At
<1>n. /\ Grown /\ Now \in Nat /\ Now' \in Nat /\ Now >= 1 /\ fmt' = fmt /\ From \in 1..Now
      /\ vers' = vers => Now' = Now
  BY VersionsStep, FromKnown, LenProperties DEF Versions, Now
<1>v. \A v \in 1..Now : v \in 1..Now' /\ Listed(v)' = Listed(v) /\ vers'[v] = vers[v]
  BY <1>n, ListedStays DEF Grown
<1>1. CASE Others
  <2>1. task' = task
    BY <1>1 DEF Others, Replace, Rewrite
  <2>2. \A v \in 1..Now : StampOf(v) => StampOf(v)'
    BY <1>n, <1>v, <2>1 DEF StampOf, Grown
  <2>3. \A v, w \in 1..Now : FileOf(v, w) => FileOf(v, w)'
    BY <1>n, <1>v, <2>1 DEF FileOf, Grown
  <2>4. \A w, x \in 1..Now : ListedAs(w, x) => ListedAs(w, x)'
    BY <1>n, <1>v, <2>1 DEF ListedAs, Grown
  <2>5. \A w \in 1..Now : w..Now \subseteq w..Now'
    BY <1>n DEF Grown
  <2>6. \A x \in 1..Now : vers'[x] = vers[x]
    BY <1>n DEF Grown
  <2> QED
    BY <1>v, <2>1, <2>2, <2>3, <2>4, <2>5, <2>6 DEF Listing
<1>2. ASSUME NEW o, NEW sel, NEW ix, Begin(o, sel, ix) PROVE Listing'
  BY <1>2 DEF Begin, Fresh, Listing, Shared
<1>3. CASE UNCHANGED vars
  BY <1>n, <1>v, <1>3 DEF vars, Listing, StampOf, FileOf, ListedAs
<1>4. CASE VerifyOuter
  BY <1>n, <1>v, <1>4 DEF VerifyOuter, Listing, Shaped, StampOf, FileOf, ListedAs
<1>5. CASE CaptureStamp
  BY <1>n, <1>v, <1>5 DEF CaptureStamp, Listing, Shaped, StampOf, FileOf, ListedAs
<1>6. CASE CaptureFile
  BY <1>n, <1>v, <1>6 DEF CaptureFile, Listing, Shaped, StampOf, FileOf, ListedAs
<1>7. CASE MatchesStamp
  <2> SUFFICES ASSUME task.op = "list", task.cap.stamp = vers[Now].stamp PROVE Listing'
    BY <1>7 DEF MatchesStamp, Listing, Shaped
  <2>1. PICK v \in 1..Now, w \in 1..Now, x \in 1..Now :
          StampOf(v) /\ FileOf(v, w) /\ ListedAs(w, x)
    BY <1>7 DEF MatchesStamp, Listing
  <2>2. vers[x].stamp = task.cap.stamp
    <3>1. /\ vers[v].stamp <= vers[x].stamp /\ vers[x].stamp <= vers[Now].stamp
          /\ vers[v].stamp = vers[Now].stamp
      <4>1. v <= x /\ x <= Now /\ Now \in 1..Now
        BY <1>n, <2>1 DEF FileOf, ListedAs
      <4> QED
        BY <2>1, <4>1 DEF Versions, StampOf
    <3>2. vers[v].stamp \in Nat /\ vers[x].stamp \in Nat
      BY VersionTypes
    <3> QED
      BY <2>1, <3>1, <3>2 DEF StampOf
  <2>3. task' = [task EXCEPT !.pc = "file"] /\ vers' = vers
    BY <1>7 DEF MatchesStamp
  <2>4. StampOf(v)' /\ FileOf(v, w)' /\ ListedAs(w, x)' /\ vers'[x].stamp = task'.cap.stamp
    BY <1>n, <1>v, <2>1, <2>2, <2>3 DEF StampOf, FileOf, ListedAs, Shaped
  <2>5. task'.pc = "file" /\ task'.op = "list" /\ ~task'.indexed
    BY <2>3 DEF Shaped, Listing
  <2> QED
    BY <1>n, <2>3, <2>4, <2>5 DEF Listing
<1>8. CASE MatchesFile
  BY <1>8, ZenonT(60) DEF MatchesFile, Listing, Shaped
<1>9. CASE Open
  BY <1>n, <1>v, <1>9 DEF Open, Listing, Shaped, StampOf, FileOf, ListedAs
<1>10. CASE ListEntries
  <2> SUFFICES ASSUME task.op = "list" PROVE Listing'
    BY <1>10 DEF ListEntries, Listing, Shaped
  <2>1. PICK v \in 1..Now, w \in 1..Now :
          StampOf(v) /\ FileOf(v, w) /\ task.held \in {None} \cup w..Now
    BY <1>10 DEF ListEntries, Listing
  <2>2. task.kept = None
    BY <1>10 DEF ListEntries, Listing
  <2>3. From \in w..Now
    BY <1>n, <2>1, <2>2 DEF From
  <2>4. /\ task'.op = "list" /\ task'.pc = "stamp" /\ ~task'.indexed /\ vers' = vers
        /\ task'.cap = task.cap /\ task'.entries = Listed(From)
        /\ task'.kept \in {None, From}
    BY <1>10, <2>2 DEF ListEntries, Listing, Shaped
  <2>5. PICK y \in 1..Now : y = From
    BY <1>n
  <2>6. StampOf(v)' /\ FileOf(v, w)' /\ ListedAs(w, y)'
    BY <1>n, <1>v, <2>1, <2>3, <2>4, <2>5 DEF StampOf, FileOf, ListedAs
  <2> QED
    BY <1>n, <2>4, <2>6 DEF Listing
<1>11. CASE ListAgain
  BY <1>n, <1>v, <1>11 DEF ListAgain, Listing, Shaped, StampOf, FileOf, ListedAs
<1>12. CASE Plan
  BY <1>n, <1>v, <1>12 DEF Plan, Listing, Shaped, StampOf, FileOf, ListedAs
<1>13. CASE PassBy
  BY <1>n, <1>v, <1>13 DEF PassBy, Listing, Shaped, StampOf, FileOf, ListedAs
<1>14. CASE Take
  BY <1>n, <1>v, <1>14 DEF Take, Listing, Shaped, StampOf, FileOf, ListedAs
<1>15. CASE Refuse
  BY <1>n, <1>v, <1>15 DEF Refuse, Listing, Shaped, StampOf, FileOf, ListedAs
<1>16. CASE Unpaired
  BY <1>n, <1>v, <1>16 DEF Unpaired, Listing, Shaped, StampOf, FileOf, ListedAs
<1>17. CASE LookUp
  BY <1>n, <1>v, <1>17 DEF LookUp, Listing, Shaped, StampOf, FileOf, ListedAs
<1>18. CASE RefuseFound
  BY <1>n, <1>v, <1>18 DEF RefuseFound, Listing, Shaped, StampOf, FileOf, ListedAs
<1>19. CASE NotFound
  BY <1>n, <1>v, <1>19 DEF NotFound, Listing, Shaped, StampOf, FileOf, ListedAs
<1>20. CASE Finish
  BY <1>n, <1>v, <1>20 DEF Finish, Listing, Shaped, StampOf, FileOf, ListedAs
<1>21. CASE Cancelled
  BY <1>n, <1>v, <1>21 DEF Cancelled, Listing, Shaped, StampOf, FileOf, ListedAs
<1>22. CASE ReadFails
  BY <1>n, <1>v, <1>22 DEF ReadFails, Listing, Shaped, StampOf, FileOf, ListedAs
<1> QED
  BY <1>1, <1>2, <1>3, <1>4, <1>5, <1>6, <1>7, <1>8, <1>9, <1>10, <1>11, <1>12, <1>13,
     <1>14, <1>15, <1>16, <1>17, <1>18, <1>19, <1>20, <1>21, <1>22 DEF Next, Others

\* The index changes at the end of a listing only.
LEMMA IndexStep ==
  ASSUME Versions, Shaped, Known, Listing, IndexIsOneVersion, [Next]_vars
  PROVE  IndexIsOneVersion'
<1>n. /\ Grown /\ Now \in Nat /\ Now' \in Nat /\ Now >= 1
      /\ \A v \in 1..Now : v \in 1..Now' /\ Listed(v)' = Listed(v) /\ vers'[v] = vers[v]
  <2>1. Grown /\ Now \in Nat /\ Now' \in Nat /\ Now >= 1
    BY VersionsStep, LenProperties DEF Versions, Now
  <2> QED
    BY <2>1, ListedStays DEF Grown
<1>1. CASE UNCHANGED index
  BY <1>n, <1>1 DEF IndexIsOneVersion
<1>2. CASE MatchesFile /\ task.op = "list" /\ SameFile(task.cap)
  <2>1. PICK v \in 1..Now, w \in 1..Now, x \in 1..Now :
          StampOf(v) /\ FileOf(v, w) /\ ListedAs(w, x) /\ vers[x].stamp = task.cap.stamp
    BY <1>2 DEF MatchesFile, Listing, At
  <2>2. vers[x].file = task.cap.file
    <3>1. w <= x /\ x <= Now /\ Now \in 1..Now
      BY <1>n, <2>1 DEF ListedAs
    <3>2. vers[w].file <= vers[x].file /\ vers[x].file <= vers[Now].file
      BY <3>1 DEF Versions
    <3>3. vers[w].file = task.cap.file /\ vers[Now].file = task.cap.file
      BY <1>2, <2>1 DEF FileOf, SameFile
    <3>4. vers[w].file \in Nat /\ vers[x].file \in Nat
      BY VersionTypes
    <3> QED
      BY <3>2, <3>3, <3>4
  <2>3. /\ index'.stamp = task.cap.stamp /\ index'.file = task.cap.file
        /\ index'.entries = task.entries /\ index'.kept \in {None, task.kept}
    BY <1>2 DEF MatchesFile, Shaped
  <2> QED
    BY <1>n, <2>1, <2>2, <2>3 DEF IndexIsOneVersion, ListedAs
<1>3. UNCHANGED index \/ (MatchesFile /\ task.op = "list" /\ SameFile(task.cap))
  BY
    DEF Next, vars, To, Replace, Rewrite, Begin, MatchesFile, VerifyOuter, CaptureStamp,
        CaptureFile, MatchesStamp, Open, ListEntries, ListAgain, Plan, PassBy, Take,
        Refuse, Unpaired, LookUp, RefuseFound, NotFound, Finish, Cancelled, ReadFails
<1> QED
  BY <1>1, <1>2, <1>3

-----------------------------------------------------------------------------

\* The invariant holds at first,
LEMMA InitInv == Init => IInv
<1> SUFFICES ASSUME Init PROVE IInv
  OBVIOUS
<1>1. PICK s \in Shapes : vers = <<[names |-> s, stamp |-> 1, file |-> 1]>>
  BY DEF Init
<1>2. Now = 1 /\ vers[1] = [names |-> s, stamp |-> 1, file |-> 1]
  BY <1>1 DEF Now
<1>3. vers \in Seq([names : Shapes, stamp : Nat \ {None}, file : Nat \ {None}])
  BY <1>1 DEF None
<1>4. Versions
  BY <1>2, <1>3 DEF Versions
<1>5. Shaped /\ Known /\ Listing /\ Headed /\ Delivered
  BY <1>2 DEF Init, Fresh, NoIndex, None, Shaped, Known, Listing, Headed, Delivered
<1>6. IndexIsOneVersion
  BY DEF Init, IndexIsOneVersion
<1> QED
  BY <1>4, <1>5, <1>6 DEF IInv

\* and every step keeps it.
LEMMA StepInv == IInv /\ [Next]_vars => IInv'
  BY VersionsStep, ShapedStep, KnownStep, ListingStep, HeadedStep, DeliveredStep, IndexStep
     DEF IInv

\* The window's index, and the decoded stream kept with it, are those of the
\* very version whose length, time and identity it records (engine::list).
THEOREM IndexOfOneVersion == Spec => []IndexIsOneVersion
<1>1. IInv => IndexIsOneVersion
  BY DEF IInv
<1> QED
  BY <1>1, InitInv, StepInv, PTL DEF Spec

\* What any reader delivers under a name is a payload of that name, in the
\* version it was read from (visit_tar_archive, extract_entry of the lookups).
THEOREM OwnIsDelivered == Spec => []DeliveredIsOwn
<1>1. IInv => DeliveredIsOwn
  BY DEF IInv, Delivered, DeliveredIsOwn
<1> QED
  BY <1>1, InitInv, StepInv, PTL DEF Spec
-----------------------------------------------------------------------------
\* What an operation that succeeds has done.  The invariant says how far an operation
\* has come that is on the archive as it is.

\* The entries an operation is after.
Want == IF task.sel = {} THEN Names ELSE task.sel
Wanted(v) == Only(Recs(v), Want)

ByRecord == fmt.walk # "lookup"

\* The kinds of things an operation holds.
Typed ==
  /\ fmt \in Formats /\ \A v \in 1..Now : Possible(Recs(v))
  /\ index.entries \in Seq(Names)
  /\ task.op \in WindowOps \cup CliOps /\ task.sel \subseteq Names
  /\ task.indexed \in BOOLEAN /\ task.failed \in BOOLEAN
  /\ task.begun \in 0..Now
  /\ task.entries \in Seq(Names) /\ task.seen \in Seq(Names \cup {Meta})
  /\ task.pc # "idle" => task.result = "none"

\* What each operation may be asked for, and the places only some come to.
Request ==
  /\ task.op \notin {"extract", "preview"} => task.sel = {}
  /\ task.op = "preview" => task.indexed /\ \E n \in Names : task.sel = {n}
  /\ task.op \in {"list"} \cup CliOps => ~task.indexed
  /\ task.op = "unpack" => fmt \notin Streams
  /\ task.pc = "outer" => task.op \in {"verify", "test"}
  /\ task.pc = "outer" => fmt.outer \/ fmt \in Streams
  /\ task.pc = "entries" => ~task.indexed
  /\ task.pc = "again" => task.op = "unpack"
  /\ task.pc \in {"capture", "capture2"} => task.op = "list"

\* The index in use records one version, which need not be there any more.
Recorded ==
  task.indexed =>
    /\ \E v \in 1..Now :
         /\ vers[v].stamp = task.cap.stamp /\ vers[v].file = task.cap.file
         /\ task.cap.entries = Listed(v) /\ task.cap.kept \in {None, v}
    /\ task.pc \in {"outer", "stamp", "file"} =>
         task.entries = task.cap.entries /\ task.kept \in {None, task.cap.kept}

\* An operation on an archive that has not changed since it began ...
Current == task.begun = Now /\ task.op # "list"

\* ... before the reader is opened,
Before ==
  Current /\ task.pc \in {"outer", "stamp", "file"} =>
    /\ task.held = None /\ task.seen = <<>> /\ ~task.failed
    /\ task.op = "verify" \/ ~task.indexed => task.kept = None
    /\ task.pc # "outer" =>
         task.indexed /\ (fmt.outer /\ task.op = "verify" => Outer \in task.read)
    /\ task.pc = "file" => task.cap.stamp = vers[Now].stamp

\* ... while it is,
Opening ==
  Current /\ task.pc \in {"open", "entries", "again", "plan", "walk"} =>
    /\ task.held \in {None, Now} /\ task.kept \in {None, Now}
    /\ fmt.outer /\ task.op = "verify" => Outer \in task.read
    /\ task.op = "test" => ~fmt.outer /\ fmt \notin Streams
    /\ task.op = "verify" /\ task.kept # None => 1 \in task.read
    /\ fmt.checks /\ task.pc # "open" => 1..Len(Recs(Now)) \subseteq task.read
    /\ task.indexed /\ task.pc = "open" => task.entries = Listed(Now)
    /\ task.pc \in {"again", "plan"} /\ (task.op = "test" => ~ByRecord) =>
         task.entries = Listed(Now)
    /\ task.pc # "walk" => task.seen = <<>> /\ ~task.failed

\* ... and when it has come to record or entry k of what it walks:
Walking ==
  Current /\ task.pc = "walk" =>
    /\ ByRecord => task.pass = Now /\ task.k <= Len(Recs(Now)) + 1
    /\ ~ByRecord => task.k <= Len(task.entries) + 1
    /\ task.op = "preview" =>
         task.seen = <<>> /\ task.entries = <<Sole(task.sel)>>
    /\ task.op # "preview" /\ (task.op = "test" => ~ByRecord) => task.entries = Wanted(Now)

\* what lies before it that was wanted has been handled,
Due(k) ==
  IF ByRecord THEN Only(SubSeq(Recs(Now), 1, k - 1), Want)
  ELSE SubSeq(task.entries, 1, k - 1)

Handling ==
  Current /\ task.pc = "walk" /\ task.op \in {"extract", "unpack"} /\ ~task.failed =>
    EntriesOf(task.seen) = Due(task.k)

\* and decoded.
Done(i) ==
  IF ByRecord THEN IsEntry(Recs(Now)[i]) => i \in task.read
  ELSE Found(Now, task.entries[i]) \in task.read

Decoding ==
  Current /\ task.pc = "walk" /\ task.op \in {"verify", "test"} =>
    ~task.failed /\ \A i \in 1..(task.k - 1) : Done(i)

\* Inductive: how far an operation has come, and what success then means.
WholeInv ==
  /\ Typed /\ Request /\ Recorded /\ Before /\ Opening /\ Walking /\ Handling /\ Decoding
  /\ SuccessIsWhole /\ VerifiedIsWhole

-----------------------------------------------------------------------------
\* What the formats have in common.

Regular(f) ==
  /\ f.own = "7z" => f.meta = "none" /\ f.walk = "drain"
  /\ f.checks => f.walk = "lookup"
  /\ f.tail => f.walk = "drain"
  /\ f.outer => f.walk = "lookup"
  /\ f.walk \in {"drain", "leap", "whole", "scan", "lookup"}

\* What is said of the readers holds of each.
LEMMA FormatFacts ==
  ASSUME fmt \in Formats
  PROVE  Regular(fmt) /\ (fmt \in Streams => fmt.walk = "lookup" /\ fmt.meta = "none")
<1> USE DEF Regular, Lookup
<1>1. Regular(Lookup) /\ Regular(TarStream) /\ Regular(ByName)
  BY DEF TarStream, ByName
<1>2. Regular(TarReader) /\ Regular(ZipReader) /\ Regular(LzhReader)
  BY DEF TarReader, ZipReader, LzhReader
<1>3. Regular(SevenZipReader) /\ Regular(RarReader) /\ Regular(CpioReader)
  BY DEF SevenZipReader, RarReader, CpioReader
<1>4. Regular(UdfReader) /\ Regular(ZpaqReader) /\ Regular(AsarReader)
  BY DEF UdfReader, ZpaqReader, AsarReader, ByName
<1>5. Regular(AlzReader) /\ Regular(EggReader) /\ Regular(IszImage)
  BY DEF AlzReader, EggReader, IszImage
<1>6. Regular(PeaReader) /\ Regular(NsisReader)
  BY DEF PeaReader, NsisReader
<1>7. Regular(StreamReader) /\ Regular(AesStream)
  BY DEF StreamReader, AesStream
<1>8. fmt \in Streams => fmt.walk = "lookup" /\ fmt.meta = "none"
  BY DEF Streams, StreamReader, AesStream
<1> HIDE DEF Regular, Lookup
<1>9. Regular(fmt)
  BY <1>1, <1>2, <1>3, <1>4, <1>5, <1>6, <1>7
     DEF Formats, TarGzReader, TarBz2Reader, TarXzReader, TarZstReader, TarBrReader,
         TarLz4Reader, TarLzReader, DebReader, DebPayload, CabReader, ArjReader, AceReader,
         ArcReader, IsoReader, WimReader, DiskImageReader, CompoundReader
<1> QED
  BY <1>8, <1>9

\* Two versions differ in length and time, or in the file.
LEMMA OneOfAKind ==
  ASSUME Versions, NEW v \in 1..Now, NEW w \in 1..Now,
         vers[v].stamp = vers[w].stamp, vers[v].file = vers[w].file
  PROVE  v = w
<1>1. /\ vers[v].stamp \in Nat /\ vers[v].file \in Nat
      /\ vers[w].stamp \in Nat /\ vers[w].file \in Nat
  BY VersionTypes
<1>2. /\ vers[v].stamp <= v /\ vers[v].file <= v /\ (vers[v].stamp = v \/ vers[v].file = v)
      /\ vers[w].stamp <= w /\ vers[w].file <= w /\ (vers[w].stamp = w \/ vers[w].file = w)
  BY DEF Versions
<1>3. Now \in Nat
  BY LenProperties DEF Versions, Now
<1> QED
  BY <1>1, <1>2, <1>3

\* The records of a version, and its entries.
LEMMA RecordTypes ==
  ASSUME Versions, NEW v \in 1..Now
  PROVE  /\ Recs(v) \in Seq(Names \cup {Meta}) /\ Len(Recs(v)) \in Nat
         /\ Listed(v) \in Seq(Names)
         /\ \A n : Has(Listed(v), n) <=> Has(Recs(v), n) /\ n \in Names
<1>1. Recs(v) \in Seq(Names \cup {Meta})
  BY VersionTypes, ReadingAssumption DEF Recs
<1>2. Only(Recs(v), Names) \in Seq((Names \cup {Meta}) \cap Names)
  BY <1>1, OnlyTypes
<1>3. (Names \cup {Meta}) \cap Names = Names
  OBVIOUS
<1>4. Listed(v) \in Seq(Names)
  BY <1>2, <1>3 DEF Listed, EntriesOf
<1>5. \A n : Has(Listed(v), n) <=> Has(Recs(v), n) /\ n \in Names
  BY <1>1, OnlyHas DEF Listed, EntriesOf
<1> QED
  BY <1>1, <1>4, <1>5, LenProperties

\* A selection of a listing is what is wanted of the version.
LEMMA WantedTypes ==
  ASSUME Versions, task.sel \subseteq Names, NEW v \in 1..Now
  PROVE  /\ Selected(Listed(v), task.sel) = Wanted(v)
         /\ Wanted(v) \in Seq(Names)
         /\ \A n : Has(Wanted(v), n) <=> Has(Recs(v), n) /\ n \in Want
         /\ Want \subseteq Names
<1>1. Recs(v) \in Seq(Names \cup {Meta}) /\ Want \subseteq Names
  BY RecordTypes DEF Want
<1>2. Wanted(v) \in Seq((Names \cup {Meta}) \cap Want)
  BY <1>1, OnlyTypes DEF Wanted
<1>3. Wanted(v) \in Seq(Names)
  BY <1>1, <1>2
<1>4. Only(Only(Recs(v), Names), task.sel) = Only(Recs(v), Names \cap task.sel)
  BY <1>1, OnlyTwice
<1>5. Names \cap task.sel = task.sel
  OBVIOUS
<1>6. Selected(Listed(v), task.sel) = Wanted(v)
  BY <1>4, <1>5 DEF Selected, Wanted, Want, Listed, EntriesOf
<1>7. \A n : Has(Wanted(v), n) <=> Has(Recs(v), n) /\ n \in Want
  BY <1>1, OnlyHas DEF Wanted
<1> QED
  BY <1>1, <1>3, <1>6, <1>7
-----------------------------------------------------------------------------
\* What an operation is after is settled when it begins; versions come from others.
Settled ==
  /\ UNCHANGED <<fmt, vers>> /\ Shaped /\ Versions
  /\ task'.op = task.op /\ task'.sel = task.sel /\ task'.indexed = task.indexed
  /\ task'.begun = task.begun

\* All steps but the beginning of an operation leave settled what it is after.
LEMMA StepsSettled ==
  ASSUME Versions, Shaped
  PROVE  /\ UNCHANGED vars => Settled
         /\ VerifyOuter => Settled
         /\ CaptureStamp => Settled
         /\ CaptureFile => Settled
         /\ MatchesStamp => Settled
         /\ MatchesFile => Settled
         /\ Open => Settled
         /\ ListEntries => Settled
         /\ ListAgain => Settled
         /\ Plan => Settled
         /\ PassBy => Settled
         /\ Take => Settled
         /\ Refuse => Settled
         /\ Unpaired => Settled
         /\ LookUp => Settled
         /\ RefuseFound => Settled
         /\ NotFound => Settled
         /\ Finish => Settled
         /\ Cancelled => Settled
         /\ ReadFails => Settled
<1> USE DEF To, Go, Ended, Drained, Passed, Used, Trailing, Passing, Looking, At, Settled
<1>1. UNCHANGED vars => Settled
  BY DEF vars
<1>2. VerifyOuter => Settled
  BY DEF VerifyOuter, Shaped
<1>3. CaptureStamp => Settled
  BY DEF CaptureStamp, Shaped
<1>4. CaptureFile => Settled
  BY DEF CaptureFile, Shaped
<1>5. MatchesStamp => Settled
  BY DEF MatchesStamp, Shaped
<1>6. MatchesFile => Settled
  BY DEF MatchesFile, Shaped
<1>7. Open => Settled
  BY DEF Open, Shaped
<1>8. ListEntries => Settled
  BY DEF ListEntries, Shaped
<1>9. ListAgain => Settled
  BY DEF ListAgain, Shaped
<1>10. Plan => Settled
  BY DEF Plan, Shaped
<1>11. PassBy => Settled
  BY DEF PassBy, Shaped
<1>12. Take => Settled
  BY DEF Take, Shaped
<1>13. Refuse => Settled
  BY DEF Refuse, Shaped
<1>14. Unpaired => Settled
  BY DEF Unpaired, Shaped
<1>15. LookUp => Settled
  BY DEF LookUp, Shaped
<1>16. RefuseFound => Settled
  BY DEF RefuseFound, Shaped
<1>17. NotFound => Settled
  BY DEF NotFound, Shaped
<1>18. Finish => Settled
  BY DEF Finish, Shaped
<1>19. Cancelled => Settled
  BY DEF Cancelled, Shaped
<1>20. ReadFails => Settled
  BY DEF ReadFails, Shaped
<1> QED
  BY <1>1, <1>2, <1>3, <1>4, <1>5, <1>6, <1>7, <1>8, <1>9, <1>10, <1>11, <1>12, <1>13,
     <1>14, <1>15, <1>16, <1>17, <1>18, <1>19, <1>20

\* Steps that do not end at the walk, and those that do not end in success.
OffTheWalk ==
  \/ VerifyOuter \/ CaptureStamp \/ CaptureFile \/ MatchesStamp \/ MatchesFile \/ Open
  \/ ListEntries \/ ListAgain \/ Finish \/ Cancelled

Unsuccessful ==
  \/ CaptureStamp \/ CaptureFile \/ MatchesStamp \/ ListEntries \/ ListAgain \/ Plan
  \/ PassBy \/ Refuse \/ Unpaired \/ RefuseFound \/ NotFound \/ Cancelled \/ ReadFails

\* They do what they say.
LEMMA OffSteps == ASSUME Versions, Shaped, OffTheWalk PROVE Settled /\ task'.pc # "walk"
<1> USE DEF To, Go, Ended, Drained, Passed, Used, Trailing, Passing, Looking, At
<1>1. Settled
  BY StepsSettled DEF OffTheWalk
<1>2. task'.pc # "walk"
  BY ZenonT(60) DEF OffTheWalk, Shaped, VerifyOuter, CaptureStamp, CaptureFile, MatchesStamp,
                             MatchesFile, Open, ListEntries, ListAgain, Finish, Cancelled
<1> QED
  BY <1>1, <1>2

LEMMA UnsuccessfulSteps ==
  ASSUME Versions, Shaped, Typed, Unsuccessful PROVE Settled /\ task'.result # "ok"
<1> USE DEF To, Go, Ended, Drained, Passed, Used, Trailing, Passing, Looking, At
<1>1. Settled
  BY StepsSettled DEF Unsuccessful
<1>2. task'.result # "ok"
  BY DEF Unsuccessful, Typed, Shaped, CaptureStamp, CaptureFile, MatchesStamp, ListEntries,
                                      ListAgain, Plan, PassBy, Refuse, Unpaired,
                                      RefuseFound, NotFound, Cancelled, ReadFails
<1> QED
  BY <1>1, <1>2

\* What depends on that alone stays as it is.
LEMMA SettledStays ==
  ASSUME Settled
  PROVE  /\ Now' = Now /\ vers' = vers /\ fmt' = fmt
         /\ ByRecord' = ByRecord /\ Want' = Want /\ Current' = Current
<1>1. Now' = Now /\ vers' = vers /\ fmt' = fmt
  BY DEF Now, Settled
<1>2. ByRecord' = ByRecord /\ Want' = Want /\ Current' = Current
  BY <1>1 DEF ByRecord, Want, Current, Settled
<1> QED
  BY <1>1, <1>2

\* What is found in the archive stays as it is.
LEMMA CurrentStays ==
  ASSUME Settled
  PROVE  /\ Recs(Now)' = Recs(Now) /\ Listed(Now)' = Listed(Now) /\ Wanted(Now)' = Wanted(Now)
         /\ \A n : Found(Now, n)' = Found(Now, n)
<1>1. Now' = Now /\ fmt' = fmt /\ Want' = Want
  BY SettledStays
<1>2. Recs(Now)' = Recs(Now)
  BY <1>1 DEF Recs, Settled
<1>3. Listed(Now)' = Listed(Now)
  BY <1>2 DEF Listed
<1>4. Wanted(Now)' = Wanted(Now)
  BY <1>1, <1>2 DEF Wanted
<1>5. \A n : Found(Now, n)' = Found(Now, n)
  BY <1>1, <1>2 DEF Found
<1> QED
  BY <1>2, <1>3, <1>4, <1>5

\* Once others have changed the archive, no operation under way is on the current one.
LEMMA Outdated ==
  ASSUME Versions, Shaped, Known, Typed, Others
  PROVE  /\ task' = task /\ index' = index /\ Grown /\ fmt' = fmt
         /\ Now' \in Nat /\ task.begun # Now' /\ ~Current'
<1>1. task' = task /\ index' = index /\ fmt' = fmt
  BY DEF Others, Replace, Rewrite
<1>2. Now \in Nat /\ Now' = Now + 1
  <2>1. PICK e : vers' = Append(vers, e)
    BY DEF Others, Replace, Rewrite
  <2>2. Now \in Nat
    BY LenProperties DEF Versions, Now
  <2> QED
    BY <2>1, <2>2 DEF Now, Versions
<1>3. Grown
  BY VersionsStep DEF Next, Others
<1> QED
  BY <1>1, <1>2, <1>3 DEF Typed, Current
-----------------------------------------------------------------------------
\* The kinds of things.

\* What the walk comes to is a name, or that of a record that is no entry.
LEMMA NameTypes ==
  ASSUME Versions, Known, Headed, Typed
  PROVE  /\ Passing => Recs(task.pass)[task.k] \in Names \cup {Meta}
         /\ Passing /\ Paired => NameAt \in Names \cup {Meta}
         /\ Looking => task.entries[task.k] \in Names
<1>1. Passing => task.pass \in 1..Now /\ task.k \in 1..Len(Recs(task.pass))
  BY RecordTypes DEF Passing, At, Known, Headed
<1>2. Passing => Recs(task.pass)[task.k] \in Names \cup {Meta}
  BY <1>1, RecordTypes, ElementOfSeq
<1>3. Len(task.entries) \in Nat /\ \A i \in 1..Len(task.entries) : task.entries[i] \in Names
  BY ElementOfSeq, LenProperties DEF Typed
<1>4. Passing /\ Paired /\ ByPosition => NameAt \in Names
  BY <1>3 DEF Paired, NameAt, Headed
<1>5. Looking => task.entries[task.k] \in Names
  BY <1>3 DEF Looking, Headed
<1> QED
  BY <1>2, <1>4, <1>5 DEF NameAt

Kinds ==
  /\ task.op \in WindowOps \cup CliOps /\ task.sel \subseteq Names
  /\ task.indexed \in BOOLEAN /\ task.failed \in BOOLEAN
  /\ task.entries \in Seq(Names) /\ task.seen \in Seq(Names \cup {Meta})
  /\ task.pc # "idle" => task.result = "none"

\* A task keeps the kinds of what it holds.
LEMMA KindsStep ==
  ASSUME IInv, Typed, Request, [Next]_vars PROVE Kinds'
<1> USE DEF To, Go, Ended, Drained, Passed, Used, Trailing, Passing, Looking, At
<1>n. /\ Kinds /\ Shaped /\ Listed(From) \in Seq(Names)
      /\ index.entries \in Seq(Names) /\ <<>> \in Seq(Names) /\ <<>> \in Seq(Names \cup {Meta})
  BY FromKnown, RecordTypes DEF IInv, Typed, Kinds
<1>m. \A n \in Names \cup {Meta} : Append(task.seen, n) \in Seq(Names \cup {Meta})
  BY <1>n DEF Kinds
<1>1. CASE Others
  BY <1>n, <1>1 DEF Others, Replace, Rewrite, Kinds

<1>2. ASSUME NEW o \in WindowOps \cup CliOps, NEW sel \in SUBSET Names,
               NEW ix \in BOOLEAN, Begin(o, sel, ix)
        PROVE  Kinds'
  BY <1>n, <1>2 DEF Begin, Fresh, Kinds, WindowOps, CliOps

<1>3. CASE UNCHANGED vars
  BY <1>n, <1>3 DEF vars, Kinds

<1>4. CASE VerifyOuter
  BY <1>n, <1>4 DEF VerifyOuter, Kinds, Shaped
<1>5. CASE CaptureStamp
  BY <1>n, <1>5 DEF CaptureStamp, Kinds, Shaped
<1>6. CASE CaptureFile
  BY <1>n, <1>6 DEF CaptureFile, Kinds, Shaped
<1>7. CASE MatchesStamp
  BY <1>n, <1>7 DEF MatchesStamp, Kinds, Shaped
<1>8. CASE MatchesFile
  BY <1>n, <1>8 DEF MatchesFile, Kinds, Shaped
<1>9. CASE Open
  BY <1>n, <1>9 DEF Open, Kinds, Shaped
<1>10. CASE ListEntries
  BY <1>n, <1>10 DEF ListEntries, Kinds, Shaped
<1>11. CASE ListAgain
  BY <1>n, <1>11 DEF ListAgain, Kinds, Shaped
<1>12. CASE Plan
  <2> DEFINE one == Sole(task.sel)
  <2>1. Selected(task.entries, task.sel) \in Seq(Names)
    <3>1. Only(task.entries, task.sel) \in Seq(Names \cap task.sel)
      BY <1>n, OnlyTypes DEF Kinds
    <3> QED
      BY <1>n, <3>1 DEF Selected, Kinds
  <2>2. task.op = "preview" => <<one>> \in Seq(Names)
    <3>1. task.op = "preview" => one \in Names
      BY DEF Request, Sole
    <3> HIDE DEF one
    <3> QED
      BY <3>1
  <2>3. /\ task'.entries \in {task.entries, <<one>>, Selected(task.entries, task.sel)}
        /\ task'.entries = <<one>> => task.op = "preview" \/ task'.entries \in Seq(Names)
        /\ task.op # "preview" => task'.entries \in {task.entries, Selected(task.entries, task.sel)}
    BY <1>n, <2>1, <1>12 DEF Plan, Shaped, Kinds
  <2>4. task'.entries \in Seq(Names)
    <3> HIDE DEF one
    <3> QED
      BY <1>n, <2>1, <2>2, <2>3 DEF Kinds
  <2> QED
    BY <1>n, <2>4, <1>12 DEF Plan, Kinds, Shaped
<1>13. CASE PassBy
  BY <1>n, <1>13 DEF PassBy, Kinds, Shaped
<1>14. CASE Take
  <2>1. NameAt \in Names \cup {Meta}
    BY <1>14, NameTypes DEF IInv, Take
  <2> HIDE DEF Passing
  <2> QED
    BY <1>n, <1>m, <2>1, <1>14 DEF Take, Kinds, Shaped
<1>15. CASE Refuse
  <2>1. NameAt \in Names \cup {Meta}
    BY <1>15, NameTypes DEF IInv, Refuse
  <2> HIDE DEF Passing
  <2> QED
    BY <1>n, <1>m, <2>1, <1>15 DEF Refuse, Kinds, Shaped
<1>16. CASE Unpaired
  BY <1>n, <1>16 DEF Unpaired, Kinds, Shaped
<1>17. CASE LookUp
  <2>1. task.entries[task.k] \in Names
    BY <1>17, NameTypes DEF IInv, LookUp
  <2> HIDE DEF Looking
  <2> QED
    BY <1>n, <1>m, <2>1, <1>17 DEF LookUp, Kinds, Shaped
<1>18. CASE RefuseFound
  <2>1. task.entries[task.k] \in Names
    BY <1>18, NameTypes DEF IInv, RefuseFound
  <2> HIDE DEF Looking
  <2> QED
    BY <1>n, <1>m, <2>1, <1>18 DEF RefuseFound, Kinds, Shaped
<1>19. CASE NotFound
  BY <1>n, <1>19 DEF NotFound, Kinds, Shaped
<1>20. CASE Finish
  BY <1>n, <1>20 DEF Finish, Kinds, Shaped
<1>21. CASE Cancelled
  BY <1>n, <1>21 DEF Cancelled, Kinds, Shaped
<1>22. CASE ReadFails
  BY <1>n, <1>22 DEF ReadFails, Kinds, Shaped
<1> QED
  BY <1>1, <1>2, <1>3, <1>4, <1>5, <1>6, <1>7, <1>8, <1>9, <1>10, <1>11, <1>12, <1>13,
     <1>14, <1>15, <1>16, <1>17, <1>18, <1>19, <1>20, <1>21, <1>22 DEF Next, Others

\* So do the versions, the index and the operation.
LEMMA TypedStep ==
  ASSUME IInv, Typed, Request, [Next]_vars PROVE Typed'
<1>n. /\ Grown /\ fmt' = fmt /\ Now \in Nat /\ Now' \in Nat /\ Versions /\ Shaped /\ Known
      /\ Others \/ UNCHANGED vers
  BY VersionsStep, LenProperties DEF IInv, Versions, Now
<1>1. Kinds'
  BY KindsStep
<1>2. \A v \in 1..Now' : Possible(Recs(v))'
  <2>1. CASE UNCHANGED vers
    BY <1>n, <2>1 DEF Typed, Possible, Recs, Now
  <2>2. CASE Others
    <3>1. PICK s \in Shapes : Possible(s) /\ \E e : e.names = s /\ vers' = Append(vers, e)
      BY <2>2 DEF Others, Replace, Rewrite
    <3>2. PICK e : e.names = s /\ vers' = Append(vers, e)
      BY <3>1
    <3>3. Now' = Now + 1 /\ vers'[Now + 1] = e
      BY <3>2 DEF Now, Versions
    <3>4. \A v \in 1..Now : Recs(v)' = Recs(v)
      BY <1>n, ListedStays
    <3>5. ASSUME NEW v \in 1..Now' PROVE Possible(Recs(v))'
      <4>1. CASE v \in 1..Now
        BY <1>n, <3>4, <4>1 DEF Typed, Possible
      <4>2. CASE v = Now + 1
        <5>1. Recs(v)' = s
          BY <3>2, <3>3, <4>2 DEF Recs
        <5> QED
          BY <1>n, <3>1, <5>1 DEF Possible
      <4> QED
        BY <1>n, <3>3, <4>1, <4>2
    <3> QED
      BY <3>5
  <2> QED
    BY <1>n, <2>1, <2>2
<1>3. index'.entries \in Seq(Names)
  <2>1. index'.entries \in {index.entries, task.entries}
    BY <1>n DEF Next, vars, To, Replace, Rewrite, Begin, MatchesFile, VerifyOuter, CaptureStamp,
        CaptureFile, MatchesStamp, Open, ListEntries, ListAgain, Plan, PassBy, Take,
        Refuse, Unpaired, LookUp, RefuseFound, NotFound, Finish, Cancelled, ReadFails, Shaped
  <2> QED
    BY <2>1 DEF Typed
<1>4. task'.begun \in 0..Now'
  <2>1. task'.begun = Now \/ task'.begun = task.begun
    <3>1. Settled => task'.begun = task.begun
      BY DEF Settled
    <3>2. Others => task'.begun = task.begun
      BY DEF Others, Replace, Rewrite
    <3>3. \A o, sel, ix : Begin(o, sel, ix) => task'.begun = Now
      BY DEF Begin, Fresh
    <3> QED
      BY <1>n, <3>1, <3>2, <3>3, StepsSettled DEF Next, Others
  <2> QED
    BY <1>n, <2>1 DEF Typed, Grown
<1> QED
  BY <1>n, <1>1, <1>2, <1>3, <1>4 DEF Typed, Kinds
-----------------------------------------------------------------------------
\* What an operation is asked for, and the index it uses.

\* An operation stays what it was asked for.
LEMMA RequestStep ==
  ASSUME Versions, Shaped, Listing, Request, [Next]_vars PROVE Request'
<1> USE DEF To, Go, Ended, Drained, Passed, Used, Trailing, Passing, Looking, At
<1>1. CASE Others
  BY <1>1 DEF Others, Replace, Rewrite, Request

<1>2. ASSUME NEW o \in WindowOps \cup CliOps, NEW sel \in SUBSET Names,
               NEW ix \in BOOLEAN, Begin(o, sel, ix)
        PROVE  Request'
  BY <1>2 DEF Begin, Fresh, Request, WindowOps, CliOps

<1>3. CASE UNCHANGED vars
  BY <1>3 DEF vars, Request

<1>4. CASE VerifyOuter
  BY <1>4 DEF VerifyOuter, Request, Shaped
<1>5. CASE CaptureStamp
  BY <1>5 DEF CaptureStamp, Request, Shaped
<1>6. CASE CaptureFile
  BY <1>6 DEF CaptureFile, Request, Shaped
<1>7. CASE MatchesStamp
  BY <1>7 DEF MatchesStamp, Request, Shaped
<1>8. CASE MatchesFile
  BY <1>8, ZenonT(60) DEF MatchesFile, Request, Shaped
<1>9. CASE Open
  BY <1>9 DEF Open, Request, Shaped
<1>10. CASE ListEntries
  BY <1>10 DEF ListEntries, Request, Shaped
<1>11. CASE ListAgain
  BY <1>11 DEF ListAgain, Request, Shaped
<1>12. CASE Plan
  BY <1>12 DEF Plan, Request, Shaped
<1>13. CASE PassBy
  BY <1>13 DEF PassBy, Request, Shaped
<1>14. CASE Take
  BY <1>14 DEF Take, Request, Shaped
<1>15. CASE Refuse
  BY <1>15 DEF Refuse, Request, Shaped
<1>16. CASE Unpaired
  BY <1>16 DEF Unpaired, Request, Shaped
<1>17. CASE LookUp
  BY <1>17 DEF LookUp, Request, Shaped
<1>18. CASE RefuseFound
  BY <1>18 DEF RefuseFound, Request, Shaped
<1>19. CASE NotFound
  BY <1>19 DEF NotFound, Request, Shaped
<1>20. CASE Finish
  BY <1>20 DEF Finish, Request, Shaped
<1>21. CASE Cancelled
  BY <1>21 DEF Cancelled, Request, Shaped
<1>22. CASE ReadFails
  BY <1>22 DEF ReadFails, Request, Shaped
<1> QED
  BY <1>1, <1>2, <1>3, <1>4, <1>5, <1>6, <1>7, <1>8, <1>9, <1>10, <1>11, <1>12, <1>13,
     <1>14, <1>15, <1>16, <1>17, <1>18, <1>19, <1>20, <1>21, <1>22 DEF Next, Others

\* Version v is the one of the index in use.
RecordOf(v) ==
  /\ vers[v].stamp = task.cap.stamp /\ vers[v].file = task.cap.file
  /\ task.cap.entries = Listed(v) /\ task.cap.kept \in {None, v}

\* The index in use stays the one the operation began with.
LEMMA RecordedStep ==
  ASSUME IInv, Typed, Request, Recorded, [Next]_vars PROVE Recorded'
<1> USE DEF To, Go, Ended, Drained, Passed, Used, Trailing, Passing, Looking, At
<1>n. /\ Versions /\ Shaped /\ Grown /\ Now \in Nat /\ Now' \in Nat /\ IndexIsOneVersion
      /\ UNCHANGED vers => Now' = Now
  BY VersionsStep, LenProperties DEF IInv, Versions, Now
<1>v. \A v \in 1..Now : v \in 1..Now' /\ Listed(v)' = Listed(v) /\ vers'[v] = vers[v]
  BY <1>n, ListedStays DEF Grown
<1>w. task.indexed => \E v \in 1..Now : RecordOf(v)
  BY DEF Recorded, RecordOf
<1>x. task'.cap = task.cap => \A v \in 1..Now : RecordOf(v) => RecordOf(v)'
  BY <1>v DEF RecordOf
<1>y. task'.indexed = task.indexed /\ task'.cap = task.cap
        => (task'.indexed => \E v \in 1..Now' : RecordOf(v)')
  BY <1>v, <1>w, <1>x
<1>z. /\ task'.indexed => \E v \in 1..Now' : RecordOf(v)'
      /\ task'.indexed /\ task'.pc \in {"outer", "stamp", "file"} =>
           task'.entries = task'.cap.entries /\ task'.kept \in {None, task'.cap.kept}
      => Recorded'
  BY DEF Recorded, RecordOf
<1>1. CASE Others
  BY <1>y, <1>z, <1>1 DEF Others, Replace, Rewrite, Recorded

<1>2. ASSUME NEW o \in WindowOps \cup CliOps, NEW sel \in SUBSET Names,
               NEW ix \in BOOLEAN, Begin(o, sel, ix)
        PROVE  Recorded'
  <2>1. task'.indexed = ix /\ vers' = vers /\ task'.cap = IF ix THEN index ELSE NoIndex
    BY <1>2 DEF Begin, Fresh
  <2>2. CASE ~ix
    BY <1>z, <2>1, <2>2
  <2>3. CASE ix
    <3>1. index # NoIndex
      BY <1>2, <2>3 DEF Begin
    <3>2. PICK v \in 1..Now :
             /\ vers[v].stamp = index.stamp /\ vers[v].file = index.file
             /\ index.entries = Listed(v) /\ index.kept \in {None, v}
      BY <1>n, <3>1 DEF IndexIsOneVersion
    <3>3. RecordOf(v)'
      BY <1>v, <2>1, <2>3, <3>2 DEF RecordOf
    <3>4. task'.entries = index.entries /\ task'.kept \in {None, index.kept}
      BY <1>2, <2>3 DEF Begin, Fresh, Shared
    <3> QED
      BY <1>v, <1>z, <2>1, <2>3, <3>3, <3>4
  <2> QED
    BY <2>2, <2>3

<1>3. CASE UNCHANGED vars
  BY <1>y, <1>z, <1>3 DEF vars, Recorded

<1>4. CASE VerifyOuter
  BY <1>y, <1>z, <1>4 DEF VerifyOuter, Request, Recorded, Shaped
<1>5. CASE CaptureStamp
  BY <1>z, <1>5 DEF CaptureStamp, Request, Shaped
<1>6. CASE CaptureFile
  BY <1>z, <1>6 DEF CaptureFile, Request, Shaped
<1>7. CASE MatchesStamp
  BY <1>y, <1>z, <1>7 DEF MatchesStamp, Request, Recorded, Shaped
<1>8. CASE MatchesFile
  <2>1. \/ task' = [task EXCEPT !.pc = "open"]
        \/ \E r : task' = [task EXCEPT !.pc = "idle", !.result = r]
    BY <1>8 DEF MatchesFile
  <2>2. task'.cap = task.cap /\ task'.pc \in {"idle", "open"}
    BY <1>n, <2>1 DEF Shaped
  <2>3. task'.indexed = task.indexed
    BY <1>n, <1>8, StepsSettled DEF Settled
  <2> QED
    BY <1>y, <1>z, <2>2, <2>3
<1>9. CASE Open
  BY <1>y, <1>z, <1>9 DEF Open, Request, Recorded, Shaped
<1>10. CASE ListEntries
  BY <1>y, <1>z, <1>10 DEF ListEntries, Request, Recorded, Shaped
<1>11. CASE ListAgain
  BY <1>y, <1>z, <1>11 DEF ListAgain, Request, Recorded, Shaped
<1>12. CASE Plan
  BY <1>y, <1>z, <1>12 DEF Plan, Request, Recorded, Shaped
<1>13. CASE PassBy
  BY <1>y, <1>z, <1>13 DEF PassBy, Request, Recorded, Shaped
<1>14. CASE Take
  BY <1>y, <1>z, <1>14 DEF Take, Request, Recorded, Shaped
<1>15. CASE Refuse
  BY <1>y, <1>z, <1>15 DEF Refuse, Request, Recorded, Shaped
<1>16. CASE Unpaired
  BY <1>y, <1>z, <1>16 DEF Unpaired, Request, Recorded, Shaped
<1>17. CASE LookUp
  BY <1>y, <1>z, <1>17 DEF LookUp, Request, Recorded, Shaped
<1>18. CASE RefuseFound
  BY <1>y, <1>z, <1>18 DEF RefuseFound, Request, Recorded, Shaped
<1>19. CASE NotFound
  BY <1>y, <1>z, <1>19 DEF NotFound, Request, Recorded, Shaped
<1>20. CASE Finish
  BY <1>y, <1>z, <1>20 DEF Finish, Request, Recorded, Shaped
<1>21. CASE Cancelled
  BY <1>y, <1>z, <1>21 DEF Cancelled, Request, Recorded, Shaped
<1>22. CASE ReadFails
  BY <1>y, <1>z, <1>22 DEF ReadFails, Request, Recorded, Shaped
<1> QED
  BY <1>1, <1>2, <1>3, <1>4, <1>5, <1>6, <1>7, <1>8, <1>9, <1>10, <1>11, <1>12, <1>13,
     <1>14, <1>15, <1>16, <1>17, <1>18, <1>19, <1>20, <1>21, <1>22 DEF Next, Others
-----------------------------------------------------------------------------
\* An operation on an archive that has not changed since it began.

\* Before the reader is opened nothing is handled.
LEMMA BeforeStep ==
  ASSUME IInv, Typed, Request, Before, [Next]_vars PROVE Before'
<1> USE DEF To, Go, Ended, Drained, Passed, Used, Trailing, Passing, Looking, At
<1>n. /\ Versions /\ Shaped /\ Known /\ Now \in Nat
  BY LenProperties DEF IInv, Versions, Now
<1>s. Settled => Current' = Current /\ fmt' = fmt /\ Now' = Now /\ vers' = vers
  BY SettledStays
<1>1. CASE Others
  BY <1>n, <1>1, Outdated DEF Before, IInv

<1>2. ASSUME NEW o \in WindowOps \cup CliOps, NEW sel \in SUBSET Names,
               NEW ix \in BOOLEAN, Begin(o, sel, ix)
        PROVE  Before'
  <2>1. /\ vers' = vers /\ fmt' = fmt /\ task'.op = o /\ task'.kept = Shared(o, ix)
        /\ task'.held = None /\ task'.seen = <<>> /\ task'.pc # "file"
    BY <1>2 DEF Begin, Fresh
  <2>3. task'.indexed = ix /\ task'.failed = FALSE
    BY <1>2 DEF Begin, Fresh
  <2>2. o = "verify" \/ ~ix => Shared(o, ix) = None
    BY DEF Shared
  <2>5. task'.pc = "stamp" => ix /\ ~(o = "verify" /\ fmt.outer)
    BY <1>2 DEF Begin, Fresh
  <2> QED
    BY <2>1, <2>2, <2>3, <2>5 DEF Before

<1>3. CASE UNCHANGED vars
  BY <1>n, <1>s, <1>3, StepsSettled DEF vars, Before

<1>4. CASE VerifyOuter
  BY <1>n, <1>s, <1>4, StepsSettled DEF VerifyOuter, Before, Request, Shaped, Settled, Current
<1>5. CASE CaptureStamp
  BY <1>n, <1>s, <1>5, StepsSettled DEF CaptureStamp, Before, Request, Shaped, Settled, Current
<1>6. CASE CaptureFile
  BY <1>n, <1>s, <1>6, StepsSettled DEF CaptureFile, Before, Request, Shaped, Settled, Current
<1>7. CASE MatchesStamp
  BY <1>n, <1>s, <1>7, StepsSettled DEF MatchesStamp, Before, Request, Shaped, Settled, Current
<1>8. CASE MatchesFile
  BY <1>n, <1>s, <1>8, StepsSettled DEF MatchesFile, Before, Request, Shaped, Settled, Current
<1>9. CASE Open
  BY <1>n, <1>s, <1>9, StepsSettled DEF Open, Before, Request, Shaped, Settled, Current
<1>10. CASE ListEntries
  BY <1>n, <1>s, <1>10, StepsSettled DEF ListEntries, Before, Request, Shaped, Settled, Current
<1>11. CASE ListAgain
  BY <1>n, <1>s, <1>11, StepsSettled DEF ListAgain, Before, Request, Shaped, Settled, Current
<1>12. CASE Plan
  BY <1>n, <1>s, <1>12, StepsSettled DEF Plan, Before, Request, Shaped, Settled, Current
<1>13. CASE PassBy
  BY <1>n, <1>s, <1>13, StepsSettled DEF PassBy, Before, Request, Shaped, Settled, Current
<1>14. CASE Take
  BY <1>n, <1>s, <1>14, StepsSettled DEF Take, Before, Request, Shaped, Settled, Current
<1>15. CASE Refuse
  BY <1>n, <1>s, <1>15, StepsSettled DEF Refuse, Before, Request, Shaped, Settled, Current
<1>16. CASE Unpaired
  BY <1>n, <1>s, <1>16, StepsSettled DEF Unpaired, Before, Request, Shaped, Settled, Current
<1>17. CASE LookUp
  BY <1>n, <1>s, <1>17, StepsSettled DEF LookUp, Before, Request, Shaped, Settled, Current
<1>18. CASE RefuseFound
  BY <1>n, <1>s, <1>18, StepsSettled DEF RefuseFound, Before, Request, Shaped, Settled, Current
<1>19. CASE NotFound
  BY <1>n, <1>s, <1>19, StepsSettled DEF NotFound, Before, Request, Shaped, Settled, Current
<1>20. CASE Finish
  BY <1>n, <1>s, <1>20, StepsSettled DEF Finish, Before, Request, Shaped, Settled, Current
<1>21. CASE Cancelled
  BY <1>n, <1>s, <1>21, StepsSettled DEF Cancelled, Before, Request, Shaped, Settled, Current
<1>22. CASE ReadFails
  BY <1>n, <1>s, <1>22, StepsSettled DEF ReadFails, Before, Request, Shaped, Settled, Current
<1> QED
  BY <1>1, <1>2, <1>3, <1>4, <1>5, <1>6, <1>7, <1>8, <1>9, <1>10, <1>11, <1>12, <1>13,
     <1>14, <1>15, <1>16, <1>17, <1>18, <1>19, <1>20, <1>21, <1>22 DEF Next, Others

\* The index in use, once it matches, is that of the archive as it is.
LEMMA IndexIsCurrent ==
  ASSUME Versions, Typed, Recorded, Before, Current, task.pc = "file", SameFile(task.cap)
  PROVE  task.entries = Listed(Now) /\ task.kept \in {None, Now}
<1>1. Now \in 1..Now
  BY LenProperties DEF Versions, Now
<1>2. task.indexed /\ task.cap.stamp = vers[Now].stamp
  BY DEF Before
<1>3. PICK v \in 1..Now :
         /\ vers[v].stamp = task.cap.stamp /\ vers[v].file = task.cap.file
         /\ task.cap.entries = Listed(v) /\ task.cap.kept \in {None, v}
  BY <1>2 DEF Recorded
<1>4. vers[v].stamp = vers[Now].stamp /\ vers[v].file = vers[Now].file
  BY <1>2, <1>3 DEF SameFile
<1>5. v = Now
  BY <1>1, <1>4, OneOfAKind
<1> QED
  BY <1>2, <1>3, <1>5 DEF Recorded

\* From opening the reader on.
Opened == task.pc \in {"open", "entries", "again", "plan", "walk"}

\* Nothing read of the archive is older than it.
LEMMA FromIsCurrent ==
  ASSUME Versions, Opening, Current, Opened PROVE From = Now
  BY DEF Versions, Opening, Opened, From, None

\* Opening and listing read the archive as it is.
LEMMA OpeningStep ==
  ASSUME IInv, WholeInv, [Next]_vars PROVE Opening'
<1> USE DEF To, Go, Ended, Drained, Passed, Used, Trailing, Passing, Looking, At
<1>n. /\ Versions /\ Shaped /\ Known /\ Now \in Nat /\ Typed /\ Request /\ Before /\ Opening
      /\ Regular(fmt)
  BY FormatFacts, LenProperties DEF IInv, Versions, Now, WholeInv, Typed
<1>s. Settled => /\ Current' = Current /\ fmt' = fmt /\ Now' = Now /\ ByRecord' = ByRecord
                 /\ Listed(Now)' = Listed(Now) /\ Recs(Now)' = Recs(Now)
                 /\ task'.op = task.op /\ task'.indexed = task.indexed
  BY CurrentStays, SettledStays DEF Settled
<1>f. Current /\ Opened => From = Now
  BY <1>n, FromIsCurrent
<1>1. CASE Others
  BY <1>n, <1>1, Outdated DEF Opening

<1>2. ASSUME NEW o \in WindowOps \cup CliOps, NEW sel \in SUBSET Names,
               NEW ix \in BOOLEAN, Begin(o, sel, ix)
        PROVE  Opening'
  <2>1. /\ fmt' = fmt /\ task'.op = o /\ task'.held = None /\ task'.seen = <<>>
    BY <1>2 DEF Begin, Fresh
  <2>2. task'.indexed = ix /\ task'.failed = FALSE
    BY <1>2 DEF Begin, Fresh
  <2>3. task'.kept = Shared(o, ix) /\ (ix \/ Shared(o, ix) = None)
    BY <1>2 DEF Begin, Fresh, Shared
  <2>4. Current' => o # "list"
    BY <2>1 DEF Current
  <2>5. task'.pc = "open" => ~ix
    BY <1>2 DEF Begin, Fresh
  <2>6. task'.pc = "open" /\ o \in {"verify", "test"} => ~fmt.outer
    BY <1>2 DEF Begin, Fresh
  <2>7. task'.pc = "open" /\ o = "test" => fmt \notin Streams
    BY <1>2 DEF Begin, Fresh
  <2>8. task'.pc \notin {"entries", "again", "plan", "walk"}
    BY <1>2 DEF Begin, Fresh
  <2> QED
    BY <2>1, <2>2, <2>3, <2>5, <2>6, <2>7, <2>8 DEF Opening

<1>3. CASE UNCHANGED vars
  <2>1. Settled
    BY <1>n, <1>3, StepsSettled
  <2> QED
    BY <1>n, <1>s, <2>1, <1>3 DEF vars, Opening

<1>4. CASE VerifyOuter
  <2>1. Settled
    BY <1>n, <1>4, StepsSettled
  <2> QED
    BY <1>n, <1>s, <1>f, <2>1, <1>4 DEF VerifyOuter, Opening, Opened, Request, Before, Shaped
<1>5. CASE CaptureStamp
  <2>1. Settled
    BY <1>n, <1>5, StepsSettled
  <2> QED
    BY <1>n, <1>s, <1>f, <2>1, <1>5 DEF CaptureStamp, Opening, Opened, Request, Before, Shaped
<1>6. CASE CaptureFile
  <2>1. Settled /\ ~Current
    BY <1>n, <1>6, StepsSettled DEF CaptureFile, Request, Current
  <2> QED
    BY <1>s, <2>1 DEF Opening
<1>7. CASE MatchesStamp
  <2>1. Settled
    BY <1>n, <1>7, StepsSettled
  <2> QED
    BY <1>n, <1>s, <1>f, <2>1, <1>7 DEF MatchesStamp, Opening, Opened, Request, Before, Shaped
<1>8. CASE MatchesFile
  <2>1. Settled
    BY <1>n, <1>8, StepsSettled
  <2>2. SUFFICES ASSUME Current, task'.pc = "open" PROVE Opening'
    <3>1. task'.pc \in {"idle", "open"}
      <4>1. \/ task' = [task EXCEPT !.pc = "open"]
            \/ \E r : task' = [task EXCEPT !.pc = "idle", !.result = r]
        BY <1>8 DEF MatchesFile
      <4> QED
        BY <1>n, <4>1 DEF Shaped
    <3> QED
      BY <1>s, <2>1, <3>1 DEF Opening
  <2>3. task.pc = "file" /\ SameFile(task.cap) /\ task' = [task EXCEPT !.pc = "open"]
    BY <1>n, <2>2, <1>8 DEF MatchesFile, Current, Shaped
  <2>4. task.entries = Listed(Now) /\ task.kept \in {None, Now}
    BY <1>n, <2>2, <2>3, IndexIsCurrent DEF WholeInv
  <2>5. task.indexed
    BY <1>n, <2>2, <2>3 DEF Before
  <2>6. task.op # "test"
    BY <1>n, <2>5 DEF Request, CliOps
  <2> QED
    BY <1>n, <1>s, <2>1, <2>2, <2>3, <2>4, <2>5, <2>6 DEF Opening, Before, Shaped
<1>9. CASE Open
  <2>1. Settled
    BY <1>n, <1>9, StepsSettled
  <2>2. /\ task'.held \in {None, task.held, Now} /\ task'.kept = task.kept
        /\ task'.entries = task.entries /\ task'.seen = task.seen
    BY <1>n, <1>9 DEF Open, Shaped
  <2>3. task'.failed = task.failed
    BY <1>n, <1>9 DEF Open, Shaped
  <2>4. task'.pc \in {"idle", "plan", "entries"}
    BY <1>n, <1>9 DEF Open, Shaped
  <2>5. task'.pc # "idle" =>
          task'.read = task.read \cup IF fmt.checks THEN 1..Len(Recs(Now)) ELSE {}
    BY <1>n, <1>9 DEF Open, Shaped
  <2>6. task'.pc = "plan" => task.indexed \/ (task.op = "test" /\ ByRecord)
    BY <1>n, <1>9 DEF Open, Shaped, ByRecord
  <2>7. task.pc = "open"
    BY <1>9 DEF Open
  <2> QED
    BY <1>n, <1>s, <2>1, <2>2, <2>3, <2>4, <2>5, <2>6, <2>7 DEF Opening, Request
<1>10. CASE ListEntries
  <2>1. Settled
    BY <1>n, <1>10, StepsSettled
  <2> QED
    BY <1>n, <1>s, <1>f, <2>1, <1>10 DEF ListEntries, Opening, Opened, Request, Before, Shaped
<1>11. CASE ListAgain
  <2>1. Settled
    BY <1>n, <1>11, StepsSettled
  <2> QED
    BY <1>n, <1>s, <1>f, <2>1, <1>11 DEF ListAgain, Opening, Opened, Request, Before, Shaped
<1>12. CASE Plan
  <2>1. Settled
    BY <1>n, <1>12, StepsSettled
  <2> QED
    BY <1>n, <1>s, <1>f, <2>1, <1>12 DEF Plan, Opening, Opened, Request, Before, Shaped
<1>13. CASE PassBy
  <2>1. Settled
    BY <1>n, <1>13, StepsSettled
  <2> QED
    BY <1>n, <1>s, <1>f, <2>1, <1>13 DEF PassBy, Opening, Opened, Request, Before, Shaped
<1>14. CASE Take
  <2>1. Settled
    BY <1>n, <1>14, StepsSettled
  <2> QED
    BY <1>n, <1>s, <1>f, <2>1, <1>14, ZenonT(60) DEF Take, Opening, Opened, Request, Before, Shaped
<1>15. CASE Refuse
  <2>1. Settled
    BY <1>n, <1>15, StepsSettled
  <2>2. /\ task.pc = "walk" /\ task'.pc \in {"walk", "idle"}
        /\ task'.held \in {task.held, From} /\ task'.kept \in {task.kept, From}
    BY <1>n, <1>15 DEF Refuse, Shaped
  <2>3. /\ task.read \subseteq task'.read
        /\ task'.kept = None \/ task.kept # None \/ 1 \in task'.read
    BY <1>n, <1>15 DEF Refuse, Shaped
  <2> SUFFICES ASSUME Current PROVE Opening'
    BY <1>s, <2>1 DEF Opening
  <2>4. /\ task.held \in {None, Now} /\ task.kept \in {None, Now} /\ From = Now
        /\ fmt.outer /\ task.op = "verify" => Outer \in task.read
        /\ task.op = "test" => ~fmt.outer /\ fmt \notin Streams
        /\ task.op = "verify" /\ task.kept # None => 1 \in task.read
        /\ fmt.checks => 1..Len(Recs(Now)) \subseteq task.read
    <3>1. From = Now /\ task.pc = "walk"
      BY <1>n, <1>f, <2>2 DEF Opened
    <3>2. task.held \in {None, Now} /\ task.kept \in {None, Now}
      BY <1>n, <3>1 DEF Opening
    <3>3. /\ fmt.outer /\ task.op = "verify" => Outer \in task.read
          /\ task.op = "test" => ~fmt.outer /\ fmt \notin Streams
      BY <1>n, <3>1 DEF Opening
    <3>4. /\ task.op = "verify" /\ task.kept # None => 1 \in task.read
          /\ fmt.checks => 1..Len(Recs(Now)) \subseteq task.read
      BY <1>n, <3>1 DEF Opening
    <3> QED
      BY <3>1, <3>2, <3>3, <3>4
  <2>5. /\ task'.held \in {None, Now} /\ task'.kept \in {None, Now}
        /\ fmt.outer /\ task.op = "verify" => Outer \in task'.read
        /\ task.op = "verify" /\ task'.kept # None => 1 \in task'.read
        /\ fmt.checks => 1..Len(Recs(Now)) \subseteq task'.read
    BY <2>2, <2>3, <2>4
  <2> QED
    BY <1>s, <2>1, <2>2, <2>4, <2>5 DEF Opening
<1>16. CASE Unpaired
  <2>1. Settled
    BY <1>n, <1>16, StepsSettled
  <2> QED
    BY <1>n, <1>s, <1>f, <2>1, <1>16 DEF Unpaired, Opening, Opened, Request, Before, Shaped
<1>17. CASE LookUp
  <2>1. Settled
    BY <1>n, <1>17, StepsSettled
  <2>2. /\ task.pc = "walk" /\ task'.pc \in {"walk", "idle"}
        /\ task'.held \in {task.held, From} /\ task'.kept \in {task.kept, From}
    BY <1>n, <1>17 DEF LookUp, Shaped
  <2>3. /\ task.read \subseteq task'.read
        /\ task'.kept = None \/ task.kept # None \/ 1 \in task'.read
    BY <1>n, <1>17 DEF LookUp, Shaped
  <2> SUFFICES ASSUME Current PROVE Opening'
    BY <1>s, <2>1 DEF Opening
  <2>4. /\ task.held \in {None, Now} /\ task.kept \in {None, Now} /\ From = Now
        /\ fmt.outer /\ task.op = "verify" => Outer \in task.read
        /\ task.op = "test" => ~fmt.outer /\ fmt \notin Streams
        /\ task.op = "verify" /\ task.kept # None => 1 \in task.read
        /\ fmt.checks => 1..Len(Recs(Now)) \subseteq task.read
    <3>1. From = Now /\ task.pc = "walk"
      BY <1>n, <1>f, <2>2 DEF Opened
    <3>2. task.held \in {None, Now} /\ task.kept \in {None, Now}
      BY <1>n, <3>1 DEF Opening
    <3>3. /\ fmt.outer /\ task.op = "verify" => Outer \in task.read
          /\ task.op = "test" => ~fmt.outer /\ fmt \notin Streams
      BY <1>n, <3>1 DEF Opening
    <3>4. /\ task.op = "verify" /\ task.kept # None => 1 \in task.read
          /\ fmt.checks => 1..Len(Recs(Now)) \subseteq task.read
      BY <1>n, <3>1 DEF Opening
    <3> QED
      BY <3>1, <3>2, <3>3, <3>4
  <2>5. /\ task'.held \in {None, Now} /\ task'.kept \in {None, Now}
        /\ fmt.outer /\ task.op = "verify" => Outer \in task'.read
        /\ task.op = "verify" /\ task'.kept # None => 1 \in task'.read
        /\ fmt.checks => 1..Len(Recs(Now)) \subseteq task'.read
    BY <2>2, <2>3, <2>4
  <2> QED
    BY <1>s, <2>1, <2>2, <2>4, <2>5 DEF Opening
<1>18. CASE RefuseFound
  <2>1. Settled
    BY <1>n, <1>18, StepsSettled
  <2> QED
    BY <1>n, <1>s, <1>f, <2>1, <1>18 DEF RefuseFound, Opening, Opened, Request, Before, Shaped
<1>19. CASE NotFound
  <2>1. Settled
    BY <1>n, <1>19, StepsSettled
  <2> QED
    BY <1>n, <1>s, <1>f, <2>1, <1>19 DEF NotFound, Opening, Opened, Request, Before, Shaped
<1>20. CASE Finish
  <2>1. Settled
    BY <1>n, <1>20, StepsSettled
  <2> QED
    BY <1>n, <1>s, <1>f, <2>1, <1>20 DEF Finish, Opening, Opened, Request, Before, Shaped
<1>21. CASE Cancelled
  <2>1. Settled
    BY <1>n, <1>21, StepsSettled
  <2> QED
    BY <1>n, <1>s, <1>f, <2>1, <1>21 DEF Cancelled, Opening, Opened, Request, Before, Shaped
<1>22. CASE ReadFails
  <2>1. Settled
    BY <1>n, <1>22, StepsSettled
  <2> QED
    BY <1>n, <1>s, <1>f, <2>1, <1>22 DEF ReadFails, Opening, Opened, Request, Before, Shaped
<1> QED
  BY <1>1, <1>2, <1>3, <1>4, <1>5, <1>6, <1>7, <1>8, <1>9, <1>10, <1>11, <1>12, <1>13,
     <1>14, <1>15, <1>16, <1>17, <1>18, <1>19, <1>20, <1>21, <1>22 DEF Next, Others
-----------------------------------------------------------------------------
\* The walk.

\* A prefix is the one before it, and one more element.
LEMMA Prefixes ==
  ASSUME NEW S, NEW s \in Seq(S)
  PROVE  /\ Len(s) \in Nat /\ SubSeq(s, 1, Len(s)) = s /\ SubSeq(s, 1, 0) = <<>>
         /\ \A k \in 1..Len(s) :
              /\ s[k] \in S /\ SubSeq(s, 1, k - 1) \in Seq(S)
              /\ SubSeq(s, 1, k) = Append(SubSeq(s, 1, k - 1), s[k])
<1>1. Len(s) \in Nat /\ SubSeq(s, 1, Len(s)) = s /\ SubSeq(s, 1, 0) = <<>>
  BY LenProperties
<1>2. ASSUME NEW k \in 1..Len(s)
      PROVE  /\ s[k] \in S /\ SubSeq(s, 1, k - 1) \in Seq(S)
             /\ SubSeq(s, 1, k) = Append(SubSeq(s, 1, k - 1), s[k])
  <2>1. s[k] \in S
    BY ElementOfSeq
  <2>2. SubSeq(s, 1, k - 1) \in Seq(S)
    BY <1>1
  <2>3. SubSeq(s, 1, k) = Append(SubSeq(s, 1, k - 1), s[k])
    BY <1>1, <2>1
  <2> QED
    BY <2>1, <2>2, <2>3
<1> QED
  BY <1>1, <1>2

\* A walk by record: what is asked for, and under which name it is handled.
Stands == Current /\ Passing

\* A walk by record is on the archive as it is, at one of its records.
LEMMA AtARecord ==
  ASSUME IInv, WholeInv, Stands
  PROVE  /\ Now \in 1..Now /\ Recs(Now) \in Seq(Names \cup {Meta}) /\ task.pass = Now
         /\ ByRecord /\ task.k \in 1..Len(Recs(Now))
         /\ Recs(Now)[task.k] \in Names \cup {Meta}
<1>1. Now \in 1..Now
  BY LenProperties DEF IInv, Versions, Now
<1>2. Recs(Now) \in Seq(Names \cup {Meta}) /\ Len(Recs(Now)) \in Nat
  BY <1>1, RecordTypes DEF IInv
<1>3. ByRecord /\ task.pass = Now
  BY DEF Stands, Passing, At, WholeInv, Walking, ByRecord
<1>4. task.k \in 1..Len(Recs(Now))
  BY <1>2, <1>3 DEF Stands, Passing, IInv, Headed
<1> QED
  BY <1>1, <1>2, <1>3, <1>4, ElementOfSeq

\* What the callback is asked for is what is wanted, and records that are no entries.
LEMMA AskedIsWanted ==
  ASSUME IInv, WholeInv, Stands, NEW n, n = Recs(Now)[task.k]
  PROVE  /\ task.op # "preview" /\ n \in Want => Asked(n)
         /\ task.op \in {"verify", "test"} /\ IsEntry(n) => Asked(n)
         /\ task.op \in {"extract", "unpack"} /\ Asked(n) => n \in Want \cup {Meta}
         /\ Meta \notin Want /\ Want \subseteq Names
<1>1. /\ Now \in 1..Now /\ n \in Names \cup {Meta} /\ Has(Recs(Now), n) /\ ByRecord
      /\ task.pc = "walk" /\ task.sel \subseteq Names /\ Versions
  BY AtARecord DEF Has, Stands, Passing, At, IInv, WholeInv, Typed
<1>2. /\ Has(Wanted(Now), n) <=> n \in Want
      /\ Want \subseteq Names
  BY <1>1, WantedTypes
<1>3. Meta \notin Want
  BY <1>2, ReadingAssumption
<1>4. task.op \notin {"preview", "test"} => task.entries = Wanted(Now)
  BY <1>1 DEF WholeInv, Walking, Stands
<1>5. task.op \in {"unpack", "verify", "test"} => Want = Names
  BY DEF WholeInv, Request, Want
<1>6. task.op # "preview" /\ n \in Want => Asked(n)
  BY <1>2, <1>3, <1>4 DEF Asked
<1>7. task.op \in {"verify", "test"} /\ IsEntry(n) => Asked(n)
  BY <1>1, <1>5, <1>6 DEF IsEntry
<1>8. task.op = "extract" /\ Asked(n) => n \in Want
  BY <1>2, <1>4 DEF Asked
<1>9. task.op = "unpack" => n \in Want \cup {Meta}
  BY <1>1, <1>5
<1> QED
  BY <1>2, <1>3, <1>6, <1>7, <1>8, <1>9

\* In place, entries are paired with records of the same names.
LEMMA NameIsOwn ==
  ASSUME IInv, WholeInv, Stands
  PROVE  Paired /\ NameAt = Recs(Now)[task.k]
<1>1. /\ Now \in 1..Now /\ Recs(Now) \in Seq(Names \cup {Meta}) /\ task.pass = Now
      /\ task.k \in 1..Len(Recs(Now))
  BY AtARecord
<1>2. CASE ~ByPosition
  BY <1>1, <1>2 DEF Paired, NameAt
<1>3. CASE ByPosition
  <2>1. fmt.meta = "none" /\ task.op = "unpack"
    BY <1>3, FormatFacts DEF ByPosition, Regular, WholeInv, Typed
  <2>2. \A i \in 1..Len(Recs(Now)) : Recs(Now)[i] \in Names
    <3>1. \A i \in 1..Len(Recs(Now)) : IsEntry(Recs(Now)[i])
      BY <1>1, <2>1 DEF WholeInv, Typed, Possible
    <3> QED
      BY <1>1, <3>1, ElementOfSeq DEF IsEntry
  <2>3. Recs(Now) \in Seq(Names)
    BY <1>1, <2>2
  <2>4. task.entries = Wanted(Now) /\ Want = Names
    BY <2>1 DEF WholeInv, Walking, Request, Want, Stands, Passing, At
  <2>5. task.entries = Recs(Now)
    BY <2>3, <2>4, OnlyAll DEF Wanted
  <2> QED
    BY <1>1, <2>5 DEF Paired, NameAt
<1> QED
  BY <1>2, <1>3

\* What is wanted grows with the record passed.
LEMMA DueGrows ==
  ASSUME NEW S, NEW s \in Seq(S), NEW k \in 1..Len(s), NEW keep
  PROVE  Only(SubSeq(s, 1, k), keep) =
           IF s[k] \in keep THEN Append(Only(SubSeq(s, 1, k - 1), keep), s[k])
           ELSE Only(SubSeq(s, 1, k - 1), keep)
<1>1. /\ s[k] \in S /\ SubSeq(s, 1, k - 1) \in Seq(S)
      /\ SubSeq(s, 1, k) = Append(SubSeq(s, 1, k - 1), s[k])
  BY Prefixes
<1> DEFINE p == SubSeq(s, 1, k - 1)
           x == s[k]
<1>2. p \in Seq(S) /\ x \in S
  BY <1>1
<1> HIDE DEF p, x
<1>3. Only(Append(p, x), keep) = IF x \in keep THEN Append(Only(p, keep), x) ELSE Only(p, keep)
  BY <1>2, OnlyAppend
<1> QED
  BY <1>1, <1>3 DEF p, x

\* A lookup in a stream finds its one entry.
LEMMA StreamFound ==
  ASSUME Versions, Typed, fmt \in Streams, NEW v \in 1..Now, NEW n, Has(Recs(v), n)
  PROVE  Len(Recs(v)) = 1 /\ Found(v, n) = 1
<1>1. Recs(v) = <<CHOOSE m \in Names : TRUE>>
  BY DEF Typed, Possible
<1>2. Len(Recs(v)) = 1
  BY <1>1
<1>3. Has(Recs(v), n) /\ Recs(v)[1] = n
  BY <1>2 DEF Has
<1>4. {i \in 1..Len(Recs(v)) : Recs(v)[i] = n} = {1}
  BY <1>2, <1>3
<1>5. Found(v, n) = 1
  BY <1>4 DEF Found
<1> QED
  BY <1>2, <1>5

\* The walk goes on by one.
WalksOn ==
  Current /\ task'.pc = "walk" =>
    /\ task'.k = task.k + 1 /\ task'.pass = task.pass /\ task'.entries = task.entries
    /\ task'.seen = task.seen \/ task.op # "preview"
    /\ task.pc = "walk"
    /\ ByRecord => task.k <= Len(Recs(Now))
    /\ ~ByRecord => task.k <= Len(task.entries)

\* Where a walk is after a step.
LEMMA WalkingStep ==
  ASSUME IInv, WholeInv, [Next]_vars PROVE Walking'
<1> USE DEF To, Go, Ended, Drained, Passed, Used, Trailing, Passing, Looking, At
<1>n. /\ Versions /\ Shaped /\ Known /\ Headed /\ Now \in Nat /\ Typed /\ Request /\ Walking
  BY LenProperties DEF IInv, Versions, Now, WholeInv
<1>s. Settled => /\ Current' = Current /\ fmt' = fmt /\ Now' = Now /\ ByRecord' = ByRecord
                 /\ Wanted(Now)' = Wanted(Now) /\ Recs(Now)' = Recs(Now)
                 /\ task'.op = task.op /\ task'.sel = task.sel
  BY CurrentStays, SettledStays DEF Settled
<1>l. /\ Len(Recs(Now)) \in Nat /\ Len(task.entries) \in Nat /\ task.k \in Nat
      /\ Now \in 1..Now
  <2>1. Now \in 1..Now
    BY <1>n DEF Versions
  <2> QED
    BY <1>n, <2>1, RecordTypes, LenProperties DEF Typed, Headed
<1>w. Settled /\ Walking /\ WalksOn => Walking'
  <2> SUFFICES ASSUME Settled, Walking, WalksOn, Current, task'.pc = "walk" PROVE Walking'
    BY <1>s DEF Walking
  <2>1. /\ task'.k = task.k + 1 /\ task'.pass = task.pass /\ task'.entries = task.entries
        /\ task'.seen = task.seen \/ task.op # "preview"
        /\ task.pc = "walk"
        /\ ByRecord => task.k <= Len(Recs(Now))
        /\ ~ByRecord => task.k <= Len(task.entries)
    BY DEF WalksOn
  <2>2. /\ ByRecord => task.pass = Now
        /\ task.op = "preview" => task.seen = <<>> /\ task.entries = <<Sole(task.sel)>>
        /\ task.op # "preview" /\ (task.op = "test" => ~ByRecord) => task.entries = Wanted(Now)
    BY <2>1 DEF Walking
  <2>3. ByRecord' => task'.pass = Now' /\ task'.k <= Len(Recs(Now)') + 1
    <3>1. Recs(Now)' = Recs(Now) /\ Now' = Now /\ ByRecord' = ByRecord
      BY <1>s
    <3>2. ByRecord => task.k + 1 <= Len(Recs(Now)) + 1
      BY <1>l, <2>1
    <3> QED
      BY <2>1, <2>2, <3>1, <3>2
  <2>4. ~ByRecord' => task'.k <= Len(task'.entries) + 1
    BY <1>s, <1>l, <2>1
  <2>5. /\ task'.op = "preview" => task'.seen = <<>> /\ task'.entries = <<Sole(task'.sel)>>
        /\ task'.op # "preview" /\ (task'.op = "test" => ~ByRecord')
             => task'.entries = Wanted(Now)'
    BY <1>s, <2>1, <2>2
  <2> QED
    BY <2>3, <2>4, <2>5 DEF Walking
<1>1. CASE Others
  BY <1>n, <1>1, Outdated DEF Walking

<1>2. ASSUME NEW o \in WindowOps \cup CliOps, NEW sel \in SUBSET Names,
               NEW ix \in BOOLEAN, Begin(o, sel, ix)
        PROVE  Walking'
  <2>1. task'.pc # "walk"
    BY <1>2 DEF Begin, Fresh
  <2> QED
    BY <2>1 DEF Walking

<1>3. CASE UNCHANGED vars
  <2>1. Settled
    BY <1>n, <1>3, StepsSettled
  <2> QED
    BY <1>n, <1>s, <2>1, <1>3 DEF vars, Walking

<1>4. CASE OffTheWalk
  BY <1>n, <1>4, OffSteps DEF Walking
<1>5. CASE Plan
  <2>1. Settled /\ task.k = 1
    BY <1>n, <1>5, StepsSettled DEF Plan, Headed
  <2> SUFFICES ASSUME Current, task'.pc = "walk" PROVE Walking'
    BY <1>s, <2>1 DEF Walking
  <2> DEFINE wanted == IF task.op = "preview" THEN <<Sole(task.sel)>>
                       ELSE Selected(task.entries, task.sel)
  <2>2. /\ task'.entries = wanted /\ task'.k = 1 /\ task'.seen = task.seen
        /\ ByRecord => task'.pass = IF task.held # None THEN task.held ELSE Now
    BY <1>n, <2>1, <1>5 DEF Plan, Shaped, ByRecord
  <2>3. /\ task.held \in {None, Now} /\ task.seen = <<>>
        /\ (task.op = "test" => ~ByRecord) => task.entries = Listed(Now)
    BY <1>5 DEF Plan, WholeInv, Opening
  <2>4. Selected(Listed(Now), task.sel) = Wanted(Now)
    <3>1. Now \in 1..Now
      BY <1>n DEF Versions
    <3> QED
      BY <1>n, <3>1, WantedTypes DEF Typed
  <2>5. task.op # "preview" /\ (task.op = "test" => ~ByRecord) => wanted = Wanted(Now)
    BY <2>3, <2>4
  <2>6. Len(task'.entries) \in Nat
    <3>1. Typed'
      BY TypedStep DEF WholeInv
    <3> QED
      BY <3>1, LenProperties DEF Typed
  <2> HIDE DEF wanted
  <2>7. task.op = "preview" => wanted = <<Sole(task.sel)>>
    BY DEF wanted
  <2> QED
    BY <1>s, <1>l, <2>1, <2>2, <2>3, <2>5, <2>6, <2>7 DEF Walking
<1>6. CASE PassBy
  <2>1. Settled
    BY <1>n, <1>6, StepsSettled
  <2>2. task'.pc = "walk" =>
          /\ task'.k = task.k + 1 /\ task'.pass = task.pass /\ task'.entries = task.entries
          /\ task'.seen = task.seen \/ task.op # "preview"
          /\ task.pc = "walk" /\ Passing
    BY <1>n, <1>6 DEF PassBy, Shaped, ByPosition
  <2>3. Current /\ Passing => ByRecord /\ task.k <= Len(Recs(Now))
    BY <1>l, AtARecord DEF Stands
  <2> QED
    BY <1>n, <2>1, <2>2, <2>3, <1>w DEF WalksOn
<1>7. CASE Take
  <2>1. Settled
    BY <1>n, <1>7, StepsSettled
  <2>2. task'.pc = "walk" =>
          /\ task'.k = task.k + 1 /\ task'.pass = task.pass /\ task'.entries = task.entries
          /\ task'.seen = task.seen \/ task.op # "preview"
          /\ task.pc = "walk" /\ Passing
    BY <1>n, <1>7 DEF Take, Shaped, ByPosition
  <2>3. Current /\ Passing => ByRecord /\ task.k <= Len(Recs(Now))
    BY <1>l, AtARecord DEF Stands
  <2> QED
    BY <1>n, <2>1, <2>2, <2>3, <1>w DEF WalksOn
<1>8. CASE Refuse
  <2>1. Settled
    BY <1>n, <1>8, StepsSettled
  <2>2. task'.pc = "walk" =>
          /\ task'.k = task.k + 1 /\ task'.pass = task.pass /\ task'.entries = task.entries
          /\ task'.seen = task.seen \/ task.op # "preview"
          /\ task.pc = "walk" /\ Passing
    BY <1>n, <1>8 DEF Refuse, Shaped, ByPosition
  <2>3. Current /\ Passing => ByRecord /\ task.k <= Len(Recs(Now))
    BY <1>l, AtARecord DEF Stands
  <2> QED
    BY <1>n, <2>1, <2>2, <2>3, <1>w DEF WalksOn
<1>9. CASE Unpaired
  <2>1. Settled
    BY <1>n, <1>9, StepsSettled
  <2>2. task'.pc = "walk" =>
          /\ task'.k = task.k + 1 /\ task'.pass = task.pass /\ task'.entries = task.entries
          /\ task'.seen = task.seen \/ task.op # "preview"
          /\ task.pc = "walk" /\ Passing
    BY <1>n, <1>9 DEF Unpaired, Shaped, ByPosition
  <2>3. Current /\ Passing => ByRecord /\ task.k <= Len(Recs(Now))
    BY <1>l, AtARecord DEF Stands
  <2> QED
    BY <1>n, <2>1, <2>2, <2>3, <1>w DEF WalksOn
<1>10. CASE LookUp
  <2>1. Settled
    BY <1>n, <1>10, StepsSettled
  <2>2. task'.pc = "walk" =>
          /\ task'.k = task.k + 1 /\ task'.pass = task.pass /\ task'.entries = task.entries
          /\ task'.seen = task.seen \/ task.op # "preview"
    BY <1>n, <1>10 DEF LookUp, Shaped
  <2>3. task.k <= Len(task.entries) /\ ~ByRecord /\ task.pc = "walk"
    BY <1>10 DEF LookUp, ByRecord
  <2> QED
    BY <1>n, <2>1, <2>2, <2>3, <1>w DEF WalksOn
<1>11. CASE RefuseFound
  <2>1. Settled
    BY <1>n, <1>11, StepsSettled
  <2>2. task'.pc = "walk" =>
          /\ task'.k = task.k + 1 /\ task'.pass = task.pass /\ task'.entries = task.entries
          /\ task'.seen = task.seen \/ task.op # "preview"
    BY <1>n, <1>11 DEF RefuseFound, Shaped
  <2>3. task.k <= Len(task.entries) /\ ~ByRecord /\ task.pc = "walk"
    BY <1>11 DEF RefuseFound, ByRecord
  <2> QED
    BY <1>n, <2>1, <2>2, <2>3, <1>w DEF WalksOn
<1>12. CASE NotFound
  <2>1. Settled
    BY <1>n, <1>12, StepsSettled
  <2>2. task'.pc = "walk" =>
          /\ task'.k = task.k + 1 /\ task'.pass = task.pass /\ task'.entries = task.entries
          /\ task'.seen = task.seen \/ task.op # "preview"
    BY <1>n, <1>12 DEF NotFound, Shaped
  <2>3. task.k <= Len(task.entries) /\ ~ByRecord /\ task.pc = "walk"
    BY <1>12 DEF NotFound, ByRecord
  <2> QED
    BY <1>n, <2>1, <2>2, <2>3, <1>w DEF WalksOn
<1>13. CASE ReadFails
  <2>1. Settled
    BY <1>n, <1>13, StepsSettled
  <2>2. task'.pc = "walk" =>
          /\ task'.k = task.k + 1 /\ task'.pass = task.pass /\ task'.entries = task.entries
          /\ task'.seen = task.seen \/ task.op # "preview"
          /\ task.pc = "walk" /\ Passing
    BY <1>n, <1>13 DEF ReadFails, Shaped, ByPosition
  <2>3. Current /\ Passing => ByRecord /\ task.k <= Len(Recs(Now))
    BY <1>l, AtARecord DEF Stands
  <2> QED
    BY <1>n, <2>1, <2>2, <2>3, <1>w DEF WalksOn
<1> QED
  BY <1>1, <1>2, <1>3, <1>4, <1>5, <1>6, <1>7, <1>8, <1>9, <1>10, <1>11, <1>12, <1>13
     DEF Next, Others, OffTheWalk

\* What is handled of a record, of one passed by, and of an entry looked up.
LEMMA RecordHandled ==
  ASSUME IInv, WholeInv, Stands, task.op \in {"extract", "unpack"}, ~task.failed
  PROVE  /\ Asked(Recs(Now)[task.k]) => EntriesOf(Append(task.seen, NameAt)) = Due(task.k + 1)
         /\ ~Asked(Recs(Now)[task.k]) => EntriesOf(task.seen) = Due(task.k + 1)
<1> DEFINE s == Recs(Now)
           n == s[task.k]
<1>1. /\ s \in Seq(Names \cup {Meta}) /\ ByRecord /\ task.k \in 1..Len(s)
      /\ n \in Names \cup {Meta} /\ NameAt = n
  BY AtARecord, NameIsOwn
<1>2. /\ n \in Want => Asked(n)
      /\ Asked(n) => n \in Want \cup {Meta}
      /\ Meta \notin Want /\ Want \subseteq Names /\ Meta \notin Names
  BY AskedIsWanted, ReadingAssumption
<1>3. EntriesOf(task.seen) = Due(task.k)
  BY DEF WholeInv, Handling, Stands, Passing, At
<1>4. Due(task.k) = Only(SubSeq(s, 1, task.k - 1), Want)
  BY <1>1 DEF Due
<1>5. Due(task.k + 1) = Only(SubSeq(s, 1, task.k), Want)
  <2>1. (task.k + 1) - 1 = task.k
    BY <1>1
  <2> QED
    BY <1>1, <2>1 DEF Due
<1>6. Only(SubSeq(s, 1, task.k), Want) =
        IF n \in Want THEN Append(Only(SubSeq(s, 1, task.k - 1), Want), n)
        ELSE Only(SubSeq(s, 1, task.k - 1), Want)
  BY <1>1, DueGrows
<1>7. EntriesOf(Append(task.seen, n)) =
        IF n \in Names THEN Append(EntriesOf(task.seen), n) ELSE EntriesOf(task.seen)
  <2>1. task.seen \in Seq(Names \cup {Meta})
    BY DEF WholeInv, Typed
  <2>2. n \in Names \cup {Meta}
    BY <1>1
  <2> HIDE DEF n
  <2> QED
    BY <2>1, <2>2, OnlyAppend DEF EntriesOf
<1> HIDE DEF n, s
<1>8. Asked(n) => EntriesOf(Append(task.seen, n)) = Due(task.k + 1)
  BY <1>2, <1>3, <1>4, <1>5, <1>6, <1>7
<1>9. ~Asked(n) => EntriesOf(task.seen) = Due(task.k + 1)
  BY <1>2, <1>3, <1>4, <1>5, <1>6
<1> QED
  BY <1>1, <1>8, <1>9 DEF n, s

\* The same of an entry looked up by name.
LEMMA EntryHandled ==
  ASSUME IInv, WholeInv, Current, Looking, task.op \in {"extract", "unpack"}, ~task.failed
  PROVE  EntriesOf(Append(task.seen, task.entries[task.k])) = Due(task.k + 1)
<1> DEFINE n == task.entries[task.k]
<1>1. /\ task.seen \in Seq(Names \cup {Meta}) /\ task.entries \in Seq(Names)
      /\ task.k \in 1..Len(task.entries) /\ ~ByRecord
  BY LenProperties DEF WholeInv, Typed, IInv, Headed, Looking, ByRecord
<1>2. n \in Names
  BY <1>1, ElementOfSeq
<1>3. EntriesOf(task.seen) = SubSeq(task.entries, 1, task.k - 1)
  BY <1>1 DEF WholeInv, Handling, Looking, At, Due
<1>4. SubSeq(task.entries, 1, task.k) = Append(SubSeq(task.entries, 1, task.k - 1), n)
  BY <1>1, Prefixes
<1>5. Due(task.k + 1) = SubSeq(task.entries, 1, task.k)
  <2>1. (task.k + 1) - 1 = task.k
    BY <1>1
  <2> QED
    BY <1>1, <2>1 DEF Due
<1> HIDE DEF n
<1>6. EntriesOf(Append(task.seen, n)) = Append(EntriesOf(task.seen), n)
  <2>1. n \in Names \cup {Meta} /\ task.seen \in Seq(Names \cup {Meta})
    BY <1>1, <1>2
  <2>2. Only(Append(task.seen, n), Names) =
          IF n \in Names THEN Append(Only(task.seen, Names), n) ELSE Only(task.seen, Names)
    BY <2>1, OnlyAppend
  <2> QED
    BY <1>2, <2>2 DEF EntriesOf
<1> QED
  BY <1>3, <1>4, <1>5, <1>6 DEF n

\* Every step keeps up what has been handled.
LEMMA HandlingStep ==
  ASSUME IInv, WholeInv, [Next]_vars PROVE Handling'
<1> USE DEF To, Go, Ended, Drained, Passed, Used, Trailing, Passing, Looking, At
<1>n. /\ Versions /\ Shaped /\ Known /\ Headed /\ Now \in Nat /\ Typed
  BY LenProperties DEF IInv, Versions, Now, WholeInv
<1>s. Settled => Current' = Current /\ fmt' = fmt /\ Now' = Now /\ task'.op = task.op
  BY SettledStays DEF Settled
<1>d. ASSUME Settled, task'.entries = task.entries PROVE \A k : Due(k)' = Due(k)
  <2>1. /\ Recs(Now)' = Recs(Now) /\ Want' = Want /\ ByRecord' = ByRecord
    BY <1>d, CurrentStays, SettledStays
  <2> QED
    BY <1>d, <2>1 DEF Due
<1>w. ASSUME Settled, Current,
             task.op \in {"extract", "unpack"} /\ task'.pc = "walk" /\ ~task'.failed =>
               /\ task'.entries = task.entries /\ task'.k = task.k + 1
               /\ EntriesOf(task'.seen) = Due(task.k + 1)
      PROVE  Handling'
  <2> SUFFICES ASSUME task.op \in {"extract", "unpack"}, task'.pc = "walk", ~task'.failed
               PROVE  EntriesOf(task'.seen) = Due(task.k)'
    BY <1>s, <1>w DEF Handling
  <2>1. Due(task.k)' = Due(task.k + 1)
    <3>1. /\ \A k : Due(k)' = Due(k)
          /\ task'.k = task.k + 1
      BY <1>d, <1>w
    <3>2. PICK j : j = task.k + 1
      OBVIOUS
    <3>3. Due(task.k)' = Due(j)'
      BY <3>1, <3>2 DEF Due
    <3> QED
      BY <3>1, <3>2, <3>3
  <2> QED
    BY <1>w, <2>1
<1>x. Settled /\ ~Current => Handling'
  BY <1>s DEF Handling
<1>l. Current /\ Passing => Stands /\ task.pass = Now /\ Paired
  BY AtARecord, NameIsOwn DEF Stands
<1>1. CASE Others
  BY <1>n, <1>1, Outdated DEF Handling

<1>2. ASSUME NEW o \in WindowOps \cup CliOps, NEW sel \in SUBSET Names,
               NEW ix \in BOOLEAN, Begin(o, sel, ix)
        PROVE  Handling'
  <2>1. task'.pc # "walk"
    BY <1>2 DEF Begin, Fresh
  <2> QED
    BY <2>1 DEF Handling

<1>3. CASE UNCHANGED vars
  <2>1. Settled /\ task' = task
    BY <1>n, <1>3, StepsSettled DEF vars
  <2>2. \A k : Due(k)' = Due(k)
    BY <1>d, <2>1
  <2>3. Due(task.k)' = Due(task.k)
    BY <2>1, <2>2 DEF Due
  <2> QED
    BY <1>s, <2>1, <2>3 DEF Handling, WholeInv

<1>4. CASE OffTheWalk
  BY <1>n, <1>4, OffSteps DEF Handling
<1>5. CASE Plan
  <2>1. Settled /\ task.k = 1
    BY <1>n, <1>5, StepsSettled DEF Plan, Headed
  <2> SUFFICES ASSUME Current PROVE Handling'
    BY <1>x, <2>1
  <2>2. task'.pc = "walk" => task'.seen = task.seen /\ task'.k = task.k
    BY <1>n, <2>1, <1>5 DEF Plan, Shaped
  <2>3. task.seen = <<>>
    BY <1>5 DEF Plan, WholeInv, Opening
  <2>4. EntriesOf(<<>>) = <<>>
    BY OnlyEmpty DEF EntriesOf
  <2>5. Due(1)' = <<>>
    <3>1. Now \in 1..Now /\ Now' = Now /\ Recs(Now)' = Recs(Now)
      BY <1>n, <1>s, <2>1, CurrentStays DEF Versions
    <3>2. Recs(Now) \in Seq(Names \cup {Meta})
      BY <1>n, <3>1, RecordTypes
    <3>3. task'.entries \in Seq(Names)
      BY TypedStep DEF WholeInv, Typed
    <3>4. SubSeq(Recs(Now)', 1, 0) = <<>> /\ SubSeq(task'.entries, 1, 0) = <<>>
      BY <3>1, <3>2, <3>3, Prefixes
    <3>5. Only(<<>>, Want') = <<>>
      BY OnlyEmpty
    <3>6. 1 - 1 = 0
      OBVIOUS
    <3>7. SubSeq(Recs(Now)', 1, 1 - 1) = <<>> /\ SubSeq(task'.entries, 1, 1 - 1) = <<>>
      BY <3>4, <3>6
    <3>8. Only(SubSeq(Recs(Now)', 1, 1 - 1), Want') = <<>>
      BY <3>5, <3>7, Zenon
    <3> QED
      BY <3>7, <3>8 DEF Due
  <2>6. task'.pc = "walk" => Due(task.k)' = <<>>
    <3>1. task'.pc = "walk" => Due(task.k)' = Due(1)'
      BY <2>1, <2>2 DEF Due
    <3> QED
      BY <2>5, <3>1
  <2>7. task'.pc = "walk" => EntriesOf(task.seen)' = <<>>
    BY <2>2, <2>3, <2>4
  <2> QED
    BY <2>6, <2>7 DEF Handling
<1>6. CASE PassBy
  <2>1. Settled
    BY <1>n, <1>6, StepsSettled
  <2> SUFFICES ASSUME Current PROVE Handling'
    BY <1>x, <2>1
  <2>2. /\ Stands /\ Paired
        /\ ~Asked(Recs(Now)[task.k])
    BY <1>l, <1>6 DEF PassBy
  <2>3. task.op \in {"extract", "unpack"} /\ task'.pc = "walk" =>
          /\ task'.entries = task.entries /\ task'.k = task.k + 1
          /\ task'.seen = task.seen
    BY <1>n, <1>6 DEF PassBy, Shaped
  <2>4. ~task'.failed => ~task.failed
    BY <1>n, <1>6 DEF PassBy, Shaped
  <2> HIDE DEF Passing, Looking
  <2> QED
    BY <1>w, <2>1, <2>2, <2>3, <2>4, RecordHandled
<1>7. CASE Take
  <2>1. Settled
    BY <1>n, <1>7, StepsSettled
  <2> SUFFICES ASSUME Current PROVE Handling'
    BY <1>x, <2>1
  <2>2. /\ Stands /\ Paired
        /\ Asked(Recs(Now)[task.k])
    BY <1>l, <1>7 DEF Take
  <2>3. task.op \in {"extract", "unpack"} /\ task'.pc = "walk" =>
          /\ task'.entries = task.entries /\ task'.k = task.k + 1
          /\ task'.seen = Append(task.seen, NameAt)
    BY <1>n, <1>7 DEF Take, Shaped
  <2>4. ~task'.failed => ~task.failed
    BY <1>n, <1>7 DEF Take, Shaped
  <2> HIDE DEF Passing, Looking
  <2> QED
    BY <1>w, <2>1, <2>2, <2>3, <2>4, RecordHandled
<1>8. CASE Refuse
  <2>1. Settled
    BY <1>n, <1>8, StepsSettled
  <2> SUFFICES ASSUME Current PROVE Handling'
    BY <1>x, <2>1
  <2>2. /\ Stands /\ Paired
        /\ Asked(Recs(Now)[task.k])
    BY <1>l, <1>8 DEF Refuse
  <2>3. task.op \in {"extract", "unpack"} /\ task'.pc = "walk" =>
          /\ task'.entries = task.entries /\ task'.k = task.k + 1
          /\ task'.seen = Append(task.seen, NameAt)
    BY <1>n, <1>8 DEF Refuse, Shaped
  <2>4. ~task'.failed => ~task.failed
    BY <1>n, <1>8 DEF Refuse, Shaped
  <2> HIDE DEF Passing, Looking
  <2> QED
    BY <1>w, <2>1, <2>2, <2>3, <2>4, RecordHandled
<1>9. CASE Unpaired
  <2>1. Settled /\ ~Current
    BY <1>n, <1>l, <1>9, StepsSettled DEF Unpaired
  <2> QED
    BY <1>x, <2>1
<1>10. CASE LookUp
  <2>1. Settled
    BY <1>n, <1>10, StepsSettled
  <2> SUFFICES ASSUME Current PROVE Handling'
    BY <1>x, <2>1
  <2>2. /\ Looking
    BY <1>l, <1>10 DEF LookUp
  <2>3. task.op \in {"extract", "unpack"} /\ task'.pc = "walk" =>
          /\ task'.entries = task.entries /\ task'.k = task.k + 1
          /\ task'.seen = Append(task.seen, task.entries[task.k])
    BY <1>n, <1>10 DEF LookUp, Shaped
  <2>4. ~task'.failed => ~task.failed
    BY <1>n, <1>10 DEF LookUp, Shaped
  <2> HIDE DEF Passing, Looking
  <2> QED
    BY <1>w, <2>1, <2>2, <2>3, <2>4, EntryHandled
<1>11. CASE RefuseFound
  <2>1. Settled
    BY <1>n, <1>11, StepsSettled
  <2> SUFFICES ASSUME Current PROVE Handling'
    BY <1>x, <2>1
  <2>2. /\ Looking
    BY <1>l, <1>11 DEF RefuseFound
  <2>3. task.op \in {"extract", "unpack"} /\ task'.pc = "walk" =>
          /\ task'.entries = task.entries /\ task'.k = task.k + 1
          /\ task'.seen = Append(task.seen, task.entries[task.k])
    BY <1>n, <1>11 DEF RefuseFound, Shaped
  <2>4. ~task'.failed => ~task.failed
    BY <1>n, <1>11 DEF RefuseFound, Shaped
  <2> HIDE DEF Passing, Looking
  <2> QED
    BY <1>w, <2>1, <2>2, <2>3, <2>4, EntryHandled
<1>12. CASE NotFound
  <2>1. Settled
    BY <1>n, <1>12, StepsSettled
  <2>2. task'.pc # "walk" \/ task'.failed = TRUE
    BY <1>n, <1>12 DEF NotFound, Shaped
  <2> QED
    BY <2>2 DEF Handling
<1>13. CASE ReadFails
  <2>1. Settled
    BY <1>n, <1>13, StepsSettled
  <2>2. task'.pc # "walk" \/ task'.failed = TRUE
    BY <1>n, <1>13 DEF ReadFails, Shaped
  <2> QED
    BY <2>2 DEF Handling
<1> QED
  BY <1>1, <1>2, <1>3, <1>4, <1>5, <1>6, <1>7, <1>8, <1>9, <1>10, <1>11, <1>12, <1>13
     DEF Next, Others, OffTheWalk

\* What a step of the walk decodes.
DecodesOne ==
  /\ task.pc = "walk" /\ task'.entries = task.entries /\ task'.k = task.k + 1
  /\ task.read \subseteq task'.read /\ task'.failed = task.failed
  /\ ByRecord => (IsEntry(Recs(Now)[task.k]) => task.k \in task'.read)
  /\ ~ByRecord => Found(Now, task.entries[task.k]) \in task'.read

\* Every step keeps up what has been decoded.
LEMMA DecodingStep ==
  ASSUME IInv, WholeInv, [Next]_vars PROVE Decoding'
<1> USE DEF To, Go, Ended, Drained, Passed, Used, Trailing, Passing, Looking, At
<1>n. /\ Versions /\ Shaped /\ Known /\ Headed /\ Now \in Nat /\ Typed
  BY LenProperties DEF IInv, Versions, Now, WholeInv
<1>s. Settled => Current' = Current /\ fmt' = fmt /\ Now' = Now /\ task'.op = task.op
  BY SettledStays DEF Settled
<1>d. ASSUME Settled, task'.entries = task.entries, task.read \subseteq task'.read
      PROVE  \A i : Done(i) => Done(i)'
  <2>1. Recs(Now)' = Recs(Now) /\ ByRecord' = ByRecord /\ \A n : Found(Now, n)' = Found(Now, n)
    BY <1>d, CurrentStays, SettledStays
  <2> QED
    BY <1>d, <2>1 DEF Done
<1>w. ASSUME Settled, Current,
             task.op \in {"verify", "test"} /\ task'.pc = "walk" => DecodesOne
      PROVE  Decoding'
  <2> SUFFICES ASSUME task.op \in {"verify", "test"}, task'.pc = "walk"
               PROVE  ~task'.failed /\ \A i \in 1..(task'.k - 1) : Done(i)'
    BY <1>s, <1>w DEF Decoding
  <2>1. /\ task.pc = "walk" /\ task'.entries = task.entries /\ task'.k = task.k + 1
        /\ task.read \subseteq task'.read /\ task'.failed = task.failed
    BY <1>w DEF DecodesOne
  <2>2. ~task.failed /\ \A i \in 1..(task.k - 1) : Done(i)
    BY <1>w, <2>1 DEF WholeInv, Decoding
  <2>3. \A i : Done(i) => Done(i)'
    BY <1>d, <1>w, <2>1
  <2>4. ASSUME NEW i, i = task.k PROVE Done(i)'
    <3>1. ByRecord' = ByRecord /\ Recs(Now)' = Recs(Now) /\ \A n : Found(Now, n)' = Found(Now, n)
      BY <1>w, CurrentStays, SettledStays
    <3> QED
      BY <1>w, <2>1, <2>4, <3>1 DEF DecodesOne, Done
  <2>5. task.k \in Nat \ {0}
    BY <1>n DEF Headed
  <2> QED
    BY <2>1, <2>2, <2>3, <2>4, <2>5
<1>x. Settled /\ ~Current => Decoding'
  BY <1>s DEF Decoding
<1>l. Current /\ Passing => /\ Stands /\ task.pass = Now /\ Paired /\ ByRecord /\ task.pc = "walk"
                            /\ task.k \in 1..Len(Recs(Now))
  BY AtARecord, NameIsOwn DEF Stands
<1>1. CASE Others
  BY <1>n, <1>1, Outdated DEF Decoding

<1>2. ASSUME NEW o \in WindowOps \cup CliOps, NEW sel \in SUBSET Names,
               NEW ix \in BOOLEAN, Begin(o, sel, ix)
        PROVE  Decoding'
  <2>1. task'.pc # "walk"
    BY <1>2 DEF Begin, Fresh
  <2> QED
    BY <2>1 DEF Decoding

<1>3. CASE UNCHANGED vars
  <2>1. Settled /\ task' = task
    BY <1>n, <1>3, StepsSettled DEF vars
  <2>2. \A i : Done(i) => Done(i)'
    BY <1>d, <2>1
  <2> QED
    BY <1>s, <2>1, <2>2 DEF Decoding, WholeInv

<1>4. CASE OffTheWalk
  BY <1>n, <1>4, OffSteps DEF Decoding
<1>5. CASE Plan
  <2>1. Settled /\ task.k = 1
    BY <1>n, <1>5, StepsSettled DEF Plan, Headed
  <2>2. task'.pc = "walk" => task'.k = task.k
    BY <1>n, <2>1, <1>5 DEF Plan, Shaped
  <2>3. task'.failed = task.failed
    BY <1>n, <2>1, <1>5 DEF Plan, Shaped
  <2>4. Current => ~task.failed
    BY <1>5 DEF Plan, WholeInv, Opening
  <2>5. task'.pc = "walk" => \A i \in 1..(task'.k - 1) : FALSE
    BY <2>1, <2>2
  <2> QED
    BY <1>s, <2>1, <2>3, <2>4, <2>5 DEF Decoding
<1>6. CASE PassBy
  <2>1. Settled
    BY <1>n, <1>6, StepsSettled
  <2> SUFFICES ASSUME Current, task.op \in {"verify", "test"} PROVE Decoding'
    BY <1>x, <1>s, <2>1 DEF Decoding
  <2>2. Stands /\ ByRecord /\ ~Asked(Recs(Now)[task.k])
    BY <1>l, <1>6 DEF PassBy
  <2>3. ~IsEntry(Recs(Now)[task.k])
    BY <2>2, AskedIsWanted
  <2>4. /\ task.pc = "walk" /\ task'.entries = task.entries /\ task'.k = task.k + 1
        /\ task.read \subseteq task'.read
    BY <1>n, <1>6 DEF PassBy, Shaped
  <2>5. task'.failed = task.failed
    BY <1>n, <1>6 DEF PassBy, Shaped
  <2> QED
    BY <1>w, <2>1, <2>2, <2>3, <2>4, <2>5 DEF DecodesOne
<1>7. CASE Take
  <2>1. Settled
    BY <1>n, <1>7, StepsSettled
  <2> SUFFICES ASSUME Current, task.op \in {"verify", "test"} PROVE Decoding'
    BY <1>x, <1>s, <2>1 DEF Decoding
  <2>2. Stands /\ ByRecord /\ task.pc = "walk"
    BY <1>l, <1>7 DEF Take
  <2>3. (IF Decodes THEN task.head ELSE task.k) = task.k
    BY <1>n, <2>2 DEF Headed, ByPosition
  <2>4. /\ task'.entries = task.entries /\ task'.k = task.k + 1
        /\ task.read \cup {IF Decodes THEN task.head ELSE task.k} \subseteq task'.read
    BY <1>n, <1>7 DEF Take, Shaped
  <2>5. task'.failed = task.failed
    BY <1>n, <1>7 DEF Take, Shaped
  <2> QED
    BY <1>w, <2>1, <2>2, <2>3, <2>4, <2>5 DEF DecodesOne
<1>8. CASE Refuse
  <2>1. Settled /\ task'.op \notin {"verify", "test"}
    BY <1>n, <1>8, StepsSettled DEF Refuse, Settled
  <2> QED
    BY <2>1 DEF Decoding
<1>9. CASE Unpaired
  <2>1. Settled /\ ~Current
    BY <1>n, <1>l, <1>9, StepsSettled DEF Unpaired
  <2> QED
    BY <1>x, <2>1
<1>10. CASE LookUp
  <2>1. Settled
    BY <1>n, <1>10, StepsSettled
  <2> SUFFICES ASSUME Current, task.op \in {"verify", "test"} PROVE Decoding'
    BY <1>x, <1>s, <2>1 DEF Decoding
  <2> DEFINE n == task.entries[task.k]
  <2>2. ~ByRecord /\ task.pc = "walk" /\ Has(Recs(From), n)
    BY <1>10 DEF LookUp, ByRecord
  <2>3. From = Now /\ Now \in 1..Now
    BY <1>n, <2>2, FromIsCurrent DEF WholeInv, Opened, Versions
  <2>4. /\ task'.entries = task.entries /\ task'.k = task.k + 1
        /\ task.read \subseteq task'.read
        /\ fmt \notin Streams => Found(From, n) \in task'.read
        /\ fmt \in Streams /\ task.kept = None => 1 \in task'.read
    BY <1>n, <1>10 DEF LookUp, Shaped
  <2>5. task'.failed = task.failed
    BY <1>n, <1>10 DEF LookUp, Shaped
  <2>6. fmt \in Streams => Found(Now, n) = 1
    BY <1>n, <2>2, <2>3, StreamFound
  <2>7. fmt \in Streams /\ task.kept # None => 1 \in task.read
    BY <2>2 DEF WholeInv, Opening
  <2>8. Found(Now, n) \in task'.read
    BY <2>3, <2>4, <2>6, <2>7
  <2> QED
    BY <1>w, <2>1, <2>2, <2>4, <2>5, <2>8 DEF DecodesOne
<1>11. CASE RefuseFound
  <2>1. Settled /\ task'.op \notin {"verify", "test"}
    BY <1>n, <1>11, StepsSettled DEF RefuseFound, Settled
  <2> QED
    BY <2>1 DEF Decoding
<1>12. CASE NotFound
  <2>1. Settled
    BY <1>n, <1>12, StepsSettled
  <2>2. task'.pc # "walk" \/ task.op = "unpack"
    BY <1>n, <1>12 DEF NotFound, Shaped
  <2> QED
    BY <1>s, <2>1, <2>2 DEF Decoding
<1>13. CASE ReadFails
  <2>1. Settled
    BY <1>n, <1>13, StepsSettled
  <2>2. task'.pc # "walk" \/ task.op = "unpack"
    BY <1>n, <1>13 DEF ReadFails, Shaped, ByPosition
  <2> QED
    BY <1>s, <2>1, <2>2 DEF Decoding
<1> QED
  BY <1>1, <1>2, <1>3, <1>4, <1>5, <1>6, <1>7, <1>8, <1>9, <1>10, <1>11, <1>12, <1>13
     DEF Next, Others, OffTheWalk
-----------------------------------------------------------------------------
\* Success.

\* At the end of the walk all that is due has been handled.
LEMMA AllIsDue ==
  ASSUME IInv, WholeInv, Current, task.pc = "walk", task.op \in {"extract", "unpack"},
         IF fmt.walk = "lookup" THEN task.k > Len(task.entries)
         ELSE task.k > Len(Recs(task.pass))
  PROVE  Due(task.k) = Wanted(Now)
<1>1. Now \in 1..Now /\ task.k \in Nat
  BY LenProperties DEF IInv, Versions, Now, Headed
<1>2. Recs(Now) \in Seq(Names \cup {Meta}) /\ task.entries \in Seq(Names)
  BY <1>1, RecordTypes DEF IInv, WholeInv, Typed
<1>3. CASE ByRecord
  <2>1. Len(Recs(Now)) \in Nat /\ SubSeq(Recs(Now), 1, Len(Recs(Now))) = Recs(Now)
    BY <1>2, Prefixes
  <2>2. task.k - 1 = Len(Recs(Now))
    <3>1. task.pass = Now /\ task.k <= Len(Recs(Now)) + 1
      BY <1>3 DEF WholeInv, Walking
    <3>2. task.k > Len(Recs(Now))
      BY <1>3, <3>1 DEF ByRecord
    <3> QED
      BY <1>1, <2>1, <3>1, <3>2
  <2> QED
    BY <1>3, <2>1, <2>2 DEF Due, Wanted
<1>4. CASE ~ByRecord
  <2>1. Len(task.entries) \in Nat /\ SubSeq(task.entries, 1, Len(task.entries)) = task.entries
    BY <1>2, Prefixes
  <2>2. task.k - 1 = Len(task.entries)
    <3>1. task.k <= Len(task.entries) + 1
      BY <1>4 DEF WholeInv, Walking
    <3>2. task.k > Len(task.entries)
      BY <1>4 DEF ByRecord
    <3> QED
      BY <1>1, <2>1, <3>1, <3>2
  <2>3. task.entries = Wanted(Now)
    BY DEF WholeInv, Walking
  <2> QED
    BY <1>4, <2>1, <2>2, <2>3 DEF Due
<1> QED
  BY <1>3, <1>4

\* No step succeeds before all that is due has been handled.
LEMMA SuccessStep ==
  ASSUME IInv, WholeInv, [Next]_vars PROVE SuccessIsWhole'
<1> USE DEF To, Go, Ended, Drained, Passed, Used, Trailing, Passing, Looking, At
<1>n. /\ Versions /\ Shaped /\ Known /\ Headed /\ Now \in Nat /\ Typed /\ SuccessIsWhole
  BY LenProperties DEF IInv, Versions, Now, WholeInv
<1>s. Settled => /\ Current' = Current /\ fmt' = fmt /\ Now' = Now /\ task'.op = task.op
                 /\ task'.sel = task.sel /\ task'.begun = task.begun
                 /\ Listed(Now)' = Listed(Now) /\ Wanted(Now)' = Wanted(Now)
  BY SettledStays, CurrentStays DEF Settled
<1>p. task.op = "preview" => \E n \in Names : task.sel = {n} /\ Sole(task.sel) = n
  BY DEF WholeInv, Request, Sole
<1>q. ASSUME Settled, Current, task.op = "preview", task'.seen = <<Sole(task.sel)>>
      PROVE  SuccessIsWhole'
  <2>1. PICK n \in Names : task.sel = {n} /\ Sole(task.sel) = n
    BY <1>p, <1>q
  <2>2. {task'.seen} = {<<m>> : m \in task'.sel}
    BY <1>q, <1>s, <2>1
  <2> QED
    BY <1>q, <1>s, <2>2 DEF SuccessIsWhole
<1>r. ASSUME Settled, task'.result = "ok" /\ task'.op \in {"extract", "unpack", "preview"} => FALSE
      PROVE  SuccessIsWhole'
  BY <1>r DEF SuccessIsWhole
<1>x. ASSUME Settled, ~Current PROVE SuccessIsWhole'
  <2>1. task'.op = "list" \/ task'.begun # Now'
    BY <1>s, <1>x DEF Current
  <2> QED
    BY <2>1 DEF SuccessIsWhole
<1>1. CASE Others
  <2>1. task'.begun # Now'
    BY <1>n, <1>1, Outdated
  <2> QED
    BY <2>1 DEF SuccessIsWhole

<1>2. ASSUME NEW o \in WindowOps \cup CliOps, NEW sel \in SUBSET Names,
               NEW ix \in BOOLEAN, Begin(o, sel, ix)
        PROVE  SuccessIsWhole'
  <2>1. task'.result # "ok"
    BY <1>2 DEF Begin, Fresh
  <2> QED
    BY <2>1 DEF SuccessIsWhole

<1>3. CASE UNCHANGED vars
  <2>1. Settled /\ task' = task
    BY <1>n, <1>3, StepsSettled DEF vars
  <2> QED
    BY <1>n, <1>s, <2>1 DEF SuccessIsWhole

<1>4. CASE Unsuccessful
  BY <1>n, <1>r, <1>4, UnsuccessfulSteps
<1>5. CASE VerifyOuter
  <2>1. Settled
    BY <1>n, <1>5, StepsSettled
  <2>2. task'.result = "ok" => task.op \in {"list", "test"}
    BY <1>n, <1>5 DEF VerifyOuter, Typed, Shaped
  <2> QED
    BY <1>r, <1>s, <2>1, <2>2
<1>6. CASE MatchesFile
  <2>1. Settled
    BY <1>n, <1>6, StepsSettled
  <2>2. task'.result = "ok" => task.op \in {"list", "test"}
    BY <1>n, <1>6 DEF MatchesFile, Typed, Shaped
  <2> QED
    BY <1>r, <1>s, <2>1, <2>2
<1>7. CASE Open
  <2>1. Settled
    BY <1>n, <1>7, StepsSettled
  <2>2. task'.result = "ok" => task.op \in {"list", "test"}
    BY <1>n, <1>7 DEF Open, Typed, Shaped
  <2> QED
    BY <1>r, <1>s, <2>1, <2>2
<1>8. CASE Take
  <2>1. Settled
    BY <1>n, <1>8, StepsSettled
  <2>2. task'.result = "ok" => task.op = "preview"
    BY <1>n, <1>8 DEF Take, Typed, Shaped
  <2>3. task'.seen = Append(task.seen, NameAt)
    BY <1>n, <1>8 DEF Take, Shaped
  <2> SUFFICES ASSUME Current, task.op = "preview" PROVE SuccessIsWhole'
    BY <1>r, <1>s, <1>x, <2>1, <2>2
  <2>4. Stands /\ task.pc = "walk"
    BY <1>8 DEF Take, Stands
  <2>5. task.seen = <<>> /\ task.entries = <<Sole(task.sel)>>
    BY <2>4 DEF WholeInv, Walking
  <2>6. NameAt = Recs(Now)[task.k] /\ task.pass = Now
    BY <2>4, NameIsOwn, AtARecord
  <2>7. Has(task.entries, Recs(Now)[task.k])
    BY <2>6, <1>8 DEF Take, Asked
  <2>8. NameAt = Sole(task.sel)
    BY <2>5, <2>6, <2>7 DEF Has
  <2> QED
    BY <1>q, <2>1, <2>3, <2>5, <2>8
<1>9. CASE LookUp
  <2>1. Settled
    BY <1>n, <1>9, StepsSettled
  <2>2. task'.result = "ok" => task.op = "preview"
    BY <1>n, <1>9 DEF LookUp, Typed, Shaped
  <2>3. task'.seen = Append(task.seen, task.entries[task.k])
    BY <1>n, <1>9 DEF LookUp, Shaped
  <2> SUFFICES ASSUME Current, task.op = "preview" PROVE SuccessIsWhole'
    BY <1>r, <1>s, <1>x, <2>1, <2>2
  <2>4. task.pc = "walk" /\ task.k <= Len(task.entries)
    BY <1>9 DEF LookUp
  <2>5. task.seen = <<>> /\ task.entries = <<Sole(task.sel)>>
    BY <2>4 DEF WholeInv, Walking
  <2>6. task.entries[task.k] = Sole(task.sel)
    BY <1>n, <2>4, <2>5 DEF Headed
  <2> QED
    BY <1>q, <2>1, <2>3, <2>5, <2>6
<1>10. CASE Finish
  <2>1. Settled
    BY <1>n, <1>10, StepsSettled
  <2>2. task'.result = "ok" => task.op # "preview" /\ ~task.failed
    BY <1>n, <1>10 DEF Finish, Typed, Shaped
  <2>3. task'.seen = task.seen
    BY <1>n, <1>10 DEF Finish, Shaped
  <2> SUFFICES ASSUME Current, task.op \in {"extract", "unpack"}, ~task.failed
               PROVE  SuccessIsWhole'
    BY <1>r, <1>s, <1>x, <2>1, <2>2
  <2>4. task.pc = "walk"
    BY <1>10 DEF Finish
  <2>5. EntriesOf(task.seen) = Wanted(Now)
    BY <2>4, <1>10, AllIsDue DEF WholeInv, Handling, Finish
  <2>6. Selected(Listed(Now), task.sel) = Wanted(Now)
    <3>1. Now \in 1..Now
      BY <1>n DEF Versions
    <3> QED
      BY <1>n, <3>1, WantedTypes DEF Typed
  <2> QED
    BY <1>s, <2>1, <2>3, <2>5, <2>6 DEF SuccessIsWhole
<1> QED
  BY <1>1, <1>2, <1>3, <1>4, <1>5, <1>6, <1>7, <1>8, <1>9, <1>10 DEF Next, Others, Unsuccessful

\* A verification at its end has decoded all it can reach.
LEMMA AllIsDone ==
  ASSUME IInv, WholeInv, Current, task.pc = "walk", task.op \in {"verify", "test"},
         IF fmt.walk = "lookup" THEN task.k > Len(task.entries)
         ELSE task.k > Len(Recs(task.pass))
  PROVE  Reachable \subseteq task.read
<1>1. Now \in 1..Now /\ task.k \in Nat /\ Versions
  BY LenProperties DEF IInv, Versions, Now, Headed
<1>2. /\ Recs(Now) \in Seq(Names \cup {Meta}) /\ task.entries \in Seq(Names)
      /\ task.sel \subseteq Names
  BY <1>1, RecordTypes DEF IInv, WholeInv, Typed
<1>3. \A i \in 1..(task.k - 1) : Done(i)
  BY DEF WholeInv, Decoding
<1>l. Len(Recs(Now)) \in Nat /\ Len(task.entries) \in Nat
  BY <1>2, LenProperties
<1> SUFFICES ASSUME NEW i \in Reachable PROVE i \in task.read
  OBVIOUS
<1>4. /\ i \in 1..Len(Recs(Now)) /\ IsEntry(Recs(Now)[i])
      /\ ~ByRecord => i = Found(Now, Recs(Now)[i])
  BY DEF Reachable, ByRecord
<1>5. CASE ByRecord
  <2>1. task.k > Len(Recs(Now))
    BY <1>5 DEF WholeInv, Walking, ByRecord
  <2>2. i \in 1..(task.k - 1)
    BY <1>1, <1>4, <1>l, <2>1
  <2> QED
    BY <1>3, <1>4, <1>5, <2>2 DEF Done
<1>6. CASE ~ByRecord
  <2>1. task.entries = Wanted(Now) /\ Want = Names /\ task.k > Len(task.entries)
    BY <1>6 DEF WholeInv, Walking, Request, Want, ByRecord
  <2>2. Recs(Now)[i] \in Names
    BY <1>2, <1>4, ElementOfSeq DEF IsEntry
  <2>3. Has(Recs(Now), Recs(Now)[i])
    BY <1>4 DEF Has
  <2>4. Has(task.entries, Recs(Now)[i])
    BY <1>1, <1>2, <2>1, <2>2, <2>3, WantedTypes
  <2>5. PICK j \in 1..Len(task.entries) : task.entries[j] = Recs(Now)[i]
    BY <2>4 DEF Has
  <2>6. j \in 1..(task.k - 1)
    BY <1>1, <1>l, <2>1
  <2>7. Found(Now, task.entries[j]) \in task.read
    BY <1>3, <1>6, <2>6 DEF Done
  <2> QED
    BY <1>4, <1>6, <2>5, <2>7
<1> QED
  BY <1>5, <1>6

\* No verification succeeds before all that it can reach has been decoded.
LEMMA VerifiedStep ==
  ASSUME IInv, WholeInv, [Next]_vars PROVE VerifiedIsWhole'
<1> USE DEF To, Go, Ended, Drained, Passed, Used, Trailing, Passing, Looking, At
<1>n. /\ Versions /\ Shaped /\ Known /\ Headed /\ Now \in Nat /\ Typed /\ VerifiedIsWhole
      /\ Now \in 1..Now
  BY LenProperties DEF IInv, Versions, Now, WholeInv
<1>f. Regular(fmt) /\ (fmt \in Streams => fmt.walk = "lookup")
  BY <1>n, FormatFacts DEF Typed
<1>t. fmt.outer \/ fmt.checks \/ fmt \in Streams => ~fmt.tail
  BY <1>f DEF Regular
<1>s. Settled => /\ Current' = Current /\ fmt' = fmt /\ Now' = Now /\ task'.op = task.op
                 /\ task'.begun = task.begun /\ Reachable' = Reachable
  BY SettledStays, CurrentStays DEF Settled, Reachable
<1>r. ASSUME Settled, task'.result = "ok" => task'.op \notin {"verify", "test"}
      PROVE  VerifiedIsWhole'
  BY <1>r DEF VerifiedIsWhole
<1>x. ASSUME Settled, ~Current PROVE VerifiedIsWhole'
  <2>1. task'.op = "list" \/ task'.begun # Now'
    BY <1>s, <1>x DEF Current
  <2> QED
    BY <2>1 DEF VerifiedIsWhole
<1>1. CASE Others
  <2>1. task'.begun # Now'
    BY <1>n, <1>1, Outdated
  <2> QED
    BY <2>1 DEF VerifiedIsWhole

<1>2. ASSUME NEW o \in WindowOps \cup CliOps, NEW sel \in SUBSET Names,
               NEW ix \in BOOLEAN, Begin(o, sel, ix)
        PROVE  VerifiedIsWhole'
  <2>1. task'.result # "ok"
    BY <1>2 DEF Begin, Fresh
  <2> QED
    BY <2>1 DEF VerifiedIsWhole

<1>3. CASE UNCHANGED vars
  <2>1. Settled /\ task' = task
    BY <1>n, <1>3, StepsSettled DEF vars
  <2> QED
    BY <1>n, <1>s, <2>1 DEF VerifiedIsWhole

<1>4. CASE Unsuccessful
  BY <1>n, <1>r, <1>4, UnsuccessfulSteps
<1>5. CASE VerifyOuter
  <2>1. Settled
    BY <1>n, <1>5, StepsSettled
  <2>2. task'.result = "ok" => task.op = "test"
    BY <1>n, <1>5 DEF VerifyOuter, Typed, Shaped
  <2>3. task.op = "test" => task'.read = IF fmt.outer THEN {Outer} ELSE {1}
    BY <1>n, <1>5 DEF VerifyOuter, Shaped
  <2> SUFFICES ASSUME task.op = "test" PROVE VerifiedIsWhole'
    BY <1>r, <1>s, <2>1, <2>2
  <2>4. fmt.outer \/ fmt \in Streams
    BY <1>5 DEF VerifyOuter, WholeInv, Request
  <2>5. ~fmt.outer => Reachable \subseteq {1}
    <3>1. ~fmt.outer => Len(Recs(Now)) = 1
      BY <1>n, <2>4 DEF Typed, Possible
    <3> QED
      BY <3>1 DEF Reachable
  <2> QED
    BY <1>s, <1>t, <2>1, <2>3, <2>4, <2>5 DEF VerifiedIsWhole
<1>6. CASE MatchesFile
  <2>1. Settled
    BY <1>n, <1>6, StepsSettled
  <2>2. task'.result = "ok" => task.op \in {"preview", "list"}
    BY <1>n, <1>6 DEF MatchesFile, Typed, Shaped
  <2> QED
    BY <1>r, <1>s, <2>1, <2>2
<1>7. CASE Open
  <2>1. Settled
    BY <1>n, <1>7, StepsSettled
  <2>2. task'.result = "ok" => /\ task.op = "test" /\ fmt.checks
                               /\ 1..Len(Recs(Now)) \subseteq task'.read
    BY <1>n, <1>7 DEF Open, Typed, Shaped
  <2> SUFFICES ASSUME Current, task'.result = "ok" PROVE VerifiedIsWhole'
    BY <1>r, <1>x, <2>1
  <2>3. ~fmt.outer
    BY <2>2, <1>7 DEF Open, WholeInv, Opening
  <2>4. Reachable \subseteq task'.read
    BY <2>2 DEF Reachable
  <2> QED
    BY <1>s, <1>t, <2>1, <2>2, <2>3, <2>4 DEF VerifiedIsWhole
<1>8. CASE Take
  <2>1. Settled
    BY <1>n, <1>8, StepsSettled
  <2>2. task'.result = "ok" => task.op \in {"preview", "list"}
    BY <1>n, <1>8 DEF Take, Typed, Shaped
  <2> QED
    BY <1>r, <1>s, <2>1, <2>2
<1>9. CASE LookUp
  <2>1. Settled
    BY <1>n, <1>9, StepsSettled
  <2>2. task'.result = "ok" => task.op \in {"preview", "list"}
    BY <1>n, <1>9 DEF LookUp, Typed, Shaped
  <2> QED
    BY <1>r, <1>s, <2>1, <2>2
<1>10. CASE Finish
  <2>1. Settled
    BY <1>n, <1>10, StepsSettled
  <2>2. task'.read = task.read \cup IF fmt.tail /\ fmt.walk = "drain" THEN {Trailer} ELSE {}
    BY <1>n, <1>10 DEF Finish, Shaped
  <2> SUFFICES ASSUME Current, task.op \in {"verify", "test"} PROVE VerifiedIsWhole'
    BY <1>x, <1>s, <2>1 DEF VerifiedIsWhole
  <2>3. Reachable \subseteq task.read
    BY <1>10, AllIsDone DEF Finish
  <2>4. /\ fmt.outer => task.op = "verify" /\ Outer \in task.read
    BY <1>10 DEF Finish, WholeInv, Opening
  <2>5. fmt.tail => fmt.walk = "drain"
    BY <1>f DEF Regular
  <2> QED
    BY <1>s, <2>1, <2>2, <2>3, <2>4, <2>5 DEF VerifiedIsWhole
<1> QED
  BY <1>1, <1>2, <1>3, <1>4, <1>5, <1>6, <1>7, <1>8, <1>9, <1>10 DEF Next, Others, Unsuccessful
-----------------------------------------------------------------------------

\* The second invariant, which rests on the first, likewise.
LEMMA InitWhole == Init => WholeInv
<1> SUFFICES ASSUME Init PROVE WholeInv
  OBVIOUS
<1>1. PICK s \in Shapes :
        Possible(s) /\ vers = <<[names |-> s, stamp |-> 1, file |-> 1]>>
  BY DEF Init
<1>2. Now = 1 /\ Recs(1) = s
  BY <1>1 DEF Now, Recs
<1>3. task = Fresh /\ index = NoIndex /\ fmt \in Formats
  BY DEF Init
<1>4. Typed
  BY <1>1, <1>2, <1>3 DEF Typed, Fresh, NoIndex, None, WindowOps
<1>5. Request /\ Recorded /\ Before /\ Opening /\ Walking /\ Handling /\ Decoding
  BY <1>3 DEF Fresh, Request, Recorded, Before, Opening, Walking, Handling, Decoding, CliOps
<1>6. SuccessIsWhole /\ VerifiedIsWhole
  BY <1>3 DEF Fresh, SuccessIsWhole, VerifiedIsWhole
<1> QED
  BY <1>4, <1>5, <1>6 DEF WholeInv

\* Every step keeps both.
LEMMA StepWhole == IInv /\ WholeInv /\ [Next]_vars => WholeInv'
<1> SUFFICES ASSUME IInv, WholeInv, [Next]_vars PROVE WholeInv'
  OBVIOUS
<1>1. Versions /\ Shaped /\ Listing /\ Typed /\ Request /\ Recorded /\ Before
  BY DEF IInv, WholeInv
<1>2. Typed' /\ Request' /\ Recorded' /\ Before'
  BY <1>1, TypedStep, RequestStep, RecordedStep, BeforeStep
<1>3. Opening' /\ Walking' /\ Handling' /\ Decoding'
  BY OpeningStep, WalkingStep, HandlingStep, DecodingStep
<1>4. SuccessIsWhole' /\ VerifiedIsWhole'
  BY SuccessStep, VerifiedStep
<1> QED
  BY <1>2, <1>3, <1>4 DEF WholeInv

\* An extraction that succeeds on an archive that did not change has handled every
\* entry it was asked for, each once and in the archive's order; a preview, the one
\* it shows (engine::extract, engine::preview, decompress::run).
THEOREM WholeOnSuccess == Spec => []SuccessIsWhole
<1>1. WholeInv => SuccessIsWhole
  BY DEF WholeInv
<1> QED
  BY <1>1, InitInv, StepInv, InitWhole, StepWhole, PTL DEF Spec

\* A verification that succeeds on an archive that did not change has decoded from
\* disk all that can be reached (engine::verify, test::run_verify).
THEOREM WholeOnVerification == Spec => []VerifiedIsWhole
<1>1. WholeInv => VerifiedIsWhole
  BY DEF WholeInv
<1> QED
  BY <1>1, InitInv, StepInv, InitWhole, StepWhole, PTL DEF Spec
=============================================================================
