------------------------ MODULE ArchiveCreationProofs ------------------------
(***************************************************************************)
(* Creating an archive, for any tree, requests and bounds: types, that     *)
(* what is published has every payload whole and under its own name, and   *)
(* that every file at or below a source is in it.                          *)
(* Then its volumes: splits to one name, for any number of commands,       *)
(* readers and volumes (types, exclusive publication, and that what        *)
(* remains is one set), the writer of volumes (their order, their numbers  *)
(* and their sizes), and their reader, who sees one stream of bytes.       *)
(***************************************************************************)
EXTENDS ArchiveCreation, SplitVolumes, VolumeStream, FiniteSetTheorems, FunctionTheorems,
        SequenceTheorems, WellFoundedInduction, TLAPS

\* What is on a tape, and what the job and the writer hold.
Item ==
  {Closing, Stub} \cup {Block(p, i) : p \in Paths, i \in Nat}
    \cup {Header(n, s) : n \in Seq(Steps), s \in Nat} \cup {Folder(n) : n \in Seq(Steps)}

InputType == [path : Paths, name : Seq(Steps), dir : BOOLEAN, size : Nat]
Pending   == [path : Paths, name : Seq(Steps)]
PooledEntry  == [name : Seq(Steps), dir : BOOLEAN, off : Nat, n : Nat]

Early  == {"validate", "roots", "walk", "collect"}
Adding == {"entry", "read"}
Late   == {"join", "wrap", "check", "publish"}

JobType ==
  [pc : Early \cup Adding \cup Late \cup {"over"}, stack : Seq(Pending),
   left : Seq(Paths), late : Seq(InputType), inputs : Seq(InputType),
   k : Nat \ {0}, pos : Nat, lost : SUBSET Nat, result : {"none", "ok", "failed"}]

StagedType ==
  [pool : Seq(Item), entries : Seq(PooledEntry), batch : Seq(Seq(Item)),
   used : Nat, broken : BOOLEAN]

CreationTypeOK ==
  /\ req \in Requests /\ wr \in Writers
  /\ kind \in [Paths -> Kinds] /\ len \in [Paths -> Nat]
  /\ job \in JobType /\ staged \in StagedType
  /\ tape \in Seq(Item) /\ pipe \in Seq(Item) /\ made \in Seq(Item)
  /\ enc \in {"running", "failed", "done"}

-----------------------------------------------------------------------------
(* The writers.                                                            *)

LEMMA WriterFacts ==
  ASSUME NEW w \in Writers
  PROVE  /\ w.lay \in {"streamed", "measured", "pooled"}
         /\ w.threaded \in BOOLEAN /\ w.sized \in BOOLEAN /\ w.batched \in BOOLEAN
         /\ w.sized => w.lay = "measured" /\ ~w.batched
         /\ w.threaded => w.sized
         /\ w.batched => w.lay = "measured"
         /\ w \in Recovering => ~w.threaded /\ w.lay # "streamed"
<1>1. \A w_ \in {ZipWriter, SevenZipWriter, SingleStream} :
        /\ w_.lay = "streamed" /\ w_.sized = FALSE /\ w_.threaded = FALSE /\ w_.batched = FALSE /\ w_.undo = "left"
        /\ w_.twins \in {"kept", "refused"}
  BY DEF ZipWriter, SevenZipWriter, SingleStream, Streaming
<1>2. \A w_ \in {TarWriter, TarBz2Writer, TarXzWriter, TarZstWriter, TarLz4Writer, TarGzWriter,
               TarBrWriter, TarGzParallel} :
        /\ w_.lay = "measured" /\ w_.sized = TRUE /\ w_.threaded \in BOOLEAN /\ w_.batched = FALSE
        /\ w_.undo = "left" /\ w_.twins = "kept"
  BY DEF TarWriter, TarBz2Writer, TarXzWriter, TarZstWriter, TarLz4Writer, TarGzWriter,
         TarBrWriter, TarGzParallel, Streaming
<1>3. \A w_ \in {CpioWriter, LzhWriter, SevenZipSolid} :
        /\ w_.lay = "measured" /\ w_.sized = FALSE /\ w_.threaded = FALSE /\ w_.batched \in BOOLEAN
  BY DEF CpioWriter, LzhWriter, SevenZipSolid, Measuring, Streaming
<1>4. \A w_ \in {DebWriter, CabWriter, WimWriter, IsoWriter, UdfWriter, AsarWriter, ZpaqWriter} :
        /\ w_.lay = "pooled" /\ w_.sized = FALSE /\ w_.threaded = FALSE /\ w_.batched = FALSE
  BY DEF DebWriter, CabWriter, WimWriter, IsoWriter, UdfWriter, AsarWriter, ZpaqWriter,
         Pooling, Streaming
<1>5. LzhWriter.lay = "measured" /\ LzhWriter.threaded = FALSE
  BY <1>3
<1>6. \/ w \in {ZipWriter, SevenZipWriter, SingleStream}
      \/ w \in {TarWriter, TarBz2Writer, TarXzWriter, TarZstWriter, TarLz4Writer, TarGzWriter,
               TarBrWriter, TarGzParallel}
      \/ w \in {CpioWriter, LzhWriter, SevenZipSolid}
      \/ w \in {DebWriter, CabWriter, WimWriter, IsoWriter, UdfWriter, AsarWriter, ZpaqWriter}
  BY DEF Writers
<1>7. w \in Recovering => w.undo # "left" \/ w = LzhWriter
  BY DEF Recovering
<1>8. CASE w \in {ZipWriter, SevenZipWriter, SingleStream}
  BY <1>1, <1>5, <1>7, <1>8
<1>9. CASE w \in {TarWriter, TarBz2Writer, TarXzWriter, TarZstWriter, TarLz4Writer, TarGzWriter,
               TarBrWriter, TarGzParallel}
  <2>1. w.undo = "left" /\ w.lay = "measured" /\ w.sized = TRUE /\ w.threaded \in BOOLEAN /\ w.batched = FALSE
    BY <1>2, <1>9
  <2> QED
    BY <2>1, <1>5, <1>7
<1>10. CASE w \in {CpioWriter, LzhWriter, SevenZipSolid}
  BY <1>3, <1>5, <1>7, <1>10
<1>11. CASE w \in {DebWriter, CabWriter, WimWriter, IsoWriter, UdfWriter, AsarWriter, ZpaqWriter}
  BY <1>4, <1>5, <1>7, <1>11
<1> QED
  BY <1>6, <1>8, <1>9, <1>10, <1>11

LEMMA RequestFacts ==
  CreationTypeOK => /\ req.sources \in Seq(Paths) /\ req.output \in Paths
BY CreationAssumption DEF CreationTypeOK

-----------------------------------------------------------------------------
(* Collections in some order.                                              *)

LEMMA InSomeOrder ==
  ASSUME NEW S, IsFiniteSet(S)
  PROVE  SetToSeq(S) \in Seq(S) /\ IsInjective(SetToSeq(S)) /\ Range(SetToSeq(S)) = S
         /\ Len(SetToSeq(S)) = Cardinality(S)
<1> DEFINE n == Cardinality(S)
<1>1. n \in Nat /\ ExistsBijection(1..n, S)
  BY FS_CardinalityType
<1>2. PICK f : f \in Bijection(1..n, S)
  BY <1>1 DEF ExistsBijection
<1>3. f \in [1..n -> S] /\ IsInjective(f)
  BY <1>2 DEF Bijection, Injection, IsInjective
<1> DEFINE g == SetToSeq(S)
<1>4. g \in [1..n -> S] /\ IsInjective(g)
  BY <1>3 DEF SetToSeq
<1> HIDE DEF g
<1>5. g \in Injection(1..n, S)
  BY <1>4 DEF Injection, IsInjective
<1>6. IsFiniteSet(1..n) /\ Cardinality(1..n) = n
  BY <1>1, FS_Interval
<1>7. g \in Surjection(1..n, S)
  BY <1>1, <1>5, <1>6, FS_Injection
<1>8. Range(g) = S
  BY <1>4, <1>7 DEF Range, Surjection
<1> QED
  BY <1>1, <1>4, <1>8 DEF g

-----------------------------------------------------------------------------
(* Sequences of whole entries.                                             *)

\* The payload behind the head at i is the beginning of a source of its name.
FileAt(ins, t, i) ==
  \E k \in 1..Len(ins) :
    /\ ~ins[k].dir /\ ins[k].name = t[i].name
    /\ \A j \in 1..t[i].size : t[i + j] = Block(ins[k].path, j)

\* Heads with all of their payload, and no block behind anything else.
Whole(ins, t) ==
  /\ t \in Seq(Item)
  /\ \A i \in 1..Len(t) :
       t[i].tag = "head" =>
         /\ i + t[i].size <= Len(t) /\ FileAt(ins, t, i)
         /\ i + t[i].size < Len(t) => t[i + t[i].size + 1].tag # "block"
  /\ \A i \in 1..Len(t) :
       t[i].tag = "block" => i > 1 /\ t[i - 1].tag \in {"head", "block"}

Finished(ins, t) == Whole(ins, t) /\ t # <<>> /\ t[Len(t)] = Closing

LEMMA Tags ==
  ASSUME NEW x \in Item
  PROVE  /\ x.tag \in {"head", "dir", "block", "end", "stub"}
         /\ x.tag = "head" => x.size \in Nat
BY DEF Item, Closing, Stub, Block, Header, Folder

LEMMA WholeJoin ==
  ASSUME NEW ins, NEW a, NEW b, Whole(ins, a), Whole(ins, b)
  PROVE  Whole(ins, a \o b)
<1> DEFINE t == a \o b
           m == Len(a)
<1>1. a \in Seq(Item) /\ b \in Seq(Item) /\ t \in Seq(Item)
  BY DEF Whole
<1>2. m \in Nat /\ Len(b) \in Nat /\ Len(t) = m + Len(b)
  BY <1>1
<1>3. \A i \in 1..Len(t) : t[i] = IF i <= m THEN a[i] ELSE b[i - m]
  BY <1>1, <1>2
<1>4. /\ \A i \in 1..m : a[i] \in Item
      /\ \A i \in 1..Len(b) : b[i] \in Item
  BY <1>1
<1> HIDE DEF t, m
<1>5. ASSUME NEW i \in 1..Len(t), t[i].tag = "head"
      PROVE  /\ i + t[i].size <= Len(t) /\ FileAt(ins, t, i)
             /\ i + t[i].size < Len(t) => t[i + t[i].size + 1].tag # "block"
  <2>1. CASE i <= m
    <3>1. i \in 1..m /\ t[i] = a[i] /\ a[i].size \in Nat
      BY <1>2, <1>3, <1>4, <1>5, <2>1, Tags
    <3>2. /\ i + a[i].size <= m /\ FileAt(ins, a, i)
          /\ i + a[i].size < m => a[i + a[i].size + 1].tag # "block"
      BY <1>5, <3>1 DEF Whole, m
    <3>3. \A j \in 1..a[i].size : t[i + j] = a[i + j]
      BY <1>2, <1>3, <3>1, <3>2
    <3>4. FileAt(ins, t, i)
      BY <3>1, <3>2, <3>3 DEF FileAt
    <3>5. ASSUME i + a[i].size < Len(t) PROVE t[i + a[i].size + 1].tag # "block"
      <4>1. CASE i + a[i].size < m
        BY <1>2, <1>3, <3>1, <3>2, <4>1
      <4>2. CASE i + a[i].size = m
        <5>1. t[i + a[i].size + 1] = b[1] /\ 1 \in 1..Len(b)
          BY <1>2, <1>3, <3>1, <3>5, <4>2
        <5> QED
          BY <5>1 DEF Whole
      <4> QED
        BY <1>2, <3>1, <3>2, <4>1, <4>2
    <3> QED
      BY <1>2, <3>1, <3>2, <3>4, <3>5
  <2>2. CASE i > m
    <3> DEFINE h == i - m
    <3>1. h \in 1..Len(b) /\ i = h + m /\ t[i] = b[h]
      BY <1>2, <1>3, <2>2
    <3> HIDE DEF h
    <3>2. b[h].size \in Nat /\ b[h].tag = "head"
      BY <1>4, <1>5, <3>1, Tags
    <3>3. /\ h + b[h].size <= Len(b) /\ FileAt(ins, b, h)
          /\ h + b[h].size < Len(b) => b[h + b[h].size + 1].tag # "block"
      BY <3>1, <3>2 DEF Whole
    <3>4. \A j \in 1..b[h].size + 1 : h + j <= Len(b) => t[i + j] = b[h + j]
      <4> SUFFICES ASSUME NEW j \in 1..b[h].size + 1, h + j <= Len(b) PROVE t[i + j] = b[h + j]
        OBVIOUS
      <4> DEFINE q == i + j
      <4>1. q \in 1..Len(t) /\ ~(q <= m) /\ q - m = h + j
        BY <1>2, <3>1, <3>2
      <4> HIDE DEF q
      <4>2. t[q] = b[q - m]
        BY <1>3, <4>1
      <4>3. t[q] = b[h + j]
        BY <4>1, <4>2
      <4> QED
        BY <4>3 DEF q
    <3>5. FileAt(ins, t, i)
      <4>1. ASSUME NEW j \in 1..b[h].size PROVE t[i + j] = b[h + j]
        <5>1. j \in 1..b[h].size + 1 /\ h + j <= Len(b)
          BY <1>2, <3>1, <3>2, <3>3
        <5> QED
          BY <3>4, <5>1
      <4> QED
        BY <3>1, <3>3, <4>1 DEF FileAt
    <3>6. ASSUME i + b[h].size < Len(t) PROVE t[i + b[h].size + 1].tag # "block"
      <4>1. h + b[h].size < Len(b)
        BY <1>2, <3>1, <3>2, <3>6
      <4>2. b[h].size + 1 \in 1..b[h].size + 1 /\ h + (b[h].size + 1) <= Len(b)
        BY <1>2, <3>1, <3>2, <4>1
      <4>3. t[i + (b[h].size + 1)] = b[h + (b[h].size + 1)]
        BY <3>4, <4>2
      <4>4. i + (b[h].size + 1) = i + b[h].size + 1 /\ h + (b[h].size + 1) = h + b[h].size + 1
        BY <1>2, <3>1, <3>2
      <4> QED
        BY <3>3, <4>1, <4>3, <4>4
    <3> QED
      BY <1>2, <3>1, <3>2, <3>3, <3>5, <3>6
  <2> QED
    BY <1>2, <2>1, <2>2
<1>6. ASSUME NEW i \in 1..Len(t), t[i].tag = "block"
      PROVE  i > 1 /\ t[i - 1].tag \in {"head", "block"}
  <2>1. CASE i <= m
    <3>1. i \in 1..m /\ t[i] = a[i]
      BY <1>2, <1>3, <2>1
    <3>2. i > 1 /\ a[i - 1].tag \in {"head", "block"}
      BY <1>6, <3>1 DEF Whole, m
    <3> QED
      BY <1>2, <1>3, <3>1, <3>2
  <2>2. CASE i > m
    <3>1. i - m \in 1..Len(b) /\ t[i] = b[i - m]
      BY <1>2, <1>3, <2>2
    <3>2. i - m > 1 /\ b[i - m - 1].tag \in {"head", "block"}
      BY <1>6, <3>1 DEF Whole
    <3>3. i - 1 \in 1..Len(t) /\ t[i - 1] = b[i - 1 - m] /\ i - m - 1 = i - 1 - m
      BY <1>2, <1>3, <2>2, <3>2
    <3> QED
      BY <1>2, <3>2, <3>3
  <2> QED
    BY <1>2, <2>1, <2>2
<1>7. Whole(ins, t)
  BY <1>1, <1>5, <1>6 DEF Whole, t
<1> QED
  BY <1>7 DEF t

LEMMA WholeNothing == \A ins : Whole(ins, <<>>)
BY DEF Whole

LEMMA WholeSingle ==
  ASSUME NEW ins, NEW x \in Item, x.tag \in {"dir", "end", "stub"}
  PROVE  Whole(ins, <<x>>)
<1>1. <<x>> \in Seq(Item) /\ Len(<<x>>) = 1 /\ <<x>>[1] = x
  OBVIOUS
<1>2. x.tag # "head" /\ x.tag # "block"
  OBVIOUS
<1> QED
  BY <1>1, <1>2 DEF Whole

\* A head, announced with its length, and all of its blocks.
LEMMA WholeFile ==
  ASSUME NEW ins, NEW k \in 1..Len(ins), ~ins[k].dir, ins[k].path \in Paths,
         ins[k].name \in Seq(Steps), NEW n \in Nat
  PROVE  Whole(ins, <<Header(ins[k].name, n)>> \o Blocks(ins[k].path, n))
<1> DEFINE p == ins[k].path
           t == <<Header(ins[k].name, n)>> \o Blocks(p, n)
<1>1. Header(ins[k].name, n) \in Item /\ \A i \in 1..n : Block(p, i) \in Item
  BY DEF Item
<1>2. Blocks(p, n) \in Seq(Item) /\ Len(Blocks(p, n)) = n
  BY <1>1 DEF Blocks
<1>3. t \in Seq(Item) /\ Len(t) = n + 1
  BY <1>1, <1>2
<1>4. t[1] = Header(ins[k].name, n) /\ \A i \in 2..n + 1 : t[i] = Block(p, i - 1)
  BY <1>1, <1>2 DEF Blocks
<1> HIDE DEF t, p
<1>5. t[1].tag = "head" /\ t[1].name = ins[k].name /\ t[1].size = n
  BY <1>4 DEF Header
<1>6. \A i \in 2..n + 1 : t[i].tag = "block"
  <2>1. \A i : Block(p, i).tag = "block"
    BY DEF Block
  <2> QED
    BY <1>4, <2>1
<1>7. \A i \in 1..Len(t) : i = 1 \/ i \in 2..n + 1
  BY <1>3
<1>8. FileAt(ins, t, 1)
  <2>1. \A j \in 1..t[1].size : t[1 + j] = Block(p, j)
    BY <1>4, <1>5
  <2> QED
    BY <1>5, <2>1 DEF FileAt, p
<1>9. \A i \in 1..Len(t) :
        t[i].tag = "head" =>
          /\ i + t[i].size <= Len(t) /\ FileAt(ins, t, i)
          /\ i + t[i].size < Len(t) => t[i + t[i].size + 1].tag # "block"
  <2>1. \A i \in 1..Len(t) : t[i].tag = "head" => i = 1
    BY <1>6, <1>7
  <2> QED
    BY <1>3, <1>5, <1>8, <2>1
<1>10. \A i \in 1..Len(t) :
         t[i].tag = "block" => i > 1 /\ t[i - 1].tag \in {"head", "block"}
  BY <1>3, <1>5, <1>6, <1>7
<1>11. Whole(ins, t)
  BY <1>3, <1>9, <1>10 DEF Whole
<1> QED
  BY <1>11 DEF t, p

\* The closing part ends what is whole.
LEMMA FinishedAll ==
  ASSUME NEW ins, NEW t, Whole(ins, t)
  PROVE  Finished(ins, t \o <<Closing>>)
<1>1. Closing \in Item /\ Closing.tag = "end"
  BY DEF Item, Closing
<1>2. Whole(ins, <<Closing>>)
  BY <1>1, WholeSingle
<1>3. Whole(ins, t \o <<Closing>>)
  BY <1>2, WholeJoin
<1>4. t \in Seq(Item)
  BY DEF Whole
<1>5. Len(t \o <<Closing>>) = Len(t) + 1 /\ (t \o <<Closing>>)[Len(t) + 1] = Closing
  BY <1>4
<1> QED
  BY <1>3, <1>4, <1>5 DEF Finished

LEMMA FinishedJoin ==
  ASSUME NEW ins, NEW a, NEW b, Whole(ins, a), Finished(ins, b)
  PROVE  Finished(ins, a \o b)
<1>1. a \in Seq(Item) /\ b \in Seq(Item) /\ b # <<>>
  BY DEF Finished, Whole
<1>2. Len(a) \in Nat /\ Len(b) \in Nat \ {0} /\ Len(a \o b) = Len(a) + Len(b)
  BY <1>1
<1>3. (a \o b)[Len(a) + Len(b)] = b[Len(b)]
  BY <1>1, <1>2
<1> QED
  BY <1>1, <1>2, <1>3, WholeJoin DEF Finished

-----------------------------------------------------------------------------
(* Types.                                                                  *)

LEMMA CreationTypeInit == CreationInit => CreationTypeOK
<1> SUFFICES ASSUME CreationInit PROVE CreationTypeOK
  OBVIOUS
<1>1. req \in Requests /\ req.sources \in Seq(Paths)
  BY CreationAssumption DEF CreationInit
<1>2. job \in JobType
  BY <1>1 DEF CreationInit, JobType, Early
<1>3. staged \in StagedType /\ tape \in Seq(Item) /\ pipe \in Seq(Item) /\ made \in Seq(Item)
  BY DEF CreationInit, StagedType, Nothing
<1>4. kind \in [Paths -> Kinds] /\ len \in [Paths -> Nat]
  BY CreationAssumption DEF CreationInit
<1> QED
  BY <1>1, <1>2, <1>3, <1>4 DEF CreationInit, CreationTypeOK

LEMMA JobMoves ==
  ASSUME CreationTypeOK
  PROVE  /\ Fail => job' \in JobType /\ job'.inputs = job.inputs /\ job'.pc = "over"
                    /\ job'.result = "failed"
         /\ \A l \in Early \cup Adding \cup Late \cup {"over"} :
              Go(l) => job' \in JobType /\ job'.inputs = job.inputs /\ job'.pc = l
                        /\ job'.result = job.result /\ job'.pos = job.pos /\ job'.k = job.k
         /\ NextEntry => job' \in JobType /\ job'.inputs = job.inputs /\ job'.pc = "entry"
                         /\ job'.pos = 0 /\ job'.k = job.k + 1 /\ job'.result = job.result
         /\ GiveUp => job' \in JobType /\ job'.inputs = job.inputs
                      /\ \/ job'.pc = "over" /\ job'.result = "failed"
                         \/ req.client = "library" /\ job'.pc = "entry" /\ job'.pos = 0
                            /\ job'.result = job.result
<1> USE DEF CreationTypeOK, JobType
<1>1. Fail => job' \in JobType /\ job'.inputs = job.inputs /\ job'.pc = "over"
              /\ job'.result = "failed"
  BY DEF Fail
<1>2. \A l \in Early \cup Adding \cup Late \cup {"over"} :
        Go(l) => job' \in JobType /\ job'.inputs = job.inputs /\ job'.pc = l
                  /\ job'.result = job.result /\ job'.pos = job.pos /\ job'.k = job.k
  BY DEF Go
<1>3. NextEntry => job' \in JobType /\ job'.inputs = job.inputs /\ job'.pc = "entry"
                   /\ job'.pos = 0 /\ job'.k = job.k + 1 /\ job'.result = job.result
  <2> SUFFICES ASSUME NextEntry
               PROVE  job' \in JobType /\ job'.inputs = job.inputs /\ job'.pc = "entry"
                      /\ job'.pos = 0 /\ job'.k = job.k + 1 /\ job'.result = job.result
    OBVIOUS
  <2>1. job' = [job EXCEPT !.k = job.k + 1, !.pos = 0, !.pc = "entry"]
    BY DEF NextEntry
  <2>2. job.k + 1 \in Nat \ {0} /\ 0 \in Nat /\ "entry" \in Early \cup Adding \cup Late \cup {"over"}
    BY DEF Adding
  <2> QED
    BY <2>1, <2>2
<1>4. GiveUp => job' \in JobType /\ job'.inputs = job.inputs
                /\ \/ job'.pc = "over" /\ job'.result = "failed"
                   \/ req.client = "library" /\ job'.pc = "entry" /\ job'.pos = 0
                      /\ job'.result = job.result
  <2>1. CASE req.client = "library"
    <3> SUFFICES ASSUME GiveUp
                 PROVE  job' \in JobType /\ job'.inputs = job.inputs /\ job'.pc = "entry"
                        /\ job'.pos = 0 /\ job'.result = job.result
      BY <2>1
    <3>1. job' = [job EXCEPT !.k = job.k + 1, !.pos = 0, !.pc = "entry",
                             !.lost = job.lost \cup {job.k}]
      BY <2>1 DEF GiveUp
    <3>2. job.k + 1 \in Nat \ {0} /\ 0 \in Nat /\ job.lost \cup {job.k} \in SUBSET Nat
          /\ "entry" \in Early \cup Adding \cup Late \cup {"over"}
      BY DEF Adding
    <3> QED
      BY <3>1, <3>2
  <2>2. CASE req.client # "library"
    BY <1>1, <2>2 DEF GiveUp
  <2> QED
    BY <2>1, <2>2
<1> QED
  BY <1>1, <1>2, <1>3, <1>4

LEMMA GivesUp ==
  ASSUME CreationTypeOK, GiveUp
  PROVE  /\ job' \in JobType /\ job'.inputs = job.inputs
         /\ \/ job'.pc = "over" /\ job'.result = "failed"
            \/ req.client = "library" /\ job'.pc = "entry" /\ job'.pos = 0 /\ job'.result = job.result
BY JobMoves

LEMMA GoesOn ==
  ASSUME CreationTypeOK, NextEntry
  PROVE  job' \in JobType /\ job'.inputs = job.inputs /\ job'.pc = "entry"
         /\ job'.pos = 0 /\ job'.k = job.k + 1 /\ job'.result = job.result
BY JobMoves

\* What a walk or a collection makes of a path.
LEMMA InputTyping ==
  ASSUME CreationTypeOK, NEW p \in Paths, NEW n \in Seq(Steps), NEW e, e.path = p, e.name = n
  PROVE  AsInput(e) \in InputType
<1>1. kind[p] = "file" => len[p] \in Nat
  BY DEF CreationTypeOK
<1>2. (IF kind[p] = "file" THEN len[p] ELSE 0) \in Nat
  BY <1>1
<1> QED
  BY <1>2 DEF AsInput, InputType

LEMMA InOrder ==
  ASSUME NEW S, IsFiniteSet(S), NEW T, S \subseteq T
  PROVE  SetToSeq(S) \in Seq(T) /\ Range(SetToSeq(S)) = S
<1>1. SetToSeq(S) \in Seq(S) /\ Range(SetToSeq(S)) = S
  BY InSomeOrder
<1> QED
  BY <1>1, SeqMonotonic

\* The values of a function on a finite set.
LEMMA FiniteValues ==
  ASSUME NEW S, IsFiniteSet(S), NEW f, DOMAIN f = S
  PROVE  IsFiniteSet({f[x] : x \in S})
<1> DEFINE T == {f[x] : x \in S}
           g == [x \in S |-> f[x]]
<1>1. g \in Surjection(S, T)
  BY DEF Surjection
<1> QED
  BY <1>1, FS_Surjection

\* The names of paths.
LEMMA PathFacts ==
  ASSUME NEW p \in Paths
  PROVE  /\ p \in Seq(Steps) /\ p # <<>> /\ Len(p) \in Nat \ {0}
         /\ <<Last(p)>> \in Seq(Steps) /\ Last(p) \in Steps
         /\ \A r \in Paths : IsPrefix(r, p) => SubSeq(p, Len(r), Len(p)) \in Seq(Steps)
<1>1. p \in Seq(Steps) /\ p # <<>>
  BY CreationAssumption
<1>2. Len(p) \in Nat \ {0} /\ p[Len(p)] \in Steps
  BY <1>1
<1>3. Last(p) \in Steps
  BY <1>2 DEF Last
<1>4. ASSUME NEW r \in Paths PROVE IsPrefix(r, p) => SubSeq(p, Len(r), Len(p)) \in Seq(Steps)
  <2>1. r \in Seq(Steps) /\ r # <<>> /\ Len(r) \in Nat \ {0}
    BY CreationAssumption
  <2> QED
    BY <1>1, <1>2, <2>1
<1> QED
  BY <1>1, <1>2, <1>3, <1>4

-----------------------------------------------------------------------------
LEMMA CollectingTypes ==
  ASSUME CreationTypeOK, Validate \/ Roots \/ Walk \/ Walked \/ Collect \/ Collected
  PROVE  CreationTypeOK' /\ UNCHANGED writer
<1> USE DEF files, writer
<1>1. CASE Validate
  <2>1. job' \in JobType
    BY <1>1, JobMoves DEF Validate, Early
  <2> QED
    BY <1>1, <2>1 DEF Validate, CreationTypeOK
<1>2. CASE Roots
  <2> DEFINE tops == {s \in ToSet(req.sources) : kind[s] \in {"file", "dir"} /\ ~Covered(s)}
             e == [s \in tops |-> [path |-> s, name |-> <<Last(s)>>]]
             S == {[path |-> s, name |-> <<Last(s)>>] : s \in tops}
  <2>1. tops \in SUBSET Paths
    BY RequestFacts DEF ToSet
  <2>2. IsFiniteSet(S)
    <3>1. IsFiniteSet(tops)
      BY <2>1, CreationAssumption, FS_Subset
    <3>2. S = {e[s] : s \in tops} /\ DOMAIN e = tops
      OBVIOUS
    <3> HIDE DEF tops, S, e
    <3> QED
      BY <3>1, <3>2, FiniteValues
  <2>3. S \subseteq Pending
    <3> SUFFICES ASSUME NEW s \in tops PROVE [path |-> s, name |-> <<Last(s)>>] \in Pending
      OBVIOUS
    <3>1. s \in Paths /\ <<Last(s)>> \in Seq(Steps)
      BY <2>1, PathFacts
    <3> QED
      BY <3>1 DEF Pending
  <2>4. SetToSeq(S) \in Seq(Pending)
    BY <2>2, <2>3, InOrder
  <2> HIDE DEF S, e
  <2>5. job' \in JobType
    <3>1. Fail => job' \in JobType
      BY JobMoves
    <3>2. Fail \/ job' = [job EXCEPT !.pc = "walk", !.stack = SetToSeq(S)]
      BY <1>2 DEF Roots, S
    <3> QED
      BY <2>4, <3>1, <3>2 DEF CreationTypeOK, JobType, Early
  <2> QED
    BY <1>2, <2>5 DEF Roots, CreationTypeOK
<1>3. CASE Walk
  <2> DEFINE e == Last(job.stack)
             rest == Front(job.stack)
             names == [c \in Children(e.path) |->
                         [path |-> c, name |-> Append(e.name, Last(c))]]
             S == {[path |-> c, name |-> Append(e.name, Last(c))] : c \in Children(e.path)}
  <2>1. job.stack \in Seq(Pending) /\ job.stack # <<>>
    BY <1>3 DEF Walk, CreationTypeOK, JobType
  <2>2. e \in Pending /\ rest \in Seq(Pending)
    BY <2>1 DEF Last, Front
  <2>3. e.path \in Paths /\ e.name \in Seq(Steps)
    BY <2>2 DEF Pending
  <2> HIDE DEF e, rest
  <2>4. Children(e.path) \in SUBSET Paths
    BY DEF Children
  <2>5. IsFiniteSet(S)
    <3>1. IsFiniteSet(Children(e.path))
      BY <2>4, CreationAssumption, FS_Subset
    <3>2. S = {names[c] : c \in Children(e.path)} /\ DOMAIN names = Children(e.path)
      OBVIOUS
    <3> HIDE DEF S, names
    <3> QED
      BY <3>1, <3>2, FiniteValues
  <2>6. S \subseteq Pending
    <3> SUFFICES ASSUME NEW c \in Children(e.path)
                 PROVE  [path |-> c, name |-> Append(e.name, Last(c))] \in Pending
      OBVIOUS
    <3>1. c \in Paths /\ Last(c) \in Steps
      BY <2>4, PathFacts
    <3>2. Append(e.name, Last(c)) \in Seq(Steps)
      BY <2>3, <3>1
    <3> QED
      BY <3>1, <3>2 DEF Pending
  <2>7. SetToSeq(S) \in Seq(Pending)
    BY <2>5, <2>6, InOrder
  <2>8. AsInput(e) \in InputType
    BY <2>3, InputTyping
  <2>9. \/ Fail
        \/ job' = [job EXCEPT !.stack = rest]
        \/ job' = [job EXCEPT !.stack = rest \o SetToSeq(S), !.inputs = Append(job.inputs, AsInput(e))]
        \/ job' = [job EXCEPT !.stack = rest, !.inputs = Append(job.inputs, AsInput(e))]
    BY <1>3 DEF Walk, e, rest
  <2> HIDE DEF S
  <2>10. job' \in JobType
    <3>1. rest \o SetToSeq(S) \in Seq(Pending) /\ Append(job.inputs, AsInput(e)) \in Seq(InputType)
      BY <2>2, <2>7, <2>8 DEF CreationTypeOK, JobType
    <3>2. Fail => job' \in JobType
      BY JobMoves
    <3> QED
      BY <2>2, <2>9, <3>1, <3>2 DEF CreationTypeOK, JobType
  <2> QED
    BY <1>3, <2>10 DEF Walk, CreationTypeOK
<1>4. CASE Walked
  <2>1. job' \in JobType
    BY <1>4, JobMoves DEF Walked, Adding
  <2> QED
    BY <1>4, <2>1 DEF Walked, CreationTypeOK
<1>5. CASE Collect
  <2> DEFINE s == job.left[1]
             r == IF kind[s] = "link" THEN LinkTo ELSE s
             name(p) == [path |-> p, name |-> SubSeq(p, Len(r), Len(p))]
             Of(ps) == SetToSeq({AsInput([path |-> p, name |-> SubSeq(p, Len(r), Len(p))]) : p \in ps})
             more == {p \in Below(r) : kind[p] = "file"}
             empty == {p \in Below(r) : kind[p] = "dir" /\ IsEmpty(p)}
  <2>1. job.left \in Seq(Paths) /\ job.left # <<>>
    BY <1>5 DEF Collect, CreationTypeOK, JobType
  <2>2. s \in Paths /\ r \in Paths /\ Tail(job.left) \in Seq(Paths)
    BY <2>1, CreationAssumption
  <2> HIDE DEF s, r
  <2>3. \A p \in Below(r) : p \in Paths /\ SubSeq(p, Len(r), Len(p)) \in Seq(Steps)
    BY <2>2, PathFacts DEF Below
  <2>4. ASSUME NEW ps, ps \subseteq Below(r) PROVE Of(ps) \in Seq(InputType)
    <3> DEFINE f == [p \in ps |-> AsInput(name(p))]
               S == {AsInput(name(p)) : p \in ps}
    <3>1. IsFiniteSet(ps)
      <4>1. ps \in SUBSET Paths
        BY <2>3, <2>4
      <4> QED
        BY <4>1, CreationAssumption, FS_Subset
    <3>2. S = {f[p] : p \in ps} /\ DOMAIN f = ps
      OBVIOUS
    <3>3. S \subseteq InputType
      <4> SUFFICES ASSUME NEW p \in ps PROVE AsInput(name(p)) \in InputType
        OBVIOUS
      <4>1. p \in Paths /\ SubSeq(p, Len(r), Len(p)) \in Seq(Steps)
        BY <2>3, <2>4
      <4> QED
        BY <4>1, InputTyping
    <3>4. Of(ps) = SetToSeq(S)
      OBVIOUS
    <3> HIDE DEF f, S, Of
    <3>5. IsFiniteSet(S)
      BY <3>1, <3>2, FiniteValues
    <3> QED
      BY <3>3, <3>4, <3>5, InOrder
  <2>5. Of(more) \in Seq(InputType) /\ Of(empty) \in Seq(InputType)
    <3>1. more \subseteq Below(r) /\ empty \subseteq Below(r)
      OBVIOUS
    <3> HIDE DEF Of, more, empty
    <3> QED
      BY <2>4, <3>1
  <2>6. \/ Fail
        \/ job' = [job EXCEPT !.left = Tail(job.left), !.inputs = job.inputs \o Of(more),
                              !.late = job.late \o Of(empty)]
    BY <1>5 DEF Collect, s, r
  <2> HIDE DEF Of, more, empty
  <2>7. job' \in JobType
    <3>1. job.inputs \o Of(more) \in Seq(InputType) /\ job.late \o Of(empty) \in Seq(InputType)
      BY <2>5 DEF CreationTypeOK, JobType
    <3>2. Fail => job' \in JobType
      BY JobMoves
    <3> QED
      BY <2>2, <2>6, <3>1, <3>2 DEF CreationTypeOK, JobType
  <2> QED
    BY <1>5, <2>7 DEF Collect, CreationTypeOK
<1>6. CASE Collected
  <2>1. Inputs \o job.late \in Seq(InputType)
    BY DEF CreationTypeOK, JobType, Inputs
  <2>2. job' \in JobType
    <3>1. Fail => job' \in JobType
      BY JobMoves
    <3>2. Fail \/ job' = [job EXCEPT !.pc = "entry", !.inputs = Inputs \o job.late]
      BY <1>6 DEF Collected
    <3> QED
      BY <2>1, <3>1, <3>2 DEF CreationTypeOK, JobType, Adding
  <2> QED
    BY <1>6, <2>2 DEF Collected, CreationTypeOK
<1> QED
  BY <1>1, <1>2, <1>3, <1>4, <1>5, <1>6

\* Writing changes the tape or the pipe, never what both together hold but by
\* adding to it.
LEMMA Emitting ==
  ASSUME CreationTypeOK, NEW items \in Seq(Item), Emit(items)
  PROVE  /\ tape' \in Seq(Item) /\ pipe' \in Seq(Item)
         /\ ~wr.threaded => pipe' = pipe
         /\ (~wr.threaded => pipe = <<>>) => tape' \o pipe' = (tape \o pipe) \o items
<1> USE DEF CreationTypeOK
<1>1. CASE wr.threaded
  <2>1. tape' = tape /\ pipe' = pipe \o items
    BY <1>1 DEF Emit
  <2>2. tape \o (pipe \o items) = (tape \o pipe) \o items
    <3>1. tape \in Seq(Item) /\ pipe \in Seq(Item)
      OBVIOUS
    <3> HIDE DEF CreationTypeOK
    <3> QED
      BY <3>1, ConcatAssociative
  <2> QED
    BY <1>1, <2>1, <2>2
<1>2. CASE ~wr.threaded
  <2>1. tape' = tape \o items /\ pipe' = pipe
    BY <1>2 DEF Emit
  <2>2. tape \o items \in Seq(Item)
    OBVIOUS
  <2>3. ASSUME pipe = <<>> PROVE tape' \o pipe' = (tape \o pipe) \o items
    <3>1. tape \o pipe = tape /\ (tape \o items) \o pipe = tape \o items
      BY <2>2, <2>3
    <3> QED
      BY <2>1, <3>1
  <2> QED
    BY <1>2, <2>1, <2>2, <2>3
<1> QED
  BY <1>1, <1>2

\* Rolling back shortens the pool or gives the writer up.
LEMMA RollingBack ==
  ASSUME CreationTypeOK, RollBack, staged.used <= Len(staged.pool)
  PROVE  /\ staged' \in StagedType /\ staged'.entries = staged.entries
         /\ staged'.batch = staged.batch /\ staged'.used = staged.used
         /\ \/ staged'.pool = staged.pool
            \/ staged'.pool = SubSeq(staged.pool, 1, staged.used)
<1> USE DEF CreationTypeOK, StagedType
<1>1. CASE staged' = [staged EXCEPT !.pool = SubSeq(staged.pool, 1, staged.used)]
  <2>1. SubSeq(staged.pool, 1, staged.used) \in Seq(Item)
    OBVIOUS
  <2> QED
    BY <1>1, <2>1
<1>2. CASE staged' = [staged EXCEPT !.broken = TRUE]
  BY <1>2
<1>3. CASE staged' = staged
  BY <1>3
<1> QED
  BY <1>1, <1>2, <1>3 DEF RollBack

\* The input an entry is about.
LEMMA CurrentInput ==
  ASSUME CreationTypeOK, job.k <= Len(Inputs)
  PROVE  /\ job.k \in 1..Len(Inputs) /\ Input \in InputType /\ Input = job.inputs[job.k]
         /\ Folder(Input.name) \in Item
         /\ \A n \in Nat : Header(Input.name, n) \in Item /\ Block(Input.path, n) \in Item
         /\ \A n \in Nat : Blocks(Input.path, n) \in Seq(Item)
<1>1. job.inputs \in Seq(InputType) /\ job.k \in Nat \ {0}
  BY DEF CreationTypeOK, JobType
<1>2. job.k \in 1..Len(Inputs) /\ Input \in InputType
  BY <1>1 DEF Input, Inputs
<1>3. Input.path \in Paths /\ Input.name \in Seq(Steps)
  BY <1>2 DEF InputType
<1>4. Folder(Input.name) \in Item /\ \A n \in Nat : Header(Input.name, n) \in Item /\ Block(Input.path, n) \in Item
  BY <1>3 DEF Item
<1>5. \A n \in Nat : Blocks(Input.path, n) \in Seq(Item)
  BY <1>4 DEF Blocks
<1> QED
  BY <1>2, <1>4, <1>5 DEF Input, Inputs

-----------------------------------------------------------------------------
(* Places.                                                                 *)

\* Where the job is says what it and the writer hold.
Stages ==
  /\ req.client = "library" => wr \in Recovering
  /\ job.pc \in Early =>
       /\ tape = <<>> /\ pipe = <<>> /\ job.pos = 0
       /\ staged.pool = <<>> /\ staged.entries = <<>> /\ staged.batch = <<>> /\ staged.used = 0
  /\ job.pc = "entry" => job.pos = 0
  /\ job.pc = "read" => job.k <= Len(Inputs) /\ ~Input.dir
  /\ ~wr.threaded => pipe = <<>> /\ enc = "running"
  /\ enc = "done" => pipe = <<>> /\ job.pc \notin Early \cup Adding
  /\ job.pc \in {"wrap", "check", "publish"} /\ wr.threaded => enc = "done"
  /\ job.pc # "over" => made = Nothing /\ job.result = "none"
  /\ staged.used <= Len(staged.pool)
  /\ job.pc = "read" /\ wr.lay = "pooled" => staged.used + job.pos <= Len(staged.pool)

StagedInv == CreationTypeOK /\ Stages

LEMMA StagesInit == CreationInit => Stages
<1> SUFFICES ASSUME CreationInit PROVE Stages
  OBVIOUS
<1>1. Len(staged.pool) = 0 /\ staged.used = 0
  BY DEF CreationInit
<1>2. job.pc \in Early /\ job.pc \notin Adding \cup Late \cup {"over"}
  BY DEF CreationInit, Early, Adding, Late
<1> QED
  BY <1>1, <1>2 DEF CreationInit, Stages, Early, Adding, Late, Window, Inputs, Input

LEMMA CollectingStages ==
  ASSUME StagedInv, Validate \/ Roots \/ Walk \/ Walked \/ Collect \/ Collected
  PROVE  StagedInv'
<1>1. CreationTypeOK' /\ UNCHANGED writer
  BY CollectingTypes DEF StagedInv
<1>2. UNCHANGED <<req, wr, enc, made>>
  BY <1>1 DEF Validate, Roots, Walk, Walked, Collect, Collected, writer
<1>3. /\ job.pc \in Early
      /\ \/ job'.pc \in Early \cup {"entry"} /\ job'.result = job.result
         \/ job'.pc = "over"
      /\ job'.pc # "over" => job'.pos = job.pos
  <2>1. job \in JobType
    BY DEF StagedInv, CreationTypeOK
  <2>2. \A l : /\ [job EXCEPT !.pc = l].pos = job.pos /\ [job EXCEPT !.pc = l].pc = l
             /\ [job EXCEPT !.pc = l].result = job.result
    BY <2>1 DEF JobType
  <2>3. Fail => job'.pc = "over"
    BY <2>1 DEF JobType, Fail
  <2>4. CASE Validate
    <3>1. At("validate") /\ (Fail \/ Go("roots"))
      BY <2>4 DEF Validate
    <3> QED
      BY <2>2, <2>3, <3>1 DEF At, Early, Go
  <2>5. CASE Roots
    <3>1. At("roots") /\ (Fail \/ \E st : job' = [job EXCEPT !.pc = "walk", !.stack = st])
      BY <2>5 DEF Roots
    <3> QED
      BY <2>1, <2>3, <3>1 DEF JobType, At, Early
  <2>6. CASE Walk
    <3>1. /\ At("walk")
          /\ \/ Fail \/ \E st : job' = [job EXCEPT !.stack = st]
             \/ \E st, ins : job' = [job EXCEPT !.stack = st, !.inputs = ins]
      BY <2>6 DEF Walk
    <3> QED
      BY <2>1, <2>3, <3>1 DEF JobType, At, Early
  <2>7. CASE Walked
    BY <2>2, <2>3, <2>7 DEF Walked, At, Early, Go
  <2>8. CASE Collect
    <3>1. /\ At("collect")
          /\ Fail \/ (job'.pc = job.pc /\ job'.pos = job.pos /\ job'.result = job.result)
      BY <2>1, <2>8 DEF Collect, JobType
    <3> QED
      BY <2>3, <3>1 DEF At, Early
  <2>9. CASE Collected
    <3>1. At("collect") /\ (Fail \/ \E ins : job' = [job EXCEPT !.pc = "entry", !.inputs = ins])
      BY <2>9 DEF Collected
    <3> QED
      BY <2>1, <2>3, <3>1 DEF JobType, At, Early
  <2> QED
    BY <2>4, <2>5, <2>6, <2>7, <2>8, <2>9
<1>4. job'.pc \notin {"read", "join", "wrap", "check", "publish"}
  BY <1>3 DEF Early
<1>5. Stages'
  BY <1>1, <1>2, <1>3, <1>4 DEF StagedInv, Stages, writer, Early, Adding
<1> QED
  BY <1>1, <1>5 DEF StagedInv

\* What an entry writes at its beginning and in between.
LEMMA AddingStages ==
  ASSUME StagedInv, AddDirectory \/ Open \/ Read \/ ReadFails
  PROVE  StagedInv'
<1> USE DEF StagedInv, files
<1>0. CreationTypeOK /\ Stages /\ wr \in Writers
  BY DEF CreationTypeOK
<1>1. CASE AddDirectory
  <2>1. /\ At("entry") /\ job.k <= Len(Inputs) /\ Input.dir
        /\ UNCHANGED <<req, wr, kind, len, enc, made>>
    BY <1>1 DEF AddDirectory
  <2>2. Input \in InputType /\ Folder(Input.name) \in Item
    BY <2>1, CurrentInput
  <2>3. CASE EntryRefused
    <3>1. job' \in JobType /\ (job'.pc = "over" \/ (job'.pc = "entry" /\ job'.pos = 0 /\ job'.result = job.result))
          /\ UNCHANGED <<staged, pipe, tape>>
      BY <1>0, <2>3, GivesUp DEF EntryRefused
    <3> QED
      BY <2>1, <3>1 DEF CreationTypeOK, Stages, At, Early, Adding
  <2>4. CASE ~EntryRefused
    <3>1. /\ NextEntry
          /\ \/ /\ staged' = [staged EXCEPT !.entries =
                     Append(staged.entries, [name |-> Input.name, dir |-> TRUE, off |-> 0, n |-> 0])]
                /\ UNCHANGED <<pipe, tape>>
             \/ Emit(<<Folder(Input.name)>>) /\ UNCHANGED staged
      BY <1>1, <2>4 DEF AddDirectory
    <3>2. job' \in JobType /\ job'.pc = "entry" /\ job'.pos = 0 /\ job'.result = job.result
      BY <3>1, JobMoves
    <3>3. <<Folder(Input.name)>> \in Seq(Item)
      BY <2>2
    <3>4. tape' \in Seq(Item) /\ pipe' \in Seq(Item) /\ (~wr.threaded => pipe' = pipe)
      BY <3>1, <3>3, Emitting DEF CreationTypeOK
    <3>5. staged' \in StagedType /\ staged'.pool = staged.pool /\ staged'.used = staged.used
      <4>1. [name |-> Input.name, dir |-> TRUE, off |-> 0, n |-> 0] \in PooledEntry
        BY <2>2 DEF InputType, PooledEntry
      <4>2. staged.entries \in Seq(PooledEntry)
        BY DEF CreationTypeOK, StagedType
      <4>3. Append(staged.entries, [name |-> Input.name, dir |-> TRUE, off |-> 0, n |-> 0]) \in Seq(PooledEntry)
        BY <4>1, <4>2
      <4>4. staged' = staged \/ staged' = [staged EXCEPT !.entries =
               Append(staged.entries, [name |-> Input.name, dir |-> TRUE, off |-> 0, n |-> 0])]
        BY <3>1
      <4> QED
        BY <4>3, <4>4 DEF CreationTypeOK, StagedType
    <3>6. enc # "done"
      BY <2>1 DEF Stages, At, Adding
    <3> QED
      BY <2>1, <3>2, <3>4, <3>5, <3>6 DEF CreationTypeOK, Stages, At, Early, Adding
  <2> QED
    BY <2>3, <2>4
<1>2. CASE Open
  <2>1. /\ At("entry") /\ job.k <= Len(Inputs) /\ ~Input.dir
        /\ UNCHANGED <<req, wr, kind, len, enc, made>>
    BY <1>2 DEF Open
  <2>2. Input \in InputType /\ \A n \in Nat : Header(Input.name, n) \in Item
    BY <2>1, CurrentInput
  <2>3. CASE EntryRefused
    <3>1. job' \in JobType /\ (job'.pc = "over" \/ (job'.pc = "entry" /\ job'.pos = 0 /\ job'.result = job.result))
          /\ UNCHANGED <<staged, pipe, tape>>
      BY <1>0, <2>3, GivesUp DEF EntryRefused
    <3> QED
      BY <2>1, <3>1 DEF CreationTypeOK, Stages, At, Early, Adding
  <2>4. CASE ~EntryRefused
    <3>1. /\ job' = [job EXCEPT !.pc = "read"]
          /\ UNCHANGED staged
          /\ \/ Emit(<<Header(Input.name, Input.size)>>)
             \/ Emit(<<Header(Input.name, 0)>>)
             \/ UNCHANGED <<pipe, tape>>
      BY <1>2, <2>4 DEF Open
    <3>2. job' \in JobType /\ job'.pc = "read" /\ job'.k = job.k /\ job'.pos = job.pos
          /\ job'.inputs = job.inputs /\ job'.result = job.result
      BY <3>1 DEF CreationTypeOK, JobType, Adding
    <3>3. <<Header(Input.name, Input.size)>> \in Seq(Item) /\ <<Header(Input.name, 0)>> \in Seq(Item)
      BY <2>2 DEF InputType
    <3>4. tape' \in Seq(Item) /\ pipe' \in Seq(Item) /\ (~wr.threaded => pipe' = pipe)
      BY <3>1, <3>3, Emitting DEF CreationTypeOK
    <3>5. Inputs' = Inputs /\ Input' = Input
      BY <3>2 DEF Inputs, Input
    <3>6. enc # "done" /\ job.pos = 0 /\ staged.used \in Nat
      BY <2>1 DEF Stages, At, Adding, CreationTypeOK, StagedType
    <3> QED
      BY <2>1, <3>1, <3>2, <3>4, <3>5, <3>6 DEF CreationTypeOK, Stages, At, Early, Adding
  <2> QED
    BY <2>3, <2>4
<1>3. CASE EntryFails /\ At("read") /\ UNCHANGED <<req, wr, kind, len, enc, made>>
  <2>1. job' \in JobType /\ (job'.pc = "over" \/ (job'.pc = "entry" /\ job'.pos = 0 /\ job'.result = job.result))
        /\ UNCHANGED <<pipe, tape>>
    BY <1>0, <1>3, GivesUp DEF EntryFails
  <2>2. staged' \in StagedType /\ staged'.used = staged.used
        /\ (staged'.pool = staged.pool \/ staged'.pool = SubSeq(staged.pool, 1, staged.used))
    BY <1>3, RollingBack DEF EntryFails, Stages
  <2>3. staged'.used <= Len(staged'.pool)
    <3>1. staged.used \in Nat /\ staged.pool \in Seq(Item) /\ staged.used <= Len(staged.pool)
      BY DEF CreationTypeOK, StagedType, Stages
    <3> QED
      BY <2>2, <3>1
  <2> QED
    BY <1>3, <2>1, <2>2, <2>3 DEF CreationTypeOK, Stages, At, Early, Adding
<1>4. CASE Read
  <2>1. /\ At("read") /\ job.k <= Len(Inputs) /\ ~Input.dir
        /\ UNCHANGED <<req, wr, kind, len, enc, made>>
    BY <1>4 DEF Read, Stages, At
  <2> DEFINE b == Block(Input.path, job.pos + 1)
  <2>2. job.pos \in Nat /\ b \in Item /\ staged.used \in Nat /\ staged.pool \in Seq(Item)
    <3>1. job.pos \in Nat /\ job.pos + 1 \in Nat
      BY DEF CreationTypeOK, JobType
    <3> QED
      BY <2>1, <3>1, CurrentInput DEF CreationTypeOK, StagedType
  <2>3. CASE ~EntryFails
    <3>1. /\ job' = [job EXCEPT !.pos = job.pos + 1]
          /\ \/ wr.lay = "pooled" /\ staged' = Pooled(b) /\ UNCHANGED <<pipe, tape>>
             \/ wr.lay # "pooled" /\ Emit(<<b>>) /\ UNCHANGED staged
             \/ wr.lay # "pooled" /\ UNCHANGED <<staged, pipe, tape>>
      BY <1>4, <2>3 DEF Read
    <3> HIDE DEF b
    <3>2. job' \in JobType /\ job'.pc = job.pc /\ job'.k = job.k /\ job'.pos = job.pos + 1
          /\ job'.inputs = job.inputs /\ job'.result = job.result
      <4>1. job.pos + 1 \in Nat
        BY <2>2
      <4> QED
        BY <3>1, <4>1 DEF CreationTypeOK, JobType
    <3>3. tape' \in Seq(Item) /\ pipe' \in Seq(Item) /\ (~wr.threaded => pipe' = pipe)
      <4>1. <<b>> \in Seq(Item)
        BY <2>2
      <4> QED
        BY <3>1, <4>1, Emitting DEF CreationTypeOK
    <3>4. staged' \in StagedType /\ staged'.used = staged.used /\ staged'.used <= Len(staged'.pool)
          /\ (wr.lay = "pooled" => staged'.used + job'.pos <= Len(staged'.pool))
      <4>1. CASE wr.lay # "pooled"
        BY <3>1, <4>1 DEF CreationTypeOK, Stages
      <4>2. CASE wr.lay = "pooled"
        <5>1. staged.used + job.pos <= Len(staged.pool)
          BY <2>1, <4>2 DEF Stages, At
        <5> DEFINE place == staged.used + job.pos
                   pool == IF place < Len(staged.pool) THEN [staged.pool EXCEPT ![place + 1] = b]
                           ELSE Append(staged.pool, b)
        <5>2. staged' = [staged EXCEPT !.pool = pool]
          BY <3>1, <4>2 DEF Pooled
        <5>3. place \in Nat /\ place <= Len(staged.pool) /\ Len(staged.pool) \in Nat
          BY <2>2, <5>1
        <5> HIDE DEF place
        <5>4. pool \in Seq(Item) /\ Len(pool) >= place + 1 /\ Len(pool) >= Len(staged.pool)
          <6>1. CASE place < Len(staged.pool)
            <7>1. place + 1 \in 1..Len(staged.pool)
              BY <5>3, <6>1
            <7>2. [staged.pool EXCEPT ![place + 1] = b] \in Seq(Item)
                  /\ Len([staged.pool EXCEPT ![place + 1] = b]) = Len(staged.pool)
              BY <2>2, <7>1, ExceptSeq
            <7> QED
              BY <5>3, <6>1, <7>2
          <6>2. CASE ~(place < Len(staged.pool))
            BY <2>2, <5>3, <6>2
          <6> QED
            BY <6>1, <6>2
        <5> HIDE DEF pool
        <5>5. staged' \in StagedType /\ staged'.used = staged.used /\ staged'.pool = pool
          BY <5>2, <5>4 DEF CreationTypeOK, StagedType
        <5> QED
          BY <2>2, <3>2, <5>3, <5>4, <5>5 DEF place, Stages
      <4> QED
        BY <4>1, <4>2
    <3>5. Inputs' = Inputs /\ Input' = Input
      BY <3>2 DEF Inputs, Input
    <3>6. enc # "done"
      BY <2>1 DEF Stages, At, Adding
    <3> QED
      BY <2>1, <3>2, <3>3, <3>4, <3>5, <3>6 DEF CreationTypeOK, Stages, At, Early, Adding
  <2> QED
    BY <1>3, <2>1, <2>3
<1>5. CASE ReadFails
  BY <1>3, <1>5 DEF ReadFails
<1> QED
  BY <1>1, <1>2, <1>4, <1>5

\* The least of some numbers.
LEMMA Least ==
  ASSUME NEW T, \A y \in T : y \in Nat, T # {}
  PROVE  \E x \in T : \A y \in T : x <= y
<1> DEFINE less == {p \in Nat \X Nat : p[1] < p[2]}
<1>1. IsWellFoundedOn(less, Nat)
  BY NatLessThanWellFounded DEF OpToRel
<1>2. T \in SUBSET Nat
  OBVIOUS
<1>3. PICK x \in T : \A y \in T : ~ (<<y, x>> \in less)
  BY <1>1, <1>2, WFMin
<1>4. ASSUME NEW y \in T PROVE x <= y
  <2>1. x \in Nat /\ y \in Nat /\ ~ (<<y, x>> \in less)
    BY <1>3
  <2>2. y < x => <<y, x>> \in less
    BY <2>1
  <2> QED
    BY <2>1, <2>2
<1> QED
  BY <1>4

\* The items an entry ends with.
LEMMA EntryItems ==
  ASSUME CreationTypeOK, job.k <= Len(Inputs)
  PROVE  Entry \in Seq(Item) /\ Append(staged.batch, Entry) \in Seq(Seq(Item))
<1>1. job.pos \in Nat /\ staged.batch \in Seq(Seq(Item))
  BY DEF CreationTypeOK, JobType, StagedType
<1>2. Header(Input.name, job.pos) \in Item /\ Blocks(Input.path, job.pos) \in Seq(Item)
  BY <1>1, CurrentInput
<1>3. Entry \in Seq(Item)
  BY <1>2 DEF Entry
<1> QED
  BY <1>1, <1>3

\* Folding a step over a sequence, place by place: the recursive function exists.
Folded(f, m, S, b, g) ==
  f \in [1..m -> S] /\ f[1] = b /\ \A i \in 2..m : f[i] = g[<<i, f[i - 1]>>]

LEMMA FoldExists ==
  ASSUME NEW n \in Nat \ {0}, NEW S, NEW b \in S, NEW g \in [(1..n) \X S -> S]
  PROVE  \E f : Folded(f, n, S, b, g)
<1> DEFINE Good(m, f) == f \in [1..m -> S] /\ f[1] = b /\ \A i \in 2..m : f[i] = g[<<i, f[i - 1]>>]
           T == {m \in 1..n : ~ \E f : Good(m, f)}
<1>1. CASE T = {}
  <2>1. n \in 1..n
    OBVIOUS
  <2> QED
    BY <1>1, <2>1 DEF Folded
<1>2. CASE T # {}
  <2>1. \A m \in T : m \in Nat
    OBVIOUS
  <2> HIDE DEF T
  <2>2. PICK x \in T : \A y \in T : x <= y
    BY <1>2, <2>1, Least
  <2>3. x \in 1..n /\ ~ \E f : Good(x, f)
    BY <2>2 DEF T
  <2>4. CASE x = 1
    <3>1. Good(1, [i \in 1..1 |-> b])
      OBVIOUS
    <3> QED
      BY <2>3, <2>4, <3>1
  <2>5. CASE x # 1
    <3>1. x - 1 \in 1..n /\ x - 1 \notin T
      BY <2>1, <2>2, <2>3, <2>5
    <3>2. PICK f : Good(x - 1, f)
      BY <3>1 DEF T
    <3>3. f[x - 1] \in S /\ <<x, f[x - 1]>> \in (1..n) \X S
      BY <2>3, <2>5, <3>2
    <3> DEFINE h == [i \in 1..x |-> IF i = x THEN g[<<x, f[x - 1]>>] ELSE f[i]]
    <3>4. g[<<x, f[x - 1]>>] \in S
      BY <3>3
    <3>5. h \in [1..x -> S] /\ h[1] = b
      BY <2>3, <2>5, <3>2, <3>4
    <3>6. ASSUME NEW i \in 2..x PROVE h[i] = g[<<i, h[i - 1]>>]
      <4>1. i - 1 \in 1..x /\ i - 1 # x /\ h[i - 1] = f[i - 1] /\ i \in 1..x
        BY <2>3
      <4>2. CASE i = x
        BY <4>1, <4>2
      <4>3. CASE i # x
        <5>1. i \in 2..x - 1 /\ h[i] = f[i]
          BY <2>3, <4>1, <4>3
        <5>2. f[i] = g[<<i, f[i - 1]>>]
          BY <3>2, <5>1
        <5> QED
          BY <4>1, <5>1, <5>2
      <4> QED
        BY <4>2, <4>3
    <3> HIDE DEF h
    <3>7. Good(x, h)
      BY <3>5, <3>6
    <3> QED
      BY <2>3, <3>7
  <2> QED
    BY <2>4, <2>5
<1> QED
  BY <1>1, <1>2

\* The sequences put one after the other, one by one; a set of sequences that
\* every step stays in has them all.
LEMMA Flattened ==
  ASSUME NEW seqs, NEW G, seqs \in Seq(G), G \subseteq Seq(Item), <<>> \in G,
         \A x, y \in G : x \o y \in G
  PROVE  FlattenSeq(seqs) \in G
<1> DEFINE n == Len(seqs)
           Flat(f) == f = [i \in 1..n |-> IF i = 1 THEN seqs[i] ELSE f[i - 1] \o seqs[i]]
           c == CHOOSE f : Flat(f)
<1>1. n \in Nat /\ \A i \in 1..n : seqs[i] \in G
  OBVIOUS
<1>2. CASE n = 0
  BY <1>2 DEF FlattenSeq
<1>3. CASE n # 0
  <2> DEFINE g == [p \in (1..n) \X G |-> p[2] \o seqs[p[1]]]
  <2>1. g \in [(1..n) \X G -> G]
    BY <1>1
  <2>2. seqs[1] \in G /\ n \in Nat \ {0}
    BY <1>1, <1>3
  <2>3. \A i \in 1..n, x \in G : g[<<i, x>>] = x \o seqs[i]
    OBVIOUS
  <2> HIDE DEF g, n
  <2>4. PICK f \in [1..n -> G] : f[1] = seqs[1] /\ \A i \in 2..n : f[i] = g[<<i, f[i - 1]>>]
    <3> DEFINE b == seqs[1]
    <3>1. b \in G
      BY <2>2
    <3> HIDE DEF b
    <3>2. \E f : Folded(f, n, G, b, g)
      BY <2>1, <2>2, <3>1, FoldExists
    <3> QED
      BY <3>2 DEF b, Folded
  <2>5. \A i \in 2..n : f[i] = f[i - 1] \o seqs[i]
    <3>1. \A i \in 2..n : i \in 1..n /\ i - 1 \in 1..n
      BY <2>2
    <3> QED
      BY <2>3, <2>4, <3>1
  <2>6. Flat(f)
    <3> DEFINE h == [i \in 1..n |-> IF i = 1 THEN seqs[i] ELSE f[i - 1] \o seqs[i]]
    <3>1. ASSUME NEW i \in 1..n PROVE f[i] = h[i]
      <4>1. i = 1 \/ i \in 2..n
        BY <2>2
      <4> QED
        BY <2>4, <2>5, <4>1
    <3>2. f = h
      BY <3>1
    <3> QED
      BY <3>2
  <2>7. Flat(c)
    BY <2>6
  <2> HIDE DEF c
  <2>8. \A i \in 1..n : c[i] \in G
    <3> DEFINE T == {i \in 1..n : c[i] \notin G}
    <3>1. CASE T = {}
      BY <3>1
    <3>2. CASE T # {}
      <4>1. \A y \in T : y \in Nat
        BY <2>2
      <4> HIDE DEF T
      <4>2. PICK x \in T : \A y \in T : x <= y
        BY <3>2, <4>1, Least
      <4>3. x \in 1..n /\ c[x] \notin G /\ seqs[x] \in G
        BY <1>1, <4>2 DEF T, n
      <4>4. c[x] = IF x = 1 THEN seqs[x] ELSE c[x - 1] \o seqs[x]
        BY <2>7, <4>3
      <4>5. x # 1 => x - 1 \in 1..n /\ x - 1 \notin T
        BY <2>2, <4>1, <4>2, <4>3
      <4>6. x # 1 => c[x - 1] \in G
        BY <4>5 DEF T
      <4> QED
        BY <4>3, <4>4, <4>6
    <3> QED
      BY <3>1, <3>2
  <2>9. FlattenSeq(seqs) = c[n]
    BY <1>3 DEF FlattenSeq, c, n
  <2> QED
    BY <2>2, <2>8, <2>9
<1> QED
  BY <1>1, <1>2, <1>3

-----------------------------------------------------------------------------
(* Contents.                                                               *)

\* What is written is whole, up to the entry under way.
Stream == tape \o pipe
Size   == IF Announces THEN Input.size ELSE 0
Opened == Announces \/ wr.lay = "streamed"
Partly == <<Header(Input.name, Size)>> \o Blocks(Input.path, job.pos)

\* The pool has the files of its entries, one behind the other.
InPool(ins, pool, used, e) ==
  /\ e.off + e.n <= used
  /\ \E k \in 1..Len(ins) :
       /\ ~ins[k].dir /\ ins[k].name = e.name
       /\ \A j \in 1..e.n : pool[e.off + j] = Block(ins[k].path, j)

Behind(entries, used, f) ==
  /\ f \in [1..Len(entries) + 1 -> Nat]
  /\ f[1] = 0 /\ f[Len(entries) + 1] = used
  /\ \A i \in 1..Len(entries) :
       f[i + 1] = f[i] + entries[i].n /\ (~entries[i].dir => entries[i].off = f[i])

Held(ins, s) ==
  /\ \A i \in 1..Len(s.batch) : Whole(ins, s.batch[i])
  /\ \A i \in 1..Len(s.entries) :
       ~s.entries[i].dir => InPool(ins, s.pool, s.used, s.entries[i])
  /\ \E f : Behind(s.entries, s.used, f)

Contents ==
  /\ job.pc = "entry" /\ ~Broken => Whole(Inputs, Stream)
  /\ job.pc = "read" /\ ~Broken =>
       IF Opened THEN \E base : Whole(Inputs, base) /\ Stream = base \o Partly
       ELSE Whole(Inputs, Stream)
  /\ job.pc = "read" /\ Announces => job.pos <= Input.size
  /\ job.pc \in Adding => Held(Inputs, staged)
  /\ job.pc = "read" /\ wr.lay = "pooled" =>
       \A j \in 1..job.pos : staged.pool[staged.used + j] = Block(Input.path, j)
  /\ job.pc = "join" /\ ~Broken => Finished(Inputs, Stream)
  /\ job.pc \in {"wrap", "check", "publish"} => Finished(Inputs, tape)
  /\ made # Nothing => Finished(Inputs, made)

LEMMA ContentsInit == CreationInit => Contents
<1> SUFFICES ASSUME CreationInit PROVE Contents
  OBVIOUS
<1>1. job.pc \in Early /\ made = Nothing
  BY DEF CreationInit, Early
<1> QED
  BY <1>1 DEF Contents, Early, Adding

\* When the place, the writer's stores and the tape stay, so do the contents.
LEMMA ContentsStay ==
  ASSUME Contents, UNCHANGED <<req, wr, job, staged, tape, pipe, made>>,
         enc' = enc \/ (enc' = "done" /\ ~Broken) \/ (enc' = "failed" /\ wr.threaded)
  PROVE  Contents'
<1>1. Inputs' = Inputs /\ Input' = Input /\ Announces' = Announces /\ Stream' = Stream
      /\ Opened' = Opened /\ Partly' = Partly
  BY DEF Inputs, Input, Announces, Window, Stream, Opened, Partly, Size
<1>2. ~Broken' => ~Broken
  BY DEF Broken
<1> QED
  BY <1>1, <1>2 DEF Contents

LEMMA CollectingContents ==
  ASSUME StagedInv, Contents, Validate \/ Roots \/ Walk \/ Walked \/ Collect \/ Collected
  PROVE  Contents'
<1>1. UNCHANGED writer /\ made' = made /\ made = Nothing
  BY CollectingTypes DEF StagedInv, Stages, Validate, Roots, Walk, Walked, Collect, Collected, At
<1>2. job.pc \in Early /\ job'.pc \in Early \cup {"entry", "over"}
  BY DEF Validate, Roots, Walk, Walked, Collect, Collected, At, Go, Fail, Early, StagedInv, CreationTypeOK, JobType
<1>3. /\ tape = <<>> /\ pipe = <<>> /\ staged.entries = <<>> /\ staged.batch = <<>>
      /\ staged.used = 0
  BY <1>2 DEF StagedInv, Stages
<1>4. Held(Inputs', staged)
  <2> DEFINE f == [i \in 1..1 |-> 0]
  <2>1. Behind(<<>>, 0, f)
    BY DEF Behind
  <2> HIDE DEF f
  <2> QED
    BY <1>3, <2>1 DEF Held
<1>5. Whole(Inputs', <<>> \o <<>>)
  <2>1. <<>> \o <<>> = <<>>
    OBVIOUS
  <2> QED
    BY <2>1, WholeNothing
<1> QED
  BY <1>1, <1>2, <1>3, <1>4, <1>5 DEF Contents, Stream, Early, Adding, writer

\* What is in the pool stays there while nobody writes over it.
LEMMA PoolStays ==
  ASSUME NEW ins, NEW old, NEW new, NEW used \in Nat, NEW e \in PooledEntry,
         \A x \in 1..used : new[x] = old[x], InPool(ins, old, used, e)
  PROVE  InPool(ins, new, used, e)
<1>1. e.off \in Nat /\ e.n \in Nat /\ e.off + e.n <= used
  BY DEF InPool, PooledEntry
<1>2. \A j \in 1..e.n : e.off + j \in 1..used
  BY <1>1
<1>3. \A j \in 1..e.n : new[e.off + j] = old[e.off + j]
  BY <1>2
<1> QED
  BY <1>3 DEF InPool

\* An entry that fails leaves whole entries, if the caller goes on.
LEMMA FailingContents ==
  ASSUME StagedInv, Contents, At("entry") \/ At("read"), GiveUp, UNCHANGED <<req, wr, tape, pipe, enc, made>>,
         staged' = staged \/ (At("read") /\ RollBack)
  PROVE  Contents'
<1>1. CASE job'.pc = "over"
  BY <1>1, GivesUp DEF StagedInv, Stages, At, Contents, Adding
<1>2. CASE job'.pc # "over"
  <2>1. req.client = "library" /\ job'.pc = "entry" /\ job'.inputs = job.inputs
    BY <1>2, GivesUp DEF StagedInv
  <2>2. wr.lay # "streamed" /\ ~Announces /\ ~Opened
    <3>1. wr \in Recovering /\ wr \in Writers
      BY <2>1 DEF StagedInv, Stages, CreationTypeOK
    <3> QED
      BY <2>1, <3>1, WriterFacts DEF Announces, Window, Opened
  <2>3. Inputs' = Inputs /\ Stream' = Stream /\ Broken' = Broken
    BY <2>1 DEF Inputs, Stream, Broken
  <2>4. Broken \/ Whole(Inputs, Stream)
    BY <2>2 DEF At, Contents
  <2>5. Held(Inputs, staged)
    BY DEF At, Contents, Adding
  <2>6. Held(Inputs, staged')
    <3>1. CASE staged' = staged
      BY <2>5, <3>1
    <3>2. CASE RollBack
      <4>1. staged'.entries = staged.entries /\ staged'.batch = staged.batch /\ staged'.used = staged.used
            /\ (staged'.pool = staged.pool \/ staged'.pool = SubSeq(staged.pool, 1, staged.used))
        BY <3>2, RollingBack DEF StagedInv, Stages
      <4>2. staged.used \in Nat /\ staged.used <= Len(staged.pool) /\ staged.pool \in Seq(Item)
            /\ staged.entries \in Seq(PooledEntry)
        BY DEF StagedInv, Stages, CreationTypeOK, StagedType
      <4>3. \A x \in 1..staged.used : staged'.pool[x] = staged.pool[x]
        BY <4>1, <4>2
      <4>4. ASSUME NEW i \in 1..Len(staged.entries), InPool(Inputs, staged.pool, staged.used, staged.entries[i])
            PROVE  InPool(Inputs, staged'.pool, staged.used, staged.entries[i])
        BY <4>2, <4>3, <4>4, PoolStays
      <4> QED
        BY <2>5, <4>1, <4>4 DEF Held
    <3> QED
      BY <3>1, <3>2
  <2> QED
    BY <2>1, <2>3, <2>4, <2>6 DEF Contents, StagedInv, Stages, At
<1> QED
  BY <1>1, <1>2

LEMMA BlocksGrow ==
  ASSUME NEW p \in Paths, NEW n \in Nat
  PROVE  Blocks(p, n) \o <<Block(p, n + 1)>> = Blocks(p, n + 1)
         /\ Blocks(p, n) \in Seq(Item) /\ Len(Blocks(p, n)) = n /\ Block(p, n + 1) \in Item
<1>1. \A i \in Nat : Block(p, i) \in Item
  BY DEF Item
<1>2. Blocks(p, n) \in Seq(Item) /\ Len(Blocks(p, n)) = n /\ Block(p, n + 1) \in Item
  BY <1>1 DEF Blocks
<1>3. Blocks(p, n + 1) \in Seq(Item) /\ Len(Blocks(p, n + 1)) = n + 1
  BY <1>1 DEF Blocks
<1>4. ASSUME NEW i \in 1..n + 1
      PROVE  (Blocks(p, n) \o <<Block(p, n + 1)>>)[i] = Blocks(p, n + 1)[i]
  <2>1. Blocks(p, n + 1)[i] = Block(p, i)
    BY DEF Blocks
  <2>2. CASE i <= n
    <3>1. i \in 1..n /\ Blocks(p, n)[i] = Block(p, i)
      BY <2>2 DEF Blocks
    <3> QED
      BY <1>2, <2>1, <3>1
  <2>3. CASE i = n + 1
    BY <1>2, <2>1, <2>3
  <2>4. i \in Nat /\ (i <= n \/ i = n + 1)
    OBVIOUS
  <2> QED
    BY <2>2, <2>3, <2>4
<1>5. Blocks(p, n) \o <<Block(p, n + 1)>> \in Seq(Item)
      /\ Len(Blocks(p, n) \o <<Block(p, n + 1)>>) = n + 1
  BY <1>2
<1>6. Blocks(p, n) \o <<Block(p, n + 1)>> = Blocks(p, n + 1)
  <2> DEFINE s == Blocks(p, n) \o <<Block(p, n + 1)>>
             t == Blocks(p, n + 1)
  <2>1. s \in Seq(Item) /\ t \in Seq(Item) /\ Len(s) = Len(t) /\ \A i \in 1..Len(s) : s[i] = t[i]
    BY <1>3, <1>4, <1>5
  <2> HIDE DEF s, t
  <2>2. s = t
    BY <2>1, SeqEqual
  <2> QED
    BY <2>2 DEF s, t
<1> QED
  BY <1>2, <1>6

\* An entry that began has nothing but its head.
LEMMA NoBlocks == \A p : Blocks(p, 0) = <<>>
BY DEF Blocks

\* What is added to whole entries, entry by entry or part by part.
LEMMA StreamGrows ==
  ASSUME StagedInv, NEW items \in Seq(Item), Emit(items)
  PROVE  /\ tape' \in Seq(Item) /\ pipe' \in Seq(Item) /\ (~wr.threaded => pipe' = pipe)
         /\ Stream' = Stream \o items
<1>1. ~wr.threaded => pipe = <<>>
  BY DEF StagedInv, Stages
<1> QED
  BY <1>1, Emitting DEF StagedInv, Stream

\* One more entry in the pool.
LEMMA BehindGrows ==
  ASSUME NEW entries \in Seq(PooledEntry), NEW used \in Nat, \E f : Behind(entries, used, f),
         NEW e \in PooledEntry, e.dir = FALSE => e.off = used
  PROVE  \E g : Behind(Append(entries, e), used + e.n, g)
<1> DEFINE m == Len(entries)
           all == Append(entries, e)
<1>1. m \in Nat /\ Len(all) = m + 1 /\ all[m + 1] = e /\ \A i \in 1..m : all[i] = entries[i]
  OBVIOUS
<1>2. PICK f : Behind(entries, used, f)
  OBVIOUS
<1>3. f \in [1..m + 1 -> Nat] /\ f[1] = 0 /\ f[m + 1] = used
      /\ \A i \in 1..m : f[i + 1] = f[i] + entries[i].n /\ (~entries[i].dir => entries[i].off = f[i])
  BY <1>2 DEF Behind
<1>4. e.n \in Nat /\ e.dir \in BOOLEAN
  BY DEF PooledEntry
<1> DEFINE g == [i \in 1..m + 2 |-> IF i = m + 2 THEN used + e.n ELSE f[i]]
<1>5. g \in [1..m + 2 -> Nat] /\ g[1] = 0 /\ g[m + 2] = used + e.n
  BY <1>1, <1>3, <1>4
<1> HIDE DEF all
<1>6. ASSUME NEW i \in 1..m + 1
      PROVE  g[i + 1] = g[i] + all[i].n /\ (~all[i].dir => all[i].off = g[i])
  <2>1. CASE i = m + 1
    <3>1. g[i] = used /\ g[i + 1] = used + e.n /\ all[i] = e
      BY <1>1, <1>3, <2>1
    <3> QED
      BY <1>4, <3>1
  <2>2. CASE i # m + 1
    <3>1. i \in 1..m /\ g[i] = f[i] /\ g[i + 1] = f[i + 1] /\ all[i] = entries[i]
      BY <1>1, <2>2
    <3> QED
      BY <1>3, <3>1
  <2> QED
    BY <2>1, <2>2
<1> HIDE DEF g, m
<1>7. m + 1 + 1 = m + 2
  BY <1>1
<1>8. Behind(all, used + e.n, g)
  BY <1>1, <1>5, <1>6, <1>7 DEF Behind
<1> QED
  BY <1>8 DEF all

LEMMA AddDirectoryContents ==
  ASSUME StagedInv, Contents, AddDirectory PROVE Contents'
<1>1. /\ At("entry") /\ job.k <= Len(Inputs) /\ Input.dir
      /\ UNCHANGED <<req, wr, enc, made>>
  BY DEF AddDirectory
<1>2. CASE EntryRefused
  BY <1>1, <1>2, FailingContents DEF EntryRefused
<1>3. CASE ~EntryRefused
  <2>1. /\ NextEntry /\ ~Broken
        /\ \/ /\ staged' = [staged EXCEPT !.entries =
                   Append(staged.entries, [name |-> Input.name, dir |-> TRUE, off |-> 0, n |-> 0])]
              /\ UNCHANGED <<pipe, tape>>
           \/ Emit(<<Folder(Input.name)>>) /\ UNCHANGED staged
    BY <1>3 DEF AddDirectory
  <2>2. job'.pc = "entry" /\ Inputs' = Inputs /\ Broken' = Broken
    BY <1>1, <2>1, GoesOn DEF StagedInv, Inputs, Broken
  <2>3. Folder(Input.name) \in Item /\ Folder(Input.name).tag = "dir"
    BY <1>1, CurrentInput DEF StagedInv, Folder
  <2>4. Whole(Inputs, <<Folder(Input.name)>>) /\ <<Folder(Input.name)>> \in Seq(Item)
    BY <2>3, WholeSingle
  <2>5. Whole(Inputs, Stream)
    BY <1>1, <2>1 DEF Contents, At
  <2>6. Whole(Inputs, Stream')
    <3>1. CASE Emit(<<Folder(Input.name)>>)
      <4>1. Stream' = Stream \o <<Folder(Input.name)>>
        BY <2>4, <3>1, StreamGrows
      <4> QED
        BY <2>4, <2>5, <4>1, WholeJoin
    <3>2. CASE UNCHANGED <<pipe, tape>>
      BY <2>5, <3>2 DEF Stream
    <3> QED
      BY <2>1, <3>1, <3>2
  <2>7. Held(Inputs, staged')
    <3>1. Held(Inputs, staged)
      BY <1>1 DEF At, Contents, Adding
    <3>2. CASE staged' = staged
      BY <3>1, <3>2
    <3>3. CASE staged' # staged
      <4> DEFINE e == [name |-> Input.name, dir |-> TRUE, off |-> 0, n |-> 0]
                 m == Len(staged.entries)
      <4>1. /\ staged'.entries = Append(staged.entries, e) /\ staged'.batch = staged.batch
            /\ staged'.pool = staged.pool /\ staged'.used = staged.used
        BY <2>1, <3>3 DEF StagedInv, CreationTypeOK, StagedType
      <4>2. staged.entries \in Seq(PooledEntry) /\ m \in Nat
        BY DEF StagedInv, CreationTypeOK, StagedType
      <4>3. e.dir = TRUE /\ e.n = 0
        OBVIOUS
      <4> HIDE DEF e
      <4>4. Len(staged'.entries) = m + 1 /\ staged'.entries[m + 1] = e
            /\ \A i \in 1..m : staged'.entries[i] = staged.entries[i]
        BY <4>1, <4>2
      <4>5. \E f : Behind(staged'.entries, staged.used, f)
        <5>1. \E f : Behind(staged.entries, staged.used, f)
          BY <3>1 DEF Held
        <5>2. e \in PooledEntry /\ staged.used \in Nat /\ staged.used + e.n = staged.used
          BY <1>1, <4>3, CurrentInput DEF e, PooledEntry, InputType, StagedInv, CreationTypeOK, StagedType
        <5> QED
          BY <4>1, <4>2, <4>3, <5>1, <5>2, BehindGrows
      <4>7. ASSUME NEW i \in 1..Len(staged'.entries), ~staged'.entries[i].dir
            PROVE  InPool(Inputs, staged.pool, staged.used, staged'.entries[i])
        <5>1. i \in 1..m /\ staged'.entries[i] = staged.entries[i]
          BY <4>2, <4>3, <4>4, <4>7
        <5> QED
          BY <3>1, <4>7, <5>1 DEF Held
      <4> QED
        BY <3>1, <4>1, <4>5, <4>7 DEF Held
    <3> QED
      BY <3>2, <3>3
  <2> QED
    BY <1>1, <2>1, <2>2, <2>6, <2>7 DEF Contents, StagedInv, Stages, At
<1> QED
  BY <1>2, <1>3

LEMMA OpenContents ==
  ASSUME StagedInv, Contents, Open PROVE Contents'
<1>1. /\ At("entry") /\ job.k <= Len(Inputs) /\ ~Input.dir
      /\ UNCHANGED <<req, wr, enc, made>> /\ job.pos = 0
  BY DEF Open, StagedInv, Stages, At
<1>2. CASE EntryRefused
  BY <1>1, <1>2, FailingContents DEF EntryRefused
<1>3. CASE ~EntryRefused
  <2>1. /\ job' = [job EXCEPT !.pc = "read"] /\ ~Broken
        /\ UNCHANGED staged
        /\ IF Announces THEN Emit(<<Header(Input.name, Input.size)>>)
           ELSE IF wr.lay = "streamed" THEN Emit(<<Header(Input.name, 0)>>)
           ELSE UNCHANGED <<pipe, tape>>
    BY <1>3 DEF Open
  <2>2. job'.pc = "read" /\ job'.inputs = job.inputs /\ job'.k = job.k /\ job'.pos = 0
    BY <1>1, <2>1 DEF StagedInv, CreationTypeOK, JobType
  <2>3. Inputs' = Inputs /\ Input' = Input /\ Broken' = Broken /\ Announces' = Announces
        /\ Opened' = Opened /\ Size' = Size
    BY <1>1, <2>2 DEF Inputs, Input, Broken, Announces, Window, Opened, Size
  <2>4. Input \in InputType /\ Input.size \in Nat /\ Size \in Nat /\ Header(Input.name, Size) \in Item
    <3>1. Input \in InputType
      BY <1>1, CurrentInput DEF StagedInv
    <3>2. Input.size \in Nat /\ Size \in Nat
      BY <3>1 DEF InputType, Size
    <3> QED
      BY <1>1, <3>1, <3>2, CurrentInput DEF StagedInv
  <2>5. Whole(Inputs, Stream)
    BY <1>1, <2>1 DEF Contents, At
  <2>6. ~Opened => Whole(Inputs, Stream')
    <3>1. ~Opened => Stream' = Stream
      BY <2>1 DEF Opened, Stream
    <3> QED
      BY <2>5, <3>1
  <2>7. Opened => Stream' = Stream \o Partly'
    <3>1. Opened => Emit(<<Header(Input.name, Size)>>)
      BY <2>1 DEF Opened, Size
    <3>2. <<Header(Input.name, Size)>> \in Seq(Item)
      BY <2>4
    <3>3. Partly' = <<Header(Input.name, Size)>> \o Blocks(Input.path, 0)
      BY <2>2, <2>3 DEF Partly
    <3>4. Partly' = <<Header(Input.name, Size)>>
      <4> DEFINE h == <<Header(Input.name, Size)>>
      <4>1. h \in Seq(Item) /\ Partly' = h \o <<>>
        BY <3>2, <3>3, NoBlocks
      <4> HIDE DEF h
      <4>2. Partly' = h
        BY <4>1
      <4> QED
        BY <4>2 DEF h
    <3> QED
      BY <3>1, <3>2, <3>4, StreamGrows
  <2>8. Held(Inputs, staged')
    BY <1>1, <2>1 DEF At, Contents, Adding
  <2>9. \A j \in 1..0 : FALSE
    OBVIOUS
  <2>10. Opened => \E base : Whole(Inputs, base) /\ Stream' = base \o Partly'
    BY <2>5, <2>7
  <2>11. IF Opened' THEN \E base : Whole(Inputs', base) /\ Stream' = base \o Partly'
         ELSE Whole(Inputs', Stream')
    BY <2>3, <2>6, <2>10
  <2>12. Announces' => job'.pos <= Input'.size
    BY <2>2, <2>3, <2>4
  <2>13. \A j \in 1..job'.pos : staged'.pool[staged'.used + j] = Block(Input'.path, j)
    BY <2>2, <2>9
  <2>14. Held(Inputs', staged') /\ made' = Nothing
    BY <1>1, <2>3, <2>8 DEF StagedInv, Stages, At
  <2> QED
    BY <2>2, <2>11, <2>12, <2>13, <2>14 DEF Contents
<1> QED
  BY <1>2, <1>3

LEMMA ReadContents ==
  ASSUME StagedInv, Contents, Read PROVE Contents'
<1> DEFINE b == Block(Input.path, job.pos + 1)
<1>1. /\ At("read") /\ job.k <= Len(Inputs) /\ ~Input.dir
      /\ UNCHANGED <<req, wr, enc, made>>
  BY DEF Read, StagedInv, Stages, At
<1>2. CASE EntryFails
  BY <1>1, <1>2, FailingContents DEF EntryFails
<1>3. CASE ~EntryFails
  <2>1. /\ ~Broken /\ ~Grew
        /\ job' = [job EXCEPT !.pos = job.pos + 1]
        /\ IF wr.lay = "pooled" THEN staged' = Pooled(b) /\ UNCHANGED <<pipe, tape>>
           ELSE IF wr.lay = "streamed" \/ Announces THEN Emit(<<b>>) /\ UNCHANGED staged
           ELSE UNCHANGED <<staged, pipe, tape>>
    BY <1>3 DEF Read
  <2>2. job'.pc = "read" /\ job'.inputs = job.inputs /\ job'.k = job.k /\ job'.pos = job.pos + 1
    BY <1>1, <2>1 DEF StagedInv, CreationTypeOK, JobType, At
  <2>3. Inputs' = Inputs /\ Input' = Input /\ Broken' = Broken /\ Announces' = Announces
        /\ Opened' = Opened /\ Size' = Size
    BY <1>1, <2>2 DEF Inputs, Input, Broken, Announces, Window, Opened, Size
  <2>4. Input \in InputType /\ Input.path \in Paths /\ Input.size \in Nat /\ Size \in Nat
        /\ Header(Input.name, Size) \in Item /\ job.pos \in Nat /\ b \in Item
    <3>1. Input \in InputType /\ job.pos \in Nat
      BY <1>1, CurrentInput DEF StagedInv, CreationTypeOK, JobType
    <3>2. Input.path \in Paths /\ Input.size \in Nat /\ Size \in Nat
      BY <3>1 DEF InputType, Size
    <3> QED
      BY <1>1, <3>1, <3>2, CurrentInput DEF StagedInv, Item
  <2>5. wr.sized => wr.lay = "measured"
    BY WriterFacts DEF StagedInv, CreationTypeOK
  <2> HIDE DEF b
  <2>6. CASE Opened
    <3>1. Emit(<<b>>) /\ staged' = staged
      BY <2>1, <2>5, <2>6 DEF Opened, Announces
    <3>2. PICK base : Whole(Inputs, base) /\ Stream = base \o Partly
      BY <1>1, <2>1, <2>6 DEF Contents, At
    <3>3. <<b>> \in Seq(Item) /\ base \in Seq(Item)
      BY <2>4, <3>2 DEF Whole
    <3>4. Stream' = (base \o Partly) \o <<b>>
      BY <3>1, <3>2, <3>3, StreamGrows
    <3> DEFINE h == <<Header(Input.name, Size)>>
               bs == Blocks(Input.path, job.pos)
    <3>5. h \in Seq(Item) /\ bs \in Seq(Item) /\ bs \o <<b>> = Blocks(Input.path, job.pos + 1)
      BY <2>4, BlocksGrow DEF b
    <3>6. Partly = h \o bs /\ Partly' = h \o (bs \o <<b>>)
      BY <2>2, <2>3, <3>5 DEF Partly
    <3> HIDE DEF h, bs
    <3>7. (base \o (h \o bs)) \o <<b>> = base \o (h \o (bs \o <<b>>))
      <4>1. (h \o bs) \o <<b>> = h \o (bs \o <<b>>)
        BY <3>3, <3>5, ConcatAssociative
      <4>2. (base \o (h \o bs)) \o <<b>> = base \o ((h \o bs) \o <<b>>)
        <5>1. h \o bs \in Seq(Item)
          BY <3>5
        <5> QED
          BY <3>3, <5>1, ConcatAssociative
      <4> QED
        BY <4>1, <4>2
    <3>8. Whole(Inputs', base) /\ Stream' = base \o Partly'
      BY <2>3, <3>2, <3>4, <3>6, <3>7
    <3>9. Announces' => job'.pos <= Input'.size
      BY <2>1, <2>2, <2>3, <2>4 DEF Grew
    <3>10. wr.lay # "pooled"
      BY <2>5, <2>6 DEF Opened, Announces
    <3>11. Held(Inputs', staged')
      BY <1>1, <2>3, <3>1 DEF At, Contents, Adding
    <3> QED
      BY <1>1, <2>2, <2>3, <2>6, <3>8, <3>9, <3>10, <3>11 DEF Contents, StagedInv, Stages, At
  <2>7. CASE ~Opened
    <3>1. UNCHANGED <<pipe, tape>> /\ ~Announces
      BY <2>1, <2>7 DEF Opened
    <3>2. Stream' = Stream /\ Whole(Inputs, Stream)
      BY <1>1, <2>1, <2>7, <3>1 DEF Contents, At, Stream
    <3>3. Held(Inputs, staged)
      BY <1>1 DEF At, Contents, Adding
    <3>4. CASE wr.lay # "pooled"
      <4>1. staged' = staged
        BY <2>1, <3>1, <3>4
      <4> QED
        BY <1>1, <2>2, <2>3, <2>7, <3>1, <3>2, <3>3, <3>4, <4>1 DEF Contents, StagedInv, Stages, At
    <3>5. CASE wr.lay = "pooled"
      <4> DEFINE place == staged.used + job.pos
                 pool == IF place < Len(staged.pool) THEN [staged.pool EXCEPT ![place + 1] = b]
                         ELSE Append(staged.pool, b)
      <4>1. staged.used \in Nat /\ staged.pool \in Seq(Item) /\ place \in Nat /\ place <= Len(staged.pool)
            /\ staged.entries \in Seq(PooledEntry) /\ Len(staged.pool) \in Nat
        <5>1. staged \in StagedType /\ (job.pc = "read" /\ wr.lay = "pooled" => place <= Len(staged.pool))
          BY DEF StagedInv, CreationTypeOK, Stages
        <5>2. staged.used \in Nat /\ staged.pool \in Seq(Item) /\ staged.entries \in Seq(PooledEntry)
          BY <5>1 DEF StagedType
        <5>3. place \in Nat /\ Len(staged.pool) \in Nat
          BY <2>4, <5>2
        <5> QED
          BY <1>1, <3>5, <5>1, <5>2, <5>3 DEF At
      <4>2. staged'.pool = pool /\ staged'.entries = staged.entries /\ staged'.batch = staged.batch
            /\ staged'.used = staged.used
        <5>1. staged' = [staged EXCEPT !.pool = pool]
          BY <2>1, <3>5 DEF Pooled
        <5> HIDE DEF pool
        <5> QED
          BY <5>1 DEF StagedInv, CreationTypeOK, StagedType
      <4> HIDE DEF place
      <4>3. pool[place + 1] = b /\ \A x \in 1..place : pool[x] = staged.pool[x]
        <5>1. CASE place < Len(staged.pool)
          <6>1. place + 1 \in 1..Len(staged.pool)
            BY <4>1, <5>1
          <6>2. \A j \in 1..Len(staged.pool) :
                  [staged.pool EXCEPT ![place + 1] = b][j] = IF j = place + 1 THEN b ELSE staged.pool[j]
            BY <2>4, <4>1, <6>1, ExceptSeq
          <6>3. \A x \in 1..place : x \in 1..Len(staged.pool) /\ x # place + 1
            BY <4>1, <5>1
          <6> QED
            BY <5>1, <6>1, <6>2, <6>3
        <5>2. CASE ~(place < Len(staged.pool))
          <6>1. place = Len(staged.pool)
            BY <4>1, <5>2
          <6> QED
            BY <2>4, <4>1, <5>2, <6>1
        <5> QED
          BY <5>1, <5>2
      <4> HIDE DEF pool
      <4>4. \A x \in 1..staged.used : pool[x] = staged.pool[x]
        <5>1. \A x \in 1..staged.used : x \in 1..place
          BY <2>4, <4>1 DEF place
        <5> QED
          BY <4>3, <5>1
      <4>5. ASSUME NEW i \in 1..Len(staged.entries), InPool(Inputs, staged.pool, staged.used, staged.entries[i])
            PROVE  InPool(Inputs, pool, staged.used, staged.entries[i])
        BY <4>1, <4>4, <4>5, PoolStays
      <4>6. Held(Inputs, staged')
        BY <3>3, <4>2, <4>5 DEF Held
      <4>7. \A j \in 1..job.pos + 1 : pool[staged.used + j] = Block(Input.path, j)
        <5> SUFFICES ASSUME NEW j \in 1..job.pos + 1 PROVE pool[staged.used + j] = Block(Input.path, j)
          OBVIOUS
        <5>1. CASE j = job.pos + 1
          <6>1. staged.used + j = place + 1
            BY <2>4, <4>1, <5>1 DEF place
          <6> QED
            BY <4>3, <5>1, <6>1 DEF b
        <5>2. CASE j # job.pos + 1
          <6>1. j \in 1..job.pos /\ staged.used + j \in 1..place
            BY <2>4, <4>1, <5>2 DEF place
          <6>2. staged.pool[staged.used + j] = Block(Input.path, j)
            BY <1>1, <3>5, <6>1 DEF Contents, At
          <6> QED
            BY <4>3, <6>1, <6>2
        <5> QED
          BY <5>1, <5>2
      <4> QED
        BY <1>1, <2>2, <2>3, <2>7, <3>1, <3>2, <4>2, <4>6, <4>7 DEF Contents, StagedInv, Stages, At
    <3> QED
      BY <3>4, <3>5
  <2> QED
    BY <2>6, <2>7
<1> QED
  BY <1>2, <1>3

\* The payload of the entry that ends, as its head will say.
LEMMA EntryIsWhole ==
  ASSUME StagedInv, job.k <= Len(Inputs), ~Input.dir
  PROVE  Whole(Inputs, Entry)
<1>1. Input \in InputType /\ job.k \in 1..Len(Inputs) /\ Input = Inputs[job.k] /\ job.pos \in Nat
  BY CurrentInput DEF StagedInv, CreationTypeOK, JobType, Inputs
<1>2. Input.path \in Paths /\ Input.name \in Seq(Steps)
  BY <1>1 DEF InputType
<1>3. Whole(Inputs, <<Header(Inputs[job.k].name, job.pos)>> \o Blocks(Inputs[job.k].path, job.pos))
  BY <1>1, <1>2, WholeFile
<1> QED
  BY <1>1, <1>3 DEF Entry

\* Two sequences put together.
LEMMA Joined ==
  ASSUME NEW s \in Seq(Item), NEW t \in Seq(Item)
  PROVE  /\ s \o t \in Seq(Item) /\ Len(s \o t) = Len(s) + Len(t)
         /\ \A i \in 1..Len(s) + Len(t) :
              (s \o t)[i] = IF i <= Len(s) THEN s[i] ELSE t[i - Len(s)]
OBVIOUS

\* The length a streamed entry's head gets in the end.
LEMMA CompletedTape ==
  ASSUME StagedInv, NEW base, Whole(Inputs, base), tape = base \o Partly,
         job.k <= Len(Inputs), wr.lay = "streamed"
  PROVE  Completed = base \o Entry
<1> DEFINE n == Len(base)
           place == Len(tape) - job.pos
           h == Header(Input.name, Size)
           e == Header(Input.name, job.pos)
           bs == Blocks(Input.path, job.pos)
<1>1. base \in Seq(Item) /\ n \in Nat /\ job.pos \in Nat /\ tape \in Seq(Item)
  BY DEF Whole, StagedInv, CreationTypeOK, JobType
<1>2. h \in Item /\ e \in Item /\ bs \in Seq(Item) /\ Len(bs) = job.pos /\ e = [h EXCEPT !.size = job.pos]
  <2>1. Input \in InputType
    BY CurrentInput DEF StagedInv
  <2>2. Size \in Nat
    BY <2>1 DEF Size, InputType
  <2>3. Len(bs) = job.pos
    BY <1>1 DEF Blocks
  <2>4. e = [h EXCEPT !.size = job.pos]
    BY DEF Header
  <2> QED
    BY <1>1, <2>2, <2>3, <2>4, CurrentInput DEF StagedInv
<1>3. tape = base \o (<<h>> \o bs) /\ Entry = <<e>> \o bs
  BY DEF Partly, Entry
<1> HIDE DEF h, e, bs, n
<1>4. Len(tape) = n + 1 + job.pos /\ place = n + 1
  BY <1>1, <1>2, <1>3 DEF n
<1>5. tape[n + 1] = h /\ n + 1 \in 1..Len(tape)
  BY <1>1, <1>2, <1>3, <1>4 DEF n
<1>6. Completed = [tape EXCEPT ![n + 1] = e]
  <2>1. Completed = [tape EXCEPT ![place] = [tape[place] EXCEPT !.size = job.pos]]
    BY DEF Completed
  <2> QED
    BY <1>2, <1>4, <1>5, <2>1
<1>7. Completed \in Seq(Item) /\ Len(Completed) = Len(tape)
      /\ \A j \in 1..Len(tape) : Completed[j] = IF j = n + 1 THEN e ELSE tape[j]
  <2> DEFINE x == n + 1
             new == Completed
  <2>1. x \in 1..Len(tape)
    BY <1>5
  <2>2. new = [tape EXCEPT ![x] = e]
    BY <1>6
  <2> HIDE DEF x, new
  <2>3. new \in Seq(Item) /\ Len(new) = Len(tape)
        /\ \A j \in 1..Len(tape) : new[j] = IF j = x THEN e ELSE tape[j]
    <3> DEFINE t == [tape EXCEPT ![x] = e]
    <3>1. tape \in Seq(Item) /\ e \in Item
      BY <1>1, <1>2
    <3>2. DOMAIN tape = 1..Len(tape) /\ Len(tape) \in Nat
      BY <3>1
    <3>3. \A j \in 1..Len(tape) : t[j] = IF j = x THEN e ELSE tape[j]
      BY <3>2
    <3>4. DOMAIN t = 1..Len(tape)
      BY <3>2
    <3>5. t = [j \in 1..Len(tape) |-> IF j = x THEN e ELSE tape[j]]
      BY <3>3, <3>4
    <3> HIDE DEF t
    <3>6. ASSUME NEW j \in 1..Len(tape) PROVE t[j] \in Item
      <4>1. tape[j] \in Item
        BY <3>1
      <4>2. t[j] = e \/ t[j] = tape[j]
        BY <3>3
      <4> QED
        BY <3>1, <4>1, <4>2
    <3>7. t \in Seq(Item) /\ Len(t) = Len(tape)
      BY <3>2, <3>5, <3>6
    <3>8. new = t
      BY <2>2 DEF t
    <3> QED
      BY <3>3, <3>7, <3>8
  <2> QED
    BY <2>3 DEF x, new
<1> DEFINE new == base \o (<<e>> \o bs)
<1>8. new \in Seq(Item) /\ Len(new) = Len(tape)
  <2> DEFINE y == <<e>> \o bs
  <2>1. y \in Seq(Item) /\ Len(y) = job.pos + 1
    BY <1>1, <1>2
  <2> HIDE DEF y
  <2>2. base \o y \in Seq(Item) /\ Len(base \o y) = Len(base) + Len(y)
    BY <1>1, <2>1, Joined
  <2>3. Len(base \o y) = n + (job.pos + 1)
    BY <2>1, <2>2 DEF n
  <2>4. \A x, z \in Nat : x + (z + 1) = x + 1 + z
    OBVIOUS
  <2>5. n + (job.pos + 1) = n + 1 + job.pos
    BY <1>1, <2>4
  <2> QED
    BY <1>4, <2>2, <2>3, <2>5 DEF y
<1>9. ASSUME NEW j \in 1..Len(tape) PROVE new[j] = IF j = n + 1 THEN e ELSE tape[j]
  <2> DEFINE x == <<h>> \o bs
             y == <<e>> \o bs
  <2>1. x \in Seq(Item) /\ y \in Seq(Item) /\ Len(x) = job.pos + 1 /\ Len(y) = job.pos + 1
        /\ y[1] = e /\ \A i \in 2..job.pos + 1 : x[i] = y[i]
    BY <1>1, <1>2
  <2>2. tape = base \o x /\ new = base \o y
    BY <1>3
  <2> HIDE DEF x, y, new
  <2>3. CASE j <= n
    BY <1>1, <2>1, <2>2, <2>3 DEF n
  <2>4. CASE j > n
    <3>1. j - n \in 1..job.pos + 1 /\ tape[j] = x[j - n] /\ new[j] = y[j - n]
      <4>1. j \in Nat /\ j <= n + 1 + job.pos /\ ~(j <= n) /\ n \in Nat /\ job.pos \in Nat
        BY <1>1, <1>4, <2>4
      <4>2. j - n \in 1..job.pos + 1 /\ j \in 1..n + (job.pos + 1)
        BY <4>1
      <4>3. \A i \in 1..n + (job.pos + 1) : ~(i <= n) => (base \o x)[i] = x[i - n]
        BY <1>1, <2>1, Joined DEF n
      <4>4. \A i \in 1..n + (job.pos + 1) : ~(i <= n) => (base \o y)[i] = y[i - n]
        BY <1>1, <2>1, Joined DEF n
      <4> QED
        BY <2>2, <4>1, <4>2, <4>3, <4>4
    <3>2. CASE j = n + 1
      BY <1>1, <2>1, <3>1, <3>2
    <3>3. CASE j # n + 1
      <4>1. j - n \in 2..job.pos + 1
        BY <1>1, <1>4, <2>4, <3>3
      <4> QED
        BY <2>1, <3>1, <3>3, <4>1
    <3> QED
      BY <3>2, <3>3
  <2>5. j \in Nat /\ n \in Nat
    BY <1>1
  <2> QED
    BY <2>3, <2>4, <2>5
<1>10. Completed = new
  <2> HIDE DEF new
  <2> QED
    BY <1>7, <1>8, <1>9, SeqEqual
<1> QED
  BY <1>3, <1>10

LEMMA FlatBatchWhole ==
  ASSUME NEW ins, NEW batch \in Seq(Seq(Item)), \A i \in 1..Len(batch) : Whole(ins, batch[i])
  PROVE  Whole(ins, FlatBatch(batch))
<1> DEFINE G == {t \in Seq(Item) : Whole(ins, t)}
<1>1. G \subseteq Seq(Item) /\ <<>> \in G
  BY WholeNothing
<1>2. \A x, y \in G : x \o y \in G
  <2> SUFFICES ASSUME NEW x \in G, NEW y \in G PROVE x \o y \in G
    OBVIOUS
  <2>1. Whole(ins, x \o y)
    BY WholeJoin
  <2>2. x \o y \in Seq(Item)
    BY <2>1 DEF Whole
  <2> QED
    BY <2>1, <2>2
<1>3. batch \in Seq(G)
  <2>1. \A i \in 1..Len(batch) : batch[i] \in G
    OBVIOUS
  <2> HIDE DEF G
  <2> QED
    BY <2>1
<1> HIDE DEF G
<1>4. FlattenSeq(batch) \in G
  BY <1>1, <1>2, <1>3, Flattened
<1> QED
  BY <1>4 DEF G, FlatBatch

\* An entry that ends.
LEMMA EntryEndsKeeps ==
  ASSUME StagedInv, Contents, EntryEnds PROVE StagedInv' /\ Contents'
<1>1. /\ At("read") /\ job.k <= Len(Inputs) /\ ~Input.dir
      /\ UNCHANGED <<req, wr, kind, len, enc, made>> /\ enc # "done"
  BY DEF EntryEnds, StagedInv, Stages, At, files, Adding
<1>2. CASE EntryFails
  <2>1. Contents'
    BY <1>1, <1>2, FailingContents DEF EntryFails
  <2>2. job' \in JobType /\ UNCHANGED <<pipe, tape>>
        /\ (job'.pc = "over" \/ (job'.pc = "entry" /\ job'.pos = 0 /\ job'.result = job.result))
    BY <1>2, GivesUp DEF EntryFails, StagedInv
  <2>3. staged' \in StagedType /\ staged'.used = staged.used
        /\ (staged'.pool = staged.pool \/ staged'.pool = SubSeq(staged.pool, 1, staged.used))
    BY <1>2, RollingBack DEF EntryFails, Stages, StagedInv
  <2>4. staged'.used <= Len(staged'.pool)
    <3>1. staged.used \in Nat /\ staged.pool \in Seq(Item) /\ staged.used <= Len(staged.pool)
      BY DEF StagedInv, CreationTypeOK, StagedType, Stages
    <3> QED
      BY <2>3, <3>1
  <2> QED
    BY <1>1, <2>1, <2>2, <2>3, <2>4 DEF StagedInv, CreationTypeOK, Stages, At, Early, Adding
<1>3. CASE ~EntryFails
  <2>1. ~Short /\ ~Broken /\ NextEntry
    BY <1>3 DEF EntryEnds
  <2>2. job' \in JobType /\ job'.pc = "entry" /\ job'.pos = 0 /\ job'.result = job.result
        /\ job'.inputs = job.inputs
    BY <2>1, GoesOn DEF StagedInv
  <2>3. Inputs' = Inputs /\ Broken' = Broken
    BY <1>1, <2>2 DEF Inputs, Broken
  <2>4. wr \in Writers /\ job.pos \in Nat
    BY DEF StagedInv, CreationTypeOK, JobType
  <2>5. Whole(Inputs, Entry) /\ Entry \in Seq(Item)
    BY <1>1, EntryIsWhole DEF Whole
  <2>6. Held(Inputs, staged)
    BY <1>1 DEF At, Contents, Adding
  <2>7. staged \in StagedType /\ tape \in Seq(Item) /\ pipe \in Seq(Item)
        /\ (~wr.threaded => pipe = <<>>) /\ staged.used <= Len(staged.pool)
    BY DEF StagedInv, CreationTypeOK, Stages
  <2>8. ASSUME tape' \in Seq(Item), pipe' \in Seq(Item), ~wr.threaded => pipe' = <<>>,
               staged' \in StagedType, staged'.used <= Len(staged'.pool),
               Whole(Inputs, Stream'), Held(Inputs, staged')
        PROVE  StagedInv' /\ Contents'
    <3>1. StagedInv'
      BY <1>1, <2>2, <2>8 DEF StagedInv, CreationTypeOK, Stages, At, Early, Adding
    <3>2. Contents'
      BY <1>1, <2>1, <2>2, <2>3, <2>8 DEF Contents, StagedInv, Stages, At
    <3> QED
      BY <3>1, <3>2
  <2>14. (CASE wr.lay = "pooled" ->
                /\ staged' = [staged EXCEPT
                     !.used = @ + job.pos,
                     !.entries = Append(@, [name |-> Input.name, dir |-> FALSE,
                                            off |-> staged.used, n |-> job.pos])]
                /\ UNCHANGED <<pipe, tape>>
           [] wr.lay = "streamed" ->
                tape' = Completed /\ UNCHANGED <<staged, pipe>>
           [] wr.batched -> Batched /\ UNCHANGED pipe
           [] Announces -> UNCHANGED <<staged, pipe, tape>>
           [] OTHER -> Emit(Entry) /\ UNCHANGED staged)
    BY <1>3, <2>1 DEF EntryEnds
  <2>9. CASE wr.lay = "pooled"
    <3> DEFINE e == [name |-> Input.name, dir |-> FALSE, off |-> staged.used, n |-> job.pos]
    <3>1. /\ staged' = [staged EXCEPT !.used = staged.used + job.pos,
                                      !.entries = Append(staged.entries, e)]
          /\ UNCHANGED <<pipe, tape>>
      <4>1. wr.lay # "streamed" /\ ~wr.batched /\ ~Announces
        BY <2>4, <2>9, WriterFacts DEF Announces
      <4> QED
        BY <2>9, <2>14, <4>1
    <3>2. ~Opened
      BY <2>4, <2>9, WriterFacts DEF Opened, Announces
    <3>3. Whole(Inputs, Stream')
      BY <1>1, <2>1, <3>1, <3>2 DEF Contents, At, Stream
    <3>4. staged.entries \in Seq(PooledEntry) /\ staged.used \in Nat /\ staged.pool \in Seq(Item)
          /\ staged.used + job.pos \in Nat /\ staged.used + job.pos <= Len(staged.pool)
      BY <1>1, <2>4, <2>7, <2>9 DEF StagedType, StagedInv, Stages, At
    <3>5. e \in PooledEntry /\ ~e.dir /\ e.off = staged.used /\ e.n = job.pos /\ e.name = Input.name
      <4>1. Input \in InputType
        BY <1>1, CurrentInput DEF StagedInv
      <4> QED
        BY <2>4, <3>4, <4>1 DEF InputType, PooledEntry
    <3> HIDE DEF e
    <3>6. Append(staged.entries, e) \in Seq(PooledEntry)
      BY <3>4, <3>5
    <3>7. /\ staged' \in StagedType /\ staged'.used = staged.used + job.pos
          /\ staged'.pool = staged.pool /\ staged'.batch = staged.batch
          /\ staged'.entries = Append(staged.entries, e)
      BY <2>7, <3>1, <3>4, <3>6 DEF StagedType
    <3>8. \E f : Behind(staged'.entries, staged'.used, f)
      <4>1. \E f : Behind(staged.entries, staged.used, f)
        BY <2>6 DEF Held
      <4> QED
        BY <3>4, <3>5, <3>7, <4>1, BehindGrows
    <3>9. ASSUME NEW i \in 1..Len(staged'.entries), ~staged'.entries[i].dir
          PROVE  InPool(Inputs, staged.pool, staged.used + job.pos, staged'.entries[i])
      <4>1. CASE i = Len(staged.entries) + 1
        <5>1. staged'.entries[i] = e
          BY <3>4, <3>7, <4>1
        <5>2. \A j \in 1..job.pos : staged.pool[staged.used + j] = Block(Input.path, j)
          BY <1>1, <2>9 DEF Contents, At
        <5>3. job.k \in 1..Len(Inputs) /\ Input = Inputs[job.k]
          BY <1>1, CurrentInput DEF StagedInv, Inputs
        <5>4. \A j \in 1..e.n : staged.pool[e.off + j] = Block(Inputs[job.k].path, j)
          BY <3>5, <5>2, <5>3
        <5>5. e.off + e.n <= staged.used + job.pos
          BY <2>4, <3>4, <3>5
        <5> QED
          BY <1>1, <3>5, <5>1, <5>3, <5>4, <5>5 DEF InPool
      <4>2. CASE i # Len(staged.entries) + 1
        <5>1. i \in 1..Len(staged.entries) /\ staged'.entries[i] = staged.entries[i]
          BY <3>4, <3>7, <4>2
        <5>2. InPool(Inputs, staged.pool, staged.used, staged.entries[i])
          BY <2>6, <3>9, <5>1 DEF Held
        <5>3. staged.entries[i] \in PooledEntry
          BY <3>4, <5>1
        <5>4. staged.entries[i].off + staged.entries[i].n <= staged.used + job.pos
          <6> DEFINE z == staged.entries[i].off + staged.entries[i].n
          <6>1. z \in Nat /\ z <= staged.used
            BY <5>2, <5>3 DEF InPool, PooledEntry
          <6> HIDE DEF z
          <6>2. \A x, y, w \in Nat : x <= y => x <= y + w
            OBVIOUS
          <6>3. z <= staged.used + job.pos
            BY <2>4, <3>4, <6>1, <6>2
          <6> QED
            BY <6>3 DEF z
        <5> QED
          BY <5>1, <5>2, <5>4 DEF InPool
      <4> QED
        BY <4>1, <4>2
    <3>10. Held(Inputs, staged')
      BY <2>6, <3>7, <3>8, <3>9 DEF Held
    <3> QED
      BY <2>7, <2>8, <3>1, <3>3, <3>4, <3>7, <3>10
  <2>10. CASE wr.lay = "streamed"
    <3>1. tape' = Completed /\ UNCHANGED <<staged, pipe>>
      <4>1. wr.lay # "pooled" /\ ~wr.batched /\ ~Announces
        BY <2>4, <2>10, WriterFacts DEF Announces
      <4> QED
        BY <2>10, <2>14, <4>1
    <3>2. Opened /\ ~wr.threaded
      BY <2>4, <2>10, WriterFacts DEF Opened
    <3>3. PICK base : Whole(Inputs, base) /\ Stream = base \o Partly
      BY <1>1, <2>1, <3>2 DEF Contents, At
    <3>4. tape \o <<>> = tape /\ Stream = tape
      BY <2>7, <3>2 DEF Stream
    <3>5. Completed = base \o Entry
      BY <1>1, <2>10, <3>3, <3>4, CompletedTape
    <3>6. Whole(Inputs, Completed) /\ Completed \in Seq(Item)
      <4>1. Whole(Inputs, base \o Entry)
        BY <2>5, <3>3, WholeJoin
      <4>2. Whole(Inputs, Completed)
        BY <3>5, <4>1
      <4> QED
        BY <4>2 DEF Whole
    <3>7. Completed \o <<>> = Completed
      BY <3>6
    <3>8. Whole(Inputs, Stream') /\ tape' \in Seq(Item)
      BY <2>7, <3>1, <3>2, <3>6, <3>7 DEF Stream
    <3> QED
      BY <2>6, <2>7, <2>8, <3>1, <3>2, <3>8
  <2>11. CASE wr.batched
    <3>1. Batched /\ UNCHANGED pipe /\ ~Opened /\ ~wr.threaded
      <4>1. wr.lay = "measured" /\ ~Opened /\ ~wr.threaded
        BY <2>4, <2>11, WriterFacts DEF Opened, Announces
      <4> QED
        BY <1>3, <2>1, <2>11, <4>1 DEF EntryEnds, Opened
    <3>2. Whole(Inputs, Stream)
      BY <1>1, <2>1, <3>1 DEF Contents, At
    <3> DEFINE b == Append(staged.batch, Entry)
    <3>3. staged.batch \in Seq(Seq(Item)) /\ b \in Seq(Seq(Item))
      BY <2>5, <2>7 DEF StagedType
    <3>4. \A i \in 1..Len(b) : Whole(Inputs, b[i])
      <4>1. \A i \in 1..Len(b) : b[i] = Entry \/ (i \in 1..Len(staged.batch) /\ b[i] = staged.batch[i])
        BY <3>3
      <4> QED
        BY <2>5, <2>6, <4>1 DEF Held
    <3> HIDE DEF b
    <3>5. CASE staged' = [staged EXCEPT !.batch = b] /\ UNCHANGED tape
      <4>1. staged' \in StagedType /\ staged'.pool = staged.pool /\ staged'.used = staged.used
            /\ staged'.entries = staged.entries /\ staged'.batch = b
        BY <2>7, <3>3, <3>5 DEF StagedType
      <4>2. Held(Inputs, staged')
        BY <2>6, <3>4, <4>1 DEF Held
      <4>3. Stream' = Stream
        BY <3>1, <3>5 DEF Stream
      <4> QED
        BY <2>7, <2>8, <3>1, <3>2, <3>5, <4>1, <4>2, <4>3
    <3>6. CASE staged' = [staged EXCEPT !.batch = <<>>] /\ tape' = tape \o FlatBatch(b)
      <4>1. staged' \in StagedType /\ staged'.pool = staged.pool /\ staged'.used = staged.used
            /\ staged'.entries = staged.entries /\ staged'.batch = <<>>
        <5>1. <<>> \in Seq(Seq(Item))
          OBVIOUS
        <5> QED
          BY <2>7, <3>6, <5>1 DEF StagedType
      <4>2. Held(Inputs, staged')
        BY <2>6, <4>1 DEF Held
      <4>3. Whole(Inputs, FlatBatch(b)) /\ FlatBatch(b) \in Seq(Item)
        BY <3>3, <3>4, FlatBatchWhole DEF Whole
      <4>4. Stream = tape /\ tape' \in Seq(Item) /\ Stream' = Stream \o FlatBatch(b)
        <5>1. tape \o <<>> = tape /\ tape' \in Seq(Item) /\ tape' \o <<>> = tape'
          BY <2>7, <3>6, <4>3
        <5> QED
          BY <2>7, <3>1, <3>6, <5>1 DEF Stream
      <4>5. Whole(Inputs, Stream')
        BY <3>2, <4>3, <4>4, WholeJoin
      <4> QED
        BY <2>7, <2>8, <3>1, <4>1, <4>2, <4>4, <4>5
    <3> QED
      BY <3>1, <3>5, <3>6 DEF Batched, b
  <2>12. CASE Announces
    <3>1. wr.lay = "measured" /\ ~wr.batched /\ Opened
      BY <2>4, <2>12, WriterFacts DEF Announces, Opened
    <3>2. UNCHANGED <<staged, pipe, tape>>
      BY <1>3, <2>1, <2>12, <3>1 DEF EntryEnds
    <3>3. PICK base : Whole(Inputs, base) /\ Stream = base \o Partly
      BY <1>1, <2>1, <3>1 DEF Contents, At
    <3>4. Size = job.pos
      <4>1. Input.size \in Nat
        BY <1>1, CurrentInput DEF StagedInv, InputType
      <4>2. job.pos <= Input.size /\ job.pos >= Input.size
        BY <1>1, <2>1, <2>4, <2>12, <4>1 DEF Contents, At, Short
      <4> QED
        BY <2>4, <2>12, <4>1, <4>2 DEF Size
    <3>5. Partly = Entry
      BY <3>4 DEF Partly, Entry
    <3>6. Whole(Inputs, Stream)
      BY <2>5, <3>3, <3>5, WholeJoin
    <3>7. Stream' = Stream
      BY <3>2 DEF Stream
    <3> QED
      BY <2>6, <2>7, <2>8, <3>2, <3>6, <3>7
  <2>13. CASE wr.lay = "measured" /\ ~wr.batched /\ ~Announces
    <3>1. Emit(Entry) /\ UNCHANGED staged /\ ~Opened
      BY <1>3, <2>1, <2>13 DEF EntryEnds, Opened
    <3>2. Whole(Inputs, Stream)
      BY <1>1, <2>1, <3>1 DEF Contents, At
    <3>3. tape' \in Seq(Item) /\ pipe' \in Seq(Item) /\ (~wr.threaded => pipe' = pipe)
          /\ Stream' = Stream \o Entry
      BY <2>5, <3>1, StreamGrows
    <3>4. Whole(Inputs, Stream')
      BY <2>5, <3>2, <3>3, WholeJoin
    <3> QED
      BY <2>6, <2>7, <2>8, <3>1, <3>3, <3>4
  <2> QED
    BY <2>4, <2>9, <2>10, <2>11, <2>12, <2>13, WriterFacts
<1> QED
  BY <1>2, <1>3

-----------------------------------------------------------------------------
(* Finishing.                                                              *)

\* A pooled payload is found by its range, or by what is before it.
LEMMA OffsetIs ==
  ASSUME StagedInv, Held(Inputs, staged), NEW i \in 1..Len(staged.entries), ~staged.entries[i].dir
  PROVE  Offset(i) = staged.entries[i].off
<1>1. CASE wr.ranges
  BY <1>1 DEF Offset
<1>2. CASE ~wr.ranges
  <2> DEFINE n == Len(staged.entries)
             Sum(f) == f = [j \in 1..n |-> IF j = 1 THEN 0 ELSE f[j - 1] + staged.entries[j - 1].n]
             c == CHOOSE f : Sum(f)
  <2>1. n \in Nat \ {0} /\ i \in 1..n /\ staged.entries \in Seq(PooledEntry)
    BY DEF StagedInv, CreationTypeOK, StagedType
  <2>2. PICK f : Behind(staged.entries, staged.used, f)
    BY DEF Held
  <2>3. f \in [1..n + 1 -> Nat] /\ f[1] = 0
        /\ \A j \in 1..n : f[j + 1] = f[j] + staged.entries[j].n
             /\ (~staged.entries[j].dir => staged.entries[j].off = f[j])
    BY <2>2 DEF Behind
  <2> DEFINE w == [j \in 1..n |-> f[j]]
  <2>4. Offset(i) = c[i]
    BY <1>2 DEF Offset
  <2> HIDE DEF n
  <2>5. \A j \in 2..n : j - 1 \in 1..n /\ j \in 1..n /\ f[j] = f[j - 1] + staged.entries[j - 1].n
    <3> SUFFICES ASSUME NEW j \in 2..n
                 PROVE  j - 1 \in 1..n /\ j \in 1..n /\ f[j] = f[j - 1] + staged.entries[j - 1].n
      OBVIOUS
    <3> DEFINE q == j - 1
    <3>1. q \in 1..n /\ q + 1 = j /\ j \in 1..n
      BY <2>1
    <3> HIDE DEF q
    <3>2. f[q + 1] = f[q] + staged.entries[q].n
      BY <2>3, <3>1
    <3> QED
      BY <3>1, <3>2 DEF q
  <2>6. Sum(w)
    <3> DEFINE h == [j \in 1..n |-> IF j = 1 THEN 0 ELSE w[j - 1] + staged.entries[j - 1].n]
    <3>1. ASSUME NEW j \in 1..n PROVE w[j] = h[j]
      <4>1. CASE j = 1
        BY <2>3, <4>1
      <4>2. CASE j # 1
        <5>1. j \in 2..n
          BY <2>1, <4>2
        <5>2. w[j - 1] = f[j - 1] /\ w[j] = f[j]
          BY <2>5, <5>1
        <5> QED
          BY <2>5, <4>2, <5>1, <5>2
      <4> QED
        BY <4>1, <4>2
    <3>2. w = h
      BY <3>1
    <3> QED
      BY <3>2
  <2> HIDE DEF w
  <2>7. Sum(c)
    BY <2>6
  <2> HIDE DEF c
  <2>8. \A j \in 1..n : c[j] = f[j]
    <3> DEFINE T == {j \in 1..n : c[j] # f[j]}
    <3>1. CASE T = {}
      BY <3>1
    <3>2. CASE T # {}
      <4>1. \A y \in T : y \in Nat
        BY <2>1
      <4> HIDE DEF T
      <4>2. PICK x \in T : \A y \in T : x <= y
        BY <3>2, <4>1, Least
      <4>3. x \in 1..n /\ c[x] # f[x]
        BY <4>2 DEF T
      <4>4. c[x] = IF x = 1 THEN 0 ELSE c[x - 1] + staged.entries[x - 1].n
        BY <2>7, <4>3
      <4>5. x # 1 => x \in 2..n /\ x - 1 \in 1..n /\ x - 1 \notin T
        BY <2>1, <4>1, <4>2, <4>3
      <4>6. x # 1 => c[x - 1] = f[x - 1] /\ f[x] = f[x - 1] + staged.entries[x - 1].n
        BY <2>5, <4>5 DEF T
      <4> QED
        BY <2>3, <4>3, <4>4, <4>6
    <3> QED
      BY <3>1, <3>2
  <2> QED
    BY <2>1, <2>3, <2>4, <2>8
<1> QED
  BY <1>1, <1>2

\* A part of a sequence.
LEMMA PartOf ==
  ASSUME NEW t \in Seq(Item), NEW m \in Nat, NEW n \in Nat, m + n <= Len(t)
  PROVE  /\ SubSeq(t, m + 1, m + n) \in Seq(Item) /\ Len(SubSeq(t, m + 1, m + n)) = n
         /\ \A j \in 1..n : SubSeq(t, m + 1, m + n)[j] = t[m + j]
<1> DEFINE a == m + 1
           b == m + n
           s == SubSeq(t, a, b)
<1>1. Len(t) \in Nat /\ a \in Nat /\ b \in Nat /\ 1 <= a /\ b <= Len(t) /\ b - a + 1 = n
  OBVIOUS
<1>2. \A j \in a..b : t[j] \in Item
  BY <1>1
<1> HIDE DEF a, b
<1>3. Len(s) = IF a <= b THEN b - a + 1 ELSE 0
  BY <1>1
<1>4. s \in Seq(Item)
  BY <1>1, <1>2, SubSeqProperties
<1>5. \A j \in 1..Len(s) : s[j] = t[a + j - 1]
  BY <1>1, <1>2, SubSeqProperties
<1>6. Len(s) = n
  BY <1>1, <1>3
<1>7. ASSUME NEW j \in 1..n PROVE s[j] = t[m + j]
  <2>1. a + j - 1 = m + j
    BY DEF a
  <2> QED
    BY <1>5, <1>6, <2>1
<1> QED
  BY <1>4, <1>6, <1>7 DEF a, b

\* What the pool gives for an entry.
LEMMA PooledWhole ==
  ASSUME StagedInv, Held(Inputs, staged), NEW i \in 1..Len(staged.entries)
  PROVE  Whole(Inputs, PooledItem(i))
<1> DEFINE e == staged.entries[i]
<1>1. e \in PooledEntry /\ staged.pool \in Seq(Item) /\ staged.used \in Nat
      /\ staged.used <= Len(staged.pool) /\ Inputs \in Seq(InputType)
  BY DEF StagedInv, CreationTypeOK, StagedType, Stages, JobType, Inputs
<1> HIDE DEF e
<1>2. e.off \in Nat /\ e.n \in Nat /\ e.name \in Seq(Steps)
  BY <1>1 DEF PooledEntry
<1>3. CASE e.dir
  <2>1. PooledItem(i) = <<Folder(e.name)>> \/ PooledItem(i) = <<>>
    BY <1>3 DEF PooledItem, e
  <2>2. Folder(e.name) \in Item /\ Folder(e.name).tag = "dir"
    BY <1>2 DEF Item, Folder
  <2> QED
    BY <2>1, <2>2, WholeSingle, WholeNothing
<1>4. CASE ~e.dir
  <2>1. InPool(Inputs, staged.pool, staged.used, e)
    BY <1>4 DEF Held, e
  <2>2. PICK k \in 1..Len(Inputs) :
          /\ ~Inputs[k].dir /\ Inputs[k].name = e.name
          /\ \A j \in 1..e.n : staged.pool[e.off + j] = Block(Inputs[k].path, j)
    BY <2>1 DEF InPool
  <2>3. Inputs[k] \in InputType
    BY <1>1
  <2>4. Inputs[k].path \in Paths /\ Inputs[k].name \in Seq(Steps)
    BY <2>3 DEF InputType
  <2>5. e.off + e.n <= Len(staged.pool) /\ Len(staged.pool) \in Nat
    BY <1>1, <1>2, <2>1 DEF InPool
  <2> DEFINE s == SubSeq(staged.pool, e.off + 1, e.off + e.n)
             t == Blocks(Inputs[k].path, e.n)
  <2>6. s \in Seq(Item) /\ Len(s) = e.n /\ \A j \in 1..e.n : s[j] = staged.pool[e.off + j]
    BY <1>1, <1>2, <2>5, PartOf
  <2>7. t \in Seq(Item) /\ Len(t) = e.n /\ \A j \in 1..e.n : t[j] = Block(Inputs[k].path, j)
    <3>1. \A j \in 1..e.n : t[j] = Block(Inputs[k].path, j)
      BY DEF Blocks
    <3> QED
      BY <1>2, <2>4, <3>1, BlocksGrow
  <2>8. s = t
    <3> HIDE DEF s, t
    <3> QED
      BY <2>2, <2>6, <2>7, SeqEqual
  <2>9. PooledItem(i) = <<Header(Inputs[k].name, e.n)>> \o t
    <3>1. Offset(i) = e.off
      BY <1>4, OffsetIs DEF e
    <3>2. PooledItem(i) = <<Header(e.name, e.n)>> \o s
      BY <1>4, <3>1 DEF PooledItem, e
    <3> QED
      BY <2>2, <2>8, <3>2
  <2> QED
    BY <1>2, <2>2, <2>4, <2>9, WholeFile
<1> QED
  BY <1>3, <1>4

\* What the writer holds back is whole.
LEMMA RemainderWhole ==
  ASSUME StagedInv, Held(Inputs, staged)
  PROVE  Whole(Inputs, Remainder)
<1>1. CASE wr.lay = "pooled"
  <2> DEFINE G == {t \in Seq(Item) : Whole(Inputs, t)}
             n == Len(staged.entries)
             all == [i \in 1..n |-> IF Hidden(i) THEN <<>> ELSE PooledItem(i)]
  <2>1. n \in Nat
    BY DEF StagedInv, CreationTypeOK, StagedType
  <2>2. G \subseteq Seq(Item) /\ <<>> \in G
    BY WholeNothing
  <2>3. \A x, y \in G : x \o y \in G
    <3> SUFFICES ASSUME NEW x \in G, NEW y \in G PROVE x \o y \in G
      OBVIOUS
    <3>1. Whole(Inputs, x \o y)
      BY WholeJoin
    <3>2. x \o y \in Seq(Item)
      BY <3>1 DEF Whole
    <3> QED
      BY <3>1, <3>2
  <2>4. \A i \in 1..n : PooledItem(i) \in G
    BY PooledWhole DEF Whole
  <2> HIDE DEF G
  <2>5. all \in Seq(G)
    <3>1. \A i \in 1..n : all[i] \in G
      BY <2>2, <2>4
    <3> HIDE DEF n
    <3> QED
      BY <2>1, <3>1
  <2>6. FlattenSeq(all) \in G
    <3> HIDE DEF all
    <3> QED
      BY <2>2, <2>3, <2>5, Flattened
  <2>7. Remainder = FlattenSeq(all)
    BY <1>1 DEF Remainder, PoolItems
  <2> QED
    BY <2>6, <2>7 DEF G
<1>2. CASE wr.lay # "pooled"
  <2>1. staged.batch \in Seq(Seq(Item))
    BY DEF StagedInv, CreationTypeOK, StagedType
  <2>2. \A i \in 1..Len(staged.batch) : Whole(Inputs, staged.batch[i])
    BY DEF Held
  <2>3. Whole(Inputs, FlatBatch(staged.batch))
    BY <2>1, <2>2, FlatBatchWhole
  <2> QED
    BY <1>2, <2>3 DEF Remainder
<1> QED
  BY <1>1, <1>2

\* The closing part.
LEMMA FinishKeeps ==
  ASSUME StagedInv, Contents, FinishArchive PROVE StagedInv' /\ Contents'
<1>1. At("entry") /\ UNCHANGED <<req, wr, kind, len, staged, enc, made>> /\ enc # "done" /\ made = Nothing
      /\ job.result = "none" /\ job.pos = 0
  BY DEF FinishArchive, StagedInv, Stages, At, files, Adding
<1>2. CASE Fail
  <2>1. job' \in JobType /\ job'.pc = "over" /\ UNCHANGED <<pipe, tape>>
    <3>1. job' \in JobType /\ job'.pc = "over"
      BY <1>2, JobMoves DEF StagedInv
    <3>2. ~Go("join")
      BY <1>2 DEF Go, Fail, StagedInv, CreationTypeOK, JobType
    <3> QED
      BY <1>1, <3>1, <3>2 DEF FinishArchive
  <2>2. StagedInv'
    BY <1>1, <2>1 DEF StagedInv, CreationTypeOK, Stages, Early, Adding, At
  <2> QED
    BY <1>1, <2>1, <2>2 DEF Contents, Adding
<1>3. CASE ~Fail
  <2>1. ~Broken /\ Go("join") /\ Emit(Remainder \o <<Closing>>)
    BY <1>3 DEF FinishArchive
  <2>2. job' \in JobType /\ job'.pc = "join" /\ job'.inputs = job.inputs /\ job'.result = job.result
    BY <2>1, JobMoves DEF StagedInv, Late
  <2>3. Whole(Inputs, Stream) /\ Held(Inputs, staged)
    BY <1>1, <2>1 DEF Contents, At, Adding
  <2>4. Finished(Inputs, Remainder \o <<Closing>>)
    BY <2>3, RemainderWhole, FinishedAll
  <2>5. Remainder \o <<Closing>> \in Seq(Item)
    BY <2>4 DEF Finished, Whole
  <2>6. tape' \in Seq(Item) /\ pipe' \in Seq(Item) /\ (~wr.threaded => pipe' = pipe)
        /\ Stream' = Stream \o (Remainder \o <<Closing>>)
    BY <2>1, <2>5, StreamGrows
  <2>7. Finished(Inputs, Stream')
    BY <2>3, <2>4, <2>6, FinishedJoin
  <2>8. StagedInv'
    BY <1>1, <2>2, <2>6 DEF StagedInv, CreationTypeOK, Stages, Early, Adding, At
  <2>9. Inputs' = Inputs
    BY <2>2 DEF Inputs
  <2> QED
    BY <1>1, <2>2, <2>7, <2>8, <2>9 DEF Contents, Adding
<1> QED
  BY <1>2, <1>3

\* The encoder moves the front of the pipe to the tape, ends, or fails.
LEMMA EncoderKeeps ==
  ASSUME StagedInv, Contents, Encode \/ Encoded \/ EncoderFails PROVE StagedInv' /\ Contents'
<1>1. /\ wr.threaded /\ enc = "running"
      /\ UNCHANGED <<req, wr, kind, len, job, staged, made>>
  BY DEF Encode, Encoded, EncoderFails, files
<1>2. job.pc \notin {"wrap", "check", "publish"}
  BY <1>1 DEF StagedInv, Stages
<1>3. Inputs' = Inputs /\ Input' = Input /\ Announces' = Announces /\ Opened' = Opened /\ Partly' = Partly
      /\ ~Broken
  BY <1>1 DEF Inputs, Input, Announces, Window, Opened, Partly, Size, Broken
<1>4. tape \in Seq(Item) /\ pipe \in Seq(Item)
  BY DEF StagedInv, CreationTypeOK
<1>5. CASE Encode
  <2>1. pipe # <<>> /\ pipe' = Tail(pipe) /\ tape' = Append(tape, pipe[1]) /\ enc' = enc
    BY <1>5 DEF Encode
  <2>2. pipe[1] \in Item /\ pipe' \in Seq(Item) /\ tape' \in Seq(Item) /\ tape' = tape \o <<pipe[1]>>
    BY <1>4, <2>1
  <2>3. Stream' = Stream
    <3>1. pipe = <<pipe[1]>> \o pipe'
      BY <1>4, <2>1
    <3>2. <<pipe[1]>> \in Seq(Item)
      BY <2>2
    <3>3. (tape \o <<pipe[1]>>) \o pipe' = tape \o (<<pipe[1]>> \o pipe')
      BY <1>4, <2>2, <3>2, ConcatAssociative
    <3> QED
      BY <2>2, <3>1, <3>3 DEF Stream
  <2>4. job.pc \notin Early
    BY <2>1 DEF StagedInv, Stages
  <2>5. StagedInv'
    BY <1>1, <1>2, <1>3, <2>1, <2>2, <2>4 DEF StagedInv, CreationTypeOK, Stages
  <2>6. Broken' = Broken
    BY <1>1, <2>1 DEF Broken
  <2>7. Contents'
    BY <1>1, <1>2, <1>3, <2>3, <2>6 DEF Contents
  <2> QED
    BY <2>5, <2>7
<1>6. CASE Encoded
  <2>1. pipe = <<>> /\ enc' = "done" /\ UNCHANGED <<pipe, tape>> /\ job.pc \in {"join", "over"}
    BY <1>6 DEF Encoded, Closed, At
  <2>2. StagedInv'
    BY <1>1, <1>2, <1>3, <2>1 DEF StagedInv, CreationTypeOK, Stages, Early, Adding
  <2>3. Contents'
    BY <1>1, <1>3, <2>1, ContentsStay
  <2> QED
    BY <2>2, <2>3
<1>7. CASE EncoderFails
  <2>1. enc' = "failed" /\ pipe' = <<>> /\ tape' = tape
    BY <1>7 DEF EncoderFails
  <2>2. StagedInv'
    BY <1>1, <1>2, <1>3, <1>4, <2>1 DEF StagedInv, CreationTypeOK, Stages
  <2>3. Broken'
    BY <1>1, <2>1 DEF Broken
  <2>4. Contents'
    BY <1>1, <1>2, <1>3, <2>1, <2>3 DEF Contents
  <2> QED
    BY <2>2, <2>4
<1> QED
  BY <1>5, <1>6, <1>7

\* Giving up ends the operation; what was published is still.
LEMMA FailKeeps ==
  ASSUME StagedInv, Contents, Fail, ~At("over"),
         UNCHANGED <<req, wr, kind, len, staged, tape, pipe, enc, made>>
  PROVE  StagedInv' /\ Contents'
<1>1. job' \in JobType /\ job'.pc = "over" /\ made = Nothing
  BY JobMoves DEF StagedInv, Stages, At
<1>2. enc = "done" => pipe = <<>>
  BY DEF StagedInv, Stages
<1>3. StagedInv'
  BY <1>1, <1>2 DEF StagedInv, CreationTypeOK, Stages, Early, Adding
<1> QED
  BY <1>1, <1>3 DEF Contents, Adding

\* From the joined encoder to the published archive.
LEMMA PublishingKeeps ==
  ASSUME StagedInv, Contents, Join \/ Wrap \/ Check \/ PublishArchive PROVE StagedInv' /\ Contents'
<1>1. CASE Join
  <2>1. At("join") /\ (wr.threaded => enc # "running") /\ UNCHANGED <<req, wr, kind, len, staged, tape, pipe, enc, made>>
    BY <1>1 DEF Join, writer, files
  <2>2. CASE Fail
    BY <2>1, <2>2, FailKeeps DEF At
  <2>3. CASE ~Fail
    <3>1. ~Broken /\ (Go("wrap") \/ Go("check"))
      BY <1>1, <2>3 DEF Join
    <3>2. /\ job' \in JobType /\ job'.pc \in {"wrap", "check"} /\ job'.inputs = job.inputs
          /\ job'.result = job.result
      BY <3>1, JobMoves DEF StagedInv, Late
    <3>3. (wr.threaded => enc = "done") /\ pipe = <<>>
      BY <2>1, <3>1 DEF Broken, StagedInv, CreationTypeOK, Stages
    <3>4. StagedInv'
      BY <2>1, <3>2, <3>3 DEF StagedInv, CreationTypeOK, Stages, Early, Adding, At
    <3>5. tape \o pipe = tape
      BY <3>3 DEF StagedInv, CreationTypeOK
    <3>6. Finished(Inputs, tape)
      BY <2>1, <3>1, <3>5 DEF Contents, At, Stream
    <3>7. Inputs' = Inputs /\ made = Nothing
      BY <2>1, <3>2 DEF Inputs, StagedInv, Stages, At
    <3> QED
      BY <2>1, <3>2, <3>4, <3>6, <3>7 DEF Contents, Adding
  <2> QED
    BY <2>2, <2>3
<1>2. CASE Wrap
  <2>1. At("wrap") /\ UNCHANGED <<req, wr, kind, len, staged, pipe, enc, made>> /\ Go("check")
        /\ tape' = <<Stub>> \o tape
    BY <1>2 DEF Wrap, files
  <2>2. job' \in JobType /\ job'.pc = "check" /\ job'.inputs = job.inputs /\ job'.result = job.result
    BY <2>1, JobMoves DEF StagedInv, Late
  <2>3. Finished(Inputs, tape) /\ made = Nothing
    BY <2>1 DEF Contents, StagedInv, Stages, At
  <2>4. Stub \in Item /\ Stub.tag = "stub"
    BY DEF Item, Stub
  <2>5. Finished(Inputs, tape')
    BY <2>1, <2>3, <2>4, WholeSingle, FinishedJoin
  <2>6. tape' \in Seq(Item)
    BY <2>5 DEF Finished, Whole
  <2>7. StagedInv'
    BY <2>1, <2>2, <2>6 DEF StagedInv, CreationTypeOK, Stages, Early, Adding, At
  <2>8. Inputs' = Inputs
    BY <2>2 DEF Inputs
  <2> QED
    BY <2>1, <2>2, <2>3, <2>5, <2>7, <2>8 DEF Contents, Adding
<1>3. CASE Check
  <2>1. At("check") /\ UNCHANGED <<req, wr, kind, len, staged, tape, pipe, enc, made>>
    BY <1>3 DEF Check, writer, files
  <2>2. CASE Fail
    BY <2>1, <2>2, FailKeeps DEF At
  <2>3. CASE ~Fail
    <3>1. Go("publish")
      BY <1>3, <2>3 DEF Check
    <3>2. job' \in JobType /\ job'.pc = "publish" /\ job'.inputs = job.inputs /\ job'.result = job.result
      BY <3>1, JobMoves DEF StagedInv, Late
    <3>3. StagedInv'
      BY <2>1, <3>2 DEF StagedInv, CreationTypeOK, Stages, Early, Adding, At
    <3>4. Inputs' = Inputs /\ made = Nothing /\ Finished(Inputs, tape)
      BY <2>1, <3>2 DEF Inputs, StagedInv, Stages, At, Contents
    <3> QED
      BY <2>1, <3>2, <3>3, <3>4 DEF Contents, Adding
  <2> QED
    BY <2>2, <2>3
<1>4. CASE PublishArchive
  <2>1. At("publish") /\ UNCHANGED <<req, wr, len, staged, tape, pipe, enc>>
    BY <1>4 DEF PublishArchive, writer
  <2>2. Finished(Inputs, tape) /\ tape \in Seq(Item)
    BY <2>1 DEF Contents, At, StagedInv, CreationTypeOK
  <2>3. CASE req.client = "library" \/ MayPublish
    <3>1. /\ job' = [job EXCEPT !.pc = "over", !.result = "ok"] /\ made' = tape
          /\ kind' = kind \/ kind' = [kind EXCEPT ![req.output] = "file"]
      BY <1>4, <2>3 DEF PublishArchive
    <3>2. job' \in JobType /\ job'.pc = "over" /\ job'.inputs = job.inputs
      BY <3>1 DEF StagedInv, CreationTypeOK, JobType
    <3>3. kind' \in [Paths -> Kinds]
      BY <3>1 DEF StagedInv, CreationTypeOK, Kinds
    <3>4. enc = "done" => pipe = <<>>
      BY DEF StagedInv, Stages
    <3>5. StagedInv'
      BY <2>1, <2>2, <3>1, <3>2, <3>3, <3>4 DEF StagedInv, CreationTypeOK, Stages, Early, Adding
    <3>6. Inputs' = Inputs
      BY <3>2 DEF Inputs
    <3> QED
      BY <2>2, <3>1, <3>2, <3>5, <3>6 DEF Contents, Adding
  <2>4. CASE ~(req.client = "library" \/ MayPublish)
    <3>1. Fail /\ UNCHANGED <<made, kind>>
      BY <1>4, <2>4 DEF PublishArchive
    <3> QED
      BY <2>1, <3>1, FailKeeps DEF At
  <2> QED
    BY <2>3, <2>4
<1> QED
  BY <1>1, <1>2, <1>3, <1>4

\* What others do.
LEMMA OthersKeep ==
  ASSUME StagedInv, Contents, Cancel \/ Appear \/ Over \/ (\E p \in Paths : Resize(p) \/ Delete(p))
  PROVE  StagedInv' /\ Contents'
<1>1. UNCHANGED <<req, wr, job, staged, tape, pipe, enc, made>>
  BY DEF Cancel, Appear, Over, Resize, Delete, writer, creationVars
<1>2. kind' \in [Paths -> Kinds]
  <2>1. \/ kind' = kind \/ \E p \in Paths : kind' = [kind EXCEPT ![p] = "none"]
        \/ kind' = [kind EXCEPT ![req.output] = "file"]
    BY DEF Cancel, Appear, Over, Resize, Delete, files, creationVars
  <2>2. kind \in [Paths -> Kinds] /\ "file" \in Kinds /\ "none" \in Kinds
    BY DEF StagedInv, CreationTypeOK, Kinds
  <2> QED
    BY <2>1, <2>2
<1>3. len' \in [Paths -> Nat]
  <2>1. len' = len \/ \E p \in Paths, n \in Nat : len' = [len EXCEPT ![p] = n]
    BY DEF Cancel, Appear, Over, Resize, Delete, files, creationVars
  <2> QED
    BY <2>1 DEF StagedInv, CreationTypeOK
<1>4. Input' = Input /\ Inputs' = Inputs
  BY <1>1 DEF Input, Inputs
<1>5. StagedInv'
  BY <1>1, <1>2, <1>3, <1>4 DEF StagedInv, CreationTypeOK, Stages
<1>6. Contents'
  BY <1>1, ContentsStay
<1> QED
  BY <1>5, <1>6

-----------------------------------------------------------------------------
(* The archive.                                                            *)

LEMMA CreationKeeps ==
  StagedInv /\ Contents /\ [CreationNext]_creationVars => StagedInv' /\ Contents'
<1> SUFFICES ASSUME StagedInv, Contents, [CreationNext]_creationVars
             PROVE  StagedInv' /\ Contents'
  OBVIOUS
<1>1. CASE Validate \/ Roots \/ Walk \/ Walked \/ Collect \/ Collected
  BY <1>1, CollectingStages, CollectingContents
<1>2. CASE AddDirectory
  BY <1>2, AddingStages, AddDirectoryContents
<1>3. CASE Open
  BY <1>3, AddingStages, OpenContents
<1>4. CASE Read
  BY <1>4, AddingStages, ReadContents
<1>5. CASE ReadFails
  <2>1. At("read") /\ GiveUp /\ RollBack /\ UNCHANGED <<req, wr, pipe, tape, enc, made>>
    BY <1>5 DEF ReadFails, EntryFails
  <2> QED
    BY <1>5, <2>1, AddingStages, FailingContents
<1>6. CASE EntryEnds
  BY <1>6, EntryEndsKeeps
<1>7. CASE FinishArchive
  BY <1>7, FinishKeeps
<1>8. CASE Join \/ Wrap \/ Check \/ PublishArchive
  BY <1>8, PublishingKeeps
<1>9. CASE Encode \/ Encoded \/ EncoderFails
  BY <1>9, EncoderKeeps
<1>10. CASE Heed
  <2>1. ~At("over") /\ Fail /\ UNCHANGED <<req, wr, kind, len, staged, tape, pipe, enc, made>>
    BY <1>10 DEF Heed, At, files, writer
  <2> QED
    BY <2>1, FailKeeps
<1>11. CASE Cancel \/ Appear \/ Over \/ (\E p \in Paths : Resize(p) \/ Delete(p))
  BY <1>11, OthersKeep
<1>12. CASE UNCHANGED creationVars
  <2>1. UNCHANGED <<req, wr, kind, len, job, staged, tape, pipe, enc, made>>
    BY <1>12 DEF creationVars, files, writer
  <2>2. Input' = Input /\ Inputs' = Inputs
    BY <2>1 DEF Input, Inputs
  <2>3. StagedInv'
    BY <2>1, <2>2 DEF StagedInv, CreationTypeOK, Stages
  <2> QED
    BY <2>1, <2>3, ContentsStay
<1> QED
  BY <1>1, <1>2, <1>3, <1>4, <1>5, <1>6, <1>7, <1>8, <1>9, <1>10, <1>11, <1>12
  DEF CreationNext, JobStep, EncoderStep

\* A finished tape has no payload but its files'.
LEMMA FinishedPayloads ==
  ASSUME StagedInv, Finished(Inputs, made) PROVE PayloadsAreOwn
<1> DEFINE n == Len(made)
<1>1. made \in Seq(Item) /\ n \in Nat \ {0} /\ made[n] = Closing /\ Inputs \in Seq(InputType)
  BY DEF Finished, Whole, StagedInv, CreationTypeOK, JobType, Inputs
<1>2. Closing.tag = "end"
  BY DEF Closing
<1>3. ASSUME NEW i \in Heads(made)
      PROVE  /\ i + made[i].size < n /\ made[i + made[i].size + 1].tag # "block"
             /\ IsPayload(made, i)
  <2> DEFINE count == made[i].size
  <2>1. i \in 1..n /\ made[i].tag = "head" /\ made[i] \in Item
    BY <1>1 DEF Heads
  <2>2. count \in Nat
    BY <2>1, Tags
  <2>3. i + count <= n /\ FileAt(Inputs, made, i) /\ (i + count < n => made[i + count + 1].tag # "block")
    BY <2>1 DEF Finished, Whole
  <2>4. PICK k \in 1..Len(Inputs) :
          /\ ~Inputs[k].dir /\ Inputs[k].name = made[i].name
          /\ \A j \in 1..count : made[i + j] = Block(Inputs[k].path, j)
    BY <2>3 DEF FileAt
  <2>5. Inputs[k] \in InputType
    BY <1>1
  <2>6. Inputs[k].path \in Paths
    BY <2>5 DEF InputType
  <2> HIDE DEF count
  <2>7. i + count # n
    <3>1. CASE count = 0
      BY <1>1, <1>2, <2>1, <3>1
    <3>2. CASE count # 0
      <4>1. count \in 1..count /\ made[i + count] = Block(Inputs[k].path, count)
        BY <2>2, <2>4, <3>2
      <4>2. made[i + count].tag = "block"
        BY <4>1 DEF Block
      <4> QED
        BY <1>1, <1>2, <4>2
    <3> QED
      BY <3>1, <3>2
  <2>8. i + count < n
    BY <1>1, <2>1, <2>2, <2>3, <2>7
  <2>9. SubSeq(made, i + 1, i + count) = Blocks(Inputs[k].path, count)
    <3> DEFINE s == SubSeq(made, i + 1, i + count)
               t == Blocks(Inputs[k].path, count)
    <3>1. i \in Nat /\ i + count <= Len(made)
      BY <2>1, <2>3 DEF n
    <3>2. s \in Seq(Item) /\ Len(s) = count /\ \A j \in 1..count : s[j] = made[i + j]
      BY <1>1, <2>2, <3>1, PartOf
    <3>3. \A j \in 1..count : t[j] = Block(Inputs[k].path, j)
      BY DEF Blocks
    <3>4. t \in Seq(Item) /\ Len(t) = count
      BY <2>2, <2>6, BlocksGrow
    <3> HIDE DEF s, t
    <3>5. s = t
      BY <2>4, <3>2, <3>3, <3>4, SeqEqual
    <3> QED
      BY <3>5 DEF s, t
  <2>10. IsPayload(made, i)
    BY <2>4, <2>9 DEF IsPayload, count
  <2> QED
    BY <2>3, <2>8, <2>10 DEF count
<1>4. \A i \in 2..n : made[i].tag = "block" => made[i - 1].tag \in {"head", "block"}
  <2>1. \A i \in 2..n : i \in 1..n
    BY <1>1
  <2> QED
    BY <2>1 DEF Finished, Whole
<1>5. made[1].tag # "block"
  <2>1. 1 \in 1..n /\ ~(1 > 1)
    BY <1>1
  <2> QED
    BY <2>1 DEF Finished, Whole
<1> QED
  BY <1>1, <1>3, <1>4, <1>5 DEF PayloadsAreOwn, Last

\* Type correctness of a creation: job, writer, pipe, tape and archive.
THEOREM CreationTyping == CreationSpec => []CreationTypeOK
<1>1. CreationInit => StagedInv /\ Contents
  BY CreationTypeInit, StagesInit, ContentsInit DEF StagedInv
<1>2. StagedInv => CreationTypeOK
  BY DEF StagedInv
<1> QED
  BY <1>1, <1>2, CreationKeeps, PTL DEF CreationSpec

\* Archives that are published or returned: of the files they are named after,
\* in the lengths they say, closed (ExactSizeReader, archive/mod.rs:641, and
\* the roll-back of the pooling writers), for any tree, requests, bounds and
\* number of changes.
THEOREM PayloadsStayOwn == CreationSpec => []PayloadsAreOwn
<1>1. CreationInit => StagedInv /\ Contents
  BY CreationTypeInit, StagesInit, ContentsInit DEF StagedInv
<1>2. StagedInv /\ Contents => PayloadsAreOwn
  <2> SUFFICES ASSUME StagedInv, Contents PROVE PayloadsAreOwn
    OBVIOUS
  <2>1. CASE made = Nothing
    BY <2>1 DEF PayloadsAreOwn, Archive
  <2>2. CASE made # Nothing
    BY <2>2, FinishedPayloads DEF Contents
  <2> QED
    BY <2>1, <2>2
<1> QED
  BY <1>1, <1>2, CreationKeeps, PTL DEF CreationSpec

-----------------------------------------------------------------------------
(* Every file is met.                                                      *)

\* Paths, one above the other.
LEMMA PrefixFacts ==
  ASSUME NEW r \in Paths, NEW p \in Paths
  PROVE  /\ IsPrefix(r, p) <=> Len(r) <= Len(p) /\ \A i \in 1..Len(r) : r[i] = p[i]
         /\ IsPrefix(r, p) /\ r # p => Len(r) \in 1..Len(p) - 1 /\ r = SubSeq(p, 1, Len(r))
<1>1. r \in Seq(Steps) /\ p \in Seq(Steps) /\ Len(r) \in Nat \ {0} /\ Len(p) \in Nat \ {0}
  BY PathFacts
<1> DEFINE s == SubSeq(p, 1, Len(r))
<1>2. SubSeq(r, 1, Len(r)) = r
  BY <1>1
<1>3. IsPrefix(r, p) <=> Len(r) <= Len(p) /\ r = s
  BY <1>2 DEF IsPrefix
<1>4. ASSUME Len(r) <= Len(p)
      PROVE  s \in Seq(Steps) /\ Len(s) = Len(r) /\ \A i \in 1..Len(r) : s[i] = p[i]
  BY <1>1, <1>4
<1> HIDE DEF s
<1>5. ASSUME Len(r) <= Len(p), \A i \in 1..Len(r) : r[i] = p[i] PROVE r = s
  BY <1>1, <1>4, <1>5, SeqEqual
<1>6. IsPrefix(r, p) <=> Len(r) <= Len(p) /\ \A i \in 1..Len(r) : r[i] = p[i]
  BY <1>3, <1>4, <1>5
<1>7. ASSUME IsPrefix(r, p), r # p PROVE Len(r) \in 1..Len(p) - 1 /\ r = s
  <2>1. Len(r) <= Len(p) /\ \A i \in 1..Len(r) : r[i] = p[i]
    BY <1>6, <1>7
  <2>2. Len(r) # Len(p)
    BY <1>1, <1>7, <2>1, SeqEqual
  <2> QED
    BY <1>1, <1>3, <1>7, <2>1, <2>2
<1> QED
  BY <1>6, <1>7 DEF s

\* What lies above a path, in a tree.
Rooted ==
  \A p \in Paths : p # req.output /\ kind[p] # "none" =>
    \A n \in 1..Len(p) - 1 : SubSeq(p, 1, n) \in Paths /\ kind[SubSeq(p, 1, n)] = "dir"

LEMMA AboveWanted ==
  ASSUME CreationTypeOK, Rooted, NEW p \in Wanted, NEW r \in Paths, IsPrefix(r, p)
  PROVE  /\ p \in Paths /\ kind[p] = "file"
         /\ r = p \/ (kind[r] = "dir" /\ Len(r) < Len(p))
<1>1. p \in Paths /\ kind[p] = "file" /\ p # req.output
  BY DEF Wanted
<1>2. CASE r # p
  <2>1. Len(r) \in 1..Len(p) - 1 /\ r = SubSeq(p, 1, Len(r))
    BY <1>1, <1>2, PrefixFacts
  <2>2. kind[SubSeq(p, 1, Len(r))] = "dir"
    BY <1>1, <2>1 DEF Rooted
  <2>3. Len(p) \in Nat
    BY <1>1, PathFacts
  <2>4. kind[r] = "dir"
    BY <2>1, <2>2
  <2>5. Len(r) < Len(p)
    BY <2>1, <2>3
  <2> QED
    BY <1>1, <2>4, <2>5
<1> QED
  BY <1>1, <1>2

\* From a folder above a file one step down to it.
LEMMA DownOne ==
  ASSUME CreationTypeOK, Rooted, NEW p \in Wanted, NEW r \in Paths, IsPrefix(r, p), r # p
  PROVE  \E c \in Children(r) : IsPrefix(c, p)
<1>1. p \in Paths /\ kind[p] = "file" /\ p # req.output /\ p \in Seq(Steps) /\ Len(p) \in Nat
  BY PathFacts DEF Wanted
<1>2. Len(r) \in 1..Len(p) - 1 /\ r = SubSeq(p, 1, Len(r))
  BY <1>1, PrefixFacts
<1> DEFINE n == Len(r) + 1
           c == SubSeq(p, 1, n)
<1>3. n \in 1..Len(p) /\ n - 1 = Len(r)
  BY <1>1, <1>2
<1> HIDE DEF n
<1>4. c \in Seq(Steps) /\ Len(c) = n /\ \A i \in 1..n : c[i] = p[i]
  BY <1>1, <1>3
<1>5. CASE n = Len(p)
  <2>1. c = p
    <3> HIDE DEF c
    <3> QED
      BY <1>1, <1>4, <1>5, SeqEqual
  <2> HIDE DEF c
  <2>2. Front(c) = r
    BY <1>2, <1>3, <1>4, <2>1, <1>5 DEF Front
  <2>3. c # <<>>
    BY <1>1, <2>1, PathFacts
  <2>4. IsPrefix(c, p)
    BY <1>1, <2>1, PrefixFacts
  <2> QED
    BY <1>1, <2>1, <2>2, <2>3, <2>4 DEF Children
<1>6. CASE n # Len(p)
  <2>1. n \in 1..Len(p) - 1
    BY <1>1, <1>3, <1>6
  <2>2. c \in Paths /\ kind[c] = "dir"
    BY <1>1, <2>1 DEF Rooted
  <2>3. Front(c) = r
    <3>1. Front(c) = SubSeq(c, 1, Len(r))
      BY <1>3, <1>4 DEF Front
    <3> DEFINE f == SubSeq(c, 1, Len(r))
    <3> HIDE DEF c
    <3>2. f \in Seq(Steps) /\ Len(f) = Len(r) /\ \A i \in 1..Len(r) : f[i] = c[i]
      BY <1>2, <1>3, <1>4
    <3>3. \A i \in 1..Len(r) : r[i] = p[i]
      BY <1>1, PrefixFacts
    <3>4. \A i \in 1..Len(r) : f[i] = r[i]
      BY <1>2, <1>3, <1>4, <3>2, <3>3
    <3>5. r \in Seq(Steps)
      BY PathFacts
    <3> HIDE DEF f
    <3>6. f = r
      BY <3>2, <3>4, <3>5, SeqEqual
    <3> QED
      BY <3>1, <3>6 DEF f
  <2> HIDE DEF c
  <2>4. IsPrefix(c, p)
    BY <1>1, <1>3, <1>4, <2>2, PrefixFacts
  <2>5. c # <<>>
    BY <2>2, PathFacts
  <2> QED
    BY <2>2, <2>3, <2>4, <2>5 DEF Children
<1> QED
  BY <1>5, <1>6

-----------------------------------------------------------------------------
\* A file that was wanted is an input, or below something still to be looked at.
Meets(ins, p) == \E k \in 1..Len(ins) : ins[k].path = p /\ ~ins[k].dir
Ahead(s, p)   == \E i \in 1..Len(s) : IsPrefix(s[i], p)
Stacked(s, p) == \E i \in 1..Len(s) : IsPrefix(s[i].path, p)

Reached ==
  /\ Rooted
  /\ job.pc = "walk" => \A p \in Wanted : Meets(Inputs, p) \/ Stacked(job.stack, p)
  /\ job.pc = "collect" => \A p \in Wanted : Meets(Inputs, p) \/ Ahead(job.left, p)
  /\ job.pc \in Adding \cup Late \/ job.result = "ok" =>
       \A p \in Wanted : Meets(Inputs, p)

LEMMA ReachedInit == CreationInit => Reached
<1> SUFFICES ASSUME CreationInit PROVE Reached
  OBVIOUS
<1>1. CreationTypeOK
  BY CreationTypeInit
<1>2. Rooted
  <2>1. IsTree(kind)
    BY TreeAssumption DEF CreationInit
  <2> QED
    BY <2>1 DEF IsTree, Rooted
<1>3. job.pc \in {"validate", "collect"} /\ job.result = "none" /\ job.left = req.sources
  BY DEF CreationInit
<1>4. ASSUME NEW p \in Wanted PROVE Ahead(job.left, p)
  <2>1. PICK s \in ToSet(req.sources) : IsPrefix(s, p)
    BY DEF Wanted
  <2>2. req.sources \in Seq(Paths)
    BY <1>1, RequestFacts
  <2>3. PICK i \in 1..Len(req.sources) : s = req.sources[i]
    BY <2>2 DEF ToSet
  <2> QED
    BY <1>3, <2>1, <2>3 DEF Ahead
<1> QED
  BY <1>2, <1>3, <1>4 DEF Reached, Adding, Late

\* Appending to the inputs loses none.
LEMMA MeetsMore ==
  ASSUME NEW a \in Seq(InputType), NEW b \in Seq(InputType), NEW p
  PROVE  Meets(a, p) \/ Meets(b, p) => Meets(a \o b, p)
<1> DEFINE t == a \o b
<1>1. Len(a) \in Nat /\ Len(b) \in Nat /\ Len(t) = Len(a) + Len(b)
      /\ \A i \in 1..Len(t) : t[i] = IF i <= Len(a) THEN a[i] ELSE b[i - Len(a)]
  OBVIOUS
<1> HIDE DEF t
<1>2. ASSUME Meets(a, p) PROVE Meets(t, p)
  <2>1. PICK k \in 1..Len(a) : a[k].path = p /\ ~a[k].dir
    BY <1>2 DEF Meets
  <2>2. k \in 1..Len(t) /\ t[k] = a[k]
    BY <1>1
  <2> QED
    BY <2>1, <2>2 DEF Meets
<1>3. ASSUME Meets(b, p) PROVE Meets(t, p)
  <2>1. PICK k \in 1..Len(b) : b[k].path = p /\ ~b[k].dir
    BY <1>3 DEF Meets
  <2> DEFINE q == Len(a) + k
  <2>2. q \in 1..Len(t) /\ ~(q <= Len(a)) /\ q - Len(a) = k
    BY <1>1
  <2> HIDE DEF q
  <2>3. t[q] = b[k]
    BY <1>1, <2>2
  <2> QED
    BY <2>1, <2>2, <2>3 DEF Meets
<1> QED
  BY <1>2, <1>3 DEF t

\* Every element of a set is somewhere in its sequence.
LEMMA InOrderSomewhere ==
  ASSUME NEW S, IsFiniteSet(S), NEW x \in S
  PROVE  \E i \in 1..Len(SetToSeq(S)) : SetToSeq(S)[i] = x
<1>1. SetToSeq(S) \in Seq(S) /\ Range(SetToSeq(S)) = S
  BY InSomeOrder
<1> DEFINE s == SetToSeq(S)
<1> HIDE DEF s
<1>2. DOMAIN s = 1..Len(s) /\ x \in Range(s)
  BY <1>1 DEF s
<1> QED
  BY <1>2 DEF s, Range

\* Without a change of the kinds the wanted files stay the same.
LEMMA WantedStays ==
  ASSUME UNCHANGED <<req, kind>> PROVE Wanted' = Wanted /\ (Rooted => Rooted')
BY DEF Wanted, Rooted

\* The tops of the window's walk have every wanted file below them.
LEMMA RootsReach ==
  ASSUME StagedInv, Reached, Roots PROVE Reached'
<1>1. /\ CreationTypeOK /\ Rooted /\ UNCHANGED <<req, kind>> /\ At("roots")
  BY DEF StagedInv, Reached, Roots, files
<1>2. Wanted' = Wanted /\ Rooted'
  BY <1>1, WantedStays
<1>3. job.result = "none" /\ job \in JobType
  BY <1>1 DEF StagedInv, Stages, At, CreationTypeOK
<1>4. CASE Fail
  BY <1>2, <1>3, <1>4 DEF Fail, JobType, Reached, Adding, Late
<1>5. CASE ~Fail
  <2> DEFINE tops == {s \in ToSet(req.sources) : kind[s] \in {"file", "dir"} /\ ~Covered(s)}
             S == {[path |-> s, name |-> <<Last(s)>>] : s \in tops}
  <2>1. job' = [job EXCEPT !.pc = "walk", !.stack = SetToSeq(S)]
    BY <1>5 DEF Roots
  <2>2. req.sources \in Seq(Paths) /\ ToSet(req.sources) \subseteq Paths
    BY <1>1, RequestFacts DEF ToSet
  <2>3. IsFiniteSet(S)
    <3> DEFINE e == [s \in tops |-> [path |-> s, name |-> <<Last(s)>>]]
    <3>1. IsFiniteSet(tops)
      <4>1. tops \in SUBSET Paths
        BY <2>2
      <4> QED
        BY <4>1, CreationAssumption, FS_Subset
    <3>2. S = {e[s] : s \in tops} /\ DOMAIN e = tops
      OBVIOUS
    <3> HIDE DEF tops, S, e
    <3> QED
      BY <3>1, <3>2, FiniteValues
  <2> HIDE DEF S
  <2>4. job'.pc = "walk" /\ job'.stack = SetToSeq(S) /\ job'.result = "none"
    BY <1>3, <2>1 DEF JobType
  <2>5. ASSUME NEW p \in Wanted PROVE Stacked(job'.stack, p)
    <3> DEFINE above == {s \in ToSet(req.sources) : IsPrefix(s, p)}
               T == {Len(s) : s \in above}
    <3>1. above # {} /\ T # {} /\ p \in Paths
      BY DEF Wanted
    <3>2. \A y \in T : y \in Nat
      BY <2>2, PathFacts
    <3>3. PICK x \in T : \A y \in T : x <= y
      <4> HIDE DEF T
      <4> QED
        BY <3>1, <3>2, Least
    <3>4. PICK s \in above : Len(s) = x
      OBVIOUS
    <3>5. s \in Paths /\ s \in ToSet(req.sources) /\ IsPrefix(s, p)
      BY <2>2
    <3>6. kind[s] \in {"file", "dir"}
      BY <1>1, <3>5, AboveWanted
    <3>7. ASSUME NEW d \in ToSet(req.sources), IsStrictPrefix(d, s) PROVE FALSE
      <4>1. d \in Paths /\ IsPrefix(d, s) /\ d # s
        BY <2>2, <3>7 DEF IsStrictPrefix
      <4>2. Len(d) \in 1..Len(s) - 1
        BY <3>5, <4>1, PrefixFacts
      <4>3. Len(s) \in Nat /\ Len(d) \in Nat /\ Len(s) <= Len(p)
        BY <3>1, <3>5, <4>1, PathFacts, PrefixFacts
      <4>4. IsPrefix(d, p)
        <5>1. \A i \in 1..Len(s) : s[i] = p[i]
          BY <3>1, <3>5, PrefixFacts
        <5>2. \A i \in 1..Len(d) : d[i] = s[i]
          BY <3>5, <4>1, PrefixFacts
        <5>3. \A i \in 1..Len(d) : d[i] = p[i]
          BY <4>2, <4>3, <5>1, <5>2
        <5>4. Len(d) <= Len(p)
          BY <3>1, <4>2, <4>3, PathFacts
        <5> QED
          BY <3>1, <4>1, <5>3, <5>4, PrefixFacts
      <4>5. Len(d) \in T
        BY <3>7, <4>4
      <4> HIDE DEF T
      <4>6. Len(s) <= Len(d)
        BY <3>3, <3>4, <4>5
      <4> QED
        BY <4>2, <4>3, <4>6
    <3>8. s \in tops
      BY <3>5, <3>6, <3>7 DEF Covered
    <3>9. [path |-> s, name |-> <<Last(s)>>] \in S
      BY <3>8 DEF S
    <3> HIDE DEF tops, above, T
    <3>10. PICK i \in 1..Len(SetToSeq(S)) : SetToSeq(S)[i] = [path |-> s, name |-> <<Last(s)>>]
      BY <2>3, <3>9, InOrderSomewhere
    <3>11. SetToSeq(S)[i].path = s
      BY <3>10
    <3> QED
      BY <2>4, <3>5, <3>11 DEF Stacked
  <2> HIDE DEF tops
  <2> QED
    BY <1>2, <2>4, <2>5 DEF Reached, Adding, Late
<1> QED
  BY <1>4, <1>5

\* The walk goes from a folder to what is in it.
LEMMA WalkReaches ==
  ASSUME StagedInv, Reached, Walk PROVE Reached'
<1>1. /\ CreationTypeOK /\ Rooted /\ UNCHANGED <<req, kind>> /\ At("walk") /\ job.stack # <<>>
  BY DEF StagedInv, Reached, Walk, files
<1>2. Wanted' = Wanted /\ Rooted'
  BY <1>1, WantedStays
<1>3. job.result = "none" /\ job \in JobType /\ job.inputs \in Seq(InputType)
  BY <1>1 DEF StagedInv, Stages, At, CreationTypeOK, JobType
<1> DEFINE e == Last(job.stack)
           rest == Front(job.stack)
           below == {[path |-> c, name |-> Append(e.name, Last(c))] : c \in Children(e.path)}
<1>4. /\ job.stack \in Seq(Pending) /\ e \in Pending /\ rest \in Seq(Pending)
      /\ Len(job.stack) \in Nat \ {0} /\ Len(rest) = Len(job.stack) - 1
      /\ e = job.stack[Len(job.stack)] /\ \A i \in 1..Len(rest) : rest[i] = job.stack[i]
  <2>1. job.stack \in Seq(Pending)
    BY <1>1 DEF CreationTypeOK, JobType
  <2> QED
    BY <1>1, <2>1 DEF Last, Front
<1> HIDE DEF e, rest
<1>5. e.path \in Paths /\ e.name \in Seq(Steps)
  BY <1>4 DEF Pending
<1>6. IsFiniteSet(below) /\ below \subseteq Pending
  <2> DEFINE names == [c \in Children(e.path) |-> [path |-> c, name |-> Append(e.name, Last(c))]]
  <2>1. Children(e.path) \in SUBSET Paths
    BY DEF Children
  <2>2. IsFiniteSet(Children(e.path))
    BY <2>1, CreationAssumption, FS_Subset
  <2>3. below = {names[c] : c \in Children(e.path)} /\ DOMAIN names = Children(e.path)
    OBVIOUS
  <2>4. \A c \in Children(e.path) : c \in Paths /\ Append(e.name, Last(c)) \in Seq(Steps)
    BY <1>5, <2>1, PathFacts
  <2>5. below \subseteq Pending
    BY <2>4 DEF Pending
  <2> HIDE DEF below, names
  <2> QED
    BY <2>2, <2>3, <2>5, FiniteValues
<1> DEFINE more == SetToSeq(below)
<1>7. more \in Seq(Pending) /\ \A x \in below : \E i \in 1..Len(more) : more[i] = x
  <2> HIDE DEF below
  <2> QED
    BY <1>6, InOrder, InOrderSomewhere
<1>8. CASE Fail
  BY <1>2, <1>3, <1>8 DEF Fail, JobType, Reached, Adding, Late
<1>9. CASE ~Fail
  <2>1. \/ kind[e.path] \in {"link", "special"} /\ job' = [job EXCEPT !.stack = rest]
        \/ /\ kind[e.path] = "dir"
           /\ job' = [job EXCEPT !.stack = rest \o more, !.inputs = Append(job.inputs, AsInput(e))]
        \/ /\ kind[e.path] = "file"
           /\ job' = [job EXCEPT !.stack = rest, !.inputs = Append(job.inputs, AsInput(e))]
    <3>1. kind[e.path] \in Kinds
      BY <1>1, <1>5 DEF CreationTypeOK
    <3> QED
      BY <1>9, <3>1 DEF Walk, e, rest, Kinds
  <2> HIDE DEF below, more
  <2>2. AsInput(e) \in InputType
    BY <1>1, <1>5, InputTyping
  <2>3. job'.pc = "walk" /\ job'.result = "none"
        /\ (job'.inputs = job.inputs \/ job'.inputs = Append(job.inputs, AsInput(e)))
        /\ (job'.stack = rest \/ job'.stack = rest \o more)
    BY <1>1, <1>3, <2>1 DEF JobType, At
  <2>4. ASSUME NEW p, Meets(Inputs, p) PROVE Meets(Inputs', p)
    <3>1. <<AsInput(e)>> \in Seq(InputType)
          /\ Append(job.inputs, AsInput(e)) = job.inputs \o <<AsInput(e)>>
      BY <1>3, <2>2
    <3> QED
      BY <1>3, <2>3, <2>4, <3>1, MeetsMore DEF Inputs
  <2>5. ASSUME NEW p \in Wanted, Stacked(job.stack, p)
        PROVE  Meets(Inputs', p) \/ Stacked(job'.stack, p)
    <3>1. PICK i \in 1..Len(job.stack) : IsPrefix(job.stack[i].path, p)
      BY <2>5 DEF Stacked
    <3>2. CASE i # Len(job.stack)
      <4>1. i \in 1..Len(rest) /\ rest[i] = job.stack[i]
        BY <1>4, <3>2
      <4>2. i \in 1..Len(job'.stack) /\ job'.stack[i] = rest[i]
        BY <1>4, <1>7, <2>3, <4>1
      <4> QED
        BY <3>1, <4>1, <4>2 DEF Stacked
    <3>3. CASE i = Len(job.stack)
      <4>1. IsPrefix(e.path, p) /\ p \in Paths
        BY <1>4, <3>1, <3>3 DEF Wanted
      <4>2. CASE e.path = p
        <5>1. kind[e.path] = "file"
          BY <1>1, <1>5, <4>1, <4>2, AboveWanted
        <5>2. job'.inputs = Append(job.inputs, AsInput(e))
          BY <1>3, <2>1, <5>1 DEF JobType
        <5>3. AsInput(e).path = p /\ AsInput(e).dir = FALSE
          BY <4>2, <5>1 DEF AsInput
        <5> DEFINE k == Len(job.inputs) + 1
        <5>4. k \in 1..Len(job'.inputs) /\ job'.inputs[k] = AsInput(e)
          BY <1>3, <2>2, <5>2
        <5> HIDE DEF k
        <5> QED
          BY <5>3, <5>4 DEF Meets, Inputs
      <4>3. CASE e.path # p
        <5>1. kind[e.path] = "dir"
          BY <1>1, <1>5, <4>1, <4>3, AboveWanted
        <5>2. job'.stack = rest \o more
          BY <1>3, <2>1, <5>1 DEF JobType
        <5>3. PICK c \in Children(e.path) : IsPrefix(c, p)
          BY <1>1, <1>5, <4>1, <4>3, DownOne
        <5>4. [path |-> c, name |-> Append(e.name, Last(c))] \in below
          BY DEF below
        <5>5. PICK j \in 1..Len(more) : more[j] = [path |-> c, name |-> Append(e.name, Last(c))]
          BY <1>7, <5>4
        <5>6. more[j].path = c
          BY <5>5
        <5> DEFINE q == Len(rest) + j
        <5>7. q \in 1..Len(job'.stack) /\ job'.stack[q] = more[j]
          BY <1>4, <1>7, <5>2
        <5> HIDE DEF q
        <5> QED
          BY <5>3, <5>6, <5>7 DEF Stacked
      <4> QED
        BY <4>2, <4>3
    <3> QED
      BY <3>2, <3>3
  <2>6. \A p \in Wanted : Meets(Inputs, p) \/ Stacked(job.stack, p)
    BY <1>1 DEF Reached, At
  <2> QED
    BY <1>2, <2>3, <2>4, <2>5, <2>6 DEF Reached, Adding, Late
<1> QED
  BY <1>8, <1>9

\* The command line looks at all that is below a source at once.
LEMMA CollectReaches ==
  ASSUME StagedInv, Reached, Collect PROVE Reached'
<1>1. /\ CreationTypeOK /\ Rooted /\ UNCHANGED <<req, kind>> /\ At("collect") /\ job.left # <<>>
  BY DEF StagedInv, Reached, Collect, files
<1>2. Wanted' = Wanted /\ Rooted'
  BY <1>1, WantedStays
<1>3. job.result = "none" /\ job \in JobType /\ job.inputs \in Seq(InputType) /\ job.left \in Seq(Paths)
  BY <1>1 DEF StagedInv, Stages, At, CreationTypeOK, JobType
<1> DEFINE s == job.left[1]
           r == IF kind[s] = "link" THEN LinkTo ELSE s
           name(p) == [path |-> p, name |-> SubSeq(p, Len(r), Len(p))]
           Of(ps) == SetToSeq({AsInput([path |-> p, name |-> SubSeq(p, Len(r), Len(p))]) : p \in ps})
           more == {p \in Below(r) : kind[p] = "file"}
           empty == {p \in Below(r) : kind[p] = "dir" /\ IsEmpty(p)}
           S == {AsInput(name(p)) : p \in more}
<1>4. CASE Fail
  BY <1>2, <1>3, <1>4 DEF Fail, JobType, Reached, Adding, Late
<1>5. CASE ~Fail
  <2>1. job' = [job EXCEPT !.left = Tail(job.left), !.inputs = job.inputs \o Of(more),
                           !.late = job.late \o Of(empty)]
    BY <1>5 DEF Collect
  <2>2. s \in Paths /\ r \in Paths
    BY <1>1, <1>3, CreationAssumption
  <2>3. Of(more) = SetToSeq(S)
    OBVIOUS
  <2> HIDE DEF s, r, Of
  <2>4. \A p \in more : p \in Paths /\ SubSeq(p, Len(r), Len(p)) \in Seq(Steps) /\ kind[p] = "file"
    BY <2>2, PathFacts DEF Below
  <2>5. IsFiniteSet(S) /\ S \subseteq InputType
    <3> DEFINE f == [p \in more |-> AsInput(name(p))]
    <3>1. S = {f[p] : p \in more} /\ DOMAIN f = more
      OBVIOUS
    <3>2. more \in SUBSET Paths
      BY <2>4
    <3>3. IsFiniteSet(more)
      BY <3>2, CreationAssumption, FS_Subset
    <3>4. \A p \in more : AsInput(name(p)) \in InputType
      <4> SUFFICES ASSUME NEW p \in more PROVE AsInput(name(p)) \in InputType
        OBVIOUS
      <4>1. p \in Paths /\ SubSeq(p, Len(r), Len(p)) \in Seq(Steps)
        BY <2>4
      <4> QED
        BY <1>1, <4>1, InputTyping
    <3>5. S \subseteq InputType
      BY <3>4
    <3> HIDE DEF S, f, more
    <3> QED
      BY <3>1, <3>3, <3>5, FiniteValues
  <2> HIDE DEF S
  <2>6. SetToSeq(S) \in Seq(InputType)
    BY <2>5, InOrder
  <2>7. /\ job'.pc = "collect" /\ job'.result = "none" /\ job'.left = Tail(job.left)
        /\ job'.inputs = job.inputs \o SetToSeq(S)
    <3> HIDE DEF more, empty
    <3> QED
      BY <1>1, <1>3, <2>1, <2>3 DEF JobType, At
  <2>8. ASSUME NEW p, Meets(Inputs, p) PROVE Meets(Inputs', p)
    BY <1>3, <2>6, <2>7, <2>8, MeetsMore DEF Inputs
  <2>9. ASSUME NEW p \in Wanted, Ahead(job.left, p) PROVE Meets(Inputs', p) \/ Ahead(job'.left, p)
    <3>1. PICK i \in 1..Len(job.left) : IsPrefix(job.left[i], p)
      BY <2>9 DEF Ahead
    <3>2. CASE i # 1
      <4> DEFINE q == i - 1
      <4>1. q \in 1..Len(Tail(job.left)) /\ Tail(job.left)[q] = job.left[i]
        BY <1>1, <1>3, <3>2
      <4> HIDE DEF q
      <4> QED
        BY <2>7, <3>1, <4>1 DEF Ahead
    <3>3. CASE i = 1
      <4>1. IsPrefix(s, p) /\ p \in Paths /\ kind[p] = "file"
        BY <3>1, <3>3 DEF s, Wanted
      <4>2. kind[s] \in {"file", "dir"}
        BY <1>1, <2>2, <4>1, AboveWanted
      <4>3. p \in more
        BY <4>1, <4>2 DEF Below, r
      <4>4. AsInput(name(p)) \in S /\ AsInput(name(p)).path = p /\ AsInput(name(p)).dir = FALSE
        BY <4>1, <4>3 DEF S, AsInput
      <4> HIDE DEF more, name
      <4>5. PICK j \in 1..Len(SetToSeq(S)) : SetToSeq(S)[j] = AsInput(name(p))
        BY <2>5, <4>4, InOrderSomewhere
      <4>6. Meets(SetToSeq(S), p)
        BY <4>4, <4>5 DEF Meets
      <4> QED
        BY <1>3, <2>6, <2>7, <4>6, MeetsMore DEF Inputs
    <3> QED
      BY <3>2, <3>3
  <2>10. \A p \in Wanted : Meets(Inputs, p) \/ Ahead(job.left, p)
    BY <1>1 DEF Reached, At
  <2> HIDE DEF more, empty
  <2> QED
    BY <1>2, <2>7, <2>8, <2>9, <2>10 DEF Reached, Adding, Late
<1> QED
  BY <1>4, <1>5

\* The operation goes on, with the inputs it has.
LEMMA ReachedStays ==
  ASSUME Reached, UNCHANGED <<req, kind>>, job'.inputs = job.inputs,
         job'.pc \notin {"walk", "collect"},
         job'.pc \in Adding \cup Late \/ job'.result = "ok" =>
           job.pc \in Adding \cup Late \/ job.result = "ok"
  PROVE  Reached'
<1>1. Wanted' = Wanted /\ Rooted' /\ Inputs' = Inputs
  BY WantedStays DEF Reached, Inputs
<1> QED
  BY <1>1 DEF Reached

\* The walk or the collection is done.
LEMMA GatheredReaches ==
  ASSUME StagedInv, Reached, Validate \/ Walked \/ Collected PROVE Reached'
<1>1. CreationTypeOK /\ Rooted /\ UNCHANGED <<req, kind>> /\ job.pc \in Early
  BY DEF StagedInv, Reached, Validate, Walked, Collected, files, At, Early
<1>2. Wanted' = Wanted /\ Rooted'
  BY <1>1, WantedStays
<1>3. job.result = "none" /\ job \in JobType /\ job.inputs \in Seq(InputType)
      /\ job.late \in Seq(InputType)
  BY <1>1 DEF StagedInv, Stages, Early, CreationTypeOK, JobType
<1>4. CASE Fail
  BY <1>2, <1>3, <1>4 DEF Fail, JobType, Reached, Adding, Late
<1>5. CASE Validate /\ ~Fail
  <2>1. job' = [job EXCEPT !.pc = "roots"]
    BY <1>5 DEF Validate, Go
  <2>2. job'.pc = "roots" /\ job'.result = "none"
    BY <1>3, <2>1 DEF JobType
  <2> QED
    BY <1>2, <2>2 DEF Reached, Adding, Late
<1>6. CASE Walked /\ ~Fail
  <2>1. job' = [job EXCEPT !.pc = "entry"] /\ job.pc = "walk" /\ job.stack = <<>>
    BY <1>6 DEF Walked, Go, At
  <2>2. job'.pc = "entry" /\ job'.result = "none" /\ job'.inputs = job.inputs
    BY <1>3, <2>1 DEF JobType
  <2>3. \A p : ~Stacked(job.stack, p)
    BY <2>1 DEF Stacked
  <2>4. \A p \in Wanted : Meets(Inputs, p)
    BY <2>1, <2>3 DEF Reached
  <2> QED
    BY <1>2, <2>2, <2>4 DEF Reached, Inputs
<1>7. CASE Collected /\ ~Fail
  <2>1. job' = [job EXCEPT !.pc = "entry", !.inputs = Inputs \o job.late]
        /\ job.pc = "collect" /\ job.left = <<>>
    BY <1>7 DEF Collected, At
  <2>2. job'.pc = "entry" /\ job'.result = "none" /\ job'.inputs = job.inputs \o job.late
    BY <1>3, <2>1 DEF JobType, Inputs
  <2>3. \A p : ~Ahead(job.left, p)
    BY <2>1 DEF Ahead
  <2>4. \A p \in Wanted : Meets(job.inputs, p)
    BY <2>1, <2>3 DEF Reached, Inputs
  <2>5. \A p \in Wanted : Meets(job'.inputs, p)
    BY <1>3, <2>2, <2>4, MeetsMore
  <2> QED
    BY <1>2, <2>2, <2>5 DEF Reached, Inputs
<1> QED
  BY <1>4, <1>5, <1>6, <1>7

\* A file goes, or the output appears: folders stay.
LEMMA TreeStays ==
  ASSUME CreationTypeOK, Rooted, req' = req, NEW p \in Paths, NEW l,
         kind' = [kind EXCEPT ![p] = l],
         (kind[p] = "file" /\ l = "none") \/ (p = req.output /\ kind[p] \in {"none", "file"})
  PROVE  Rooted' /\ Wanted' \subseteq Wanted
<1>1. \A q \in Paths : kind'[q] = IF q = p THEN l ELSE kind[q]
  BY DEF CreationTypeOK
<1>2. Wanted' \subseteq Wanted
  BY <1>1 DEF Wanted
<1>3. ASSUME NEW q \in Paths, q # req.output, kind'[q] # "none", NEW n \in 1..Len(q) - 1
      PROVE  SubSeq(q, 1, n) \in Paths /\ kind'[SubSeq(q, 1, n)] = "dir"
  <2>1. q # p /\ kind[q] # "none"
    BY <1>1, <1>3
  <2>2. SubSeq(q, 1, n) \in Paths /\ kind[SubSeq(q, 1, n)] = "dir"
    BY <1>3, <2>1 DEF Rooted
  <2>3. SubSeq(q, 1, n) # p
    BY <2>2
  <2> QED
    BY <1>1, <2>2, <2>3
<1> QED
  BY <1>2, <1>3 DEF Rooted

\* Other programs: what is wanted only becomes less.
LEMMA OthersReach ==
  ASSUME StagedInv, Reached, Appear \/ (\E p \in Paths : Delete(p)) PROVE Reached'
<1>1. CreationTypeOK /\ Rooted /\ req.output \in Paths /\ UNCHANGED <<req, job>>
  BY RequestFacts DEF StagedInv, Reached, Appear, Delete
<1>2. Rooted' /\ Wanted' \subseteq Wanted
  <2>1. CASE Appear
    BY <1>1, <2>1, TreeStays DEF Appear
  <2>2. ASSUME NEW p \in Paths, Delete(p) PROVE Rooted' /\ Wanted' \subseteq Wanted
    BY <1>1, <2>2, TreeStays DEF Delete
  <2> QED
    BY <2>1, <2>2
<1>3. Inputs' = Inputs
  BY <1>1 DEF Inputs
<1> QED
  BY <1>1, <1>2, <1>3 DEF Reached

\* What is published does not count as a file to be put in.
LEMMA PublishReaches ==
  ASSUME StagedInv, Reached, PublishArchive PROVE Reached'
<1>1. CreationTypeOK /\ Rooted /\ req.output \in Paths /\ UNCHANGED req /\ job.pc = "publish"
      /\ job \in JobType
  BY RequestFacts DEF StagedInv, CreationTypeOK, Reached, PublishArchive, At
<1>2. CASE kind' = kind
  <2>1. job'.inputs = job.inputs /\ job'.pc = "over"
    BY <1>1 DEF PublishArchive, Fail, JobType
  <2> QED
    BY <1>1, <1>2, <2>1, ReachedStays DEF Late
<1>3. CASE kind' # kind
  <2>1. kind' = [kind EXCEPT ![req.output] = "file"] /\ MayPublish
        /\ job' = [job EXCEPT !.pc = "over", !.result = "ok"]
    BY <1>3 DEF PublishArchive
  <2>2. Rooted' /\ Wanted' \subseteq Wanted
    BY <1>1, <2>1, TreeStays DEF MayPublish
  <2>3. job'.inputs = job.inputs /\ job'.pc = "over"
    BY <1>1, <2>1 DEF JobType
  <2> QED
    BY <1>1, <2>2, <2>3 DEF Reached, Inputs, Late
<1> QED
  BY <1>2, <1>3

LEMMA ReachedKeeps ==
  ASSUME StagedInv, Reached, [CreationNext]_creationVars PROVE Reached'
<1>1. CASE Roots \/ Walk \/ Collect \/ Validate \/ Walked \/ Collected
  BY <1>1, RootsReach, WalkReaches, CollectReaches, GatheredReaches
<1>2. CASE AddDirectory \/ Open \/ Read \/ ReadFails \/ EntryEnds \/ FinishArchive \/ Join \/ Wrap \/ Check
  <2>1. UNCHANGED <<req, kind>> /\ job.pc \in Adding \cup Late /\ job \in JobType
    BY <1>2 DEF AddDirectory, Open, Read, ReadFails, EntryEnds, FinishArchive, Join, Wrap, Check,
       files, At, Adding, Late, StagedInv, CreationTypeOK
  <2>2. \/ Fail \/ NextEntry \/ GiveUp
        \/ job' = [job EXCEPT !.pc = "read"] \/ job' = [job EXCEPT !.pos = @ + 1]
        \/ \E l \in Late : Go(l)
    <3>1. AddDirectory \/ EntryEnds => NextEntry \/ GiveUp
      BY DEF AddDirectory, EntryEnds, EntryRefused, EntryFails
    <3>2. Open => GiveUp \/ job' = [job EXCEPT !.pc = "read"]
      BY DEF Open, EntryRefused
    <3>3. Read => GiveUp \/ job' = [job EXCEPT !.pos = @ + 1]
      BY DEF Read, EntryFails
    <3>4. ReadFails => GiveUp
      BY DEF ReadFails, EntryFails
    <3>5. FinishArchive \/ Join \/ Wrap \/ Check => Fail \/ \E l \in Late : Go(l)
      BY DEF FinishArchive, Join, Wrap, Check, Late
    <3> QED
      BY <1>2, <3>1, <3>2, <3>3, <3>4, <3>5
  <2>3. job'.inputs = job.inputs /\ job'.pc \notin {"walk", "collect"}
    <3>1. Fail \/ NextEntry \/ GiveUp => job'.inputs = job.inputs /\ job'.pc \in {"over", "entry"}
      BY JobMoves DEF StagedInv
    <3>2. \A l \in Late : Go(l) => job'.inputs = job.inputs /\ job'.pc \in Late
      BY JobMoves DEF StagedInv
    <3>3. job' = [job EXCEPT !.pc = "read"] => job'.inputs = job.inputs /\ job'.pc = "read"
      BY <2>1 DEF JobType
    <3>4. job' = [job EXCEPT !.pos = @ + 1] => job'.inputs = job.inputs /\ job'.pc = job.pc
      BY <2>1 DEF JobType
    <3> QED
      BY <2>1, <2>2, <3>1, <3>2, <3>3, <3>4 DEF Late, Adding
  <2> QED
    BY <2>1, <2>3, ReachedStays
<1>3. CASE PublishArchive
  BY <1>3, PublishReaches
<1>4. CASE Appear \/ (\E p \in Paths : Delete(p))
  BY <1>4, OthersReach
<1>5. CASE Heed
  <2>1. Fail /\ UNCHANGED <<req, kind>> /\ job \in JobType /\ job.result = "none"
    BY <1>5 DEF Heed, files, StagedInv, CreationTypeOK, Stages
  <2>2. job'.inputs = job.inputs /\ job'.pc = "over" /\ job'.result = "failed"
    BY <2>1 DEF Fail, JobType
  <2> QED
    BY <2>1, <2>2, ReachedStays DEF Adding, Late
<1>6. CASE \/ Encode \/ Encoded \/ EncoderFails \/ Cancel \/ Over \/ UNCHANGED creationVars
           \/ \E p \in Paths : Resize(p)
  <2>1. UNCHANGED <<req, kind, job>>
    BY <1>6 DEF Encode, Encoded, EncoderFails, Cancel, Over, Resize, files, creationVars
  <2>2. Wanted' = Wanted /\ Rooted' /\ Inputs' = Inputs
    BY <2>1, WantedStays DEF Reached, Inputs
  <2> QED
    BY <2>1, <2>2 DEF Reached
<1> QED
  BY <1>1, <1>2, <1>3, <1>4, <1>5, <1>6 DEF CreationNext, JobStep, EncoderStep

-----------------------------------------------------------------------------
(* How often a name is on a tape.                                          *)

HeadsIn(t, n) == {i \in 1..Len(t) : t[i].tag = "head" /\ t[i].name = n}
Count(t, n)   == Cardinality(HeadsIn(t, n))

LEMMA CountType ==
  ASSUME NEW t \in Seq(Item), NEW n
  PROVE  /\ IsFiniteSet(HeadsIn(t, n)) /\ HeadsIn(t, n) \subseteq Nat /\ Count(t, n) \in Nat
         /\ Count(t, n) = 0 <=> HeadsIn(t, n) = {}
<1>1. HeadsIn(t, n) \in SUBSET (1..Len(t)) /\ Len(t) \in Nat
  BY DEF HeadsIn
<1>2. IsFiniteSet(1..Len(t))
  BY <1>1, FS_Interval
<1>3. IsFiniteSet(HeadsIn(t, n))
  BY <1>1, <1>2, FS_Subset
<1> QED
  BY <1>1, <1>3, FS_CardinalityType, FS_EmptySet DEF Count

\* Numbers, moved on by m.
LEMMA Shifted ==
  ASSUME NEW S, IsFiniteSet(S), S \subseteq Nat, NEW m \in Nat
  PROVE  IsFiniteSet({i + m : i \in S}) /\ Cardinality({i + m : i \in S}) = Cardinality(S)
<1> DEFINE T == {i + m : i \in S}
           f == [i \in S |-> i + m]
<1>1. f \in [S -> T] /\ \A a, b \in S : f[a] = f[b] => a = b
  OBVIOUS
<1>2. \A y \in T : \E i \in S : f[i] = y
  OBVIOUS
<1> HIDE DEF f, T
<1>3. f \in Bijection(S, T)
  BY <1>1, <1>2, Fun_IsBij
<1>4. ExistsBijection(S, T)
  BY <1>3 DEF ExistsBijection
<1> QED
  BY <1>4, FS_Bijection DEF T

LEMMA CountJoin ==
  ASSUME NEW a \in Seq(Item), NEW b \in Seq(Item), NEW n
  PROVE  Count(a \o b, n) = Count(a, n) + Count(b, n)
<1> DEFINE m == Len(a)
           t == a \o b
           A == HeadsIn(a, n)
           B == HeadsIn(b, n)
           C == {i + m : i \in B}
<1>1. m \in Nat /\ Len(b) \in Nat /\ Len(t) = m + Len(b)
      /\ \A i \in 1..Len(t) : t[i] = IF i <= m THEN a[i] ELSE b[i - m]
  OBVIOUS
<1>2. IsFiniteSet(A) /\ IsFiniteSet(B) /\ Cardinality(A) \in Nat /\ Cardinality(B) \in Nat
      /\ B \subseteq Nat
  BY CountType DEF Count
<1>3. A \subseteq 1..m /\ \A i \in B : i \in 1..Len(b)
  BY DEF HeadsIn
<1> HIDE DEF t, m
<1>4. HeadsIn(t, n) = A \cup C
  <2>1. ASSUME NEW i \in HeadsIn(t, n) PROVE i \in A \cup C
    <3>1. i \in 1..Len(t) /\ t[i].tag = "head" /\ t[i].name = n
      BY DEF HeadsIn
    <3>2. CASE i <= m
      <4>1. i \in 1..Len(a) /\ t[i] = a[i]
        BY <1>1, <3>1, <3>2 DEF m
      <4>2. i \in A
        BY <3>1, <4>1 DEF HeadsIn
      <4> QED
        BY <4>2
    <3>3. CASE ~(i <= m)
      <4> DEFINE q == i - m
      <4>1. q \in 1..Len(b) /\ t[i] = b[q] /\ i = q + m
        BY <1>1, <3>1, <3>3
      <4> HIDE DEF q
      <4>2. q \in B
        BY <3>1, <4>1 DEF HeadsIn
      <4> QED
        BY <4>1, <4>2
    <3> QED
      BY <3>2, <3>3
  <2>2. ASSUME NEW i \in A PROVE i \in HeadsIn(t, n)
    <3>1. i \in 1..Len(a) /\ a[i].tag = "head" /\ a[i].name = n
      BY DEF HeadsIn
    <3>2. i \in 1..Len(t) /\ t[i] = a[i]
      BY <1>1, <3>1 DEF m
    <3> QED
      BY <3>1, <3>2 DEF HeadsIn
  <2>3. ASSUME NEW i \in B PROVE i + m \in HeadsIn(t, n)
    <3>1. i \in 1..Len(b) /\ b[i].tag = "head" /\ b[i].name = n
      BY DEF HeadsIn
    <3> DEFINE q == i + m
    <3>2. q \in 1..Len(t) /\ ~(q <= m) /\ q - m = i
      BY <1>1, <3>1
    <3> HIDE DEF q
    <3>3. t[q] = b[i]
      BY <1>1, <3>2
    <3>4. q \in HeadsIn(t, n)
      BY <3>1, <3>2, <3>3 DEF HeadsIn
    <3> QED
      BY <3>4 DEF q
  <2> QED
    BY <2>1, <2>2, <2>3
<1>5. IsFiniteSet(C) /\ Cardinality(C) = Cardinality(B)
  <2> HIDE DEF B
  <2> QED
    BY <1>1, <1>2, Shifted
<1>6. A \cap C = {}
  <2> SUFFICES ASSUME NEW i \in A, NEW j \in B, i = j + m PROVE FALSE
    OBVIOUS
  <2>1. i \in 1..m /\ j \in 1..Len(b)
    BY <1>3
  <2> QED
    BY <1>1, <2>1
<1> HIDE DEF A, B, C
<1>7. Cardinality(A \cup C) = Cardinality(A) + Cardinality(C) - Cardinality(A \cap C)
  BY <1>2, <1>5, FS_Union
<1>8. Cardinality(A \cap C) = 0
  BY <1>6, FS_EmptySet
<1> QED
  BY <1>2, <1>4, <1>5, <1>7, <1>8 DEF Count, A, B, t

LEMMA CountNone ==
  ASSUME NEW t \in Seq(Item), \A i \in 1..Len(t) : t[i].tag # "head", NEW n
  PROVE  Count(t, n) = 0
<1>1. HeadsIn(t, n) = {}
  BY DEF HeadsIn
<1> QED
  BY <1>1, FS_EmptySet DEF Count

LEMMA CountSingle ==
  ASSUME NEW x \in Item, NEW n
  PROVE  /\ <<x>> \in Seq(Item)
         /\ Count(<<x>>, n) = IF x.tag = "head" /\ x.name = n THEN 1 ELSE 0
<1> DEFINE t == <<x>>
<1>1. t \in Seq(Item) /\ Len(t) = 1 /\ t[1] = x
  OBVIOUS
<1> HIDE DEF t
<1>2. CASE x.tag = "head" /\ x.name = n
  <2>1. HeadsIn(t, n) = {1}
    BY <1>1, <1>2 DEF HeadsIn
  <2> QED
    BY <1>1, <1>2, <2>1, FS_Singleton DEF Count, t
<1>3. CASE ~(x.tag = "head" /\ x.name = n)
  <2>1. HeadsIn(t, n) = {}
    BY <1>1, <1>3 DEF HeadsIn
  <2> QED
    BY <1>1, <1>3, <2>1, FS_EmptySet DEF Count, t
<1> QED
  BY <1>2, <1>3

\* One head and its payload.
LEMMA CountFile ==
  ASSUME NEW name \in Seq(Steps), NEW s \in Nat, NEW p \in Paths, NEW m \in Nat, NEW n
  PROVE  Count(<<Header(name, s)>> \o Blocks(p, m), n) = IF name = n THEN 1 ELSE 0
<1>1. Header(name, s) \in Item /\ Header(name, s).tag = "head" /\ Header(name, s).name = name
  BY DEF Item, Header
<1>2. <<Header(name, s)>> \in Seq(Item) /\ Count(<<Header(name, s)>>, n) = IF name = n THEN 1 ELSE 0
  BY <1>1, CountSingle
<1>3. Blocks(p, m) \in Seq(Item) /\ Len(Blocks(p, m)) = m
      /\ \A i \in 1..m : Blocks(p, m)[i].tag = "block"
  <2>1. \A i \in 1..m : Block(p, i) \in Item /\ Block(p, i).tag = "block"
    BY DEF Item, Block
  <2> QED
    BY <2>1 DEF Blocks
<1>4. Count(Blocks(p, m), n) = 0
  BY <1>3, CountNone
<1> DEFINE h == <<Header(name, s)>>
           b == Blocks(p, m)
<1>5. h \in Seq(Item) /\ b \in Seq(Item) /\ Count(h, n) \in Nat
      /\ Count(h, n) = (IF name = n THEN 1 ELSE 0) /\ Count(b, n) = 0
  BY <1>2, <1>3, <1>4
<1> HIDE DEF h, b
<1>6. Count(h \o b, n) = Count(h, n) + Count(b, n)
  BY <1>5, CountJoin
<1> QED
  BY <1>5, <1>6 DEF h, b

\* What a place says of the sequences up to it, of the whole sequence.
LEMMA FlattenedSteps ==
  ASSUME NEW seqs \in Seq(Seq(Item)), Len(seqs) # 0, NEW H, seqs[1] \in H[1],
         \A i \in 2..Len(seqs) : \A x \in H[i - 1] \cap Seq(Item) : x \o seqs[i] \in H[i]
  PROVE  FlattenSeq(seqs) \in H[Len(seqs)] \cap Seq(Item)
<1> DEFINE n == Len(seqs)
           G == Seq(Item)
           Flat(f) == f = [i \in 1..n |-> IF i = 1 THEN seqs[i] ELSE f[i - 1] \o seqs[i]]
           c == CHOOSE f : Flat(f)
           g == [p \in (1..n) \X G |-> p[2] \o seqs[p[1]]]
<1>1. n \in Nat \ {0} /\ \A i \in 1..n : seqs[i] \in G
  OBVIOUS
<1>2. g \in [(1..n) \X G -> G]
  BY <1>1
<1>3. \A i \in 1..n, x \in G : g[<<i, x>>] = x \o seqs[i]
  OBVIOUS
<1>4. \A x, y \in G : x \o y \in G
  OBVIOUS
<1> HIDE DEF g, n, G
<1>5. PICK f \in [1..n -> G] : f[1] = seqs[1] /\ \A i \in 2..n : f[i] = g[<<i, f[i - 1]>>]
  <2> DEFINE b == seqs[1]
  <2>1. b \in G
    BY <1>1
  <2> HIDE DEF b
  <2>2. \E f : Folded(f, n, G, b, g)
    BY <1>1, <1>2, <2>1, FoldExists
  <2> QED
    BY <2>2 DEF b, Folded
<1>6. Flat(f)
  <2> DEFINE h == [i \in 1..n |-> IF i = 1 THEN seqs[i] ELSE f[i - 1] \o seqs[i]]
  <2>1. ASSUME NEW i \in 1..n PROVE f[i] = h[i]
    <3>1. i = 1 \/ (i \in 2..n /\ i - 1 \in 1..n)
      BY <1>1
    <3> QED
      BY <1>3, <1>5, <3>1
  <2>2. f = h
    BY <2>1
  <2> QED
    BY <2>2
<1>7. Flat(c)
  BY <1>6
<1> HIDE DEF c
<1>8. \A i \in 1..n : c[i] \in H[i] \cap G
  <2> DEFINE T == {i \in 1..n : c[i] \notin H[i] \cap G}
  <2>1. CASE T = {}
    BY <2>1
  <2>2. CASE T # {}
    <3>1. \A y \in T : y \in Nat
      BY <1>1
    <3> HIDE DEF T
    <3>2. PICK x \in T : \A y \in T : x <= y
      BY <2>2, <3>1, Least
    <3>3. x \in 1..n /\ c[x] \notin H[x] \cap G /\ seqs[x] \in G
      BY <1>1, <3>2 DEF T
    <3>4. c[x] = IF x = 1 THEN seqs[x] ELSE c[x - 1] \o seqs[x]
      BY <1>7, <3>3
    <3>5. CASE x = 1
      BY <3>3, <3>4, <3>5
    <3>6. CASE x # 1
      <4>1. x - 1 \in 1..n /\ x - 1 \notin T /\ x \in 2..n
        BY <1>1, <3>1, <3>2, <3>3, <3>6
      <4>2. c[x - 1] \in H[x - 1] \cap G
        BY <4>1 DEF T
      <4>3. c[x - 1] \o seqs[x] \in H[x]
        BY <4>1, <4>2 DEF n, G
      <4>4. c[x - 1] \o seqs[x] \in G
        BY <1>4, <3>3, <4>2
      <4> QED
        BY <3>3, <3>4, <3>6, <4>3, <4>4
    <3> QED
      BY <3>5, <3>6
  <2> QED
    BY <2>1, <2>2
<1>9. FlattenSeq(seqs) = c[n]
  BY DEF FlattenSeq, c, n
<1>10. n \in 1..n
  BY <1>1
<1> QED
  BY <1>8, <1>9, <1>10 DEF n, G

\* Sequences with one head of the name at most: as many as have it.
LEMMA FlattenedCount ==
  ASSUME NEW seqs \in Seq(Seq(Item)), NEW n, \A i \in 1..Len(seqs) : Count(seqs[i], n) \in {0, 1}
  PROVE  /\ FlattenSeq(seqs) \in Seq(Item)
         /\ Count(FlattenSeq(seqs), n) = Cardinality({i \in 1..Len(seqs) : Count(seqs[i], n) = 1})
<1> DEFINE m == Len(seqs)
           Upto(j) == {i \in 1..j : Count(seqs[i], n) = 1}
           H == [j \in 1..m |-> {t \in Seq(Item) : Count(t, n) = Cardinality(Upto(j))}]
<1>1. m \in Nat /\ \A i \in 1..m : seqs[i] \in Seq(Item)
  OBVIOUS
<1>2. CASE m = 0
  <2>1. seqs = <<>> /\ FlattenSeq(seqs) = <<>>
    BY <1>2 DEF FlattenSeq
  <2>2. Count(<<>>, n) = 0
    <3>1. <<>> \in Seq(Item) /\ \A i \in 1..Len(<<>>) : <<>>[i].tag # "head"
      OBVIOUS
    <3> QED
      BY <3>1, CountNone
  <2>3. {i \in 1..m : Count(seqs[i], n) = 1} = {}
    BY <1>2
  <2>4. <<>> \in Seq(Item)
    OBVIOUS
  <2> QED
    BY <2>1, <2>2, <2>3, <2>4, FS_EmptySet
<1>3. CASE m # 0
  <2>1. \A j \in 1..m : IsFiniteSet(Upto(j)) /\ Cardinality(Upto(j)) \in Nat
    <3> SUFFICES ASSUME NEW j \in 1..m PROVE IsFiniteSet(Upto(j)) /\ Cardinality(Upto(j)) \in Nat
      OBVIOUS
    <3>1. IsFiniteSet(1..j) /\ Upto(j) \in SUBSET (1..j)
      BY FS_Interval
    <3> HIDE DEF Upto
    <3> QED
      BY <3>1, FS_Subset, FS_CardinalityType
  <2>2. 1 \in 1..m
    BY <1>1, <1>3
  <2>3. seqs[1] \in H[1]
    <3>1. Upto(1) = IF Count(seqs[1], n) = 1 THEN {1} ELSE {}
      OBVIOUS
    <3> HIDE DEF Upto
    <3>2. Cardinality(Upto(1)) = IF Count(seqs[1], n) = 1 THEN 1 ELSE 0
      BY <3>1, FS_EmptySet, FS_Singleton
    <3> QED
      BY <1>1, <2>2, <3>2
  <2>4. ASSUME NEW i \in 2..m, NEW x \in H[i - 1] \cap Seq(Item) PROVE x \o seqs[i] \in H[i]
    <3>1. i \in 1..m /\ i - 1 \in 1..m /\ i \notin 1..i - 1
      BY <1>1
    <3>2. Upto(i) = IF Count(seqs[i], n) = 1 THEN Upto(i - 1) \cup {i} ELSE Upto(i - 1)
      <4>1. 1..i = (1..i - 1) \cup {i}
        BY <3>1
      <4> QED
        BY <4>1
    <3>3. i \notin Upto(i - 1)
      BY <3>1
    <3> DEFINE U == Upto(i - 1)
               V == Upto(i)
    <3>4. IsFiniteSet(U) /\ Cardinality(U) \in Nat
      BY <2>1, <3>1
    <3>5. Count(x, n) = Cardinality(U)
      BY <3>1
    <3>6. V = (IF Count(seqs[i], n) = 1 THEN U \cup {i} ELSE U) /\ i \notin U
      BY <3>2, <3>3
    <3>9. H[i] = {t \in Seq(Item) : Count(t, n) = Cardinality(V)}
      BY <3>1
    <3> HIDE DEF U, V, Upto, H
    <3>7. Cardinality(V) = Cardinality(U) + Count(seqs[i], n)
      <4>1. Cardinality(U \cup {i}) = Cardinality(U) + 1
        BY <3>4, <3>6, FS_AddElement
      <4>2. Count(seqs[i], n) \in {0, 1}
        BY <3>1
      <4> QED
        BY <3>4, <3>6, <4>1, <4>2
    <3>8. x \o seqs[i] \in Seq(Item) /\ Count(x \o seqs[i], n) = Count(x, n) + Count(seqs[i], n)
      <4>1. x \in Seq(Item) /\ seqs[i] \in Seq(Item)
        BY <1>1, <3>1
      <4> QED
        BY <4>1, CountJoin, Joined
    <3> QED
      BY <3>5, <3>7, <3>8, <3>9
  <2> HIDE DEF H
  <2>5. FlattenSeq(seqs) \in H[m] \cap Seq(Item)
    BY <1>3, <2>3, <2>4, FlattenedSteps
  <2>6. m \in 1..m
    BY <1>1, <1>3
  <2> QED
    BY <2>5, <2>6 DEF H
<1> QED
  BY <1>2, <1>3

-----------------------------------------------------------------------------
(* Files handled, and files on the tape or held back.                      *)

Handled(n) == {k \in (1..job.k - 1) \ job.lost : ~Inputs[k].dir /\ Inputs[k].name = n}
BatchOf(n) == {i \in 1..Len(staged.batch) : Count(staged.batch[i], n) = 1}
PoolOf(n)  == {i \in 1..Len(staged.entries) :
                 ~staged.entries[i].dir /\ staged.entries[i].name = n}
Written(n) == Count(Stream, n) + Cardinality(BatchOf(n)) + Cardinality(PoolOf(n))
Begun(n)   == IF job.pc = "read" /\ Opened /\ Input.name = n THEN 1 ELSE 0

\* All the files of a name, or one that stands for them, or none where a merging writer
\* has a file in the place of a folder above.
Filled(t, n) ==
  \/ Count(t, n) = Cardinality(Named(n))
  \/ wr.twins = "merged" /\ BelowAFile(n)
  \/ wr.twins = "merged" /\ Twins(n) /\ Count(t, n) # 0

OneFile(t) == \A n \in Seq(Steps) : Count(t, n) \in {0, 1}

Counted ==
  /\ job.pc \in Adding /\ ~Broken =>
       \A n \in Seq(Steps) : Written(n) = Cardinality(Handled(n)) + Begun(n)
  /\ \A i \in 1..Len(staged.batch) : OneFile(staged.batch[i])
  /\ wr.lay # "pooled" => staged.entries = <<>>
  /\ ~wr.batched => staged.batch = <<>>
  /\ wr.lay = "pooled" /\ job.pc \in Adding => Stream = <<>>
  /\ \A k \in job.lost : k < job.k
  /\ job.pc \in Early => job.k = 1
  /\ job.pc \in Adding => job.k <= Len(Inputs) + 1
  /\ job.pc = "join" /\ ~Broken => \A n \in Seq(Steps) : Filled(Stream, n)
  /\ job.pc \in {"wrap", "check", "publish"} => \A n \in Seq(Steps) : Filled(tape, n)
  /\ job.result = "ok" => \A n \in Seq(Steps) : Filled(made, n)

LEMMA CountingTypes ==
  ASSUME CreationTypeOK, NEW n
  PROVE  /\ Stream \in Seq(Item) /\ Count(Stream, n) \in Nat
         /\ IsFiniteSet(BatchOf(n)) /\ Cardinality(BatchOf(n)) \in Nat
         /\ IsFiniteSet(PoolOf(n)) /\ Cardinality(PoolOf(n)) \in Nat
         /\ IsFiniteSet(Handled(n)) /\ Cardinality(Handled(n)) \in Nat
         /\ IsFiniteSet(Named(n)) /\ Cardinality(Named(n)) \in Nat
<1>1. Stream \in Seq(Item)
  BY DEF CreationTypeOK, Stream
<1>2. \A m \in Nat : \A S \in SUBSET (1..m) : IsFiniteSet(S) /\ Cardinality(S) \in Nat
  <2> SUFFICES ASSUME NEW m \in Nat, NEW S \in SUBSET (1..m)
               PROVE  IsFiniteSet(S) /\ Cardinality(S) \in Nat
    OBVIOUS
  <2>1. IsFiniteSet(1..m)
    BY FS_Interval
  <2> QED
    BY <2>1, FS_Subset, FS_CardinalityType
<1>3. /\ Len(staged.batch) \in Nat /\ BatchOf(n) \in SUBSET (1..Len(staged.batch))
      /\ Len(staged.entries) \in Nat /\ PoolOf(n) \in SUBSET (1..Len(staged.entries))
      /\ Len(Inputs) \in Nat /\ Named(n) \in SUBSET (1..Len(Inputs))
      /\ job.k - 1 \in Nat /\ Handled(n) \in SUBSET (1..job.k - 1)
  BY DEF CreationTypeOK, StagedType, JobType, BatchOf, PoolOf, Handled, Named, Inputs
<1> QED
  BY <1>1, <1>2, <1>3, CountType

LEMMA CountedInit == CreationInit => Counted
<1> SUFFICES ASSUME CreationInit PROVE Counted
  OBVIOUS
<1>1. job.pc \in Early /\ job.result = "none" /\ job.k = 1 /\ job.lost = {}
      /\ staged.batch = <<>> /\ staged.entries = <<>>
  BY DEF CreationInit, Early
<1>2. job.pc \notin Adding \cup Late
  BY <1>1 DEF Early, Adding, Late
<1> QED
  BY <1>1, <1>2 DEF Counted, Late

\* An entry is done with, or given up.
LEMMA HandledMore ==
  ASSUME StagedInv, Counted, job.k <= Len(Inputs), NextEntry, NEW n
  PROVE  /\ Cardinality(Handled(n)') = Cardinality(Handled(n))
                + (IF ~Input.dir /\ Input.name = n THEN 1 ELSE 0)
         /\ \A k \in job'.lost : k < job'.k
         /\ job'.k <= Len(Inputs') + 1 /\ job'.pc = "entry" /\ job'.result = job.result
<1>1. /\ job.k \in Nat \ {0} /\ job'.k = job.k + 1 /\ job'.inputs = job.inputs /\ job'.lost = job.lost
      /\ job'.pc = "entry" /\ job'.result = job.result /\ Len(job.inputs) \in Nat
      /\ job.lost \subseteq Nat
  BY DEF NextEntry, StagedInv, CreationTypeOK, JobType
<1>2. job.k \notin job.lost /\ \A k \in job.lost : k < job.k
  BY <1>1 DEF Counted
<1> DEFINE H == Handled(n)
<1>3. Handled(n)' = (IF ~Input.dir /\ Input.name = n THEN H \cup {job.k} ELSE H) /\ job.k \notin H
  <2>1. job'.k - 1 = job.k /\ 1..job.k = (1..job.k - 1) \cup {job.k} /\ job.k \notin 1..job.k - 1
    BY <1>1
  <2> QED
    BY <1>1, <1>2, <2>1 DEF Handled, Inputs, Input
<1>4. IsFiniteSet(H) /\ Cardinality(H) \in Nat
  BY CountingTypes DEF StagedInv
<1> HIDE DEF H
<1>5. Cardinality(H \cup {job.k}) = Cardinality(H) + 1
  BY <1>3, <1>4, FS_AddElement
<1>6. Cardinality(Handled(n)') = Cardinality(H) + (IF ~Input.dir /\ Input.name = n THEN 1 ELSE 0)
  BY <1>3, <1>4, <1>5
<1>7. \A k \in job'.lost : k < job'.k
  <2>1. \A k \in job.lost : k \in Nat /\ k < job.k
    BY <1>1, <1>2
  <2> QED
    BY <1>1, <2>1
<1>8. job'.k <= Len(Inputs') + 1
  BY <1>1 DEF Inputs
<1> QED
  BY <1>1, <1>6, <1>7, <1>8 DEF H

\* An entry that is refused or fails: the library's client goes on without it.
LEMMA GivenUp ==
  ASSUME StagedInv, Counted, job.pc \in Adding, job.k <= Len(Inputs), GiveUp,
         UNCHANGED <<req, wr, tape, pipe, enc, made>>,
         staged'.batch = staged.batch, staged'.entries = staged.entries
  PROVE  Counted'
<1>1. job \in JobType /\ job.result = "none" /\ wr \in Writers /\ made = Nothing
  BY DEF StagedInv, CreationTypeOK, Stages, Adding
<1>2. Stream' = Stream
  BY DEF Stream
<1>3. CASE req.client # "library"
  <2>1. job'.pc = "over" /\ job'.result = "failed" /\ job'.k = job.k /\ job'.lost = job.lost
    BY <1>1, <1>3 DEF GiveUp, Fail, JobType
  <2>2. job'.pc \notin Early \cup Adding \cup Late
    BY <2>1 DEF Early, Adding, Late
  <2> QED
    BY <2>1, <2>2 DEF Counted, OneFile, Late
<1>4. CASE req.client = "library"
  <2>1. wr \in Recovering /\ ~Window
    BY <1>4 DEF StagedInv, Stages, Window
  <2>2. ~wr.threaded /\ wr.lay # "streamed" /\ ~Announces /\ ~Opened /\ ~Broken
    BY <1>1, <2>1, WriterFacts DEF Announces, Opened, Broken
  <2>3. /\ job'.pc = "entry" /\ job'.result = job.result /\ job'.k = job.k + 1
        /\ job'.lost = job.lost \cup {job.k} /\ job'.inputs = job.inputs /\ job.k \in Nat \ {0}
        /\ job.lost \subseteq Nat /\ Len(job.inputs) \in Nat
    <3>1. job' = [job EXCEPT !.k = job.k + 1, !.pos = 0, !.pc = "entry",
                             !.lost = job.lost \cup {job.k}]
      BY <1>4 DEF GiveUp
    <3>2. job.k \in Nat \ {0} /\ job.lost \subseteq Nat /\ Len(job.inputs) \in Nat
      BY <1>1 DEF JobType
    <3> QED
      BY <1>1, <3>1, <3>2 DEF JobType
  <2>4. \A k \in job'.lost : k < job'.k
    <3>1. \A k \in job.lost : k \in Nat /\ k < job.k
      BY <2>3 DEF Counted
    <3> QED
      BY <2>3, <3>1
  <2>5. \A n : Handled(n)' = Handled(n)
    <3>1. job'.k - 1 = job.k /\ (1..job.k) \ (job.lost \cup {job.k}) = (1..job.k - 1) \ job.lost
      BY <2>3
    <3> QED
      BY <2>3, <3>1 DEF Handled, Inputs
  <2>6. \A n \in Seq(Steps) : Written(n)' = Written(n) /\ Begun(n) = 0 /\ Begun(n)' = 0
    BY <1>2, <2>2, <2>3 DEF Written, BatchOf, PoolOf, Begun
  <2>7. \A n \in Seq(Steps) : Written(n)' = Cardinality(Handled(n)') + Begun(n)'
    BY <2>2, <2>5, <2>6 DEF Counted
  <2>8. job'.k <= Len(Inputs') + 1
    BY <2>3 DEF Inputs
  <2>9. job'.pc \in Adding /\ job'.pc \notin Early \cup {"join", "wrap", "check", "publish"}
        /\ job'.result # "ok"
    BY <1>1, <2>3 DEF Adding, Early
  <2> QED
    BY <1>2, <2>4, <2>7, <2>8, <2>9 DEF Counted, OneFile
<1> QED
  BY <1>3, <1>4

\* A step of the writer that keeps the count.
LEMMA CountedOn ==
  ASSUME StagedInv, Counted, UNCHANGED <<req, wr, enc, made>>, job'.pc \in Adding,
         job'.result = "none", job'.lost = job.lost,
         \A k \in job'.lost : k < job'.k, job'.k <= Len(Inputs') + 1,
         \A n \in Seq(Steps) : Written(n)' = Cardinality(Handled(n)') + Begun(n)',
         \A i \in 1..Len(staged'.batch) : OneFile(staged'.batch[i]),
         wr.lay # "pooled" => staged'.entries = staged.entries,
         ~wr.batched => staged'.batch = staged.batch,
         wr.lay = "pooled" => Stream' = <<>>
  PROVE  Counted'
<1>1. job'.pc \notin Early \cup {"join", "wrap", "check", "publish"}
  BY DEF Adding, Early
<1> QED
  BY <1>1 DEF Counted

\* What is put on the stream adds what it holds.
LEMMA StreamCounts ==
  ASSUME StagedInv, NEW items \in Seq(Item), Emit(items), NEW n
  PROVE  Count(Stream', n) = Count(Stream, n) + Count(items, n)
<1>1. Stream' = Stream \o items /\ Stream \in Seq(Item)
  BY StreamGrows, CountingTypes DEF StagedInv
<1> QED
  BY <1>1, CountJoin

\* What the pool is given.
LEMMA PoolMore ==
  ASSUME StagedInv, NEW e \in PooledEntry, staged'.entries = Append(staged.entries, e), NEW n
  PROVE  Cardinality(PoolOf(n)') = Cardinality(PoolOf(n)) + (IF ~e.dir /\ e.name = n THEN 1 ELSE 0)
<1> DEFINE m == Len(staged.entries)
           P == PoolOf(n)
<1>1. m \in Nat /\ Len(staged'.entries) = m + 1 /\ staged'.entries[m + 1] = e
      /\ \A i \in 1..m : staged'.entries[i] = staged.entries[i]
  <2>1. staged.entries \in Seq(PooledEntry)
    BY DEF StagedInv, CreationTypeOK, StagedType
  <2> QED
    BY <2>1
<1>2. PoolOf(n)' = (IF ~e.dir /\ e.name = n THEN P \cup {m + 1} ELSE P) /\ m + 1 \notin P
  <2>1. 1..m + 1 = (1..m) \cup {m + 1} /\ m + 1 \notin 1..m
    BY <1>1
  <2> QED
    BY <1>1, <2>1 DEF PoolOf
<1>3. IsFiniteSet(P) /\ Cardinality(P) \in Nat
  BY CountingTypes DEF StagedInv
<1> HIDE DEF P, m
<1>4. Cardinality(P \cup {m + 1}) = Cardinality(P) + 1
  BY <1>2, <1>3, FS_AddElement
<1> QED
  BY <1>2, <1>3, <1>4 DEF P

LEMMA AddDirectoryCounts ==
  ASSUME StagedInv, Counted, AddDirectory PROVE Counted'
<1>1. /\ job.pc = "entry" /\ job.k <= Len(Inputs) /\ Input.dir
      /\ UNCHANGED <<req, wr, enc, made>> /\ job.pc \in Adding /\ job.result = "none"
  BY DEF AddDirectory, At, Adding, StagedInv, Stages
<1>2. CASE EntryRefused
  BY <1>1, <1>2, GivenUp DEF EntryRefused
<1>3. CASE ~EntryRefused
  <2>1. /\ ~Broken /\ NextEntry
        /\ \/ /\ wr.lay = "pooled"
              /\ staged' = [staged EXCEPT !.entries =
                   Append(staged.entries, [name |-> Input.name, dir |-> TRUE, off |-> 0, n |-> 0])]
              /\ UNCHANGED <<pipe, tape>>
           \/ wr.lay # "pooled" /\ Emit(<<Folder(Input.name)>>) /\ UNCHANGED staged
    BY <1>3 DEF AddDirectory
  <2>2. Input.name \in Seq(Steps) /\ Folder(Input.name) \in Item
    BY <1>1, CurrentInput DEF StagedInv, InputType
  <2>3. \A n : Cardinality(Handled(n)') = Cardinality(Handled(n))
    <3>1. \A n : Cardinality(Handled(n)') = Cardinality(Handled(n)) + 0
      BY <1>1, <2>1, HandledMore
    <3> QED
      BY <3>1, CountingTypes DEF StagedInv
  <2>4. /\ job'.pc = "entry" /\ job'.result = "none" /\ job'.lost = job.lost
        /\ \A k \in job'.lost : k < job'.k
        /\ job'.k <= Len(Inputs') + 1
    <3>1. job'.lost = job.lost
      BY <2>1 DEF NextEntry, StagedInv, CreationTypeOK, JobType
    <3> QED
      BY <1>1, <2>1, <3>1, HandledMore
  <2>5. \A n \in Seq(Steps) : Begun(n) = 0 /\ Begun(n)' = 0
    BY <1>1, <2>4 DEF Begun
  <2>6. \A n \in Seq(Steps) : Written(n) = Cardinality(Handled(n))
    <3>1. \A n \in Seq(Steps) : Written(n) = Cardinality(Handled(n)) + 0
      BY <1>1, <2>1, <2>5 DEF Counted
    <3> QED
      BY <3>1, CountingTypes DEF StagedInv
  <2>7. staged \in StagedType
    BY DEF StagedInv, CreationTypeOK
  <2>8. ASSUME \A n \in Seq(Steps) : Written(n)' = Written(n), staged'.batch = staged.batch,
               wr.lay # "pooled" => staged'.entries = staged.entries,
               wr.lay = "pooled" => Stream' = Stream
        PROVE  Counted'
    <3>1. \A n \in Seq(Steps) : Written(n)' = Cardinality(Handled(n)') + Begun(n)'
      <4>1. \A n : Cardinality(Handled(n)') + 0 = Cardinality(Handled(n))
        BY <2>3, CountingTypes DEF StagedInv
      <4> QED
        BY <2>5, <2>6, <2>8, <4>1
    <3>2. \A i \in 1..Len(staged'.batch) : OneFile(staged'.batch[i])
      BY <2>8 DEF Counted
    <3>3. wr.lay = "pooled" => Stream' = <<>>
      BY <1>1, <2>8 DEF Counted
    <3>4. job'.pc \in Adding
      BY <2>4 DEF Adding
    <3> QED
      BY <1>1, <2>4, <2>8, <3>1, <3>2, <3>3, <3>4, CountedOn
  <2>9. CASE wr.lay = "pooled"
    <3> DEFINE e == [name |-> Input.name, dir |-> TRUE, off |-> 0, n |-> 0]
    <3>1. e \in PooledEntry /\ e.dir = TRUE
      BY <2>2 DEF PooledEntry
    <3>2. staged' = [staged EXCEPT !.entries = Append(staged.entries, e)] /\ UNCHANGED <<pipe, tape>>
      BY <2>1, <2>9
    <3> HIDE DEF e
    <3>3. staged'.entries = Append(staged.entries, e) /\ staged'.batch = staged.batch
      BY <2>7, <3>2 DEF StagedType
    <3>4. \A n \in Seq(Steps) : Cardinality(PoolOf(n)') = Cardinality(PoolOf(n))
      <4>1. \A n \in Seq(Steps) : Cardinality(PoolOf(n)') = Cardinality(PoolOf(n)) + 0
        BY <3>1, <3>3, PoolMore
      <4> QED
        BY <4>1, CountingTypes DEF StagedInv
    <3>5. Stream' = Stream
      BY <3>2 DEF Stream
    <3>6. \A n \in Seq(Steps) : Written(n)' = Written(n)
      BY <3>3, <3>4, <3>5 DEF Written, BatchOf
    <3> QED
      BY <2>8, <2>9, <3>3, <3>5, <3>6
  <2>10. CASE wr.lay # "pooled"
    <3>1. Emit(<<Folder(Input.name)>>) /\ UNCHANGED staged
      BY <2>1, <2>10
    <3>2. \A n \in Seq(Steps) : Count(Stream', n) = Count(Stream, n)
      <4>1. Folder(Input.name).tag # "head"
        BY DEF Folder
      <4>2. <<Folder(Input.name)>> \in Seq(Item) /\ \A n : Count(<<Folder(Input.name)>>, n) = 0
        BY <2>2, <4>1, CountSingle
      <4>3. \A n \in Seq(Steps) : Count(Stream', n) = Count(Stream, n) + 0
        BY <3>1, <4>2, StreamCounts
      <4> QED
        BY <4>3, CountingTypes DEF StagedInv
    <3>3. \A n \in Seq(Steps) : Written(n)' = Written(n)
      BY <3>1, <3>2 DEF Written, BatchOf, PoolOf
    <3> QED
      BY <2>8, <2>10, <3>1, <3>3
  <2> QED
    BY <2>9, <2>10
<1> QED
  BY <1>2, <1>3

LEMMA OpenCounts ==
  ASSUME StagedInv, Counted, Open PROVE Counted'
<1>1. /\ job.pc = "entry" /\ job.k <= Len(Inputs) /\ ~Input.dir
      /\ UNCHANGED <<req, wr, enc, made>> /\ job.pc \in Adding /\ job.result = "none"
  BY DEF Open, At, Adding, StagedInv, Stages
<1>2. CASE EntryRefused
  BY <1>1, <1>2, GivenUp DEF EntryRefused
<1>3. CASE ~EntryRefused
  <2>1. /\ ~Broken /\ job' = [job EXCEPT !.pc = "read"] /\ UNCHANGED staged
        /\ \/ Announces /\ Emit(<<Header(Input.name, Input.size)>>)
           \/ ~Announces /\ wr.lay = "streamed" /\ Emit(<<Header(Input.name, 0)>>)
           \/ ~Announces /\ wr.lay # "streamed" /\ UNCHANGED <<pipe, tape>>
    BY <1>3 DEF Open
  <2>2. job \in JobType /\ wr \in Writers
    BY DEF StagedInv, CreationTypeOK
  <2>3. job'.pc = "read" /\ job'.k = job.k /\ job'.lost = job.lost /\ job'.inputs = job.inputs
        /\ job'.result = "none"
    BY <1>1, <2>1, <2>2 DEF JobType
  <2>4. Inputs' = Inputs /\ Input' = Input /\ Opened' = Opened
    BY <1>1, <2>3 DEF Inputs, Input, Opened, Announces, Window
  <2>5. Input.name \in Seq(Steps) /\ Input.size \in Nat
    BY <1>1, CurrentInput DEF StagedInv, InputType
  <2>6. \A n \in Seq(Steps) : Count(Stream', n) =
          Count(Stream, n) + (IF Opened /\ Input.name = n THEN 1 ELSE 0)
    <3>1. CASE Opened
      <4>1. PICK z \in Nat : Emit(<<Header(Input.name, z)>>)
        BY <2>1, <2>5, <3>1 DEF Opened
      <4>2. Header(Input.name, z) \in Item /\ Header(Input.name, z).tag = "head"
            /\ Header(Input.name, z).name = Input.name
        BY <2>5 DEF Item, Header
      <4>3. /\ <<Header(Input.name, z)>> \in Seq(Item)
            /\ \A n : Count(<<Header(Input.name, z)>>, n) = IF Input.name = n THEN 1 ELSE 0
        BY <4>2, CountSingle
      <4>4. \A n : Count(Stream', n) = Count(Stream, n) + Count(<<Header(Input.name, z)>>, n)
        BY <4>1, <4>3, StreamCounts
      <4> QED
        BY <3>1, <4>3, <4>4
    <3>2. CASE ~Opened
      <4>1. Stream' = Stream
        BY <2>1, <3>2 DEF Opened, Stream
      <4> QED
        BY <3>2, <4>1, CountingTypes DEF StagedInv
    <3> QED
      BY <3>1, <3>2
  <2>7. \A n \in Seq(Steps) : Written(n)' = Cardinality(Handled(n)') + Begun(n)'
    <3> SUFFICES ASSUME NEW n \in Seq(Steps) PROVE Written(n)' = Cardinality(Handled(n)') + Begun(n)'
      OBVIOUS
    <3>1. Handled(n)' = Handled(n)
      BY <2>3 DEF Handled, Inputs
    <3>2. BatchOf(n)' = BatchOf(n) /\ PoolOf(n)' = PoolOf(n)
      BY <2>1 DEF BatchOf, PoolOf
    <3>3. Begun(n) = 0 /\ Begun(n)' = (IF Opened /\ Input.name = n THEN 1 ELSE 0)
      BY <1>1, <2>3, <2>4 DEF Begun
    <3>4. Written(n) = Cardinality(Handled(n)) + Begun(n)
      BY <1>1, <2>1 DEF Counted
    <3>5. /\ Count(Stream, n) \in Nat /\ Cardinality(BatchOf(n)) \in Nat
          /\ Cardinality(PoolOf(n)) \in Nat /\ Cardinality(Handled(n)) \in Nat
      BY CountingTypes DEF StagedInv
    <3>6. Begun(n)' \in {0, 1} /\ Count(Stream', n) = Count(Stream, n) + Begun(n)'
      BY <2>6, <3>3
    <3>7. Written(n) = Count(Stream, n) + Cardinality(BatchOf(n)) + Cardinality(PoolOf(n))
          /\ Written(n)' = Count(Stream', n) + Cardinality(BatchOf(n)') + Cardinality(PoolOf(n)')
      BY DEF Written
    <3> HIDE DEF Written, Begun, Handled
    <3> QED
      BY <3>1, <3>2, <3>3, <3>4, <3>5, <3>6, <3>7
  <2>8. wr.lay = "pooled" => Stream' = <<>>
    <3>1. wr.lay = "pooled" => ~Announces
      BY <2>2, WriterFacts DEF Announces
    <3> QED
      BY <1>1, <2>1, <3>1 DEF Counted, Stream
  <2>9. job'.pc \in Adding /\ job'.k <= Len(Inputs') + 1
    BY <1>1, <2>3, <2>4 DEF Adding, Counted
  <2>10. \A k \in job'.lost : k < job'.k
    BY <2>3 DEF Counted
  <2>11. \A i \in 1..Len(staged'.batch) : OneFile(staged'.batch[i])
    BY <2>1 DEF Counted
  <2> QED
    BY <1>1, <2>1, <2>3, <2>7, <2>8, <2>9, <2>10, <2>11, CountedOn
<1> QED
  BY <1>2, <1>3

LEMMA ReadCounts ==
  ASSUME StagedInv, Counted, Read \/ ReadFails PROVE Counted'
<1>1. /\ job.pc = "read" /\ job.k <= Len(Inputs) /\ ~Input.dir
      /\ UNCHANGED <<req, wr, enc, made>> /\ job.pc \in Adding /\ job.result = "none"
  BY DEF Read, ReadFails, At, Adding, StagedInv, Stages
<1>2. CASE EntryFails
  <2>1. GiveUp /\ RollBack /\ UNCHANGED <<pipe, tape>>
    BY <1>2 DEF EntryFails
  <2>2. staged'.batch = staged.batch /\ staged'.entries = staged.entries
    BY <2>1, RollingBack DEF StagedInv, Stages
  <2> QED
    BY <1>1, <2>1, <2>2, GivenUp
<1>3. CASE ~EntryFails
  <2> DEFINE b == Block(Input.path, job.pos + 1)
  <2>1. /\ ~Broken /\ job' = [job EXCEPT !.pos = job.pos + 1]
        /\ \/ wr.lay = "pooled" /\ staged' = Pooled(b) /\ UNCHANGED <<pipe, tape>>
           \/ wr.lay # "pooled" /\ Emit(<<b>>) /\ UNCHANGED staged
           \/ wr.lay # "pooled" /\ UNCHANGED <<staged, pipe, tape>>
    <3>1. Read
      BY <1>3 DEF ReadFails
    <3> QED
      BY <1>3, <3>1 DEF Read
  <2>2. job \in JobType /\ wr \in Writers /\ job.pos + 1 \in Nat /\ staged \in StagedType
    BY DEF StagedInv, CreationTypeOK, JobType
  <2>3. b \in Item /\ b.tag = "block"
    BY <1>1, <2>2, CurrentInput DEF StagedInv, Block
  <2> HIDE DEF b
  <2>4. job'.pc = "read" /\ job'.k = job.k /\ job'.lost = job.lost /\ job'.inputs = job.inputs
        /\ job'.result = "none"
    BY <1>1, <2>1, <2>2 DEF JobType
  <2>5. Inputs' = Inputs /\ Input' = Input /\ Opened' = Opened
    BY <1>1, <2>4 DEF Inputs, Input, Opened, Announces, Window
  <2>6. staged'.batch = staged.batch /\ staged'.entries = staged.entries
    <3>1. Pooled(b).batch = staged.batch /\ Pooled(b).entries = staged.entries
      BY <2>2 DEF Pooled, StagedType
    <3> QED
      BY <2>1, <3>1
  <2>7. \A n \in Seq(Steps) : Count(Stream', n) = Count(Stream, n)
    <3>1. CASE UNCHANGED <<pipe, tape>>
      BY <3>1 DEF Stream
    <3>2. CASE Emit(<<b>>)
      <4>1. <<b>> \in Seq(Item) /\ \A n : Count(<<b>>, n) = 0
        BY <2>3, CountSingle
      <4>2. \A n \in Seq(Steps) : Count(Stream', n) = Count(Stream, n) + 0
        BY <3>2, <4>1, StreamCounts
      <4> QED
        BY <4>2, CountingTypes DEF StagedInv
    <3> QED
      BY <2>1, <3>1, <3>2
  <2>8. \A n \in Seq(Steps) : Written(n)' = Cardinality(Handled(n)') + Begun(n)'
    <3> SUFFICES ASSUME NEW n \in Seq(Steps) PROVE Written(n)' = Cardinality(Handled(n)') + Begun(n)'
      OBVIOUS
    <3>1. Handled(n)' = Handled(n)
      BY <2>4 DEF Handled, Inputs
    <3>2. BatchOf(n)' = BatchOf(n) /\ PoolOf(n)' = PoolOf(n)
      BY <2>6 DEF BatchOf, PoolOf
    <3>3. Begun(n)' = Begun(n)
      BY <1>1, <2>4, <2>5 DEF Begun
    <3>4. Written(n)' = Written(n)
      BY <2>7, <3>2 DEF Written
    <3> QED
      BY <1>1, <2>1, <3>1, <3>3, <3>4 DEF Counted
  <2>9. wr.lay = "pooled" => Stream' = <<>>
    BY <1>1, <2>1 DEF Counted, Stream
  <2>10. job'.pc \in Adding /\ job'.k <= Len(Inputs') + 1 /\ \A k \in job'.lost : k < job'.k
    BY <1>1, <2>4, <2>5 DEF Adding, Counted
  <2>11. \A i \in 1..Len(staged'.batch) : OneFile(staged'.batch[i])
    BY <2>6 DEF Counted
  <2> QED
    BY <1>1, <2>4, <2>6, <2>8, <2>9, <2>10, <2>11, CountedOn
<1> QED
  BY <1>2, <1>3

\* What the batch is given.
LEMMA BatchMore ==
  ASSUME StagedInv, NEW n
  PROVE  LET b == Append(staged.batch, Entry)
         IN  (Count(Entry, n) \in {0, 1}) =>
               Cardinality({i \in 1..Len(b) : Count(b[i], n) = 1})
                 = Cardinality(BatchOf(n)) + Count(Entry, n)
<1> DEFINE b == Append(staged.batch, Entry)
           m == Len(staged.batch)
           B == BatchOf(n)
           C == {i \in 1..Len(b) : Count(b[i], n) = 1}
<1> SUFFICES ASSUME Count(Entry, n) \in {0, 1}
             PROVE  Cardinality(C) = Cardinality(B) + Count(Entry, n)
  OBVIOUS
<1>1. m \in Nat /\ Len(b) = m + 1 /\ b[m + 1] = Entry /\ \A i \in 1..m : b[i] = staged.batch[i]
  <2>1. staged.batch \in Seq(Seq(Item))
    BY DEF StagedInv, CreationTypeOK, StagedType
  <2> QED
    BY <2>1
<1> HIDE DEF b
<1>2. C = (IF Count(Entry, n) = 1 THEN B \cup {m + 1} ELSE B) /\ m + 1 \notin B
  <2>1. 1..m + 1 = (1..m) \cup {m + 1} /\ m + 1 \notin 1..m
    BY <1>1
  <2> QED
    BY <1>1, <2>1 DEF BatchOf
<1>3. IsFiniteSet(B) /\ Cardinality(B) \in Nat
  BY CountingTypes DEF StagedInv
<1> HIDE DEF B, C, m
<1>4. Cardinality(B \cup {m + 1}) = Cardinality(B) + 1
  BY <1>2, <1>3, FS_AddElement
<1> QED
  BY <1>2, <1>3, <1>4

\* An entry that ends is written, batched or pooled; none is counted twice.
LEMMA EntryEndsCounts ==
  ASSUME StagedInv, Contents, Counted, EntryEnds PROVE Counted'
<1>1. /\ job.pc = "read" /\ job.k <= Len(Inputs) /\ ~Input.dir
      /\ UNCHANGED <<req, wr, enc, made>> /\ job.pc \in Adding /\ job.result = "none"
  BY DEF EntryEnds, At, Adding, StagedInv, Stages
<1>2. CASE EntryFails
  <2>1. GiveUp /\ RollBack /\ UNCHANGED <<pipe, tape>>
    BY <1>2 DEF EntryFails
  <2>2. staged'.batch = staged.batch /\ staged'.entries = staged.entries
    BY <2>1, RollingBack DEF StagedInv, Stages
  <2> QED
    BY <1>1, <2>1, <2>2, GivenUp
<1>3. CASE ~EntryFails
  <2>1. ~Short /\ ~Broken /\ NextEntry
    BY <1>3 DEF EntryEnds
  <2>2. job \in JobType /\ wr \in Writers /\ job.pos \in Nat /\ staged \in StagedType
    BY DEF StagedInv, CreationTypeOK, JobType
  <2>3. /\ job'.pc = "entry" /\ job'.result = "none" /\ job'.lost = job.lost
        /\ \A k \in job'.lost : k < job'.k
        /\ job'.k <= Len(Inputs') + 1
    <3>1. job'.lost = job.lost
      BY <2>1, <2>2 DEF NextEntry, JobType
    <3> QED
      BY <1>1, <2>1, <3>1, HandledMore
  <2>4. Input.name \in Seq(Steps) /\ Input.path \in Paths /\ Input.size \in Nat
    BY <1>1, CurrentInput DEF StagedInv, InputType
  <2> DEFINE One(n) == IF Input.name = n THEN 1 ELSE 0
  <2>5. \A n \in Seq(Steps) : Cardinality(Handled(n)') = Cardinality(Handled(n)) + One(n)
    BY <1>1, <2>1, HandledMore
  <2>6. \A n \in Seq(Steps) : Count(Entry, n) = One(n)
    BY <2>2, <2>4, CountFile DEF Entry
  <2>7. Entry \in Seq(Item) /\ Append(staged.batch, Entry) \in Seq(Seq(Item))
    BY <1>1, EntryItems DEF StagedInv
  <2>8. \A n \in Seq(Steps) : One(n) \in {0, 1}
    OBVIOUS
  <2>9. \A n \in Seq(Steps) :
          /\ Written(n) = Cardinality(Handled(n)) + (IF Opened THEN One(n) ELSE 0)
          /\ Begun(n)' = 0
    BY <1>1, <2>1, <2>3 DEF Counted, Begun
  <2>10. \A n \in Seq(Steps) :
           /\ Count(Stream, n) \in Nat /\ Cardinality(BatchOf(n)) \in Nat
           /\ Cardinality(PoolOf(n)) \in Nat /\ Cardinality(Handled(n)) \in Nat
    BY CountingTypes DEF StagedInv
  <2> HIDE DEF One
  <2>11. ASSUME \A n \in Seq(Steps) : Written(n)' = Written(n) + (IF Opened THEN 0 ELSE One(n)),
                wr.lay # "pooled" => staged'.entries = staged.entries,
                ~wr.batched => staged'.batch = staged.batch,
                \A i \in 1..Len(staged'.batch) : OneFile(staged'.batch[i]),
                wr.lay = "pooled" => Stream' = Stream
         PROVE  Counted'
    <3>1. \A n \in Seq(Steps) : Written(n)' = Cardinality(Handled(n)') + Begun(n)'
      <4> SUFFICES ASSUME NEW n \in Seq(Steps)
                   PROVE  Written(n)' = Cardinality(Handled(n)') + Begun(n)'
        OBVIOUS
      <4>1. /\ Written(n)' = Written(n) + (IF Opened THEN 0 ELSE One(n))
            /\ Written(n) = Cardinality(Handled(n)) + (IF Opened THEN One(n) ELSE 0)
            /\ Begun(n)' = 0 /\ Cardinality(Handled(n)') = Cardinality(Handled(n)) + One(n)
            /\ One(n) \in {0, 1} /\ Cardinality(Handled(n)) \in Nat
        BY <2>5, <2>8, <2>9, <2>10, <2>11
      <4> HIDE DEF Written, Begun, Handled
      <4> QED
        BY <4>1
    <3>2. wr.lay = "pooled" => Stream' = <<>>
      BY <1>1, <2>11 DEF Counted
    <3>3. job'.pc \in Adding
      BY <2>3 DEF Adding
    <3> QED
      BY <1>1, <2>3, <2>11, <3>1, <3>2, <3>3, CountedOn
  <2>12. ASSUME staged' = staged, ~Opened,
                \A n \in Seq(Steps) : Count(Stream', n) = Count(Stream, n) + One(n), wr.lay # "pooled"
         PROVE  Counted'
    <3>1. \A n \in Seq(Steps) : Written(n)' = Written(n) + One(n)
      <4> SUFFICES ASSUME NEW n \in Seq(Steps) PROVE Written(n)' = Written(n) + One(n)
        OBVIOUS
      <4>1. BatchOf(n)' = BatchOf(n) /\ PoolOf(n)' = PoolOf(n)
        BY <2>12 DEF BatchOf, PoolOf
      <4>2. Written(n)' = Count(Stream', n) + Cardinality(BatchOf(n)) + Cardinality(PoolOf(n))
        BY <4>1 DEF Written
      <4> QED
        BY <2>8, <2>10, <2>12, <4>2 DEF Written
    <3> QED
      BY <2>11, <2>12, <3>1 DEF Counted
  <2>13. ASSUME staged' = staged, Opened,
                \A n \in Seq(Steps) : Count(Stream', n) = Count(Stream, n), wr.lay # "pooled"
         PROVE  Counted'
    <3>1. \A n \in Seq(Steps) : Written(n)' = Written(n) + 0
      <4> SUFFICES ASSUME NEW n \in Seq(Steps) PROVE Written(n)' = Written(n) + 0
        OBVIOUS
      <4>1. BatchOf(n)' = BatchOf(n) /\ PoolOf(n)' = PoolOf(n)
        BY <2>13 DEF BatchOf, PoolOf
      <4> QED
        BY <2>10, <2>13, <4>1 DEF Written
    <3> QED
      BY <2>11, <2>13, <3>1 DEF Counted
  <2>14. (CASE wr.lay = "pooled" ->
                /\ staged' = [staged EXCEPT
                     !.used = @ + job.pos,
                     !.entries = Append(@, [name |-> Input.name, dir |-> FALSE,
                                            off |-> staged.used, n |-> job.pos])]
                /\ UNCHANGED <<pipe, tape>>
           [] wr.lay = "streamed" ->
                tape' = Completed /\ UNCHANGED <<staged, pipe>>
           [] wr.batched -> Batched /\ UNCHANGED pipe
           [] Announces -> UNCHANGED <<staged, pipe, tape>>
           [] OTHER -> Emit(Entry) /\ UNCHANGED staged)
    BY <1>3, <2>1 DEF EntryEnds
  <2>15. CASE wr.lay = "pooled"
    <3> DEFINE e == [name |-> Input.name, dir |-> FALSE, off |-> staged.used, n |-> job.pos]
    <3>1. wr.lay # "streamed" /\ ~wr.batched /\ ~Announces /\ ~Opened
      BY <2>2, <2>15, WriterFacts DEF Announces, Opened
    <3>2. /\ staged' = [staged EXCEPT !.used = staged.used + job.pos,
                                      !.entries = Append(staged.entries, e)]
          /\ UNCHANGED <<pipe, tape>>
      BY <2>14, <2>15, <3>1
    <3>3. e \in PooledEntry /\ e.dir = FALSE /\ e.name = Input.name
      BY <2>2, <2>4 DEF PooledEntry, StagedType
    <3> HIDE DEF e
    <3>4. staged'.entries = Append(staged.entries, e) /\ staged'.batch = staged.batch
      BY <2>2, <3>2 DEF StagedType
    <3>5. Stream' = Stream
      BY <3>2 DEF Stream
    <3>6. \A n \in Seq(Steps) : Written(n)' = Written(n) + One(n)
      <4> SUFFICES ASSUME NEW n \in Seq(Steps) PROVE Written(n)' = Written(n) + One(n)
        OBVIOUS
      <4>1. Cardinality(PoolOf(n)') = Cardinality(PoolOf(n)) + One(n)
        BY <3>3, <3>4, PoolMore DEF One
      <4>2. Written(n)' = Count(Stream, n) + Cardinality(BatchOf(n)) + Cardinality(PoolOf(n)')
        BY <3>4, <3>5 DEF Written, BatchOf
      <4> QED
        BY <2>8, <2>10, <4>1, <4>2 DEF Written
    <3>7. \A i \in 1..Len(staged'.batch) : OneFile(staged'.batch[i])
      BY <3>4 DEF Counted
    <3> QED
      BY <2>11, <2>15, <3>1, <3>4, <3>5, <3>6, <3>7
  <2>16. CASE wr.lay = "streamed"
    <3>1. wr.lay # "pooled" /\ ~wr.batched /\ ~Announces /\ Opened /\ ~wr.threaded
      BY <2>2, <2>16, WriterFacts DEF Announces, Opened
    <3>2. tape' = Completed /\ UNCHANGED <<staged, pipe>>
      BY <2>14, <2>16, <3>1
    <3>3. PICK base : Whole(Inputs, base) /\ Stream = base \o Partly
      BY <1>1, <2>1, <3>1 DEF Contents, At
    <3>4. pipe = <<>> /\ tape \in Seq(Item)
      BY <3>1 DEF StagedInv, CreationTypeOK, Stages
    <3>5. tape \o <<>> = tape /\ Stream = tape
      BY <3>4 DEF Stream
    <3>6. Completed = base \o Entry /\ base \in Seq(Item)
      BY <1>1, <2>16, <3>3, <3>5, CompletedTape DEF Whole
    <3>7. Completed \in Seq(Item)
      BY <2>7, <3>6, Joined
    <3>8. Completed \o <<>> = Completed
      BY <3>7
    <3>9. Stream' = base \o Entry
      BY <3>2, <3>4, <3>6, <3>8 DEF Stream
    <3>10. Size \in Nat
      BY <2>4 DEF Size
    <3>11. Partly \in Seq(Item)
      <4>1. Header(Input.name, Size) \in Item /\ Blocks(Input.path, job.pos) \in Seq(Item)
        BY <1>1, <2>2, <3>10, CurrentInput DEF StagedInv
      <4> QED
        BY <4>1 DEF Partly
    <3>12. \A n \in Seq(Steps) : Count(Stream', n) = Count(Stream, n)
      <4> SUFFICES ASSUME NEW n \in Seq(Steps) PROVE Count(Stream', n) = Count(Stream, n)
        OBVIOUS
      <4>1. Count(Partly, n) = One(n)
        BY <2>2, <2>4, <3>10, CountFile DEF Partly, One
      <4> QED
        BY <2>6, <2>7, <3>3, <3>6, <3>9, <3>11, <4>1, CountJoin
    <3> QED
      BY <2>13, <3>1, <3>2, <3>12
  <2>17. CASE wr.batched
    <3>1. wr.lay = "measured" /\ ~wr.threaded /\ ~Announces /\ ~Opened /\ wr.lay # "pooled"
      BY <2>2, <2>17, WriterFacts DEF Announces, Opened
    <3>2. Batched /\ UNCHANGED pipe
      BY <2>14, <2>17, <3>1
    <3> DEFINE b == Append(staged.batch, Entry)
    <3>3. b \in Seq(Seq(Item)) /\ \A i \in 1..Len(b) : OneFile(b[i])
      <4>1. \A i \in 1..Len(b) : b[i] = Entry \/ (i \in 1..Len(staged.batch) /\ b[i] = staged.batch[i])
        BY <2>2, <2>7 DEF StagedType
      <4>2. OneFile(Entry)
        BY <2>6, <2>8 DEF OneFile
      <4> QED
        BY <2>7, <4>1, <4>2 DEF Counted
    <3>4. \A n \in Seq(Steps) : Cardinality({i \in 1..Len(b) : Count(b[i], n) = 1})
                                  = Cardinality(BatchOf(n)) + One(n)
      BY <2>6, <2>8, BatchMore
    <3>5. /\ \/ staged' = [staged EXCEPT !.batch = b] /\ UNCHANGED tape
             \/ staged' = [staged EXCEPT !.batch = <<>>] /\ tape' = tape \o FlatBatch(b)
      BY <3>2 DEF Batched
    <3> HIDE DEF b
    <3>6. CASE staged' = [staged EXCEPT !.batch = b] /\ UNCHANGED tape
      <4>1. staged'.batch = b /\ staged'.entries = staged.entries
        BY <2>2, <3>6 DEF StagedType
      <4>2. Stream' = Stream
        BY <3>2, <3>6 DEF Stream
      <4>3. \A n \in Seq(Steps) : Written(n)' = Written(n) + One(n)
        <5> SUFFICES ASSUME NEW n \in Seq(Steps) PROVE Written(n)' = Written(n) + One(n)
          OBVIOUS
        <5>1. BatchOf(n)' = {i \in 1..Len(b) : Count(b[i], n) = 1} /\ PoolOf(n)' = PoolOf(n)
          BY <4>1 DEF BatchOf, PoolOf
        <5>2. Written(n)' = Count(Stream, n) + (Cardinality(BatchOf(n)) + One(n)) + Cardinality(PoolOf(n))
          BY <3>4, <4>2, <5>1 DEF Written
        <5> QED
          BY <2>8, <2>10, <5>2 DEF Written
      <4> QED
        BY <2>11, <2>17, <3>1, <3>3, <4>1, <4>3
    <3>7. CASE staged' = [staged EXCEPT !.batch = <<>>] /\ tape' = tape \o FlatBatch(b)
      <4>1. staged'.batch = <<>> /\ staged'.entries = staged.entries
        BY <2>2, <3>7 DEF StagedType
      <4>2. FlatBatch(b) \in Seq(Item)
            /\ \A n \in Seq(Steps) : Count(FlatBatch(b), n) = Cardinality(BatchOf(n)) + One(n)
        <5>1. \A n \in Seq(Steps) :
                /\ FlattenSeq(b) \in Seq(Item)
                /\ Count(FlattenSeq(b), n) = Cardinality({i \in 1..Len(b) : Count(b[i], n) = 1})
          BY <3>3, FlattenedCount DEF OneFile
        <5>2. <<>> \in Seq(Steps)
          OBVIOUS
        <5> QED
          BY <3>4, <5>1, <5>2 DEF FlatBatch
      <4>3. Stream' = Stream \o FlatBatch(b)
        <5>1. tape \in Seq(Item) /\ pipe = <<>>
          BY <3>1 DEF StagedInv, CreationTypeOK, Stages
        <5>2. tape \o <<>> = tape /\ (tape \o FlatBatch(b)) \o <<>> = tape \o FlatBatch(b)
          BY <4>2, <5>1
        <5> QED
          BY <3>2, <3>7, <5>1, <5>2 DEF Stream
      <4>4. \A n \in Seq(Steps) : Written(n)' = Written(n) + One(n)
        <5> SUFFICES ASSUME NEW n \in Seq(Steps) PROVE Written(n)' = Written(n) + One(n)
          OBVIOUS
        <5>1. BatchOf(n)' = {} /\ PoolOf(n)' = PoolOf(n)
          BY <4>1 DEF BatchOf, PoolOf
        <5>2. Count(Stream', n) = Count(Stream, n) + (Cardinality(BatchOf(n)) + One(n))
          <6>1. Stream \in Seq(Item)
            BY CountingTypes DEF StagedInv
          <6> QED
            BY <4>2, <4>3, <6>1, CountJoin
        <5>3. Written(n)' = Count(Stream', n) + 0 + Cardinality(PoolOf(n))
          BY <5>1, FS_EmptySet DEF Written
        <5> QED
          BY <2>8, <2>10, <5>2, <5>3 DEF Written
      <4>5. \A i \in 1..Len(staged'.batch) : OneFile(staged'.batch[i])
        BY <4>1
      <4> QED
        BY <2>11, <2>17, <3>1, <4>1, <4>4, <4>5
    <3> QED
      BY <3>5, <3>6, <3>7
  <2>18. CASE Announces
    <3>1. wr.lay = "measured" /\ wr.lay # "pooled" /\ wr.lay # "streamed" /\ ~wr.batched /\ Opened
      BY <2>2, <2>18, WriterFacts DEF Announces, Opened
    <3>2. UNCHANGED <<staged, pipe, tape>>
      BY <2>14, <2>18, <3>1
    <3>3. Stream' = Stream
      BY <3>2 DEF Stream
    <3> QED
      BY <2>13, <3>1, <3>2, <3>3
  <2>19. CASE wr.lay = "measured" /\ ~wr.batched /\ ~Announces
    <3>1. Emit(Entry) /\ UNCHANGED staged /\ ~Opened
      BY <2>14, <2>19 DEF Opened
    <3>2. \A n \in Seq(Steps) : Count(Stream', n) = Count(Stream, n) + One(n)
      BY <2>6, <2>7, <3>1, StreamCounts
    <3> QED
      BY <2>12, <2>19, <3>1, <3>2
  <2> QED
    BY <2>2, <2>15, <2>16, <2>17, <2>18, <2>19, WriterFacts
<1> QED
  BY <1>2, <1>3

\* Before there are inputs there is nothing to count.
LEMMA CollectingCounts ==
  ASSUME StagedInv, Counted, Validate \/ Roots \/ Walk \/ Walked \/ Collect \/ Collected
  PROVE  Counted'
<1>1. job \in JobType /\ job.pc \in Early /\ job.result = "none" /\ UNCHANGED <<wr, made, writer>>
  BY CollectingTypes DEF Validate, Roots, Walk, Walked, Collect, Collected, At, Early,
     StagedInv, CreationTypeOK, Stages
<1>2. /\ job'.k = job.k /\ job'.lost = job.lost /\ job'.inputs \in Seq(InputType)
      /\ job'.pc \in Early \cup {"entry", "over"} /\ job'.result \in {"none", "failed"}
  <2>0. job'.inputs \in Seq(InputType)
    BY CollectingTypes DEF StagedInv, CreationTypeOK, JobType
  <2>1. Fail => job'.k = job.k /\ job'.lost = job.lost /\ job'.pc = "over" /\ job'.result = "failed"
    BY <1>1 DEF Fail, JobType
  <2>2. \A l : Go(l) => job'.k = job.k /\ job'.lost = job.lost /\ job'.pc = l
                       /\ job'.result = job.result
    BY <1>1 DEF Go, JobType
  <2>3. CASE Validate
    BY <1>1, <2>0, <2>1, <2>2, <2>3 DEF Validate, Early
  <2>4. CASE Roots
    <3>1. Fail \/ \E st : job' = [job EXCEPT !.pc = "walk", !.stack = st]
      BY <2>4 DEF Roots
    <3> QED
      BY <1>1, <2>0, <2>1, <3>1 DEF JobType, Early
  <2>5. CASE Walk
    <3>1. \/ Fail \/ \E st : job' = [job EXCEPT !.stack = st]
          \/ \E st, ins : job' = [job EXCEPT !.stack = st, !.inputs = ins]
      BY <2>5 DEF Walk
    <3> QED
      BY <1>1, <2>0, <2>1, <3>1 DEF JobType
  <2>6. CASE Walked
    BY <1>1, <2>0, <2>1, <2>2, <2>6 DEF Walked
  <2>7. CASE Collect
    <3>1. Fail \/ (job'.k = job.k /\ job'.lost = job.lost /\ job'.pc = job.pc /\ job'.result = job.result)
      BY <1>1, <2>7 DEF Collect, JobType
    <3> QED
      BY <1>1, <2>0, <2>1, <3>1
  <2>8. CASE Collected
    <3>1. Fail \/ \E ins : job' = [job EXCEPT !.pc = "entry", !.inputs = ins]
      BY <2>8 DEF Collected
    <3> QED
      BY <1>1, <2>0, <2>1, <3>1 DEF JobType
  <2> QED
    BY <2>3, <2>4, <2>5, <2>6, <2>7, <2>8
<1>3. job.k = 1 /\ tape = <<>> /\ pipe = <<>> /\ staged.batch = <<>> /\ staged.entries = <<>>
  BY <1>1 DEF Counted, StagedInv, Stages
<1>4. Stream' = <<>> /\ staged' = staged
  <2>1. <<>> \o <<>> = <<>>
    OBVIOUS
  <2> QED
    BY <1>1, <1>3, <2>1 DEF Stream, writer
<1>5. \A n \in Seq(Steps) : Written(n)' = Cardinality(Handled(n)') + Begun(n)' \/ job'.pc = "over"
  <2> SUFFICES ASSUME NEW n \in Seq(Steps), job'.pc # "over"
               PROVE  Written(n)' = Cardinality(Handled(n)') + Begun(n)'
    OBVIOUS
  <2>1. Handled(n)' = {} /\ BatchOf(n)' = {} /\ PoolOf(n)' = {} /\ Begun(n)' = 0
    BY <1>2, <1>3, <1>4 DEF Handled, BatchOf, PoolOf, Begun, Early
  <2>2. Count(Stream', n) = 0
    <3>1. <<>> \in Seq(Item) /\ \A i \in 1..Len(<<>>) : <<>>[i].tag # "head"
      OBVIOUS
    <3> QED
      BY <1>4, <3>1, CountNone
  <2> QED
    BY <2>1, <2>2, FS_EmptySet DEF Written
<1>6. job'.pc \notin {"read", "join", "wrap", "check", "publish"} /\ job'.result # "ok"
  BY <1>2 DEF Early
<1>7. job'.k = 1 /\ Len(job'.inputs) \in Nat /\ (\A k \in job'.lost : k < job'.k)
  BY <1>2, <1>3 DEF Counted
<1>8. job'.k <= Len(Inputs') + 1
  BY <1>7 DEF Inputs
<1> QED
  BY <1>1, <1>3, <1>4, <1>5, <1>6, <1>7, <1>8 DEF Counted, Adding

\* The encoder takes nothing away, unless it fails.
LEMMA EncoderCounts ==
  ASSUME StagedInv, Counted, Encode \/ Encoded \/ EncoderFails PROVE Counted'
<1>1. wr.threaded /\ enc = "running" /\ UNCHANGED <<req, wr, job, staged, made>>
  BY DEF Encode, Encoded, EncoderFails, files
<1>2. job.pc \notin {"wrap", "check", "publish"}
  BY <1>1 DEF StagedInv, Stages
<1>3. Inputs' = Inputs /\ Input' = Input /\ Opened' = Opened
  BY <1>1 DEF Inputs, Input, Announces, Window, Opened
<1>4. CASE Encode
  <2>1. pipe # <<>> /\ pipe' = Tail(pipe) /\ tape' = Append(tape, pipe[1]) /\ enc' = enc
    BY <1>4 DEF Encode
  <2>2. tape \in Seq(Item) /\ pipe \in Seq(Item)
    BY DEF StagedInv, CreationTypeOK
  <2>3. pipe[1] \in Item /\ pipe' \in Seq(Item) /\ tape' = tape \o <<pipe[1]>>
    BY <2>1, <2>2
  <2>4. Stream' = Stream
    <3>1. pipe = <<pipe[1]>> \o pipe'
      BY <2>1, <2>2
    <3>2. (tape \o <<pipe[1]>>) \o pipe' = tape \o (<<pipe[1]>> \o pipe')
      <4>1. <<pipe[1]>> \in Seq(Item)
        BY <2>3
      <4> QED
        BY <2>2, <2>3, <4>1, ConcatAssociative
    <3> QED
      BY <2>3, <3>1, <3>2 DEF Stream
  <2>5. Broken' = Broken
    BY <1>1, <2>1 DEF Broken
  <2>6. \A n : /\ Written(n)' = Written(n) /\ Handled(n)' = Handled(n) /\ Begun(n)' = Begun(n)
               /\ Named(n)' = Named(n) /\ BelowAFile(n)' = BelowAFile(n)
    BY <1>1, <1>3, <2>4 DEF Written, BatchOf, PoolOf, Handled, Begun, Named, BelowAFile
  <2> QED
    BY <1>1, <1>2, <1>3, <2>4, <2>5, <2>6 DEF Counted, Filled, Twins
<1>5. CASE Encoded \/ EncoderFails
  <2>1. \/ Broken'
        \/ tape' = tape /\ pipe' = pipe /\ job.pc \notin Adding
    BY <1>1, <1>5 DEF Encoded, EncoderFails, Broken, Closed, At, Adding
  <2>2. ~Broken
    BY <1>1 DEF Broken
  <2>3. wr.lay # "pooled"
    BY <1>1, WriterFacts DEF StagedInv, CreationTypeOK
  <2>4. \A n : Named(n)' = Named(n) /\ BelowAFile(n)' = BelowAFile(n)
    BY <1>1, <1>3 DEF Named, BelowAFile
  <2>5. ~Broken' => Stream' = Stream /\ job.pc \notin Adding
    BY <2>1 DEF Stream
  <2> QED
    BY <1>1, <1>2, <1>3, <2>2, <2>3, <2>4, <2>5 DEF Counted, Filled, Twins
<1> QED
  BY <1>4, <1>5

\* What ends without success, or only waits, counts nothing.
LEMMA OthersCount ==
  ASSUME StagedInv, Counted,
         \/ Cancel \/ Appear \/ Over \/ UNCHANGED creationVars
         \/ \E p \in Paths : Resize(p) \/ Delete(p)
  PROVE  Counted'
<1>1. UNCHANGED <<req, wr, job, staged, tape, pipe, enc, made>>
  BY DEF Cancel, Appear, Over, Resize, Delete, writer, creationVars
<1>2. Inputs' = Inputs /\ Input' = Input /\ Opened' = Opened /\ Stream' = Stream /\ Broken' = Broken
  BY <1>1 DEF Inputs, Input, Announces, Window, Opened, Stream, Broken
<1>3. \A n : /\ Written(n)' = Written(n) /\ Handled(n)' = Handled(n) /\ Begun(n)' = Begun(n)
             /\ Named(n)' = Named(n) /\ BelowAFile(n)' = BelowAFile(n)
  BY <1>1, <1>2 DEF Written, BatchOf, PoolOf, Handled, Begun, Named, BelowAFile
<1> QED
  BY <1>1, <1>2, <1>3 DEF Counted, Filled, Twins

LEMMA FailCounts ==
  ASSUME StagedInv, Counted, Fail, ~At("over"), UNCHANGED <<req, wr, staged, made>>
  PROVE  Counted'
<1>1. job \in JobType
  BY DEF StagedInv, CreationTypeOK
<1>2. job'.pc = "over" /\ job'.result = "failed" /\ job'.k = job.k /\ job'.lost = job.lost
  BY <1>1 DEF Fail, JobType
<1>3. job'.pc \notin Early \cup Adding \cup Late
  BY <1>2 DEF Early, Adding, Late
<1> QED
  BY <1>2, <1>3 DEF Counted, Late

\* From the joined encoder to the published archive nothing is lost.
LEMMA PublishingCounts ==
  ASSUME StagedInv, Counted, Join \/ Wrap \/ Check \/ PublishArchive PROVE Counted'
<1>1. job \in JobType /\ tape \in Seq(Item) /\ job.pc \in Late /\ job.result = "none" /\ made = Nothing
  BY DEF StagedInv, CreationTypeOK, Stages, Join, Wrap, Check, PublishArchive, At, Late
<1>2. /\ Fail => job'.k = job.k /\ job'.lost = job.lost /\ job'.pc = "over" /\ job'.result = "failed"
      /\ \A l : Go(l) => job'.k = job.k /\ job'.lost = job.lost /\ job'.pc = l
                        /\ job'.result = job.result /\ job'.inputs = job.inputs
  BY <1>1 DEF Fail, Go, JobType
<1>3. UNCHANGED <<req, wr, staged>>
  BY DEF Join, Wrap, Check, PublishArchive, writer
<1>4. ASSUME Fail, made' = made PROVE Counted'
  <2>1. ~At("over")
    BY <1>1 DEF Late, At
  <2> QED
    BY <1>3, <1>4, <2>1, FailCounts
<1>5. ASSUME job'.pc \in {"wrap", "check", "publish", "over"}, job'.k = job.k, job'.lost = job.lost,
             job'.inputs = job.inputs, job'.pc = "over" => made' = tape,
             job'.pc # "over" => job'.result = "none",
             \A n \in Seq(Steps) : Filled(tape', n), \A n \in Seq(Steps) : Filled(tape, n)
      PROVE  Counted'
  <2>1. \A n : Named(n)' = Named(n) /\ BelowAFile(n)' = BelowAFile(n)
    BY <1>5 DEF Named, BelowAFile, Inputs
  <2>2. job'.pc \notin Early \cup Adding \cup {"join"}
    BY <1>5 DEF Early, Adding
  <2>3. \A n \in Seq(Steps) : Filled(tape, n)'
    BY <1>3, <1>5, <2>1 DEF Filled, Twins
  <2>4. job'.result = "ok" => \A n \in Seq(Steps) : Filled(made, n)'
    BY <1>3, <1>5, <2>1 DEF Filled, Twins
  <2> QED
    BY <1>3, <1>5, <2>2, <2>3, <2>4 DEF Counted
<1>6. CASE Join
  <2>1. job.pc = "join" /\ (wr.threaded => enc # "running") /\ UNCHANGED <<tape, made>>
    BY <1>6 DEF Join, At, writer
  <2>2. CASE ~Fail
    <3>1. ~Broken /\ (Go("wrap") \/ Go("check"))
      BY <1>6, <2>2 DEF Join
    <3>2. pipe = <<>>
      BY <2>1, <3>1 DEF Broken, StagedInv, CreationTypeOK, Stages
    <3>3. Stream = tape
      BY <1>1, <3>2 DEF Stream
    <3>4. \A n \in Seq(Steps) : Filled(tape, n)
      BY <2>1, <3>1, <3>3 DEF Counted
    <3> QED
      BY <1>1, <1>2, <1>5, <2>1, <3>1, <3>4
  <2> QED
    BY <1>4, <2>1, <2>2
<1>7. CASE Wrap
  <2>1. job.pc = "wrap" /\ Go("check") /\ tape' = <<Stub>> \o tape /\ UNCHANGED made
    BY <1>7 DEF Wrap, At
  <2>2. \A n \in Seq(Steps) : Filled(tape, n)
    BY <2>1 DEF Counted
  <2>3. \A n \in Seq(Steps) : Count(tape', n) = Count(tape, n)
    <3> SUFFICES ASSUME NEW n \in Seq(Steps) PROVE Count(tape', n) = Count(tape, n)
      OBVIOUS
    <3>1. Stub \in Item /\ Stub.tag = "stub"
      BY DEF Item, Stub
    <3> DEFINE u == <<Stub>>
    <3>2. u \in Seq(Item) /\ Count(u, n) = 0
      BY <3>1, CountSingle
    <3> HIDE DEF u
    <3>3. Count(u \o tape, n) = Count(u, n) + Count(tape, n) /\ Count(tape, n) \in Nat
      BY <1>1, <3>2, CountJoin, CountType
    <3> QED
      BY <2>1, <3>2, <3>3 DEF u
  <2>4. \A n \in Seq(Steps) : Filled(tape', n)
    BY <2>2, <2>3 DEF Filled
  <2> QED
    BY <1>1, <1>2, <1>5, <2>1, <2>2, <2>4
<1>8. CASE Check
  <2>1. job.pc = "check" /\ UNCHANGED <<tape, made>>
    BY <1>8 DEF Check, At, writer
  <2>2. \A n \in Seq(Steps) : Filled(tape, n)
    BY <2>1 DEF Counted
  <2>3. Fail \/ Go("publish")
    BY <1>8 DEF Check
  <2> QED
    BY <1>1, <1>2, <1>4, <1>5, <2>1, <2>2, <2>3
<1>9. CASE PublishArchive
  <2>1. job.pc = "publish" /\ UNCHANGED tape
    BY <1>9 DEF PublishArchive, At, writer
  <2>2. \A n \in Seq(Steps) : Filled(tape, n)
    BY <2>1 DEF Counted
  <2>3. \/ Fail /\ made' = made
        \/ job' = [job EXCEPT !.pc = "over", !.result = "ok"] /\ made' = tape
    BY <1>9 DEF PublishArchive
  <2>4. CASE job' = [job EXCEPT !.pc = "over", !.result = "ok"] /\ made' = tape
    <3>1. job'.pc = "over" /\ job'.k = job.k /\ job'.lost = job.lost /\ job'.inputs = job.inputs
      BY <1>1, <2>4 DEF JobType
    <3> QED
      BY <1>5, <2>1, <2>2, <2>4, <3>1
  <2> QED
    BY <1>4, <2>3, <2>4
<1> QED
  BY <1>6, <1>7, <1>8, <1>9

\* What the pool gives for an entry has its head, if it is a file's.
LEMMA PooledCount ==
  ASSUME StagedInv, Held(Inputs, staged), NEW i \in 1..Len(staged.entries), NEW n
  PROVE  /\ PooledItem(i) \in Seq(Item)
         /\ Count(PooledItem(i), n) = IF i \in PoolOf(n) THEN 1 ELSE 0
<1> DEFINE e == staged.entries[i]
<1>1. e \in PooledEntry /\ staged.pool \in Seq(Item) /\ staged.used \in Nat
      /\ staged.used <= Len(staged.pool)
  BY DEF StagedInv, CreationTypeOK, StagedType, Stages
<1> HIDE DEF e
<1>2. e.off \in Nat /\ e.n \in Nat /\ e.name \in Seq(Steps)
  BY <1>1 DEF PooledEntry
<1>3. CASE e.dir
  <2>1. PooledItem(i) = <<Folder(e.name)>> \/ PooledItem(i) = <<>>
    BY <1>3 DEF PooledItem, e
  <2>2. Folder(e.name) \in Item /\ Folder(e.name).tag = "dir"
    BY <1>2 DEF Item, Folder
  <2>3. <<>> \in Seq(Item) /\ \A j \in 1..Len(<<>>) : <<>>[j].tag # "head"
    OBVIOUS
  <2>4. i \notin PoolOf(n)
    BY <1>3 DEF PoolOf, e
  <2>5. Count(<<>>, n) = 0
    BY <2>3, CountNone
  <2>6. <<Folder(e.name)>> \in Seq(Item) /\ Count(<<Folder(e.name)>>, n) = 0
    BY <2>2, CountSingle
  <2> QED
    BY <2>1, <2>3, <2>4, <2>5, <2>6
<1>4. CASE ~e.dir
  <2>1. InPool(Inputs, staged.pool, staged.used, e)
    BY <1>4 DEF Held, e
  <2>2. PICK k \in 1..Len(Inputs) :
          /\ ~Inputs[k].dir /\ Inputs[k].name = e.name
          /\ \A j \in 1..e.n : staged.pool[e.off + j] = Block(Inputs[k].path, j)
    BY <2>1 DEF InPool
  <2>3. e.off + e.n <= Len(staged.pool) /\ Len(staged.pool) \in Nat
    BY <1>1, <1>2, <2>1 DEF InPool
  <2> DEFINE s == SubSeq(staged.pool, e.off + 1, e.off + e.n)
             h == <<Header(e.name, e.n)>>
  <2>4. s \in Seq(Item) /\ Len(s) = e.n /\ \A j \in 1..e.n : s[j] = staged.pool[e.off + j]
    BY <1>1, <1>2, <2>3, PartOf
  <2>5. PooledItem(i) = h \o s
    <3>1. Offset(i) = e.off
      BY <1>4, OffsetIs DEF e
    <3> QED
      BY <1>4, <3>1 DEF PooledItem, e
  <2>6. h \in Seq(Item) /\ Count(h, n) = IF e.name = n THEN 1 ELSE 0
    <3>1. Header(e.name, e.n) \in Item /\ Header(e.name, e.n).tag = "head"
          /\ Header(e.name, e.n).name = e.name
      BY <1>2 DEF Item, Header
    <3> QED
      BY <3>1, CountSingle
  <2>7. \A j \in 1..e.n : s[j].tag # "head"
    <3>1. \A j \in 1..e.n : s[j] = Block(Inputs[k].path, j)
      BY <2>2, <2>4
    <3>2. \A j : Block(Inputs[k].path, j).tag = "block"
      BY DEF Block
    <3> HIDE DEF s
    <3> QED
      BY <3>1, <3>2
  <2> HIDE DEF s, h
  <2>8. Count(s, n) = 0
    BY <2>4, <2>7, CountNone
  <2>9. h \o s \in Seq(Item) /\ Count(h \o s, n) = IF e.name = n THEN 1 ELSE 0
    BY <2>4, <2>6, <2>8, CountJoin, Joined
  <2> QED
    BY <1>4, <2>5, <2>9 DEF PoolOf, e
<1> QED
  BY <1>3, <1>4

LEMMA PoolItemsCount ==
  ASSUME StagedInv, Held(Inputs, staged), NEW n
  PROVE  /\ PoolItems \in Seq(Item)
         /\ Count(PoolItems, n) = Cardinality({i \in PoolOf(n) : ~Hidden(i)})
<1> DEFINE m == Len(staged.entries)
           all == [i \in 1..m |-> IF Hidden(i) THEN <<>> ELSE PooledItem(i)]
<1>1. m \in Nat
  BY DEF StagedInv, CreationTypeOK, StagedType
<1>2. <<>> \in Seq(Item) /\ Count(<<>>, n) = 0
  <2>1. <<>> \in Seq(Item) /\ \A j \in 1..Len(<<>>) : <<>>[j].tag # "head"
    OBVIOUS
  <2> QED
    BY <2>1, CountNone
<1>3. \A i \in 1..m : PooledItem(i) \in Seq(Item) /\ Count(PooledItem(i), n) = IF i \in PoolOf(n) THEN 1 ELSE 0
  BY PooledCount
<1>4. \A i \in 1..m : /\ all[i] \in Seq(Item)
                      /\ Count(all[i], n) = IF i \in PoolOf(n) /\ ~Hidden(i) THEN 1 ELSE 0
  <2> SUFFICES ASSUME NEW i \in 1..m
               PROVE  /\ all[i] \in Seq(Item)
                      /\ Count(all[i], n) = IF i \in PoolOf(n) /\ ~Hidden(i) THEN 1 ELSE 0
    OBVIOUS
  <2>1. all[i] = IF Hidden(i) THEN <<>> ELSE PooledItem(i)
    OBVIOUS
  <2> HIDE DEF all
  <2> QED
    BY <1>2, <1>3, <2>1
<1>5. Len(all) = m /\ DOMAIN all = 1..m /\ all \in Seq(Seq(Item))
  <2>1. DOMAIN all = 1..m
    OBVIOUS
  <2>2. all = [i \in 1..m |-> all[i]]
    OBVIOUS
  <2> HIDE DEF all, m
  <2> QED
    BY <1>1, <1>4, <2>1, <2>2
<1>6. PoolItems = FlattenSeq(all)
  BY DEF PoolItems
<1> HIDE DEF all, m
<1>7. {i \in 1..m : Count(all[i], n) = 1} = {i \in PoolOf(n) : ~Hidden(i)}
  <2>1. PoolOf(n) \subseteq 1..m
    BY DEF PoolOf, m
  <2> QED
    BY <1>4, <2>1
<1>8. \A i \in 1..Len(all) : Count(all[i], n) \in {0, 1}
  BY <1>4, <1>5
<1> QED
  BY <1>5, <1>6, <1>7, <1>8, FlattenedCount

\* Merged files leave the last one, unless another takes the place of a folder above.
Overlaid(n) ==
  \E j \in 1..Len(staged.entries) :
    ~staged.entries[j].dir /\ IsStrictPrefix(staged.entries[j].name, n)

LEMMA LastStays ==
  ASSUME StagedInv, NEW n, wr.twins = "merged", PoolOf(n) # {}, ~Overlaid(n)
  PROVE  Cardinality({i \in PoolOf(n) : ~Hidden(i)}) = 1
<1> DEFINE m == Len(staged.entries)
           P == PoolOf(n)
           T == {m - i : i \in P}
<1>1. m \in Nat /\ P \subseteq 1..m
  BY DEF StagedInv, CreationTypeOK, StagedType, PoolOf
<1>2. \A i \in P : Hidden(i) <=> \E j \in P : j > i
  BY DEF Hidden, PoolOf, Overlaid
<1> HIDE DEF P, m
<1>3. PICK x \in T : \A y \in T : x <= y
  <2>1. \A y \in T : y \in Nat
    BY <1>1
  <2>2. T # {}
    BY DEF P
  <2> HIDE DEF T
  <2> QED
    BY <2>1, <2>2, Least
<1>4. PICK i \in P : x = m - i
  OBVIOUS
<1>5. \A j \in P : j <= i
  <2> SUFFICES ASSUME NEW j \in P PROVE j <= i
    OBVIOUS
  <2>1. m - i <= m - j
    BY <1>3, <1>4
  <2>2. i \in Nat /\ j \in Nat
    BY <1>1
  <2> QED
    BY <1>1, <2>1, <2>2
<1>6. {j \in P : ~Hidden(j)} = {i}
  <2>1. \A j \in P : j \in Nat
    BY <1>1
  <2> QED
    BY <1>2, <1>5, <2>1
<1> QED
  BY <1>6, FS_Singleton DEF P

\* The closing part follows all the files of every name.
LEMMA FinishCounts ==
  ASSUME StagedInv, Contents, Counted, FinishArchive PROVE Counted'
<1>1. /\ job.pc = "entry" /\ job.k > Len(Inputs) /\ UNCHANGED <<req, wr, staged, enc, made>>
      /\ job \in JobType /\ wr \in Writers /\ job.result = "none"
      /\ Inputs \in Seq(InputType)
  BY DEF FinishArchive, At, StagedInv, CreationTypeOK, Stages, JobType, Inputs
<1>2. CASE Fail
  BY <1>1, <1>2, FailCounts DEF At
<1>3. CASE ~Fail
  <2>1. ~Broken /\ Go("join") /\ Emit(Remainder \o <<Closing>>)
    BY <1>3 DEF FinishArchive
  <2>2. job'.pc = "join" /\ job'.k = job.k /\ job'.lost = job.lost /\ job'.inputs = job.inputs
        /\ job'.result = "none"
    BY <1>1, <2>1 DEF Go, JobType
  <2>3. job.k = Len(Inputs) + 1
    <3>1. job.k <= Len(Inputs) + 1 /\ job.k \in Nat /\ Len(Inputs) \in Nat
      BY <1>1 DEF Counted, Adding, JobType
    <3> QED
      BY <1>1, <3>1
  <2>4. Held(Inputs, staged)
    BY <1>1 DEF Contents, Adding
  <2>5. ASSUME NEW n \in Seq(Steps) PROVE Filled(Stream', n)
    <3>1. Handled(n) = Named(n) /\ Begun(n) = 0
      <4>1. job.k - 1 = Len(Inputs)
        BY <1>1, <2>3
      <4> QED
        BY <1>1, <4>1 DEF Handled, Named, Begun
    <3>2. Count(Stream, n) + Cardinality(BatchOf(n)) + Cardinality(PoolOf(n)) = Cardinality(Named(n))
      <4>1. Written(n) = Cardinality(Handled(n)) + Begun(n) /\ Cardinality(Handled(n)) \in Nat
        BY <1>1, <2>1, CountingTypes DEF Counted, Adding, StagedInv
      <4> QED
        BY <3>1, <4>1 DEF Written
    <3>3. /\ Count(Stream, n) \in Nat /\ Cardinality(BatchOf(n)) \in Nat
          /\ Cardinality(PoolOf(n)) \in Nat /\ Cardinality(Named(n)) \in Nat
          /\ IsFiniteSet(PoolOf(n))
      BY CountingTypes DEF StagedInv
    <3>4. Remainder \in Seq(Item) => Count(Stream', n) = Count(Stream, n) + Count(Remainder, n)
      <4> DEFINE c == <<Closing>>
                 r == Remainder
      <4> SUFFICES ASSUME r \in Seq(Item)
                   PROVE  Count(Stream', n) = Count(Stream, n) + Count(r, n)
        OBVIOUS
      <4>1. Closing \in Item /\ Closing.tag # "head"
        BY DEF Item, Closing
      <4>2. c \in Seq(Item) /\ Count(c, n) = 0
        BY <4>1, CountSingle
      <4>3. Emit(r \o c)
        BY <2>1
      <4> HIDE DEF c, r
      <4>4. r \o c \in Seq(Item) /\ Count(r \o c, n) = Count(r, n) + Count(c, n)
        BY <4>2, CountJoin, Joined
      <4>5. Count(Stream', n) = Count(Stream, n) + Count(r \o c, n)
        BY <4>3, <4>4, StreamCounts
      <4>6. Count(r, n) \in Nat
        BY CountType
      <4> QED
        BY <3>3, <4>2, <4>4, <4>5, <4>6
    <3>5. CASE wr.lay # "pooled"
      <4>1. PoolOf(n) = {}
        BY <1>1, <3>5 DEF Counted, PoolOf
      <4>2. staged.batch \in Seq(Seq(Item)) /\ \A i \in 1..Len(staged.batch) : Count(staged.batch[i], n) \in {0, 1}
        BY DEF StagedInv, CreationTypeOK, StagedType, Counted, OneFile
      <4>3. Remainder \in Seq(Item) /\ Count(Remainder, n) = Cardinality(BatchOf(n))
        BY <3>5, <4>2, FlattenedCount DEF Remainder, FlatBatch, BatchOf
      <4>4. Count(Stream', n) = Cardinality(Named(n))
        BY <3>2, <3>3, <3>4, <4>1, <4>3, FS_EmptySet
      <4> QED
        BY <4>4 DEF Filled
    <3>6. CASE wr.lay = "pooled"
      <4>1. Stream = <<>> /\ BatchOf(n) = {}
        <5>1. ~wr.batched
          BY <1>1, <3>6, WriterFacts
        <5> QED
          BY <1>1, <3>6, <5>1 DEF Counted, Adding, BatchOf
      <4>2. Count(Stream, n) = 0 /\ Cardinality(BatchOf(n)) = 0
        <5>1. <<>> \in Seq(Item) /\ \A j \in 1..Len(<<>>) : <<>>[j].tag # "head"
          OBVIOUS
        <5> QED
          BY <4>1, <5>1, CountNone, FS_EmptySet
      <4>3. Remainder \in Seq(Item) /\ Count(Remainder, n) = Cardinality({i \in PoolOf(n) : ~Hidden(i)})
        BY <2>4, <3>6, PoolItemsCount DEF Remainder
      <4>4. Count(Stream', n) = Cardinality({i \in PoolOf(n) : ~Hidden(i)})
            /\ Cardinality(PoolOf(n)) = Cardinality(Named(n))
        <5>1. Count(Remainder, n) \in Nat
          BY <4>3, CountType
        <5> QED
          BY <3>2, <3>3, <3>4, <4>2, <4>3, <5>1
      <4>5. CASE wr.twins # "merged" \/ PoolOf(n) = {}
        <5>1. {i \in PoolOf(n) : ~Hidden(i)} = PoolOf(n)
          BY <4>5 DEF Hidden
        <5> QED
          BY <4>4, <5>1 DEF Filled
      <4>7. CASE wr.twins = "merged" /\ Overlaid(n)
        <5>1. PICK j \in 1..Len(staged.entries) :
                ~staged.entries[j].dir /\ IsStrictPrefix(staged.entries[j].name, n)
          BY <4>7 DEF Overlaid
        <5> DEFINE f == staged.entries[j].name
        <5>2. f \in Seq(Steps) /\ j \in PoolOf(f)
          <6>1. staged.entries \in Seq(PooledEntry)
            BY DEF StagedInv, CreationTypeOK, StagedType
          <6>2. staged.entries[j] \in PooledEntry
            BY <6>1
          <6>3. f \in Seq(Steps)
            BY <6>2 DEF PooledEntry
          <6>4. j \in PoolOf(f)
            BY <5>1 DEF PoolOf
          <6> QED
            BY <6>3, <6>4
        <5> HIDE DEF f
        <5>3. Named(f) # {}
          <6>1. Handled(f) = Named(f) /\ Begun(f) = 0
            <7>1. job.k - 1 = Len(Inputs)
              BY <1>1, <2>3
            <7> QED
              BY <1>1, <7>1 DEF Handled, Named, Begun
          <6>2. Written(f) = Cardinality(Handled(f)) + Begun(f)
            BY <1>1, <2>1, <5>2 DEF Counted, Adding
          <6>3. /\ Count(Stream, f) \in Nat /\ Cardinality(BatchOf(f)) \in Nat
                /\ Cardinality(PoolOf(f)) \in Nat /\ Cardinality(Handled(f)) \in Nat
                /\ IsFiniteSet(PoolOf(f))
            BY CountingTypes DEF StagedInv
          <6>4. Cardinality(PoolOf(f)) # 0
            BY <5>2, <6>3, FS_EmptySet
          <6>5. Cardinality(Named(f)) # 0
            BY <6>1, <6>2, <6>3, <6>4 DEF Written
          <6> QED
            BY <6>5, FS_EmptySet
        <5>4. BelowAFile(n)
          BY <5>1, <5>3 DEF Named, BelowAFile, f
        <5> QED
          BY <4>7, <5>4 DEF Filled
      <4>6. CASE wr.twins = "merged" /\ PoolOf(n) # {} /\ ~Overlaid(n)
        <5>1. Count(Stream', n) = 1
          BY <4>4, <4>6, LastStays
        <5>2. Cardinality(PoolOf(n)) # 0
          BY <3>3, <4>6, FS_EmptySet
        <5>3. Cardinality(Named(n)) = 1 \/ Cardinality(Named(n)) > 1
          BY <3>3, <4>4, <5>2
        <5> QED
          BY <4>6, <5>1, <5>3 DEF Filled, Twins
      <4> QED
        BY <4>5, <4>6, <4>7
    <3> QED
      BY <3>5, <3>6
  <2>6. \A n \in Seq(Steps) : Filled(Stream, n)'
    <3>1. \A n : Named(n)' = Named(n) /\ BelowAFile(n)' = BelowAFile(n)
      BY <2>2 DEF Named, BelowAFile, Inputs
    <3> QED
      BY <1>1, <2>5, <3>1 DEF Filled, Twins
  <2>7. job'.pc \notin Early \cup Adding \cup {"wrap", "check", "publish"}
    BY <2>2 DEF Early, Adding
  <2> QED
    BY <1>1, <2>2, <2>6, <2>7 DEF Counted
<1> QED
  BY <1>2, <1>3

LEMMA CountedKeeps ==
  ASSUME StagedInv, Contents, Counted, [CreationNext]_creationVars PROVE Counted'
<1>1. CASE Validate \/ Roots \/ Walk \/ Walked \/ Collect \/ Collected
  BY <1>1, CollectingCounts
<1>2. CASE AddDirectory \/ Open
  BY <1>2, AddDirectoryCounts, OpenCounts
<1>3. CASE Read \/ ReadFails
  BY <1>3, ReadCounts
<1>4. CASE EntryEnds \/ FinishArchive
  BY <1>4, EntryEndsCounts, FinishCounts
<1>5. CASE Encode \/ Encoded \/ EncoderFails
  BY <1>5, EncoderCounts
<1>6. CASE Join \/ Wrap \/ Check \/ PublishArchive
  BY <1>6, PublishingCounts
<1>7. CASE Heed
  <2>1. Fail /\ ~At("over") /\ UNCHANGED <<req, wr, staged, made>>
    BY <1>7 DEF Heed, At, writer
  <2> QED
    BY <2>1, FailCounts
<1>8. CASE \/ Cancel \/ Appear \/ Over \/ UNCHANGED creationVars
           \/ \E p \in Paths : Resize(p) \/ Delete(p)
  BY <1>8, OthersCount
<1> QED
  BY <1>1, <1>2, <1>3, <1>4, <1>5, <1>6, <1>7, <1>8 DEF CreationNext, JobStep, EncoderStep

\* A published tape on which every name is filled has every file.
LEMMA FilledIsIn ==
  ASSUME StagedInv, Reached, Counted PROVE EveryFileIsIn
<1> SUFFICES ASSUME job.result = "ok", NEW p \in Wanted
             PROVE  \/ \E k \in job.lost : Inputs[k].path = p
                    \/ \E k \in (1..Len(Inputs)) \ job.lost :
                         /\ Inputs[k].path = p /\ ~Inputs[k].dir
                         /\ \/ Cardinality(HeadsOf(Inputs[k].name)) = Cardinality(Named(Inputs[k].name))
                            \/ wr.twins = "merged" /\ BelowAFile(Inputs[k].name)
                            \/ /\ wr.twins = "merged" /\ Twins(Inputs[k].name)
                               /\ HeadsOf(Inputs[k].name) # {}
  BY DEF EveryFileIsIn
<1>1. PICK k \in 1..Len(Inputs) : Inputs[k].path = p /\ ~Inputs[k].dir
  BY DEF Reached, Meets
<1>2. Inputs[k].name \in Seq(Steps)
  <2>1. Inputs \in Seq(InputType)
    BY DEF StagedInv, CreationTypeOK, JobType, Inputs
  <2>2. Inputs[k] \in InputType
    BY <2>1
  <2> QED
    BY <2>2 DEF InputType
<1>3. \A n : HeadsOf(n) = HeadsIn(made, n)
  BY DEF HeadsOf, Heads, HeadsIn
<1>4. Filled(made, Inputs[k].name) /\ made \in Seq(Item)
  BY <1>2 DEF Counted, StagedInv, CreationTypeOK
<1>5. Count(made, Inputs[k].name) = 0 <=> HeadsIn(made, Inputs[k].name) = {}
  BY <1>4, CountType
<1>6. CASE k \in job.lost
  BY <1>1, <1>6
<1>7. CASE k \notin job.lost
  BY <1>1, <1>3, <1>4, <1>5, <1>7 DEF Filled, Count
<1> QED
  BY <1>6, <1>7

\* Every file at or below a source is in an archive that is reported made, as
\* often as there are files of its name: whatever the tree, the sources and
\* the writer are, and whatever others change meanwhile (walk_inputs and
\* collect_sources, the writers' append and finish).  A WIM merges: it has one of
\* several files of a name, and none of a folder whose name another source's file has.
THEOREM EveryFileStaysIn == CreationSpec => []EveryFileIsIn
<1>1. CreationInit => StagedInv /\ Contents /\ Reached /\ Counted
  BY CreationTypeInit, StagesInit, ContentsInit, ReachedInit, CountedInit DEF StagedInv
<1>2. StagedInv /\ Contents /\ Reached /\ Counted /\ [CreationNext]_creationVars
        => (StagedInv /\ Contents /\ Reached /\ Counted)'
  BY CreationKeeps, ReachedKeeps, CountedKeeps
<1>3. StagedInv /\ Reached /\ Counted => EveryFileIsIn
  BY FilledIsIn
<1> QED
  BY <1>1, <1>2, <1>3, PTL DEF CreationSpec

-----------------------------------------------------------------------------
(* Splits to one name.                                                     *)

\* How far each command has come, by where it is.
Progress ==
  \A s \in Splitters :
    /\ pc[s] \in {"idle", "whole", "scan", "stage"} => sent[s] = 0 /\ undone[s] = 0
    /\ pc[s] = "publish" => undone[s] = 0 /\ sent[s] < size[s]
    /\ pc[s] = "undo" => undone[s] < sent[s] /\ sent[s] < size[s]
    /\ pc[s] = "done" => undone[s] = 0 /\ sent[s] = size[s] /\ size[s] > 1
    /\ pc[s] = "failed" => undone[s] = sent[s]
    /\ pc[s] = "crashed" => crashes > 0
    /\ pc[s] \in {"scan", "stage", "publish"} => size[s] > 1

\* The volumes a command has published and not taken back.
Holds(s) == {v \in Volumes : undone[s] < v /\ v <= sent[s]}

\* While nobody else touches these names each command has exactly the volumes it
\* holds; more may be left where a removal failed.
Owned ==
  outs = 0 =>
    /\ \A v \in Volumes : vol[v] # Outside
    /\ \A s \in Splitters : \A v \in Holds(s) : vol[v] = s
    /\ ~CleanupFails => \A s \in Splitters : \A v \in Volumes : vol[v] = s => v \in Holds(s)

SplitInv == TypeOK /\ Progress /\ Owned

-----------------------------------------------------------------------------
LEMMA SplitTypeInit == Init => TypeOK
  BY SplitAssumption DEF Init, TypeOK, Volumes, Settled

LEMMA SplitTypeStep == TypeOK /\ Progress /\ [Next]_vars => TypeOK' /\ Progress'
<1> SUFFICES ASSUME TypeOK, Progress, [Next]_vars PROVE TypeOK' /\ Progress'
  OBVIOUS
<1> USE SplitAssumption DEF TypeOK, Progress, Volumes, Settled, Goto, splitVars, readVars
<1>1. ASSUME NEW s \in Splitters, NEW n \in Volumes, Begin(s, n) PROVE TypeOK' /\ Progress'
  BY <1>1 DEF Begin
<1>2. ASSUME NEW s \in Splitters, Scan(s) PROVE TypeOK' /\ Progress'
  BY <1>2 DEF Scan
<1>3. ASSUME NEW s \in Splitters, Stage(s) PROVE TypeOK' /\ Progress'
  <2>1. TypeOK'
    BY <1>3 DEF Stage
  <2>2. Progress'
    BY <1>3, <2>1 DEF Stage
  <2> QED
    BY <2>1, <2>2
<1>4. ASSUME NEW s \in Splitters, Publish(s) PROVE TypeOK' /\ Progress'
  <2>1. TypeOK'
    <3>1. sent[s] + 1 \in 0..MaxVolumes
      BY <1>4 DEF Publish
    <3>2. vol' \in [Volumes -> Splitters \cup {Outside, NoFile}]
      BY <1>4 DEF Publish
    <3>3. sent' \in [Splitters -> 0..MaxVolumes]
      BY <1>4, <3>1 DEF Publish
    <3>4. pc' \in [Splitters -> Settled \cup {"scan", "stage", "publish", "undo"}]
      BY <1>4 DEF Publish, Abandon
    <3> QED
      BY <1>4, <3>2, <3>3, <3>4 DEF Publish
  <2>2. Progress'
    BY <1>4, <2>1 DEF Publish, Abandon
  <2> QED
    BY <2>1, <2>2
<1>5. ASSUME NEW s \in Splitters, Undo(s) PROVE TypeOK' /\ Progress'
  <2>1. TypeOK'
    BY <1>5 DEF Undo
  <2>2. Progress'
    BY <1>5, <2>1 DEF Undo
  <2> QED
    BY <2>1, <2>2
<1>6. ASSUME NEW s \in Splitters, Crash(s) PROVE TypeOK' /\ Progress'
  <2>1. TypeOK'
    BY <1>6 DEF Crash
  <2>2. Progress'
    BY <1>6, <2>1 DEF Crash
  <2> QED
    BY <2>1, <2>2
<1>7. ASSUME NEW r \in Readers, ReadStep(r) PROVE TypeOK' /\ Progress'
  <2>1. UNCHANGED <<vol, splitVars, outs, crashes>>
    BY <1>7 DEF ReadStep, StartRead, Look, ScanLater, EndRead
  <2>2. rpc' \in [Readers -> {"idle", "look", "scan", "open", "error"}]
    BY <1>7 DEF ReadStep, StartRead, Look, ScanLater, EndRead
  <2>3. found' \in [Readers -> 0..MaxVolumes]
    <3>1. CASE StartRead(r)
      BY <3>1 DEF StartRead
    <3>2. CASE Look(r)
      BY <3>2 DEF Look, Present
    <3>3. CASE ScanLater(r) \/ EndRead(r)
      BY <3>3 DEF ScanLater, EndRead
    <3> QED
      BY <1>7, <3>1, <3>2, <3>3 DEF ReadStep
  <2> QED
    BY <2>1, <2>2, <2>3
<1>8. ASSUME NEW v \in Volumes, OutsideChange(v) PROVE TypeOK' /\ Progress'
  <2>1. vol' \in [Volumes -> Splitters \cup {Outside, NoFile}]
    BY <1>8 DEF OutsideChange
  <2>2. outs' \in 0..MaxOutside
    BY <1>8 DEF OutsideChange
  <2>3. UNCHANGED <<splitVars, readVars, crashes>>
    BY <1>8 DEF OutsideChange
  <2> QED
    BY <2>1, <2>2, <2>3
<1>9. CASE UNCHANGED vars
  BY <1>9 DEF vars
<1> QED
  BY <1>1, <1>2, <1>3, <1>4, <1>5, <1>6, <1>7, <1>8, <1>9 DEF Next, SplitStep

\* The types of the directory, of the commands and of the readers (TypeOK).
THEOREM SplitTyping == Spec => []TypeOK
<1>1. Init => TypeOK /\ Progress
  BY SplitTypeInit DEF Init, Progress
<1>2. TypeOK /\ Progress /\ [Next]_vars => (TypeOK /\ Progress)'
  BY SplitTypeStep
<1>3. TypeOK /\ Progress => TypeOK
  OBVIOUS
<1> QED
  BY <1>1, <1>2, <1>3, PTL DEF Spec

-----------------------------------------------------------------------------
LEMMA SplitInit == Init => SplitInv
<1> SUFFICES ASSUME Init PROVE SplitInv
  OBVIOUS
<1>1. TypeOK /\ Progress
  BY SplitTypeInit DEF Init, Progress
<1>2. Owned
  BY SplitAssumption DEF Init, Owned, Holds, Volumes
<1> QED
  BY <1>1, <1>2 DEF SplitInv

\* A command that publishes or takes back touches no volume of another.
LEMMA SplitStepInv == SplitInv /\ [Next]_vars => SplitInv'
<1> SUFFICES ASSUME SplitInv, [Next]_vars PROVE SplitInv'
  OBVIOUS
<1>0. TypeOK' /\ Progress'
  BY SplitTypeStep DEF SplitInv
<1> USE SplitAssumption DEF SplitInv, Volumes, Goto, splitVars, readVars
<1>1. ASSUME NEW s \in Splitters,
             (\E n \in Volumes : Begin(s, n)) \/ Scan(s) \/ Stage(s) \/ Crash(s)
      PROVE  Owned'
  BY <1>1 DEF Begin, Scan, Stage, Crash, Owned, Holds
<1>2. ASSUME NEW s \in Splitters, Publish(s) PROVE Owned'
  <2> DEFINE v == sent[s] + 1
  <2>1. CASE Abandon(s) /\ UNCHANGED <<vol, sent>>
    BY <1>2, <2>1 DEF Publish, Abandon, Owned, Holds
  <2>2. CASE /\ vol[v] = NoFile
             /\ vol' = [vol EXCEPT ![v] = s]
             /\ sent' = [sent EXCEPT ![s] = v]
    <3>1. v \in Volumes /\ undone[s] = 0
      BY <1>2 DEF Publish, TypeOK, Progress
    <3>2. Holds(s)' = Holds(s) \cup {v}
      BY <1>2, <2>2, <3>1 DEF Publish, Holds, TypeOK
    <3>3. \A t \in Splitters \ {s} : Holds(t)' = Holds(t)
      BY <1>2, <2>2 DEF Publish, Holds, TypeOK
    <3>4. \A u \in Volumes : vol'[u] = IF u = v THEN s ELSE vol[u]
      BY <2>2, <3>1 DEF TypeOK
    <3>5. outs' = outs
      BY <1>2 DEF Publish
    <3>6. \A t \in Splitters : outs = 0 => v \notin Holds(t)
      BY <2>2 DEF Owned
    <3> HIDE DEF v
    <3>7. \A t \in Splitters : Holds(t) \subseteq Volumes
      BY DEF Holds
    <3> QED
      BY <3>1, <3>2, <3>3, <3>4, <3>5, <3>6, <3>7 DEF Owned
  <2> QED
    BY <1>2, <2>1, <2>2 DEF Publish
<1>3. ASSUME NEW s \in Splitters, Undo(s) PROVE Owned'
  <2> DEFINE v == undone[s] + 1
  <2>1. v \in Volumes /\ v \in Holds(s)
    BY <1>3 DEF Undo, TypeOK, Progress, Holds
  <2>2. Holds(s)' = Holds(s) \ {v}
    BY <1>3, <2>1 DEF Undo, Holds, TypeOK
  <2>3. \A t \in Splitters \ {s} : Holds(t)' = Holds(t)
    BY <1>3 DEF Undo, Holds, TypeOK
  <2>4. \A u \in Volumes : vol'[u] = vol[u] \/ (u = v /\ vol'[u] = NoFile)
    BY <1>3 DEF Undo, TypeOK
  <2>5. ~CleanupFails => vol'[v] = NoFile
    BY <1>3, <2>1 DEF Undo, TypeOK
  <2>6. outs' = outs
    BY <1>3 DEF Undo
  <2> HIDE DEF v
  <2>7. \A t \in Splitters : Holds(t) \subseteq Volumes
    BY DEF Holds
  <2> QED
    BY <2>1, <2>2, <2>3, <2>4, <2>5, <2>6, <2>7 DEF Owned
<1>4. ASSUME NEW r \in Readers, ReadStep(r) PROVE Owned'
  BY <1>4 DEF ReadStep, StartRead, Look, ScanLater, EndRead, Owned, Holds
<1>5. ASSUME NEW v \in Volumes, OutsideChange(v) PROVE Owned'
  BY <1>5 DEF OutsideChange, Owned, TypeOK
<1>6. CASE UNCHANGED vars
  BY <1>6 DEF vars, Owned, Holds, SplitInv, TypeOK, Progress
<1> QED
  BY <1>0, <1>1, <1>2, <1>3, <1>4, <1>5, <1>6 DEF Next, SplitStep

LEMMA SplitAlways == Spec => []SplitInv
  BY SplitInit, SplitStepInv, PTL DEF Spec

\* A split that reported success still has every volume of its set, whatever the
\* other commands did meanwhile.
THEOREM SuccessStaysWhole == Spec => []SuccessIsWhole
<1>1. SplitInv => SuccessIsWhole
  <2> SUFFICES ASSUME SplitInv, NEW s \in Splitters, pc[s] = "done", outs = 0,
                      NEW v \in 1..size[s]
               PROVE  vol[v] = s
    BY DEF SuccessIsWhole
  <2>1. v \in Holds(s)
    BY SplitAssumption DEF SplitInv, Holds, Progress, TypeOK, Volumes
  <2> QED
    BY <2>1 DEF SplitInv, Owned
<1> QED
  BY <1>1, SplitAlways, PTL

\* When every command has ended, the volumes are one complete set or none.
THEOREM OneSetRemains ==
  ASSUME ~CleanupFails
  PROVE  Spec => []SettledIsOneSet
<1>1. SplitInv => SettledIsOneSet
  <2> SUFFICES ASSUME SplitInv, crashes = 0, outs = 0,
                      \A s \in Splitters : pc[s] \in Settled
               PROVE  \/ Present = {} /\ \A s \in Splitters : pc[s] # "done"
                      \/ \E s \in Splitters :
                           /\ pc[s] = "done"
                           /\ \A t \in Splitters \ {s} : pc[t] # "done"
                           /\ vol = [v \in Volumes |-> IF v <= size[s] THEN s ELSE NoFile]
    BY DEF SettledIsOneSet
  <2>1. ASSUME NEW s \in Splitters, pc[s] # "done" PROVE Holds(s) = {}
    <3>1. pc[s] \in {"idle", "whole", "failed"}
      BY <2>1 DEF SplitInv, Progress, Settled
    <3>2. sent[s] = undone[s] /\ sent[s] \in Nat
      BY <3>1, SplitAssumption DEF SplitInv, Progress, TypeOK
    <3> QED
      BY <3>2, SplitAssumption DEF Holds, Volumes
  <2>2. ASSUME NEW s \in Splitters, pc[s] = "done"
        PROVE  Holds(s) = {v \in Volumes : v <= size[s]} /\ 1 \in Holds(s)
    BY <2>2, SplitAssumption DEF SplitInv, Holds, Progress, TypeOK, Volumes
  <2>3. \A v \in Volumes : vol[v] = NoFile \/
                           \E s \in Splitters : vol[v] = s /\ v \in Holds(s)
    BY DEF SplitInv, Owned, TypeOK
  <2>4. CASE \A s \in Splitters : pc[s] # "done"
    BY <2>1, <2>3, <2>4 DEF Present
  <2>5. CASE \E s \in Splitters : pc[s] = "done"
    <3>1. PICK s \in Splitters : pc[s] = "done"
      BY <2>5
    <3>2. \A v \in Holds(s) : vol[v] = s
      BY DEF SplitInv, Owned
    <3>3. \A t \in Splitters \ {s} : pc[t] # "done"
      <4> SUFFICES ASSUME NEW t \in Splitters, pc[t] = "done" PROVE t = s
        OBVIOUS
      <4>1. vol[1] = t
        BY <2>2 DEF SplitInv, Owned
      <4> QED
        BY <2>2, <3>1, <3>2, <4>1
    <3>4. ASSUME NEW v \in Volumes PROVE vol[v] = IF v <= size[s] THEN s ELSE NoFile
      BY <2>1, <2>2, <2>3, <3>1, <3>2, <3>3
    <3>5. vol = [v \in Volumes |-> vol[v]]
      BY DEF SplitInv, TypeOK
    <3>6. vol = [v \in Volumes |-> IF v <= size[s] THEN s ELSE NoFile]
      BY <3>4, <3>5
    <3> QED
      BY <3>1, <3>3, <3>6
  <2> QED
    BY <2>4, <2>5
<1> QED
  BY <1>1, SplitAlways, PTL

\* A volume is never overwritten, and taken away only by the command that made it.
THEOREM VolumesAreKept == Spec => VolumesKept
<1>1. ASSUME SplitInv, [Next]_vars
      PROVE  [\A v \in Volumes : vol[v] # NoFile /\ vol'[v] # vol[v] =>
                \/ outs' # outs
                \/ /\ vol'[v] = NoFile
                   /\ outs = 0 => pc[vol[v]] = "undo"]_vars
  <2> SUFFICES ASSUME Next, NEW v \in Volumes, vol[v] # NoFile, vol'[v] # vol[v]
               PROVE  \/ outs' # outs
                      \/ /\ vol'[v] = NoFile
                         /\ outs = 0 => pc[vol[v]] = "undo"
    BY <1>1
  <2>1. ASSUME NEW s \in Splitters,
               (\E n \in Volumes : Begin(s, n)) \/ Scan(s) \/ Stage(s) \/ Crash(s)
        PROVE  FALSE
    BY <2>1 DEF Begin, Scan, Stage, Crash
  <2>2. ASSUME NEW s \in Splitters, Publish(s) PROVE FALSE
    BY <1>1, <2>2 DEF Publish, SplitInv, TypeOK
  <2>3. ASSUME NEW s \in Splitters, Undo(s)
        PROVE  vol'[v] = NoFile /\ (outs = 0 => pc[vol[v]] = "undo")
    <3>1. v = undone[s] + 1 /\ vol'[v] = NoFile
      BY <1>1, <2>3 DEF Undo, SplitInv, TypeOK
    <3>2. v \in Holds(s)
      BY <1>1, <2>3, <3>1, SplitAssumption
         DEF Undo, SplitInv, Progress, TypeOK, Holds, Volumes
    <3>3. outs = 0 => vol[v] = s
      BY <1>1, <3>2 DEF SplitInv, Owned
    <3> QED
      BY <2>3, <3>1, <3>3 DEF Undo
  <2>4. ASSUME NEW r \in Readers, ReadStep(r) PROVE FALSE
    BY <2>4 DEF ReadStep, StartRead, Look, ScanLater, EndRead
  <2>5. ASSUME NEW u \in Volumes, OutsideChange(u) PROVE outs' # outs
    BY <1>1, <2>5 DEF OutsideChange, SplitInv, TypeOK
  <2> QED
    BY <2>1, <2>2, <2>3, <2>4, <2>5 DEF Next, SplitStep
<1> QED
  BY <1>1, SplitAlways, PTL DEF Spec, VolumesKept

-----------------------------------------------------------------------------
(* MultiVolumeWriter, for every limit, every length of the stream and      *)
(* every greatest number.                                                  *)

\* What a call puts into a volume.
LEMMA BytesType ==
  ASSUME NEW n \in Nat, taken \in Nat, taken + n <= MaxBytes, MaxBytes \in Nat
  PROVE  Bytes(n) \in Seq(1..MaxBytes) /\ Len(Bytes(n)) = n
<1>1. \A k \in 1..n : taken + k \in 1..MaxBytes
  OBVIOUS
<1> QED BY <1>1 DEF Bytes

\* A call never tries to put in more than it has, nor more than fits.
LEMMA ChunkFits ==
  ASSUME NEW asked \in Nat \ {0}, limit \in Nat, filled \in Nat,
         limit # 0 => filled <= limit
  PROVE  /\ Chunk(asked) \in 0..asked
         /\ limit # 0 /\ Full => Chunk(asked) <= limit
         /\ limit # 0 /\ ~Full => filled + Chunk(asked) <= limit
BY DEF Chunk, Full

\* Writing into the last volume makes that one longer and leaves the others.
LEMMA AddedVolumes ==
  ASSUME NEW n \in Nat, taken \in Nat, taken + n <= MaxBytes, MaxBytes \in Nat,
         volumes \in Seq(Seq(1..MaxBytes)), volumes # <<>>
  PROVE  /\ Added(n) \in Seq(Seq(1..MaxBytes)) /\ Len(Added(n)) = Len(volumes)
         /\ \A v \in 1..(Len(volumes) - 1) : Added(n)[v] = volumes[v]
         /\ Len(Added(n)[Len(volumes)]) = Len(volumes[Len(volumes)]) + n
<1> DEFINE last == Len(volumes)
<1>1. last \in Nat /\ last >= 1 /\ volumes[last] \in Seq(1..MaxBytes)
  OBVIOUS
<1>2. Bytes(n) \in Seq(1..MaxBytes) /\ Len(Bytes(n)) = n
  BY BytesType
<1> HIDE DEF last
<1>3. /\ volumes[last] \o Bytes(n) \in Seq(1..MaxBytes)
      /\ Len(volumes[last] \o Bytes(n)) = Len(volumes[last]) + n
  BY <1>1, <1>2, ConcatProperties
<1>4. Added(n) = [volumes EXCEPT ![last] = volumes[last] \o Bytes(n)]
  BY DEF Added, last
<1> QED BY <1>1, <1>3, <1>4 DEF last

\* The invariant: with VolumesInOrder, the number of the current volume, and how
\* much the volumes hold together.
WriterInv ==
  /\ WriterTypeOK /\ VolumesInOrder
  /\ index = Len(volumes)
  /\ limit = 0 => index = 1 /\ taken = filled
  /\ limit # 0 => taken = (index - 1) * limit + filled

LEMMA Initially == ASSUME WriterInit PROVE WriterInv
<1> USE WriterAssumption DEF WriterInit, WriterInv, WriterTypeOK, VolumesInOrder
<1>1. volumes = << <<>> >> /\ Len(volumes) = 1 /\ volumes[1] = <<>>
  OBVIOUS
<1>2. volumes \in Seq(Seq(1..MaxBytes)) /\ volumes # <<>>
  BY <1>1
<1>3. paths \in Seq(1..MaxIndex) /\ paths = [k \in 1..1 |-> k]
  OBVIOUS
<1>4. limit \in Nat
  OBVIOUS
<1> QED BY <1>1, <1>2, <1>3, <1>4

LEMMA Inductive == ASSUME WriterInv, [WriterNext]_writerVars PROVE WriterInv'
<1> USE WriterAssumption
<1>0. /\ limit \in Nat /\ filled \in Nat /\ taken \in Nat /\ index \in Nat
      /\ Len(volumes) \in Nat /\ Len(volumes) >= 1
      /\ Len(paths) = Len(volumes)
      /\ volumes \in Seq(Seq(1..MaxBytes)) /\ paths \in Seq(1..MaxIndex)
  BY DEF WriterInv, WriterTypeOK, VolumesInOrder
<1>1. ASSUME NEW asked \in 1..MaxBytes, Write(asked) PROVE WriterInv'
  <2>1. PICK n \in 0..Chunk(asked) :
          /\ \/ /\ Full /\ index < MaxIndex
                /\ index' = index + 1
                /\ paths' = Append(paths, index + 1)
                /\ volumes' = Append(volumes, Bytes(n))
                /\ filled' = n
             \/ /\ ~Full
                /\ volumes' = Added(n)
                /\ filled' = filled + n
                /\ UNCHANGED <<index, paths>>
          /\ taken' = taken + n
          /\ state' = IF n = 0 THEN "failed" ELSE "fine"
    BY <1>1 DEF Write
  <2>2. limit # 0 => filled <= limit
    BY DEF WriterInv, VolumesInOrder
  <2>3. /\ Chunk(asked) \in 0..asked
        /\ limit # 0 /\ Full => Chunk(asked) <= limit
        /\ limit # 0 /\ ~Full => filled + Chunk(asked) <= limit
    BY <1>0, <2>2, ChunkFits
  <2>4. taken + asked <= MaxBytes /\ UNCHANGED limit
    BY <1>1 DEF Write
  <2>5. /\ n \in Nat /\ n <= asked /\ taken + n <= MaxBytes
        /\ limit # 0 /\ Full => n <= limit
        /\ limit # 0 /\ ~Full => filled + n <= limit
    BY <1>0, <2>3, <2>4
  <2>6. Bytes(n) \in Seq(1..MaxBytes) /\ Len(Bytes(n)) = n
    BY <1>0, <2>5, BytesType
  <2>7. CASE Full
    <3>1. /\ index' = index + 1 /\ index < MaxIndex
          /\ paths' = Append(paths, index + 1)
          /\ volumes' = Append(volumes, Bytes(n)) /\ filled' = n
          /\ limit # 0 /\ filled = limit
      BY <2>1, <2>7 DEF Full
    <3>2. volumes' \in Seq(Seq(1..MaxBytes)) /\ Len(volumes') = Len(volumes) + 1
      BY <1>0, <2>6, <3>1
    <3>3. \A v \in 1..Len(volumes) : volumes'[v] = volumes[v]
      BY <1>0, <2>6, <3>1
    <3>4. volumes'[Len(volumes) + 1] = Bytes(n)
      BY <1>0, <2>6, <3>1
    <3>5. paths' \in Seq(1..MaxIndex) /\ Len(paths') = Len(paths) + 1
      BY <1>0, <3>1
    <3>6. paths' = [k \in 1..Len(volumes') |-> k]
      <4>1. index + 1 = Len(volumes) + 1
        BY DEF WriterInv
      <4>2. paths = [k \in 1..Len(volumes) |-> k]
        BY DEF WriterInv, VolumesInOrder
      <4> QED BY <1>0, <3>1, <3>2, <4>1, <4>2
    <3>7. \A v \in 1..(Len(volumes') - 1) : Len(volumes'[v]) = limit'
      <4>1. \A v \in 1..Len(volumes) : Len(volumes[v]) = limit
        BY <1>0, <3>1 DEF WriterInv, VolumesInOrder
      <4> QED BY <1>0, <2>4, <3>2, <3>3, <4>1
    <3>8. Len(volumes'[Len(volumes')]) = filled'
      BY <2>6, <3>1, <3>2, <3>4
    <3>9. WriterTypeOK'
      <4>1. filled' \in 0..MaxBytes /\ taken' \in 0..MaxBytes
        BY <1>0, <2>1, <2>5, <3>1
      <4>2. volumes' # <<>>
        BY <1>0, <3>2
      <4>3. index' \in 1..MaxIndex
        BY <1>0, <3>1
      <4>4. state' \in {"fine", "failed", "finished"}
        BY <2>1
      <4> QED BY <2>4, <3>2, <3>5, <4>1, <4>2, <4>3, <4>4 DEF WriterInv, WriterTypeOK
    <3>10. taken' = (index' - 1) * limit' + filled'
      <4>1. taken = (index - 1) * limit + filled
        BY <3>1 DEF WriterInv
      <4>2. index * limit = (index - 1) * limit + limit
        BY <1>0
      <4> QED BY <1>0, <2>1, <2>4, <2>5, <3>1, <4>1, <4>2
    <3>11. filled' <= limit'
      BY <2>4, <2>5, <2>7, <3>1
    <3>12. VolumesInOrder'
      BY <3>6, <3>7, <3>8, <3>11 DEF VolumesInOrder
    <3>13. index' = Len(volumes') /\ limit' # 0
      BY <2>4, <3>1, <3>2 DEF WriterInv
    <3> QED BY <3>9, <3>10, <3>12, <3>13 DEF WriterInv
  <2>8. CASE ~Full
    <3>1. /\ volumes' = Added(n) /\ filled' = filled + n
          /\ index' = index /\ paths' = paths
      BY <2>1, <2>8
    <3>2. /\ volumes' \in Seq(Seq(1..MaxBytes)) /\ Len(volumes') = Len(volumes)
          /\ \A v \in 1..(Len(volumes) - 1) : volumes'[v] = volumes[v]
          /\ Len(volumes'[Len(volumes)]) = Len(volumes[Len(volumes)]) + n
      BY <1>0, <2>5, <3>1, AddedVolumes, SMTT(60)
    <3>3. VolumesInOrder'
      BY <1>0, <2>4, <2>5, <2>8, <3>1, <3>2 DEF WriterInv, VolumesInOrder
    <3>4. filled <= taken
      <4>1. CASE limit = 0
        BY <1>0, <4>1 DEF WriterInv
      <4>2. CASE limit # 0
        <5>1. taken = (index - 1) * limit + filled
          BY <4>2 DEF WriterInv
        <5>2. (index - 1) * limit \in Nat
          <6>1. index - 1 \in Nat
            BY <1>0 DEF WriterInv
          <6> QED BY <1>0, <6>1
        <5> QED BY <1>0, <5>1, <5>2
      <4> QED BY <4>1, <4>2
    <3>5. WriterTypeOK'
      <4>1. filled' \in 0..MaxBytes /\ taken' \in 0..MaxBytes
        BY <1>0, <2>1, <2>5, <3>1, <3>4
      <4>2. volumes' # <<>>
        BY <1>0, <3>2
      <4>3. state' \in {"fine", "failed", "finished"}
        BY <2>1
      <4> QED BY <2>4, <3>1, <3>2, <4>1, <4>2, <4>3 DEF WriterInv, WriterTypeOK
    <3>6. limit # 0 => taken' = (index' - 1) * limit' + filled'
      <4>1. SUFFICES ASSUME limit # 0 PROVE taken' = (index' - 1) * limit' + filled'
        OBVIOUS
      <4>2. taken = (index - 1) * limit + filled
        BY <4>1 DEF WriterInv
      <4>3. (index - 1) * limit \in Int
        BY <1>0
      <4> QED BY <1>0, <2>1, <2>4, <2>5, <3>1, <4>2, <4>3
    <3> QED BY <1>0, <2>1, <2>4, <2>5, <3>1, <3>2, <3>3, <3>5, <3>6 DEF WriterInv
  <2> QED BY <2>7, <2>8
<1>2. CASE NewVolumeFails
  BY <1>2 DEF NewVolumeFails, WriterInv, WriterTypeOK, VolumesInOrder
<1>3. CASE Finish
  BY <1>3 DEF Finish, WriterInv, WriterTypeOK, VolumesInOrder
<1>4. CASE UNCHANGED writerVars
  BY <1>4 DEF writerVars, WriterInv, WriterTypeOK, VolumesInOrder
<1> QED BY <1>1, <1>2, <1>3, <1>4 DEF WriterNext

LEMMA Always == WriterSpec => []WriterInv
<1>1. WriterInit => WriterInv
  BY Initially
<1>2. WriterInv /\ [WriterNext]_writerVars => WriterInv'
  BY Inductive
<1> QED BY <1>1, <1>2, PTL DEF WriterSpec

\* The variables keep their types; no number beyond the greatest is given out.
THEOREM WriterTyping == WriterSpec => []WriterTypeOK
<1>1. WriterInv => WriterTypeOK
  BY DEF WriterInv
<1> QED BY <1>1, Always, PTL

\* The volumes are numbered without a gap and full but for the last, whatever the
\* limit, however often a file could not be made or took less than it was given.
THEOREM NoGap == WriterSpec => []VolumesInOrder
<1>1. WriterInv => VolumesInOrder
  BY DEF WriterInv
<1> QED BY <1>1, Always, PTL

\* k - 1 full parts of l and a part of f bytes, with at least one, make k parts.
LEMMA DivCeil ==
  ASSUME NEW k \in Nat \ {0}, NEW l \in Nat \ {0}, NEW f \in 1..l
  PROVE  ((k - 1) * l + f + l - 1) \div l = k
<1> DEFINE a == (k - 1) * l + f + l - 1
<1>1. (k - 1) * l = k * l - l /\ k * l \in Nat /\ (k + 1) * l = k * l + l
  OBVIOUS
<1>2. a \in Nat /\ k * l <= a /\ a < (k + 1) * l
  BY <1>1
<1> HIDE DEF a
<1>3. a \div l = k
  <2> DEFINE q == a \div l
  <2>1. q \in Nat /\ q * l <= a /\ a < (q + 1) * l
    BY <1>2
  <2> HIDE DEF q
  <2>2. ~(q < k)
    <3> SUFFICES ASSUME q < k PROVE FALSE
      OBVIOUS
    <3>1. (q + 1) * l <= k * l
      BY <2>1
    <3> QED BY <1>1, <1>2, <2>1, <3>1
  <2>3. ~(k < q)
    <3> SUFFICES ASSUME k < q PROVE FALSE
      OBVIOUS
    <3>1. (k + 1) * l <= q * l
      BY <2>1
    <3> QED BY <1>1, <1>2, <2>1, <3>1
  <2> QED BY <2>1, <2>2, <2>3 DEF q
<1> QED BY <1>3 DEF a

\* A caller may only finish after a call that has put something into the last
\* volume, unless it has written nothing at all.
LastFilled == state \in {"fine", "finished"} /\ taken # 0 => filled # 0

LEMMA LastFilledInductive == ASSUME WriterInv, LastFilled, [WriterNext]_writerVars PROVE LastFilled'
<1> USE WriterAssumption
<1>0. filled \in Nat /\ taken \in Nat
  BY DEF WriterInv, WriterTypeOK
<1>1. ASSUME NEW asked \in 1..MaxBytes, Write(asked) PROVE LastFilled'
  <2>1. Chunk(asked) \in 0..asked
    BY <1>0, ChunkFits, SMTT(60) DEF WriterInv, WriterTypeOK, VolumesInOrder
  <2>2. \E n \in 0..Chunk(asked) :
          /\ filled' = n \/ filled' = filled + n
          /\ state' = IF n = 0 THEN "failed" ELSE "fine"
    BY <1>1 DEF Write
  <2> QED BY <1>0, <2>1, <2>2 DEF LastFilled
<1>2. CASE NewVolumeFails
  BY <1>2 DEF NewVolumeFails, LastFilled
<1>3. CASE Finish
  BY <1>3 DEF Finish, LastFilled
<1>4. CASE UNCHANGED writerVars
  BY <1>4 DEF writerVars, LastFilled
<1> QED BY <1>1, <1>2, <1>3, <1>4 DEF WriterNext

\* A finished set has as many volumes as file_size.div_ceil(max_size) announces:
\* no empty volume follows a stream that fills its last one.
THEOREM CountAnnounced == WriterSpec => []AsAnnounced
<1>1. WriterInv /\ LastFilled => AsAnnounced
  <2> SUFFICES ASSUME WriterInv, LastFilled, state = "finished", limit # 0, taken # 0
               PROVE  Len(volumes) = (taken + limit - 1) \div limit
    BY DEF AsAnnounced
  <2>1. /\ limit \in Nat \ {0} /\ index \in Nat \ {0} /\ index = Len(volumes)
        /\ taken = (index - 1) * limit + filled
    BY WriterAssumption DEF WriterInv, WriterTypeOK
  <2>2. filled \in 1..limit
    BY <2>1, WriterAssumption DEF LastFilled, WriterInv, WriterTypeOK, VolumesInOrder
  <2>3. ((index - 1) * limit + filled + limit - 1) \div limit = index
    BY <2>1, <2>2, DivCeil
  <2> QED BY <2>1, <2>3
<1>2. WriterInit => LastFilled
  BY DEF WriterInit, LastFilled
<1>3. WriterInv /\ LastFilled /\ [WriterNext]_writerVars => LastFilled'
  BY LastFilledInductive
<1> QED BY <1>1, <1>2, <1>3, Always, PTL DEF WriterSpec

-----------------------------------------------------------------------------
(* MultiVolumeReader, for every set of volumes: one stream of bytes.       *)

\* Where the volumes begin: one behind the other.
LEMMA VolumeOffsets ==
  ASSUME sizes \in Seq(Nat)
  PROVE  /\ \A v \in 1..Len(sizes) + 1 : Reader!Offset(v) \in Nat
         /\ Reader!Offset(1) = 0
         /\ \A v \in 1..Len(sizes) : Reader!Offset(v + 1) = Reader!Offset(v) + sizes[v]
<1> DEFINE n == Len(sizes) + 1
           Sum(f) == f = [w \in 1..n |-> IF w = 1 THEN 0 ELSE f[w - 1] + sizes[w - 1]]
           c == CHOOSE f : Sum(f)
           g == [p \in (1..n) \X Nat |-> p[2] + (IF p[1] = 1 THEN 0 ELSE sizes[p[1] - 1])]
<1>1. n \in Nat \ {0} /\ \A i \in 2..n : i - 1 \in 1..n /\ sizes[i - 1] \in Nat
  OBVIOUS
<1>2. g \in [(1..n) \X Nat -> Nat]
  <2>1. ASSUME NEW p \in (1..n) \X Nat PROVE p[2] + (IF p[1] = 1 THEN 0 ELSE sizes[p[1] - 1]) \in Nat
    <3>1. p[1] \in 1..n /\ p[2] \in Nat
      OBVIOUS
    <3>2. p[1] = 1 \/ p[1] \in 2..n
      BY <1>1, <3>1
    <3> QED
      BY <1>1, <3>1, <3>2
  <2> QED
    BY <2>1
<1>3. \A i \in 2..n, x \in Nat : g[<<i, x>>] = x + sizes[i - 1]
  OBVIOUS
<1>4. \A v : Reader!Offset(v) = c[v]
  BY DEF Reader!Offset
<1> HIDE DEF g, n
<1>5. PICK f \in [1..n -> Nat] : f[1] = 0 /\ \A i \in 2..n : f[i] = g[<<i, f[i - 1]>>]
  <2> DEFINE b == 0
  <2>1. b \in Nat
    OBVIOUS
  <2> HIDE DEF b
  <2>2. \E f : Folded(f, n, Nat, b, g)
    BY <1>1, <1>2, <2>1, FoldExists
  <2> QED
    BY <2>2 DEF b, Folded
<1>6. Sum(f)
  <2> DEFINE h == [w \in 1..n |-> IF w = 1 THEN 0 ELSE f[w - 1] + sizes[w - 1]]
  <2>1. ASSUME NEW i \in 1..n PROVE f[i] = h[i]
    <3>1. i = 1 \/ (i \in 2..n /\ i - 1 \in 1..n)
      BY <1>1
    <3> QED
      BY <1>3, <1>5, <3>1
  <2>2. f = h
    BY <2>1
  <2> QED
    BY <2>2
<1>7. Sum(c)
  BY <1>6
<1> HIDE DEF c
<1>8. \A i \in 1..n : c[i] = f[i]
  <2> DEFINE T == {i \in 1..n : c[i] # f[i]}
  <2>1. CASE T = {}
    BY <2>1
  <2>2. CASE T # {}
    <3>1. \A y \in T : y \in Nat
      BY <1>1
    <3> HIDE DEF T
    <3>2. PICK x \in T : \A y \in T : x <= y
      BY <2>2, <3>1, Least
    <3>3. x \in 1..n /\ c[x] # f[x]
      BY <3>2 DEF T
    <3>4. c[x] = (IF x = 1 THEN 0 ELSE c[x - 1] + sizes[x - 1])
          /\ f[x] = (IF x = 1 THEN 0 ELSE f[x - 1] + sizes[x - 1])
      BY <1>6, <1>7, <3>3
    <3>5. x # 1 => x - 1 \in 1..n /\ x - 1 \notin T
      BY <1>1, <3>1, <3>2, <3>3
    <3>6. x # 1 => c[x - 1] = f[x - 1]
      BY <3>5 DEF T
    <3> QED
      BY <3>3, <3>4, <3>6
  <2> QED
    BY <2>1, <2>2
<1>9. \A i \in 1..n : Reader!Offset(i) \in Nat /\ Reader!Offset(i) = f[i]
  BY <1>4, <1>5, <1>8
<1>10. 1 \in 1..n
  BY <1>1
<1>11. ASSUME NEW v \in 1..Len(sizes) PROVE Reader!Offset(v + 1) = Reader!Offset(v) + sizes[v]
  <2> DEFINE q == v + 1
  <2>1. q \in 2..n /\ q \in 1..n /\ v \in 1..n /\ q - 1 = v
    BY <1>1 DEF n
  <2> HIDE DEF q
  <2>2. f[q] = f[v] + sizes[v]
    BY <1>3, <1>5, <2>1
  <2> QED
    BY <1>9, <2>1, <2>2 DEF q
<1> QED
  BY <1>5, <1>9, <1>10, <1>11 DEF n

\* Later volumes begin later.
LEMMA OffsetsGrow ==
  ASSUME sizes \in Seq(Nat), NEW u \in 1..Len(sizes) + 1, NEW v \in 1..Len(sizes) + 1, u <= v
  PROVE  Reader!Offset(u) <= Reader!Offset(v)
<1> DEFINE n == Len(sizes) + 1
           T == {w \in u..n : ~(Reader!Offset(u) <= Reader!Offset(w))}
<1>1. n \in Nat /\ u \in Nat /\ \A i \in 1..Len(sizes) : sizes[i] \in Nat
  OBVIOUS
<1>2. CASE T = {}
  BY <1>1, <1>2
<1>3. CASE T # {}
  <2>1. \A y \in T : y \in Nat
    BY <1>1
  <2> HIDE DEF T
  <2>2. PICK x \in T : \A y \in T : x <= y
    BY <1>3, <2>1, Least
  <2>3. x \in u..n /\ ~(Reader!Offset(u) <= Reader!Offset(x))
    BY <2>2 DEF T
  <2>4. x # u
    BY <2>3, VolumeOffsets
  <2> DEFINE w == x - 1
  <2>5. w \in u..n /\ w \in 1..Len(sizes) /\ w + 1 = x /\ ~(x <= w)
    BY <1>1, <2>3, <2>4
  <2> HIDE DEF w
  <2>6. Reader!Offset(u) <= Reader!Offset(w)
    BY <2>2, <2>5 DEF T
  <2>7. /\ Reader!Offset(x) = Reader!Offset(w) + sizes[w] /\ sizes[w] \in Nat
        /\ Reader!Offset(w) \in Nat /\ Reader!Offset(u) \in Nat
    BY <1>1, <2>5, VolumeOffsets
  <2> QED
    BY <2>3, <2>6, <2>7
<1> QED
  BY <1>2, <1>3

\* Every byte is in one volume.
LEMMA HoldingIs ==
  ASSUME sizes \in Seq(Nat), NEW p \in Nat, p < Reader!Total
  PROVE  /\ Reader!Holding(p) \in 1..Len(sizes)
         /\ Reader!Offset(Reader!Holding(p)) <= p /\ p < Reader!Offset(Reader!Holding(p) + 1)
         /\ \A v \in 1..Len(sizes) :
              Reader!Offset(v) <= p /\ p < Reader!Offset(v + 1) => v = Reader!Holding(p)
<1> DEFINE n == Len(sizes)
           In(v) == v \in 1..n /\ Reader!Offset(v) <= p /\ p < Reader!Offset(v + 1)
           T == {w \in 1..n + 1 : p < Reader!Offset(w)}
<1>1. n \in Nat /\ p < Reader!Offset(n + 1) /\ n + 1 \in 1..n + 1
  BY DEF Reader!Total
<1>2. \A v \in 1..n + 1 : Reader!Offset(v) \in Nat
  BY VolumeOffsets
<1>3. \E v : In(v)
  <2>1. \A y \in T : y \in Nat
    BY <1>1
  <2>2. T # {}
    BY <1>1
  <2> HIDE DEF T
  <2>3. PICK x \in T : \A y \in T : x <= y
    BY <2>1, <2>2, Least
  <2>4. x \in 1..n + 1 /\ p < Reader!Offset(x)
    BY <2>3 DEF T
  <2>5. x # 1
    BY <2>4, VolumeOffsets
  <2> DEFINE w == x - 1
  <2>6. w \in 1..n /\ w \in 1..n + 1 /\ w + 1 = x /\ ~(x <= w)
    BY <1>1, <2>4, <2>5
  <2> HIDE DEF w
  <2>7. ~(p < Reader!Offset(w))
    BY <2>3, <2>6 DEF T
  <2>8. Reader!Offset(w) <= p
    BY <1>2, <2>6, <2>7
  <2> QED
    BY <2>4, <2>6, <2>8
<1>4. Reader!Holding(p) = CHOOSE v \in 1..n : Reader!Offset(v) <= p /\ p < Reader!Offset(v + 1)
  BY DEF Reader!Holding, Reader!Volumes
<1>5. In(Reader!Holding(p))
  BY <1>3, <1>4
<1>6. ASSUME NEW u \in 1..n, NEW v \in 1..n, In(u), In(v), u < v PROVE FALSE
  <2> DEFINE w == u + 1
  <2>1. w \in 1..n + 1 /\ w <= v /\ v \in 1..n + 1
    BY <1>1, <1>6
  <2> HIDE DEF w
  <2>2. Reader!Offset(w) <= Reader!Offset(v)
    BY <2>1, OffsetsGrow
  <2>3. p < Reader!Offset(w) /\ Reader!Offset(v) <= p
    BY <1>6 DEF w
  <2> QED
    BY <1>2, <2>1, <2>2, <2>3
<1>7. \A v \in 1..n : In(v) => v = Reader!Holding(p)
  BY <1>1, <1>5, <1>6
<1> HIDE DEF n
<1> QED
  BY <1>5, <1>7 DEF n

\* What a caller finds who has just opened the set.
StartOfSet ==
  /\ Reader!Total \in Nat
  /\ Reader!Offset(1) = 0
  /\ 0 < Reader!Total =>
       /\ Reader!Holding(0) \in 1..Len(sizes)
       /\ Reader!Offset(Reader!Holding(0)) = 0

LEMMA AtTheBeginning == sizes \in Seq(Nat) => StartOfSet
<1> SUFFICES ASSUME sizes \in Seq(Nat) PROVE StartOfSet
  OBVIOUS
<1>1. Reader!Total \in Nat /\ Reader!Offset(1) = 0
  <2>1. Len(sizes) + 1 \in 1..Len(sizes) + 1
    OBVIOUS
  <2> QED
    BY <2>1, VolumeOffsets DEF Reader!Total
<1>2. ASSUME 0 < Reader!Total
      PROVE  Reader!Holding(0) \in 1..Len(sizes) /\ Reader!Offset(Reader!Holding(0)) = 0
  <2>1. Reader!Holding(0) \in 1..Len(sizes) /\ Reader!Offset(Reader!Holding(0)) <= 0
    BY <1>2, HoldingIs
  <2>2. Reader!Offset(Reader!Holding(0)) \in Nat
    BY <2>1, VolumeOffsets
  <2> QED
    BY <2>1, <2>2
<1> QED
  BY <1>1, <1>2 DEF StartOfSet

LEMMA Beginning == (sizes \in Seq(Nat) => StartOfSet)'
  BY AtTheBeginning, PTL

LEMMA SameVolumes ==
  ASSUME sizes' = sizes
  PROVE  /\ Reader!Total' = Reader!Total
         /\ \A v : Reader!Offset(v)' = Reader!Offset(v)
         /\ \A p : Reader!Holding(p)' = Reader!Holding(p)
<1>1. \A v : Reader!Offset(v)' = Reader!Offset(v)
  BY DEF Reader!Offset
<1>2. Reader!Total' = Reader!Total
  BY DEF Reader!Offset, Reader!Total
<1>3. \A p : Reader!Holding(p)' = Reader!Holding(p)
  BY DEF Reader!Offset, Reader!Holding, Reader!Volumes
<1> QED
  BY <1>1, <1>2, <1>3

\* The invariant: while bytes are left, the open file is where the position is, or
\* the position is where the next volume with bytes begins.
AtPosition ==
  \/ /\ at = Reader!Holding(pos)
     /\ handle = Reader!Opened(at, pos - Reader!Offset(at))
  \/ /\ at # Reader!Holding(pos)
     /\ pos = Reader!Offset(Reader!Holding(pos))

ReaderInv ==
  /\ sizes \in Seq(Nat)
  /\ sizes # <<>> => pos \in 0..Reader!Total /\ (pos < Reader!Total => AtPosition)

StreamInv == WriterInv /\ ReaderInv

\* What the set holds, as its caller sees it.
Content == [k \in 1..Reader!Total |-> k]

LEMMA ContentIs ==
  ASSUME sizes \in Seq(Nat)
  PROVE  /\ Reader!Total \in Nat
         /\ Content \in Seq(Nat) /\ Len(Content) = Reader!Total
<1>1. Reader!Total \in Nat
  BY AtTheBeginning DEF StartOfSet
<1> QED
  BY <1>1 DEF Content

LEMMA Opening ==
  ASSUME NEW s \in Seq(Nat), Reader!Open(s)
  PROVE  ReaderInv' /\ Reader!Whole!Open
<1>1. /\ sizes = <<>> /\ Len(s) >= 2 /\ sizes' = s
      /\ at' = 1 /\ handle' = Reader!Opened(1, 0) /\ pos' = 0
      /\ res' = [kind |-> "moved", bytes |-> <<>>]
  BY DEF Reader!Open, Reader!Moved
<1>2. sizes' \in Seq(Nat) /\ sizes' # <<>>
  BY <1>1
<1>3. StartOfSet'
  BY <1>2, Beginning
<1>4. 0 < Reader!Total' => AtPosition'
  <2>1. SUFFICES ASSUME 0 < Reader!Total' PROVE AtPosition'
    OBVIOUS
  <2>2. Reader!Holding(pos)' = Reader!Holding(0)'
    BY <1>1
  <2>3. Reader!Offset(Reader!Holding(pos))' = 0 /\ Reader!Offset(1)' = 0
    BY <1>1, <1>3, <2>1 DEF StartOfSet
  <2>4. Reader!Offset(at)' = 0
    BY <1>1, <2>3
  <2> QED
    BY <1>1, <2>3, <2>4 DEF AtPosition, Reader!Opened
<1>5. ReaderInv'
  <2>1. pos' \in 0..Reader!Total'
    BY <1>1, <1>3 DEF StartOfSet
  <2> QED
    BY <1>1, <1>2, <1>4, <2>1 DEF ReaderInv
<1>6. Reader!Whole!Open
  <2>1. [k \in 1..Reader!Total |-> k]' \in Seq(Nat)
    BY <1>3 DEF StartOfSet
  <2> QED
    BY <1>1, <1>2, <2>1 DEF Reader!Whole!Open, Reader!Whole!Moved
<1> QED
  BY <1>5, <1>6

LEMMA Failing ==
  ASSUME ReaderInv, sizes # <<>>, Reader!ReadOpenFails \/ Reader!ReadFails \/ Reader!SeekFails
  PROVE  ReaderInv' /\ Reader!Whole!Fail /\ UNCHANGED sizes
<1>1. UNCHANGED <<sizes, pos>> /\ res' = [kind |-> "failed", bytes |-> <<>>]
  BY DEF Reader!ReadOpenFails, Reader!ReadFails, Reader!SeekFails, Reader!Failed
<1>2. /\ Reader!Total' = Reader!Total
      /\ Reader!Holding(pos)' = Reader!Holding(pos)
      /\ \A v : Reader!Offset(v)' = Reader!Offset(v)
  BY <1>1, SameVolumes
<1>3. ASSUME pos < Reader!Total PROVE AtPosition'
  <2>0. AtPosition /\ pos \in 0..Reader!Total /\ Reader!Total \in Nat /\ sizes \in Seq(Nat)
    BY <1>3, ContentIs DEF ReaderInv
  <2>h. Reader!Holding(pos) \in 1..Len(sizes)
    BY <1>3, <2>0, HoldingIs
  <2>1. CASE Reader!ReadOpenFails
    <3>1. at < Reader!Holding(pos) /\ \E v \in at..(Reader!Holding(pos) - 1) : at' = v
      BY <2>1 DEF Reader!ReadOpenFails
    <3>2. at # Reader!Holding(pos) /\ at' # Reader!Holding(pos)
      BY <2>h, <3>1
    <3> QED
      BY <1>1, <1>2, <2>0, <3>2 DEF AtPosition
  <2>2. CASE Reader!ReadFails
    <3>1. at' = Reader!Holding(pos) /\ handle' = Reader!Source
      BY <2>2 DEF Reader!ReadFails
    <3>2. Reader!Source = Reader!Opened(Reader!Holding(pos), pos - Reader!Offset(Reader!Holding(pos)))
      BY <2>0 DEF AtPosition, Reader!Source
    <3> QED
      BY <1>1, <1>2, <3>1, <3>2 DEF AtPosition, Reader!Opened
  <2>3. CASE Reader!SeekFails
    BY <1>1, <1>2, <2>0, <2>3 DEF AtPosition, Reader!SeekFails, Reader!Opened
  <2> QED
    BY <2>1, <2>2, <2>3
<1> QED
  BY <1>1, <1>2, <1>3 DEF ReaderInv, Reader!Whole!Fail, Reader!Whole!Failed

LEMMA ReadingOn ==
  ASSUME ReaderInv, sizes # <<>>, Reader!ReadSome
  PROVE  ReaderInv' /\ Reader!Whole!Read /\ UNCHANGED sizes
<1> DEFINE h == Reader!Holding(pos)
           o == Reader!Offset(h)
           e == Reader!Offset(h + 1)
<1>1. /\ sizes \in Seq(Nat) /\ Reader!Total \in Nat /\ AtPosition
      /\ pos \in Nat /\ pos < Reader!Total
  BY ContentIs DEF ReaderInv, Reader!ReadSome
<1>2. h \in 1..Len(sizes) /\ o <= pos /\ pos < e
  BY <1>1, HoldingIs
<1>3. o \in Nat /\ e \in Nat /\ e <= Reader!Total
  <2> DEFINE w == h + 1
             n == Len(sizes) + 1
  <2>1. w \in 1..n /\ n \in 1..n /\ h \in 1..n /\ w <= n
    BY <1>2
  <2> HIDE DEF w, n
  <2>2. o \in Nat /\ Reader!Offset(w) \in Nat
    BY <1>1, <2>1, VolumeOffsets DEF n
  <2>3. Reader!Offset(w) <= Reader!Offset(n)
    BY <1>1, <2>1, OffsetsGrow DEF n
  <2> QED
    BY <2>2, <2>3 DEF w, n, Reader!Total
<1>4. Reader!Source = Reader!Opened(h, pos - o)
  BY <1>1 DEF AtPosition, Reader!Source
<1>5. PICK n \in 1..(e - pos) :
        /\ at' = h /\ UNCHANGED sizes
        /\ handle' = [Reader!Source EXCEPT !.off = @ + n]
        /\ pos' = pos + n
        /\ res' = Reader!Data(Reader!Stored(Reader!Source, n))
  BY DEF Reader!ReadSome
<1>6. Reader!Source.vol = h /\ Reader!Source.off = pos - o
  BY <1>4 DEF Reader!Opened
<1>7. handle' = Reader!Opened(h, pos' - o)
  <2>1. handle' = [vol |-> h, off |-> (pos - o) + n]
    BY <1>4, <1>5 DEF Reader!Opened
  <2>2. (pos - o) + n = pos' - o
    BY <1>1, <1>2, <1>3, <1>5
  <2> QED
    BY <2>1, <2>2 DEF Reader!Opened
<1>8. /\ Reader!Total' = Reader!Total
      /\ \A v : Reader!Offset(v)' = Reader!Offset(v)
      /\ \A p : Reader!Holding(p)' = Reader!Holding(p)
  BY <1>5, SameVolumes
<1>n. n \in Nat /\ n >= 1 /\ pos + n <= e /\ pos' \in Nat /\ pos' <= e /\ pos < pos'
  BY <1>1, <1>3, <1>5
<1>w. Reader!Holding(pos)' = Reader!Holding(pos')
  BY <1>5 DEF Reader!Offset, Reader!Holding, Reader!Volumes
<1> HIDE DEF h, o, e
\* The position is still in the volume, or where a later one begins.
<1>9. ASSUME pos' < Reader!Total PROVE AtPosition'
  <2> DEFINE k == Reader!Holding(pos')
  <2>1. k \in 1..Len(sizes) /\ Reader!Offset(k) <= pos' /\ pos' < Reader!Offset(k + 1)
    BY <1>1, <1>9, <1>n, HoldingIs
  <2>2. \A v \in 1..Len(sizes) :
          Reader!Offset(v) <= pos' /\ pos' < Reader!Offset(v + 1) => v = k
    BY <1>1, <1>9, <1>n, HoldingIs
  <2> HIDE DEF k
  <2>3. CASE pos' < e
    <3>1. h = k
      BY <1>1, <1>2, <1>3, <1>n, <2>2, <2>3 DEF o, e
    <3>2. at' = Reader!Holding(pos)' /\ Reader!Offset(at)' = o
      BY <1>5, <1>8, <1>w, <3>1 DEF k, o, Reader!Offset
    <3> QED
      BY <1>7, <3>1, <3>2, <1>5 DEF AtPosition, Reader!Opened
  <2>4. CASE pos' = e
    <3>1. k > h
      <4>1. SUFFICES ASSUME k <= h PROVE FALSE
        BY <1>2, <2>1
      <4> DEFINE w == k + 1
                 u == h + 1
      <4>2. w \in 1..Len(sizes) + 1 /\ u \in 1..Len(sizes) + 1 /\ w <= u
        BY <1>2, <2>1, <4>1
      <4> HIDE DEF w, u
      <4>3. Reader!Offset(w) <= Reader!Offset(u)
        BY <1>1, <4>2, OffsetsGrow
      <4>4. Reader!Offset(w) \in Nat
        BY <1>1, <4>2, VolumeOffsets
      <4> QED
        BY <1>3, <1>n, <2>1, <2>4, <4>3, <4>4 DEF w, u, e
    <3>2. e <= Reader!Offset(k)
      <4> DEFINE u == h + 1
      <4>1. u \in 1..Len(sizes) + 1 /\ k \in 1..Len(sizes) + 1 /\ u <= k
        BY <1>2, <2>1, <3>1
      <4> HIDE DEF u
      <4> QED
        BY <1>1, <4>1, OffsetsGrow DEF u, e
    <3>3. Reader!Offset(k) = pos'
      <4>1. k \in 1..Len(sizes) + 1
        BY <2>1
      <4>2. Reader!Offset(k) \in Nat
        BY <1>1, <4>1, VolumeOffsets
      <4> QED
        BY <1>3, <1>n, <2>1, <2>4, <3>2, <4>2
    <3>4. at' # Reader!Holding(pos)' /\ Reader!Offset(Reader!Holding(pos))' = pos'
      <4>1. at' # k
        BY <1>2, <1>5, <2>1, <3>1
      <4>2. Reader!Offset(Reader!Holding(pos))' = Reader!Offset(k)
        BY <1>5, <1>w DEF k, Reader!Offset, Reader!Holding, Reader!Volumes
      <4> QED
        BY <1>w, <3>3, <4>1, <4>2 DEF k
    <3> QED
      BY <3>4 DEF AtPosition
  <2> QED
    BY <1>3, <1>n, <2>3, <2>4
<1>10. ReaderInv'
  <2>1. pos' \in 0..Reader!Total
    BY <1>1, <1>3, <1>n
  <2> QED
    BY <1>1, <1>5, <1>8, <1>9, <2>1 DEF ReaderInv
<1>11. Reader!Whole!Read
  <2> DEFINE part == [i \in 1..n |-> pos + i]
             t == Reader!Total
  <2>1. Reader!Stored(Reader!Source, n) = part
    <3>1. Reader!Stored(Reader!Source, n) = [i \in 1..n |-> o + (pos - o) + i]
      BY <1>6 DEF Reader!Stored, o, h
    <3>2. \A i \in 1..n : o + (pos - o) + i = pos + i
      BY <1>1, <1>3, <1>n
    <3> QED
      BY <3>1, <3>2
  <2>2. t \in Nat /\ pos + n <= t /\ n \in 1..(t - pos)
    BY <1>1, <1>3, <1>n
  <2> HIDE DEF t
  <2>3. SubSeq([i \in 1..t |-> i], pos + 1, pos + n) = part
    BY <1>1, <1>n, <2>2
  <2>4. Len([i \in 1..t |-> i]) = t
    BY <2>2
  <2> QED
    BY <1>5, <2>1, <2>2, <2>3, <2>4 DEF t, Reader!Whole!Read, Reader!Data, Reader!Whole!Data
<1> QED
  BY <1>5, <1>10, <1>11

LEMMA ReadingEnds ==
  ASSUME ReaderInv, sizes # <<>>, Reader!ReadEnd
  PROVE  ReaderInv' /\ Reader!Whole!Read /\ UNCHANGED sizes
<1>1. /\ pos \in 0..Reader!Total /\ Reader!Total \in Nat
      /\ Content \in Seq(Nat) /\ Len(Content) = Reader!Total /\ sizes \in Seq(Nat)
  BY ContentIs DEF ReaderInv
<1>2. /\ pos >= Reader!Total /\ UNCHANGED <<sizes, at, handle, pos>>
      /\ res' = [kind |-> "end", bytes |-> <<>>]
  BY DEF Reader!ReadEnd, Reader!End
<1>3. pos = Reader!Total
  BY <1>1, <1>2
<1>4. Reader!Total' = Reader!Total
  BY <1>2, SameVolumes
<1>5. ReaderInv'
  BY <1>1, <1>2, <1>3, <1>4 DEF ReaderInv
<1> QED
  BY <1>1, <1>2, <1>3, <1>5 DEF Content, Reader!Whole!Read, Reader!Whole!End

LEMMA Seeking ==
  ASSUME ReaderInv, sizes # <<>>, Reader!SeekEnd \/ \E p \in 0..Reader!Total : Reader!SeekTo(p)
  PROVE  ReaderInv' /\ Reader!Whole!Seek /\ UNCHANGED sizes
<1>1. /\ Reader!Total \in Nat /\ sizes \in Seq(Nat)
      /\ Content \in Seq(Nat) /\ Len(Content) = Reader!Total
  BY ContentIs DEF ReaderInv
<1>2. /\ UNCHANGED sizes /\ pos' \in 0..Reader!Total
      /\ res' = [kind |-> "moved", bytes |-> <<>>]
      /\ pos' < Reader!Total =>
           at' = Reader!Holding(pos') /\ handle' = Reader!Opened(at', pos' - Reader!Offset(at'))
  BY <1>1 DEF Reader!SeekEnd, Reader!SeekTo, Reader!Moved
<1>3. /\ Reader!Total' = Reader!Total
      /\ Reader!Holding(pos)' = Reader!Holding(pos')
      /\ Reader!Offset(at)' = Reader!Offset(at')
  BY <1>2 DEF Reader!Offset, Reader!Total, Reader!Holding, Reader!Volumes
<1>4. pos' < Reader!Total => AtPosition'
  BY <1>2, <1>3 DEF AtPosition, Reader!Opened
<1>5. ReaderInv'
  BY <1>1, <1>2, <1>3, <1>4 DEF ReaderInv
<1> QED
  BY <1>1, <1>2, <1>5 DEF Content, Reader!Whole!Seek, Reader!Whole!Moved

LEMMA StreamStarts == ASSUME StreamInit PROVE StreamInv /\ Reader!Whole!Init
<1>1. WriterInv
  BY Initially DEF StreamInit
<1>2. /\ sizes = <<>> /\ pos = 0 /\ res = [kind |-> "failed", bytes |-> <<>>]
      /\ sizes \in Seq(Nat)
  BY DEF StreamInit, Reader!Init, Reader!Failed
<1>3. Reader!Total = 0
  <2>1. Len(sizes) + 1 = 1
    BY <1>2
  <2> QED
    BY <1>2, <2>1, AtTheBeginning DEF StartOfSet, Reader!Total
<1>4. [k \in 1..Reader!Total |-> k] = <<>>
  BY <1>3
<1> QED
  BY <1>1, <1>2, <1>4 DEF StreamInv, ReaderInv, Reader!Whole!Init, Reader!Whole!Failed

\* What the caller of the reader sees of a step.
Seen == [Reader!Whole!Next]_<<sizes # <<>>, [k \in 1..Reader!Total |-> k], pos, res>>

LEMMA StreamGoesOn ==
  ASSUME StreamInv, [StreamNext]_<<writerVars, readerVars>>
  PROVE  StreamInv' /\ Seen
<1> USE DEF StreamInv
<1>1. CASE UNCHANGED <<sizes, left, at, handle, pos, res>> /\ [WriterNext]_writerVars
  <2>1. /\ sizes' = sizes /\ pos' = pos /\ res' = res /\ at' = at /\ handle' = handle
        /\ Reader!Total' = Reader!Total
    BY <1>1, SameVolumes
  <2>2. AtPosition' <=> AtPosition
    BY <2>1 DEF AtPosition, Reader!Opened, Reader!Offset, Reader!Holding, Reader!Volumes
  <2> QED
    BY <1>1, <2>1, <2>2, Inductive DEF ReaderInv, Seen
<1>2. ASSUME UNCHANGED writerVars PROVE WriterInv'
  BY <1>2, Inductive
<1>3. ASSUME NEW s \in Seq(Nat), Reader!Open(s), UNCHANGED writerVars PROVE StreamInv' /\ Seen
  BY <1>2, <1>3, Opening DEF Seen, Reader!Whole!Next
<1>4. CASE WriterStep
  BY <1>1, <1>4 DEF WriterStep
<1>5. CASE ReadBack
  <2>1. PartSizes \in Seq(Nat)
    BY DEF PartSizes, WriterInv, WriterTypeOK
  <2> QED
    BY <1>3, <1>5, <2>1 DEF ReadBack
<1>6. CASE ReadForeign
  BY <1>3, <1>6, StreamAssumption DEF ReadForeign
<1>7. CASE ReaderStep
  <2>1. /\ sizes # <<>> /\ UNCHANGED writerVars
        /\ Reader!Read \/ Reader!Seek \/ \E v \in Reader!Volumes : Reader!CutShort(v)
    BY <1>7 DEF ReaderStep, Reader!Use
  <2>2. CASE Reader!ReadOpenFails \/ Reader!ReadFails \/ Reader!SeekFails
    <3>1. ReaderInv' /\ Reader!Whole!Fail /\ UNCHANGED sizes
      BY <2>1, <2>2, Failing
    <3> QED
      BY <1>2, <2>1, <3>1, SameVolumes DEF Seen, Reader!Whole!Next
  <2>3. CASE Reader!ReadSome
    <3>1. ReaderInv' /\ Reader!Whole!Read /\ UNCHANGED sizes
      BY <2>1, <2>3, ReadingOn
    <3> QED
      BY <1>2, <2>1, <3>1, SameVolumes DEF Seen, Reader!Whole!Next
  <2>4. CASE Reader!ReadEnd
    <3>1. ReaderInv' /\ Reader!Whole!Read /\ UNCHANGED sizes
      BY <2>1, <2>4, ReadingEnds
    <3> QED
      BY <1>2, <2>1, <3>1, SameVolumes DEF Seen, Reader!Whole!Next
  <2>5. CASE Reader!SeekEnd \/ \E p \in 0..Reader!Total : Reader!SeekTo(p)
    <3>1. ReaderInv' /\ Reader!Whole!Seek /\ UNCHANGED sizes
      BY <2>1, <2>5, Seeking
    <3> QED
      BY <1>2, <2>1, <3>1, SameVolumes DEF Seen, Reader!Whole!Next
  <2>6. CASE \E v \in Reader!Volumes : Reader!CutShort(v)
    <3>1. UNCHANGED <<sizes, at, handle, pos, res>>
      BY <2>6 DEF Reader!CutShort
    <3>2. Reader!Total' = Reader!Total
      BY <3>1, SameVolumes
    <3>3. AtPosition' <=> AtPosition
      BY <3>1 DEF AtPosition, Reader!Opened, Reader!Offset, Reader!Holding, Reader!Volumes
    <3> QED
      BY <1>2, <2>1, <3>1, <3>2, <3>3 DEF ReaderInv, Seen
  <2> QED
    BY <2>1, <2>2, <2>3, <2>4, <2>5, <2>6 DEF Reader!Read, Reader!Seek
<1>8. CASE UNCHANGED <<writerVars, readerVars>>
  BY <1>1, <1>8 DEF readerVars
<1> QED
  BY <1>4, <1>5, <1>6, <1>7, <1>8 DEF StreamNext

\* Whatever volumes there are and whatever fails, the caller of the reader sees a
\* stream of bytes that goes on where it stopped and ends at its end (volume.rs:216-260).
THEOREM ReaderIsOneStream == StreamSpec => ImplementsByteStream
<1>1. StreamInit => StreamInv /\ Reader!Whole!Init
  BY StreamStarts
<1>2. StreamInv /\ [StreamNext]_<<writerVars, readerVars>> => StreamInv' /\ Seen
  BY StreamGoesOn
<1> QED
  BY <1>1, <1>2, PTL DEF StreamSpec, Seen, ImplementsByteStream, Reader!ImplementsByteStream,
     Reader!Whole!Spec

=============================================================================
