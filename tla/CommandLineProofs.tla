------------------------- MODULE CommandLineProofs -------------------------
(***************************************************************************)
(* Proofs about CommandLine, for every name, content and password: the     *)
(* command line and the window agree on a file's format, what compress has *)
(* locked is delivered with its password only, what compress has packed    *)
(* comes back, and what test accepts can be read.  And about CliOutput,     *)
(* for any number of commands, names and requests: what a command reports  *)
(* is true of what it left, and a Ctrl+C before the last look is heeded.   *)
(***************************************************************************)
EXTENDS CommandLine, CliOutput, SequenceTheorems, TLAPS

-----------------------------------------------------------------------------
\* The two tables.

\* What first bytes may say.
Magics == OwnMagic \union {"aes", None}

LEMMA MagicIs ==
  ASSUME NEW c, c.begins \in OwnMagic \union {None} PROVE DetectFormat(c) \in Magics
  BY DEF DetectFormat, Magics, OwnMagic

\* The compressions that first bytes tell, and what wraps a TAR in them.
LEMMA Unwrapped ==
  /\ Magics \intersect DOMAIN Wrapping = {"gzip", "bzip2", "lz4", "zstd", "xz"}
  /\ Wrapping["gzip"] = "tar.gz" /\ Wrapping["bzip2"] = "tar.bz2"
  /\ Wrapping["lz4"] = "tar.lz4" /\ Wrapping["zstd"] = "tar.zst" /\ Wrapping["xz"] = "tar.xz"
<1>1. DOMAIN CodecOf = Wrapped
  BY DEF CodecOf
<1>2. /\ CodecOf["tar.gz"] = "gzip" /\ CodecOf["tar.bz2"] = "bzip2"
      /\ CodecOf["tar.br"] = "brotli" /\ CodecOf["tar.lz4"] = "lz4"
      /\ CodecOf["tar.zst"] = "zstd" /\ CodecOf["tar.xz"] = "xz" /\ CodecOf["tar.lz"] = "lz"
  BY DEF CodecOf, Wrapped
<1>3. {CodecOf[f] : f \in Wrapped} = {"gzip", "bzip2", "brotli", "lz4", "zstd", "xz", "lz"}
  BY <1>2 DEF Wrapped
<1>4. DOMAIN Wrapping = {"gzip", "bzip2", "brotli", "lz4", "zstd", "xz", "lz", "lzma"}
  BY <1>3 DEF Wrapping
<1>5. ASSUME NEW f \in Wrapped PROVE Wrapping[CodecOf[f]] = f
  <2>1. \A g \in Wrapped : CodecOf[g] = CodecOf[f] => g = f
    BY <1>2 DEF Wrapped
  <2>2. (CHOOSE g \in Wrapped : CodecOf[g] = CodecOf[f]) = f
    BY <2>1
  <2>3. CodecOf[f] # "lzma"
    BY <1>2 DEF Wrapped
  <2> QED
    BY <2>2, <2>3 DEF Wrapping
<1>6. Magics \intersect DOMAIN Wrapping = {"gzip", "bzip2", "lz4", "zstd", "xz"}
  BY <1>4 DEF Magics, OwnMagic, None
<1>7. {"tar.gz", "tar.bz2", "tar.lz4", "tar.zst", "tar.xz"} \subseteq Wrapped
  BY DEF Wrapped
<1> QED
  BY <1>2, <1>5, <1>6, <1>7

\* Told the same evidence the two sides give the same answer, but for ZIPX.
LEMMA SameAnswer ==
  ASSUME NEW name, NEW c, c.begins \in OwnMagic \union {None}
  PROVE  LET cli == DetectArchiveFormat(name, c)
             window == WindowDetect(name, c)
         IN  cli = window \/ {cli, window} = {"zip", "zipx"}
<1> DEFINE magic == DetectFormat(c)
           extension == DetectFromExtension(name)
<1>1. magic \in Magics
  BY MagicIs
<1>2. CASE magic = None
  BY <1>2 DEF DetectArchiveFormat, WindowDetect
<1>3. CASE magic \in {"gzip", "bzip2", "lz4", "zstd", "xz"}
  <2>1. DetectArchiveFormat(name, c) =
          IF extension = Wrapping[magic] THEN Wrapping[magic] ELSE magic
    <3>1. magic \in DOMAIN Wrapping /\ magic # None
      BY <1>3, Unwrapped DEF None
    <3> QED
      BY <3>1 DEF DetectArchiveFormat, ResolveTarWrapped
  <2>2. <<magic, extension>> \in WindowPairs <=> extension = Wrapping[magic]
    BY <1>3, Unwrapped DEF WindowPairs
  <2>3. WindowDetect(name, c) = IF <<magic, extension>> \in WindowPairs THEN extension ELSE magic
    BY <1>3 DEF WindowDetect, None
  <2> QED
    BY <2>1, <2>2, <2>3
<1>4. CASE magic \notin {None, "gzip", "bzip2", "lz4", "zstd", "xz"}
  <2>1. DetectArchiveFormat(name, c) = magic
    BY <1>1, <1>4, Unwrapped DEF DetectArchiveFormat
  <2>2. <<magic, extension>> \in WindowPairs => magic = "zip" /\ extension = "zipx"
    BY <1>1, <1>4 DEF WindowPairs, Magics, OwnMagic, None
  <2>3. WindowDetect(name, c) = IF <<magic, extension>> \in WindowPairs THEN extension ELSE magic
    BY <1>4 DEF WindowDetect
  <2> QED
    BY <2>1, <2>2, <2>3
<1> QED
  BY <1>2, <1>3, <1>4
-----------------------------------------------------------------------------
\* What compress puts on, decompress and the window take off.

\* Sequences of one and of two elements.
LEMMA Short ==
  ASSUME NEW S, NEW a \in S, NEW b \in S
  PROVE  /\ <<a>> \in Seq(S) /\ Len(<<a>>) = 1 /\ <<a>>[1] = a /\ <<a>> # <<>>
         /\ <<a, b>> \in Seq(S) /\ Len(<<a, b>>) = 2 /\ <<a, b>>[2] = b /\ <<a, b>> # <<>>
         /\ <<a>> \o <<b>> = <<a, b>> /\ <<a>> \o <<>> = <<a>> /\ <<a, b>> \o <<>> = <<a, b>>
<1>1. /\ <<a>> \in Seq(S) /\ Len(<<a>>) = 1 /\ <<a>>[1] = a /\ <<a>> # <<>>
  OBVIOUS
<1>2. <<a, b>> \in Seq(S) /\ Len(<<a, b>>) = 2 /\ <<a, b>>[1] = a /\ <<a, b>>[2] = b /\ <<a, b>> # <<>>
  OBVIOUS
<1>3. <<a>> \o <<b>> = <<a, b>> 
  <2>1. <<b>> \in Seq(S) /\ Len(<<b>>) = 1 /\ <<b>>[1] = b
    OBVIOUS
  <2>2. <<a>> \o <<b>> \in Seq(S) /\ Len(<<a>> \o <<b>>) = 2 /\ (<<a>> \o <<b>>)[1] = a /\ (<<a>> \o <<b>>)[2] = b
    BY <1>1, <2>1
  <2> HIDE <2>1
  <2>3. \A i \in 1..2 : (<<a>> \o <<b>>)[i] = <<a, b>>[i]
    <3> TAKE i \in 1..2
    <3>1. i = 1 \/ i = 2
      OBVIOUS
    <3> QED BY <3>1, <2>2, <1>2
  <2> QED
    BY <2>2, <2>3, <1>2, SeqEqual
<1>4. <<a>> \o <<>> = <<a>> /\ <<a, b>> \o <<>> = <<a, b>>
  BY <1>1, <1>2
<1> QED
  BY <1>1, <1>2, <1>3, <1>4

\* A suffix ends as the sequence it is a suffix of does.
LEMMA SuffixEnd ==
  ASSUME NEW S, NEW w \in Seq(S), NEW t \in Seq(S), IsSuffix(w, t), w # <<>>
  PROVE  t # <<>> /\ Last(t) = Last(w) /\ Len(w) <= Len(t)
         /\ \A i \in 1..Len(w) : w[Len(w) - i + 1] = t[Len(t) - i + 1]
<1> DEFINE rw == Reverse(w)
           rt == Reverse(t)
<1>1. rw \in Seq(S) /\ Len(rw) = Len(w) /\ \A i \in 1..Len(w) : rw[i] = w[Len(w) - i + 1]
  BY DEF Reverse
<1>2. rt \in Seq(S) /\ Len(rt) = Len(t) /\ \A i \in 1..Len(t) : rt[i] = t[Len(t) - i + 1]
  BY DEF Reverse
<1>3. Len(rw) <= Len(rt) /\ SubSeq(rw, 1, Len(rw)) = SubSeq(rt, 1, Len(rw))
  BY DEF IsSuffix, IsPrefix
<1> HIDE DEF rw, rt
<1>4. \A i \in 1..Len(rw) : rw[i] = rt[i]
  <2> TAKE i \in 1..Len(rw)
  <2>1. SubSeq(rw, 1, Len(rw))[i] = rw[i] /\ SubSeq(rt, 1, Len(rw))[i] = rt[i]
    BY <1>1, <1>2, <1>3
  <2> QED
    BY <2>1, <1>3
<1>5. Len(w) \in Nat /\ Len(t) \in Nat /\ Len(w) # 0
  OBVIOUS
<1>6. \A i \in 1..Len(w) : w[Len(w) - i + 1] = t[Len(t) - i + 1]
  BY <1>1, <1>2, <1>3, <1>4
<1>7. w[Len(w) - 1 + 1] = t[Len(t) - 1 + 1]
  BY <1>5, <1>6
<1> QED
  BY <1>1, <1>2, <1>3, <1>5, <1>6, <1>7 DEF Last

\* What was put behind a sequence is a suffix, and can be taken off again.
LEMMA SuffixOf ==
  ASSUME NEW S, NEW s \in Seq(S), NEW w \in Seq(S)
  PROVE  IsSuffix(w, s \o w)
<1> DEFINE t  == s \o w
           rw == Reverse(w)
           rt == Reverse(t)
<1>1. t \in Seq(S) /\ Len(t) = Len(s) + Len(w)
  OBVIOUS
<1>2. rw \in Seq(S) /\ Len(rw) = Len(w) /\ \A i \in 1..Len(w) : rw[i] = w[Len(w) - i + 1]
  BY DEF Reverse
<1>3. rt \in Seq(S) /\ Len(rt) = Len(t) /\ \A i \in 1..Len(t) : rt[i] = t[Len(t) - i + 1]
  BY <1>1 DEF Reverse
<1>4. Len(w) <= Len(t) /\ \A i \in 1..Len(w) : w[Len(w) - i + 1] = t[Len(t) - i + 1]
  BY <1>1
<1> HIDE DEF t, rw, rt
<1>5. Len(rw) <= Len(rt) /\ \A i \in 1..Len(rw) : rw[i] = rt[i]
  <2>1. Len(w) \in Nat /\ Len(t) \in Nat
    BY <1>1
  <2>2. ASSUME NEW i \in 1..Len(rw) PROVE rw[i] = rt[i]
    <3>1. i \in 1..Len(w) /\ i \in 1..Len(t)
      BY <1>2, <1>4, <2>1
    <3> QED
      BY <1>2, <1>3, <1>4, <3>1
  <2>3. Len(rw) <= Len(rt)
    BY <1>2, <1>3, <1>4
  <2> QED
    BY <2>2, <2>3
<1>6. SubSeq(rw, 1, Len(rw)) = SubSeq(rt, 1, Len(rw))
  BY <1>5, <1>2, <1>3
<1>7. IsPrefix(rw, rt)
  BY <1>5, <1>6 DEF IsPrefix
<1> QED
  BY <1>7 DEF IsSuffix, rw, rt, t

LEMMA Uncovered ==
  ASSUME NEW S, NEW s \in Seq(S), NEW w \in Seq(S)
  PROVE  SubSeq(s \o w, 1, Len(s \o w) - Len(w)) = s
<1>1. Len(s \o w) - Len(w) = Len(s)
  OBVIOUS
<1>2. SubSeq(s \o w, 1, Len(s)) = s
  OBVIOUS
<1> QED
  BY <1>1, <1>2

\* Formats that a file's name and first bytes tell, and that are restored.
Restored == (SingleStream \union ArchiveWriters) \ {"img", "bin", "isz"}

\* What layers are made of.
Marks ==
  STRING \union Restored
    \union {"zip", "enc", "aescrypt", "stub", "tar", "gzip", "bzip2", "brotli", "lz4", "zstd", "xz"}

\* The file of format f that is read through g: what compress wrote, with its
\* stub or without, under a name that says so.
PackedAs(f, name, c, s, stub) ==
  /\ f = DetectFromExtension(name) \/ f \in {"zip", "zipx"}
  /\ c.layers = s \o (LayersOf(f) \o stub)
  /\ stub \in {<<>>, <<"stub">>} /\ (stub = <<>> \/ f \in {"zip", "zipx"})
  /\ f = "tar" => c.begins = None

\* What a format puts around the data it packs.
LEMMA LayersAre ==
  ASSUME NEW f \in Restored
  PROVE  \/ f \in {"zip", "zipx"} /\ LayersOf(f) = <<"zip">>
         \/ f = "aes" /\ LayersOf(f) = <<"enc">>
         \/ f = "tar.gz" /\ LayersOf(f) = <<"tar", "gzip">>
         \/ f = "tar.bz2" /\ LayersOf(f) = <<"tar", "bzip2">>
         \/ f = "tar.br" /\ LayersOf(f) = <<"tar", "brotli">>
         \/ f = "tar.lz4" /\ LayersOf(f) = <<"tar", "lz4">>
         \/ f = "tar.zst" /\ LayersOf(f) = <<"tar", "zstd">>
         \/ f = "tar.xz" /\ LayersOf(f) = <<"tar", "xz">>
         \/ f \notin Wrapped \union {"zip", "zipx", "aes", "img", "bin", "isz"} /\ LayersOf(f) = <<f>>
<1>1. /\ CodecOf["tar.gz"] = "gzip" /\ CodecOf["tar.bz2"] = "bzip2"
      /\ CodecOf["tar.br"] = "brotli" /\ CodecOf["tar.lz4"] = "lz4"
      /\ CodecOf["tar.zst"] = "zstd" /\ CodecOf["tar.xz"] = "xz"
  BY DEF CodecOf, Wrapped
<1>2. f \in Wrapped => f \in {"tar.gz", "tar.bz2", "tar.br", "tar.lz4", "tar.zst", "tar.xz"}
  BY DEF Restored, SingleStream, ArchiveWriters, TarWrapped, Wrapped
<1>3. CASE f \in Wrapped
  BY <1>1, <1>2, <1>3 DEF LayersOf, Wrapped
<1>4. CASE f \notin Wrapped
  BY <1>4 DEF LayersOf, Restored
<1> QED
  BY <1>3, <1>4

\* Its last layer says which format it was.
LEMMA LayersEnd ==
  ASSUME NEW f \in Restored
  PROVE  /\ LayersOf(f) \in Seq(Marks) /\ LayersOf(f) # <<>>
         /\ f \in {"zip", "zipx"} => Last(LayersOf(f)) = "zip"
         /\ f = "aes" => Last(LayersOf(f)) = "enc"
         /\ f = "tar.br" => Last(LayersOf(f)) = "brotli"
         /\ f \in {"tar.gz", "tar.bz2", "tar.lz4", "tar.zst", "tar.xz"} =>
              <<Last(LayersOf(f)), f>> \in
                {<<"gzip", "tar.gz">>, <<"bzip2", "tar.bz2">>, <<"lz4", "tar.lz4">>,
                 <<"zstd", "tar.zst">>, <<"xz", "tar.xz">>}
         /\ f \notin Wrapped \union {"zip", "zipx", "aes"} => Last(LayersOf(f)) = f
<1> DEFINE w == LayersOf(f)
<1>1. \/ f \in {"zip", "zipx"} /\ w = <<"zip">>
      \/ f = "aes" /\ w = <<"enc">>
      \/ f = "tar.gz" /\ w = <<"tar", "gzip">>
      \/ f = "tar.bz2" /\ w = <<"tar", "bzip2">>
      \/ f = "tar.br" /\ w = <<"tar", "brotli">>
      \/ f = "tar.lz4" /\ w = <<"tar", "lz4">>
      \/ f = "tar.zst" /\ w = <<"tar", "zstd">>
      \/ f = "tar.xz" /\ w = <<"tar", "xz">>
      \/ f \notin Wrapped \union {"zip", "zipx", "aes", "img", "bin", "isz"} /\ w = <<f>>
  BY LayersAre
<1>2. {"zip", "enc", "tar", "gzip", "bzip2", "brotli", "lz4", "zstd", "xz", f} \subseteq Marks
  BY DEF Marks
<1> HIDE DEF w
<1>3. ASSUME NEW a \in Marks, w = <<a>> PROVE w \in Seq(Marks) /\ w # <<>> /\ Last(w) = a
  BY <1>3, Short DEF Last
<1>4. ASSUME NEW a \in Marks, w = <<"tar", a>> PROVE w \in Seq(Marks) /\ w # <<>> /\ Last(w) = a
  BY <1>2, <1>4, Short DEF Last
<1>5. CASE f \in {"zip", "zipx"} /\ w = <<"zip">>
  BY <1>2, <1>3, <1>5 DEF w
<1>6. CASE f = "aes" /\ w = <<"enc">>
  BY <1>2, <1>3, <1>6 DEF w
<1>7. CASE f \in {"tar.gz", "tar.bz2", "tar.lz4", "tar.zst", "tar.xz", "tar.br"} /\ w # <<f>>
  <2>1. f \in Wrapped
    BY <1>7 DEF Wrapped
  <2> QED
    BY <1>1, <1>2, <1>4, <1>7, <2>1 DEF w
<1>8. CASE f \notin Wrapped \union {"zip", "zipx", "aes", "img", "bin", "isz"} /\ w = <<f>>
  <2>1. f \notin {"tar.gz", "tar.bz2", "tar.lz4", "tar.zst", "tar.xz", "tar.br"}
    BY <1>8 DEF Wrapped
  <2> QED
    BY <1>2, <1>3, <1>8, <2>1 DEF w
<1>9. \A a, b, g : <<a, b>> # <<g>>
  OBVIOUS
<1> QED
  BY <1>1, <1>5, <1>6, <1>7, <1>8, <1>9

\* The outermost layer decides what the first bytes say.
LEMMA OuterIs ==
  ASSUME NEW f \in Restored, NEW s \in Seq(Marks), NEW stub, NEW c, NEW name,
         PackedAs(f, name, c, s, stub)
  PROVE  LET outer == IF stub = <<>> THEN Last(LayersOf(f)) ELSE "stub"
         IN  /\ c.layers # <<>> /\ Last(c.layers) = outer
             /\ c.layers \in Seq(Marks) /\ LayersOf(f) \o stub \in Seq(Marks)
             /\ LayersOf(f) \o stub # <<>>
             /\ stub = <<>> => LayersOf(f) \o stub = LayersOf(f)
<1>1. LayersOf(f) \in Seq(Marks) /\ LayersOf(f) # <<>>
  BY LayersEnd
<1>2. stub \in Seq(Marks) /\ (stub # <<>> => Len(stub) = 1 /\ stub[1] = "stub")
  <2>1. "stub" \in Marks
    BY DEF Marks
  <2>2. <<"stub">> \in Seq(Marks) /\ Len(<<"stub">>) = 1 /\ <<"stub">>[1] = "stub"
    BY <2>1
  <2>3. stub = <<>> \/ stub = <<"stub">>
    BY DEF PackedAs
  <2>4. <<>> \in Seq(Marks)
    OBVIOUS
  <2> QED
    BY <2>2, <2>3, <2>4
<1> DEFINE l == LayersOf(f)
           w == l \o stub
<1> HIDE DEF l
<1>4. /\ w \in Seq(Marks) /\ Len(w) = Len(l) + Len(stub) /\ w # <<>>
      /\ stub = <<>> => w = l
  BY <1>1, <1>2 DEF l
<1>5. Last(w) = IF stub = <<>> THEN Last(l) ELSE "stub"
  <2>1. CASE stub = <<>>
    BY <1>4, <2>1
  <2>2. CASE stub # <<>>
    <3>1. Len(l) \in Nat /\ Len(stub) = 1 /\ l \in Seq(Marks)
      BY <1>1, <1>2, <2>2 DEF l
    <3>2. (l \o stub)[Len(l) + 1] = stub[1]
      BY <1>2, <3>1, ConcatProperties
    <3> QED
      BY <1>2, <1>4, <2>2, <3>1, <3>2 DEF Last
  <2> QED
    BY <2>1, <2>2
<1>6. c.layers = s \o w
  BY DEF PackedAs, l
<1> HIDE DEF w
<1>7. c.layers \in Seq(Marks) /\ c.layers # <<>> /\ Last(c.layers) = Last(w)
  BY <1>4, <1>6 DEF Last
<1> QED
  BY <1>1, <1>4, <1>5, <1>7 DEF w, l

\* A file written in a format and named for it is taken for that format; a ZIPX
\* for a ZIP.
LEMMA ReadAsWritten ==
  ASSUME NEW f \in Restored, NEW s \in Seq(Marks), NEW stub, NEW c, NEW name,
         PackedAs(f, name, c, s, stub)
  PROVE  LET g == DetectArchiveFormat(name, c)
         IN  g = f \/ (f = "zipx" /\ g = "zip")
<1> DEFINE outer == IF stub = <<>> THEN Last(LayersOf(f)) ELSE "stub"
           g == DetectArchiveFormat(name, c)
           magic == DetectFormat(c)
<1>1. c.layers # <<>> /\ Last(c.layers) = outer
  BY OuterIs
<1> HIDE DEF outer
<1>2. magic = CASE outer \in OwnMagic -> outer
                [] outer = "aescrypt" -> "aes"
                [] outer = "stub"     -> "zip"
                [] outer = "tar"      -> c.begins
                [] OTHER              -> None
  BY <1>1 DEF DetectFormat
<1>3. "zip" \notin DOMAIN Wrapping
  BY Unwrapped DEF Magics, OwnMagic
<1>4. CASE stub # <<>>
  <2>1. f \in {"zip", "zipx"} /\ outer = "stub"
    BY <1>4 DEF PackedAs, outer
  <2>2. magic = "zip"
    BY <1>2, <2>1 DEF OwnMagic
  <2> QED
    BY <1>3, <2>1, <2>2 DEF DetectArchiveFormat, None
<1>5. CASE stub = <<>>
  <2>1. f \notin {"zip", "zipx"} => DetectFromExtension(name) = f
    BY DEF PackedAs
  <2>2. outer = Last(LayersOf(f))
    BY <1>5 DEF outer
  <2>3. CASE f \in {"zip", "zipx"}
    <3>1. outer = "zip"
      BY <2>2, <2>3, LayersEnd DEF Wrapped
    <3>2. magic = "zip"
      BY <1>2, <3>1 DEF OwnMagic
    <3> QED
      BY <1>3, <2>3, <3>2 DEF DetectArchiveFormat, None
  <2>4. CASE f \in {"tar.gz", "tar.bz2", "tar.lz4", "tar.zst", "tar.xz"}
    <3>1. <<outer, f>> \in {<<"gzip", "tar.gz">>, <<"bzip2", "tar.bz2">>, <<"lz4", "tar.lz4">>,
                            <<"zstd", "tar.zst">>, <<"xz", "tar.xz">>}
      BY <2>2, <2>4, LayersEnd
    <3>2. magic = outer /\ magic # None
      BY <1>2, <3>1 DEF OwnMagic, None
    <3>3. magic \in DOMAIN Wrapping /\ Wrapping[magic] = f
      BY <3>1, <3>2, Unwrapped
    <3> QED
      BY <2>1, <2>4, <3>2, <3>3 DEF DetectArchiveFormat, ResolveTarWrapped
  <2>5. CASE f \in {"tar.br", "aes"}
    <3>1. outer \in {"brotli", "enc"}
      BY <2>2, <2>5, LayersEnd DEF Wrapped
    <3>2. magic = None
      BY <1>2, <3>1 DEF OwnMagic
    <3> QED
      BY <2>1, <2>5, <3>2 DEF DetectArchiveFormat
  <2>6. CASE f \notin Wrapped \union {"zip", "zipx", "aes"}
    <3>1. outer = f
      BY <2>2, <2>6, LayersEnd DEF Wrapped
    <3>2. CASE f = "tar"
      <4>1. magic = None
        BY <1>2, <3>1, <3>2 DEF OwnMagic, PackedAs
      <4> QED
        BY <2>1, <3>2, <4>1 DEF DetectArchiveFormat
    <3>3. CASE f \in OwnMagic
      <4>1. magic = f /\ magic # None
        BY <1>2, <3>1, <3>3 DEF OwnMagic, None
      <4>2. CASE f \in {"gzip", "bzip2", "lz4", "zstd", "xz"}
        <5>1. Wrapping[f] # f
          BY <4>2, Unwrapped
        <5>2. magic \in DOMAIN Wrapping
          BY <4>1, <4>2, Unwrapped
        <5> QED
          BY <2>1, <4>1, <4>2, <5>1, <5>2 DEF DetectArchiveFormat, ResolveTarWrapped
      <4>3. CASE f \notin {"gzip", "bzip2", "lz4", "zstd", "xz"}
        <5>1. magic \notin DOMAIN Wrapping
          BY <3>3, <4>1, <4>3, Unwrapped DEF Magics
        <5> QED
          BY <4>1, <5>1 DEF DetectArchiveFormat
      <4> QED
        BY <4>2, <4>3
    <3>4. CASE f \notin OwnMagic \union {"tar"}
      <4>1. f \notin {"aescrypt", "stub"}
        BY DEF Restored, SingleStream, ArchiveWriters, TarWrapped
      <4>2. magic = None
        BY <1>2, <3>1, <3>4, <4>1
      <4> QED
        BY <2>1, <2>6, <4>2 DEF DetectArchiveFormat
    <3> QED
      BY <3>2, <3>3, <3>4
  <2>7. f \in Wrapped => f \in {"tar.gz", "tar.bz2", "tar.br", "tar.lz4", "tar.zst", "tar.xz"}
    BY DEF Restored, SingleStream, ArchiveWriters, TarWrapped, Wrapped
  <2> QED
    BY <2>3, <2>4, <2>5, <2>6, <2>7
<1> QED
  BY <1>4, <1>5

\* Of the ways only w fits the layers, and covers s.
OnlyWay(w, ways, s, layers) ==
  layers = s \o w /\ w \in ways /\ \A v \in ways : IsSuffix(v, layers) => v = w

\* The record every content is.
IsContent(c) == DOMAIN c = {"what", "begins", "layers", "many", "locked"}

\* The one way that fits a content is taken, and takes off what was put on.
LEMMA PeelsBack ==
  ASSUME NEW ways, NEW c, IsContent(c), NEW s \in Seq(Marks), NEW w \in Seq(Marks),
         w # <<>>, NEW pw, c.locked \in {None, pw}, OnlyWay(w, ways, s, c.layers)
  PROVE  /\ Peel(ways, c, pw) # Broken
         /\ Peel(ways, c, pw).what = c.what /\ Peel(ways, c, pw).layers = s
         /\ Peel(ways, c, pw).locked = None
<1> DEFINE fits == {v \in ways : IsSuffix(v, c.layers)}
           way  == CHOOSE x \in fits : TRUE
<1>1. fits = {w}
  BY SuffixOf DEF OnlyWay
<1>2. way = w
  BY <1>1
<1> HIDE DEF fits, way
<1>3. Peel(ways, c, pw) = [c EXCEPT !.layers = SubSeq(@, 1, Len(@) - Len(w)), !.locked = None]
  BY <1>1, <1>2 DEF Peel, fits, way
<1>4. SubSeq(c.layers, 1, Len(c.layers) - Len(w)) = s
  BY Uncovered DEF OnlyWay
<1>5. DOMAIN c = {"what", "begins", "layers", "many", "locked"}
  BY DEF IsContent
<1>6. DOMAIN Broken = {"is"}
  BY DEF Broken
<1>7. DOMAIN Peel(ways, c, pw) = DOMAIN c
  BY <1>3
<1>8. Peel(ways, c, pw) # Broken
  BY <1>5, <1>6, <1>7
<1>9. /\ Peel(ways, c, pw).what = c.what /\ Peel(ways, c, pw).locked = None
      /\ Peel(ways, c, pw).layers = SubSeq(c.layers, 1, Len(c.layers) - Len(w))
  BY <1>3, <1>5
<1> QED
  BY <1>4, <1>8, <1>9

\* The way a reader or decoder of the format reads it, and no other of its ways.
WaysOf(f) == IF f \in DecoderStreams THEN Decodes(f) ELSE Opens(f)

\* How a format is read or decoded, case by case.
LEMMA WaysAre ==
  ASSUME NEW f \in Restored
  PROVE  WaysOf(f) = IF f \in {"zip", "zipx"} THEN {<<"zip">>, <<"zip", "stub">>}
                     ELSE IF f = "aes" THEN {<<"enc">>, <<"aescrypt">>}
                     ELSE {LayersOf(f)}
<1>1. f # "tar.lz" /\ f \notin {"img", "bin", "isz"}
  BY DEF Restored, SingleStream, ArchiveWriters, TarWrapped
<1>2. f \in DecoderStreams => f \notin Wrapped \union {"zip", "zipx"}
  BY DEF DecoderStreams, Wrapped
<1>3. "aes" \in DecoderStreams
  BY DEF DecoderStreams
<1> QED
  BY <1>1, <1>2, <1>3 DEF WaysOf, Opens, Decodes, Containers, Wrapped

\* Of all ways of a format one fits the layers it puts on.
LEMMA OneWay ==
  ASSUME NEW f \in Restored, NEW s \in Seq(Marks), NEW stub, NEW c, NEW name,
         PackedAs(f, name, c, s, stub)
  PROVE  /\ LayersOf(f) \o stub \in WaysOf(f)
         /\ \A v \in WaysOf(f) : IsSuffix(v, c.layers) => v = LayersOf(f) \o stub
<1> DEFINE l == LayersOf(f)
           outer == IF stub = <<>> THEN Last(l) ELSE "stub"
<1>1. c.layers \in Seq(Marks) /\ Last(c.layers) = outer /\ (stub = <<>> => l \o stub = l)
  BY OuterIs
<1>2. {"zip", "stub", "enc", "aescrypt"} \subseteq Marks
  BY DEF Marks
<1>3. stub \in {<<>>, <<"stub">>} /\ (stub = <<>> \/ f \in {"zip", "zipx"})
  BY DEF PackedAs
<1>4. ASSUME NEW v \in Seq(Marks), v # <<>>, IsSuffix(v, c.layers) PROVE Last(v) = outer
  BY <1>1, <1>4, SuffixEnd
<1>5. /\ Last(<<"zip">>) = "zip" /\ Last(<<"zip", "stub">>) = "stub"
      /\ Last(<<"enc">>) = "enc" /\ Last(<<"aescrypt">>) = "aescrypt"
      /\ <<"zip">> \in Seq(Marks) /\ <<"zip", "stub">> \in Seq(Marks)
      /\ <<"enc">> \in Seq(Marks) /\ <<"aescrypt">> \in Seq(Marks)
      /\ <<"zip">> # <<>> /\ <<"zip", "stub">> # <<>> /\ <<"enc">> # <<>> /\ <<"aescrypt">> # <<>>
      /\ <<"zip">> \o <<"stub">> = <<"zip", "stub">>
  BY <1>2, Short DEF Last
<1>6. CASE f \in {"zip", "zipx"}
  <2>1. l = <<"zip">>
    BY <1>6, LayersAre DEF Wrapped
  <2>2. WaysOf(f) = {<<"zip">>, <<"zip", "stub">>}
    BY <1>6, WaysAre
  <2> HIDE DEF l
  <2>3. CASE stub = <<>>
    <3>1. outer = "zip" /\ l \o stub = <<"zip">>
      BY <1>1, <1>5, <2>1, <2>3
    <3> QED
      BY <1>4, <1>5, <2>2, <3>1 DEF l
  <2>4. CASE stub = <<"stub">>
    <3>1. outer = "stub" /\ l \o stub = <<"zip", "stub">>
      BY <1>5, <2>1, <2>4
    <3> QED
      BY <1>4, <1>5, <2>2, <3>1 DEF l
  <2> QED
    BY <1>3, <2>3, <2>4
<1>7. CASE f = "aes"
  <2>1. l = <<"enc">>
    BY <1>7, LayersAre DEF Wrapped
  <2>2. WaysOf(f) = {<<"enc">>, <<"aescrypt">>}
    BY <1>7, WaysAre
  <2> HIDE DEF l
  <2>3. outer = "enc" /\ l \o stub = <<"enc">>
    BY <1>1, <1>3, <1>5, <1>7, <2>1
  <2> QED
    BY <1>4, <1>5, <2>2, <2>3 DEF l
<1>8. CASE f \notin {"zip", "zipx", "aes"}
  BY <1>1, <1>3, <1>8, WaysAre
<1> QED
  BY <1>6, <1>7, <1>8

\* Read as what it was written, a file gives back what was put into it.
LEMMA GivesBack ==
  ASSUME NEW f \in Restored, NEW s \in Seq(Marks), NEW stub, NEW c, IsContent(c), NEW name,
         PackedAs(f, name, c, s, stub), NEW pw, c.locked \in {None, pw}
  PROVE  /\ Peel(WaysOf(f), c, pw) # Broken
         /\ Peel(WaysOf(f), c, pw).what = c.what /\ Peel(WaysOf(f), c, pw).layers = s
         /\ Peel(WaysOf(f), c, pw).locked = None
<1> DEFINE w == LayersOf(f) \o stub
<1>1. OnlyWay(w, WaysOf(f), s, c.layers)
  <2>1. w \in WaysOf(f) /\ \A v \in WaysOf(f) : IsSuffix(v, c.layers) => v = w
    BY OneWay
  <2>2. c.layers = s \o w
    BY DEF PackedAs
  <2> HIDE DEF w
  <2> QED
    BY <2>1, <2>2 DEF OnlyWay
<1>2. w \in Seq(Marks) /\ w # <<>>
  BY OuterIs
<1> HIDE DEF w
<1> QED
  BY <1>1, <1>2, PeelsBack

-----------------------------------------------------------------------------
\* The file, and what has been settled about it.

\* The first entry's bytes are of a known kind.
Shaped(c) == c.begins \in OwnMagic \union {None}

\* Compress locks with the password it was given.
FileInv ==
  file # NoFile =>
    /\ file = [name |-> file.name, content |-> file.content, source |-> file.source,
               told |-> file.told, asked |-> file.asked]
    /\ Shaped(file.content)
    /\ file.asked # None => file.content.locked = file.asked

\* What is settled is what the tables say of the file as it is named now.
Settled ==
  /\ taken = [cli |-> taken.cli, window |-> taken.window]
  /\ taken.cli # None => taken.cli = DetectArchiveFormat(file.name, file.content)
  /\ taken.window # None => taken.window = WindowDetect(file.name, file.content)
  /\ file = NoFile => taken = NotTaken

\* What the last command gave: whatever is unlocked was asked for properly.
Guarded ==
  file # NoFile /\ file.asked # None =>
    last.gives = Nothing \/ last.gives.locked # None \/ last.pw = file.asked

\* What the two results about formats and locks rest on.
IInv == FileInv /\ Settled /\ Guarded

\* A reader or decoder takes a lock off with the password it was locked with.
LEMMA PeelGuards ==
  ASSUME NEW ways, NEW c, Shaped(c), c.locked # None, NEW pw
  PROVE  LET r == Peel(ways, c, pw) IN r = Broken \/ r.locked # None \/ pw = c.locked
<1> DEFINE fits == {w \in ways : IsSuffix(w, c.layers)}
           way  == CHOOSE x \in fits : TRUE
<1> HIDE DEF fits, way
<1>1. Peel(ways, c, pw) =
        IF fits = {} THEN Broken
        ELSE IF way = <<>> THEN c
        ELSE IF c.locked \notin {None, pw} THEN Broken
        ELSE [c EXCEPT !.layers = SubSeq(@, 1, Len(@) - Len(way)), !.locked = None]
  BY DEF Peel, fits, way
<1> QED
  BY <1>1

\* The places a result may come from.
LEMMA ResultGuards ==
  ASSUME NEW cmd, NEW pw, NEW usual, NEW gives, Result(cmd, pw, usual, gives),
         gives = Broken \/ gives.locked # None \/ pw = file.asked, UNCHANGED file
  PROVE  Guarded'
  BY DEF Result, Guarded

LEMMA FailGuards ==
  ASSUME NEW cmd, NEW pw, Fails(cmd, pw) PROVE Guarded'
  BY DEF Fails, Guarded

LEMMA InitInv == Init => IInv
<1> SUFFICES ASSUME Init PROVE IInv
  OBVIOUS
<1>1. FileInv
  BY CommandAssumption DEF Init, FileInv, Shaped, Contents
<1>2. Settled
  BY DEF Init, Settled, NotTaken
<1>3. Guarded
  BY DEF Init, Guarded
<1> QED
  BY <1>1, <1>2, <1>3 DEF IInv

\* What compress writes.
LEMMA CreateStep == ASSUME file = NoFile, IInv, Create PROVE IInv'
<1>1. ASSUME Fails("compress", last'.pw), UNCHANGED <<file, tested, taken>> PROVE IInv'
  BY <1>1 DEF Fails, IInv, FileInv, Settled, Guarded
<1>2. ASSUME NEW input \in Inputs, NEW name, NEW f, NEW g, NEW layers, NEW pw,
             pw # None => f \in WritesPasswords,
             Written("compress", name, Layered(input, f, layers, pw), g, input, pw)
      PROVE  IInv'
  <2>1. input \in Contents
    BY CommandAssumption
  <2>2. Shaped(Layered(input, f, layers, pw))
    BY <2>1 DEF Shaped, Layered, Contents
  <2>3. pw # None => Layered(input, f, layers, pw).locked = pw
    BY <1>2, <2>1 DEF Layered, Contents
  <2> HIDE DEF Shaped
  <2>4. FileInv'
    BY <1>2, <2>2, <2>3 DEF FileInv, Written
  <2>5. Settled'
    BY <1>2 DEF Settled, Written, NotTaken, NoFile
  <2>6. Guarded'
    BY <1>2 DEF Guarded, Written
  <2> QED
    BY <2>4, <2>5, <2>6 DEF IInv
<1>3. ASSUME NEW input \in Inputs, NEW name \in Names, NEW format, NEW pw, NEW split, NEW sfx,
             Compress(input, name, format, pw, split, sfx)
      PROVE  IInv'
  <2> DEFINE f == ResolveFormat(format, name)
  <2>1. CASE Fails("compress", pw) /\ UNCHANGED <<file, tested, taken>>
    BY <1>1, <2>1 DEF Fails
  <2>2. CASE /\ ValidateCompressInputs(input, f, pw)
             /\ Written("compress", IF split THEN Volume(name) ELSE name,
                        Layered(input, f, LayersOf(f) \o (IF sfx THEN <<"stub">> ELSE <<>>), pw),
                        f, input, pw)
    <3>1. pw # None => f \in WritesPasswords
      BY <2>2 DEF ValidateCompressInputs
    <3> QED
      BY <1>2, <2>2, <3>1
  <2> QED
    BY <1>3, <2>1, <2>2 DEF Compress
<1>4. ASSUME NEW input \in Inputs, NEW name \in Names, NEW format, NEW pw,
             CompressStdin(input, name, format, pw)
      PROVE  IInv'
  <2> DEFINE f == ParseFormat(format)
  <2>1. CASE Fails("compress", pw) /\ UNCHANGED <<file, tested, taken>>
    BY <1>1, <2>1 DEF Fails
  <2>2. CASE /\ ValidateCompressInputs(input, f, pw)
             /\ Written("compress", name,
                        Layered(input, f,
                          IF f \in TarWrapped THEN <<CodecOf[f]>> ELSE LayersOf(f), pw),
                        IF f \in TarWrapped THEN None ELSE f, input, pw)
    <3>1. pw # None => f \in WritesPasswords
      BY <2>2 DEF ValidateCompressInputs
    <3> QED
      BY <1>2, <2>2, <3>1
  <2> QED
    BY <1>4, <2>1, <2>2 DEF CompressStdin
<1> QED
  BY <1>3, <1>4 DEF Create

\* What the readers and decoders give.
LEMMA GivesGuard ==
  ASSUME IInv, file # NoFile, file.asked # None,
         NEW pw, NEW f, NEW ways, NEW stdout, NEW here,
         NEW r \in {Peel(ways, file.content, pw), Decoded(f, file.content, pw), Broken,
                   DecompressVolume(f, file.content, pw, stdout),
                   DecompressFile(f, file.content, pw, stdout, here),
                   BuildReader(f, file.content, pw)}
  PROVE  r = Broken \/ r.locked # None \/ pw = file.asked
<1>1. Shaped(file.content) /\ file.content.locked = file.asked
  BY DEF IInv, FileInv
<1> DEFINE Guards(x) == x = Broken \/ x.locked # None \/ pw = file.asked
<1>2. \A w : Guards(Peel(w, file.content, pw))
  BY <1>1, PeelGuards
<1> HIDE DEF Guards
<1>3. Guards(Broken)
  BY DEF Guards
<1>4. Guards(Decoded(f, file.content, pw))
  BY <1>2 DEF Decoded
<1>5. Guards(DecompressVolume(f, file.content, pw, stdout))
  BY <1>2, <1>3, <1>4 DEF DecompressVolume
<1>6. Guards(DecompressFile(f, file.content, pw, stdout, here))
  BY <1>2, <1>3, <1>4 DEF DecompressFile
<1>7. Guards(BuildReader(f, file.content, pw))
  BY <1>2 DEF BuildReader
<1>8. Guards(r)
  BY <1>2, <1>3, <1>4, <1>5, <1>6, <1>7
<1> QED
  BY <1>8 DEF Guards

\* What is read, or renamed.
LEMMA ReadStep ==
  ASSUME file # NoFile, IInv, Read \/ RunStub \/ \E name \in NewNames : Rename(name)
  PROVE  IInv'
<1>f. ASSUME UNCHANGED file PROVE FileInv'
  BY <1>f DEF IInv, FileInv
<1>s. ASSUME UNCHANGED file,
             \/ UNCHANGED taken
             \/ Settle("cli", DetectArchiveFormat(file.name, file.content))
             \/ Settle("window", WindowDetect(file.name, file.content))
      PROVE  Settled'
  BY <1>s DEF IInv, Settled, Settle
<1>1. ASSUME NEW pw, List(pw) PROVE IInv'
  <2> DEFINE f == DetectArchiveFormat(file.name, file.content)
             r == IF ListArchive(f, file.content, pw) = Broken THEN Broken ELSE Nothing
  <2>1. Guarded'
    BY <1>1 DEF List, Fails, Result, Guarded
  <2> QED
    BY <1>1, <1>f, <1>s, <2>1 DEF List, IInv
<1>2. ASSUME NEW pw, Test(pw) PROVE IInv'
  <2>1. Guarded'
    BY <1>2 DEF Test, Result, Guarded
  <2> QED
    BY <1>2, <1>f, <1>s, <2>1 DEF Test, IInv
<1>3. ASSUME NEW pw, NEW hint, NEW stdout, NEW here, Decompress(pw, hint, stdout, here)
      PROVE  IInv'
  <2>1. Guarded'
    <3> DEFINE f == IF hint # None THEN ParseFormat(hint)
                    ELSE DetectArchiveFormat(WholeName(file.name), file.content)
               r == IF Refuses(f, pw) THEN Broken
                    ELSE IF IsVolume(file.name)
                      THEN DecompressVolume(f, file.content, pw, stdout)
                      ELSE DecompressFile(f, file.content, pw, stdout, here)
               usual == hint = None /\ ~stdout /\ ~here
    <3>1. Result("decompress", pw, usual, r) /\ UNCHANGED file
      BY <1>3 DEF Decompress
    <3> HIDE DEF f, usual
    <3>2. ASSUME file.asked # None PROVE r = Broken \/ r.locked # None \/ pw = file.asked
      BY <3>2, GivesGuard
    <3> HIDE DEF r
    <3> QED
      BY <3>1, <3>2 DEF Result, Guarded
  <2>2. Settled'
    <3>1. ~IsVolume(file.name) => WholeName(file.name) = file.name
      BY DEF WholeName
    <3> QED
      BY <1>3, <1>s, <3>1 DEF Decompress
  <2> QED
    BY <1>3, <1>f, <2>1, <2>2 DEF Decompress, IInv
<1>4. ASSUME NEW pw, NEW hint, DecompressStdin(pw, hint) PROVE IInv'
  <2> DEFINE f == ParseFormat(hint)
             r == Decoded(f, file.content, pw)
  <2>1. Guarded'
    <3>1. UNCHANGED file /\ (Fails("stdin", pw) \/ Result("stdin", pw, FALSE, r))
      BY <1>4 DEF DecompressStdin
    <3>2. ASSUME file.asked # None PROVE r = Broken \/ r.locked # None \/ pw = file.asked
      BY <3>2, GivesGuard
    <3> HIDE DEF r
    <3> QED
      BY <3>1, <3>2 DEF Result, Fails, Guarded
  <2> QED
    BY <1>4, <1>f, <1>s, <2>1 DEF DecompressStdin, IInv
<1>5. ASSUME NEW pw, ExtractInWindow(pw) PROVE IInv'
  <2> DEFINE f == WindowDetect(file.name, file.content)
             r == IF f = None \/ (pw # None /\ f \notin WindowPasswords) THEN Broken
                  ELSE BuildReader(f, file.content, pw)
  <2>1. Guarded'
    <3>1. UNCHANGED file /\ Result("window", pw, TRUE, r)
      BY <1>5 DEF ExtractInWindow
    <3>2. ASSUME file.asked # None PROVE r = Broken \/ r.locked # None \/ pw = file.asked
      BY <3>2, GivesGuard
    <3> HIDE DEF r
    <3> QED
      BY <3>1, <3>2 DEF Result, Guarded
  <2> QED
    BY <1>5, <1>f, <1>s, <2>1 DEF ExtractInWindow, IInv
<1>6. CASE RunStub
  <2> DEFINE r == StubExtracts(file.content)
  <2>1. Guarded'
    <3>1. UNCHANGED file /\ Result("run", None, TRUE, r)
      BY <1>6 DEF RunStub
    <3>2. ASSUME file.asked # None PROVE r = Broken \/ r.locked # None \/ None = file.asked
      BY <3>2, GivesGuard DEF StubExtracts
    <3> HIDE DEF r
    <3> QED
      BY <3>1, <3>2 DEF Result, Guarded
  <2> QED
    BY <1>6, <1>f, <1>s, <2>1 DEF RunStub, IInv
<1>7. ASSUME NEW name \in NewNames, Rename(name) PROVE IInv'
  <2>1. FileInv'
    BY <1>7 DEF Rename, IInv, FileInv
  <2>2. Settled' /\ Guarded'
    BY <1>7 DEF Rename, Settled, NotTaken, Guarded
  <2> QED
    BY <2>1, <2>2 DEF IInv
<1> QED
  BY <1>1, <1>2, <1>3, <1>4, <1>5, <1>6, <1>7 DEF Read

LEMMA StepInv == IInv /\ [Next]_commandVars => IInv'
<1> SUFFICES ASSUME IInv, [Next]_commandVars PROVE IInv'
  OBVIOUS
<1>1. CASE UNCHANGED commandVars
  BY <1>1 DEF commandVars, IInv, FileInv, Settled, Guarded
<1> QED
  BY <1>1, CreateStep, ReadStep DEF Next

-----------------------------------------------------------------------------

\* The command line and the window take every file, whatever its name and first
\* bytes, for the same format (detect_archive_format_from_reader, detect_in).
THEOREM SidesAgree == Spec => []SameVerdict
<1>1. IInv => SameVerdict
  <2> SUFFICES ASSUME IInv, taken.cli # None, taken.window # None
               PROVE  taken.cli = taken.window \/ {taken.cli, taken.window} = {"zip", "zipx"}
    BY DEF SameVerdict
  <2>1. file # NoFile
    BY DEF IInv, Settled, NotTaken
  <2>2. file.content.begins \in OwnMagic \union {None}
    BY <2>1 DEF IInv, FileInv, Shaped
  <2>3. /\ taken.cli = DetectArchiveFormat(file.name, file.content)
        /\ taken.window = WindowDetect(file.name, file.content)
    BY DEF IInv, Settled
  <2> QED
    BY <2>2, <2>3, SameAnswer
<1> QED
  BY <1>1, InitInv, StepInv, PTL DEF Spec

\* What compress was given a password for no command delivers without it.
THEOREM LockedStaysLocked == Spec => []Protected
<1>1. IInv => Protected
  BY DEF IInv, Guarded, Protected
<1> QED
  BY <1>1, InitInv, StepInv, PTL DEF Spec

-----------------------------------------------------------------------------
\* What comes back.

\* A file that its name tells holds what compress was given, in that format.
PackedInv ==
  file # NoFile /\ file.told # None =>
    /\ file.told \in SingleStream \union ArchiveWriters
    /\ IsContent(file.content)
    /\ file.told = "zip" \/ file.told = DetectFromExtension(WholeName(file.name))
    /\ \E stub \in {<<>>, <<"stub">>} :
         /\ stub = <<>> \/ file.told = "zip"
         /\ file.content.layers = file.source.layers \o (LayersOf(file.told) \o stub)
    /\ file.source.layers \in Seq(STRING)
    /\ file.content.what = file.source.what
    /\ file.source.locked = None
    /\ file.content.locked = IF file.told \in WritesPasswords THEN file.asked ELSE None
    /\ file.asked # None => file.told \in WritesPasswords

\* The passwords test has accepted the file with are still good.
TestedInv ==
  \A pw \in tested :
    LET f == DetectArchiveFormat(file.name, file.content)
    IN  file # NoFile /\ ~Refuses(f, pw) /\ RunVerify(f, file.content, pw) # Broken

\* Any reader or decoder of the format gives back what compress was given.
LEMMA PackedGives ==
  ASSUME PackedInv, file # NoFile, file.told # None, ~Misleading,
         NEW f \in {DetectArchiveFormat(WholeName(file.name), file.content)}
                      \union IF IsVolume(file.name) THEN {}
                             ELSE {WindowDetect(file.name, file.content)},
         Shaped(file.content)
  PROVE  LET r == Peel(WaysOf(f), file.content, file.asked)
         IN  /\ r # Broken /\ SameData(r, file.source)
             /\ f \in Restored /\ (file.asked # None => f \in WritesPasswords)
<1> DEFINE told == file.told
           c == file.content
           name == WholeName(file.name)
           g == DetectArchiveFormat(name, c)
<1>1. told \in Restored /\ told # None
  BY DEF PackedInv, Misleading, Restored
<1>2. PICK stub \in {<<>>, <<"stub">>} :
        (stub = <<>> \/ told = "zip") /\ c.layers = file.source.layers \o (LayersOf(told) \o stub)
  BY DEF PackedInv
<1>3. file.source.layers \in Seq(Marks)
  <2>1. STRING \subseteq Marks
    BY DEF Marks
  <2> QED
    BY <2>1, SeqMonotonic DEF PackedInv
<1>4. told = "tar" => c.begins = None
  BY DEF Misleading
<1>5. PackedAs(told, name, c, file.source.layers, stub)
  BY <1>2, <1>4 DEF PackedInv, PackedAs
<1>6. g = told \/ (told = "zipx" /\ g = "zip")
  BY <1>1, <1>3, <1>5, ReadAsWritten
<1>7. f = g \/ {f, g} = {"zip", "zipx"}
  <2>1. CASE IsVolume(file.name)
    BY <2>1
  <2>2. CASE ~IsVolume(file.name)
    <3>1. name = file.name
      BY <2>2 DEF WholeName
    <3> QED
      BY <2>2, <3>1, SameAnswer DEF Shaped
  <2> QED
    BY <2>1, <2>2
<1> HIDE DEF g
<1>8. f = told \/ (f \in {"zip", "zipx"} /\ told \in {"zip", "zipx"})
  BY <1>6, <1>7
<1>9. f \in Restored /\ LayersOf(f) = LayersOf(told)
  <2>1. {"zip", "zipx"} \subseteq Restored
    BY DEF Restored, ArchiveWriters
  <2>2. LayersOf("zip") = <<"zip">> /\ LayersOf("zipx") = <<"zip">>
    BY <2>1, LayersAre DEF Wrapped
  <2> QED
    BY <1>1, <1>8, <2>1, <2>2
<1>10. PackedAs(f, name, c, file.source.layers, stub)
  BY <1>2, <1>5, <1>8, <1>9 DEF PackedAs
<1>11. f \in WritesPasswords <=> told \in WritesPasswords
  BY <1>8 DEF WritesPasswords
<1>12. IsContent(c) /\ c.locked \in {None, file.asked} /\ c.what = file.source.what
       /\ file.source.locked = None /\ (file.asked # None => told \in WritesPasswords)
  BY DEF PackedInv
<1> DEFINE r == Peel(WaysOf(f), c, file.asked)
<1>13. r # Broken /\ r.what = c.what /\ r.layers = file.source.layers /\ r.locked = None
  BY <1>3, <1>9, <1>10, <1>12, GivesBack
<1> HIDE DEF r
<1>14. r # Broken /\ SameData(r, file.source)
  BY <1>12, <1>13 DEF SameData
<1> QED
  BY <1>9, <1>11, <1>12, <1>14 DEF r

\* No stub goes behind a single stream.
LEMMA PlainLayers ==
  ASSUME NEW f \in SingleStream PROVE LayersOf(f) \o <<>> = LayersOf(f)
<1>1. CASE f \in {"img", "bin"}
  <2>1. LayersOf(f) = <<>>
    BY <1>1 DEF LayersOf, Wrapped
  <2> QED
    BY <2>1
<1>2. CASE f = "isz"
  <2>1. LayersOf(f) = <<f>>
    BY <1>2 DEF LayersOf, Wrapped
  <2> QED
    BY <2>1
<1>3. CASE f \in Restored
  <2>1. LayersOf(f) \in Seq(Marks)
    BY <1>3, LayersEnd
  <2> QED
    BY <2>1
<1> QED
  BY <1>1, <1>2, <1>3 DEF Restored

\* compress leaves what PackedInv describes.
LEMMA PackedCreate == ASSUME file = NoFile, PackedInv, Create PROVE PackedInv'
<1>1. ASSUME NEW input \in Inputs, NEW name, NEW f, NEW stub, NEW pw,
             stub \in {<<>>, <<"stub">>}, stub = <<>> \/ f = "zip",
             pw # None => f \in WritesPasswords, f \in SingleStream \union ArchiveWriters,
             Written("compress", name, Layered(input, f, LayersOf(f) \o stub, pw), f, input, pw)
      PROVE  PackedInv'
  <2> DEFINE c == Layered(input, f, LayersOf(f) \o stub, pw)
  <2>1. /\ input \in Contents /\ input.locked = None /\ input.layers \in Seq(STRING)
        /\ IsContent(input)
    BY CommandAssumption DEF Contents, IsContent
  <2>2. /\ IsContent(c) /\ c.what = input.what
        /\ c.layers = input.layers \o (LayersOf(f) \o stub)
        /\ c.locked = IF f \in WritesPasswords THEN pw ELSE None
    BY <2>1 DEF Layered, IsContent
  <2> HIDE DEF c
  <2>3. file' = [name |-> name, content |-> c, source |-> input, asked |-> pw,
                 told |-> Told(f, name)]
    BY <1>1 DEF Written, c
  <2>4. Told(f, name) # None =>
          Told(f, name) = f /\ (f = "zip" \/ f = DetectFromExtension(WholeName(name)))
    BY DEF Told
  <2> QED
    BY <1>1, <2>1, <2>2, <2>3, <2>4 DEF PackedInv
<1>2. ASSUME NEW input \in Inputs, NEW name \in Names, NEW format, NEW pw, NEW split, NEW sfx,
             Compress(input, name, format, pw, split, sfx)
      PROVE  PackedInv'
  <2> DEFINE f == ResolveFormat(format, name)
             stub == IF sfx THEN <<"stub">> ELSE <<>>
  <2>1. CASE UNCHANGED file
    BY <2>1 DEF PackedInv
  <2>2. CASE /\ ValidateCompressInputs(input, f, pw) /\ (sfx => f = "zip")
             /\ IF f \in SingleStream THEN CompressSingleStream(f, pw) ELSE CreateWriter(f, pw)
             /\ Written("compress", IF split THEN Volume(name) ELSE name,
                        Layered(input, f, LayersOf(f) \o stub, pw), f, input, pw)
    <3>1. pw # None => f \in WritesPasswords
      BY <2>2 DEF ValidateCompressInputs
    <3>2. f \in SingleStream \union ArchiveWriters
      BY <2>2 DEF CompressSingleStream, CreateWriter
    <3>3. stub \in {<<>>, <<"stub">>} /\ (stub = <<>> \/ f = "zip")
      BY <2>2
    <3> HIDE DEF f, stub
    <3> QED
      BY <1>1, <2>2, <3>1, <3>2, <3>3
  <2> QED
    BY <1>2, <2>1, <2>2 DEF Compress
<1>3. ASSUME NEW input \in Inputs, NEW name \in Names, NEW format, NEW pw,
             CompressStdin(input, name, format, pw)
      PROVE  PackedInv'
  <2> DEFINE f == ParseFormat(format)
             layers == IF f \in TarWrapped THEN <<CodecOf[f]>> ELSE LayersOf(f)
  <2>1. CASE UNCHANGED file
    BY <2>1 DEF PackedInv
  <2>2. CASE /\ f \in SingleStream \union TarWrapped
             /\ ValidateCompressInputs(input, f, pw)
             /\ Written("compress", name, Layered(input, f, layers, pw),
                        IF f \in TarWrapped THEN None ELSE f, input, pw)
    <3>1. CASE f \in TarWrapped
      BY <2>2, <3>1 DEF Written, Told, PackedInv
    <3>2. CASE f \notin TarWrapped
      <4>1. f \in SingleStream /\ layers = LayersOf(f) \o <<>>
        BY <2>2, <3>2, PlainLayers
      <4>2. pw # None => f \in WritesPasswords
        BY <2>2 DEF ValidateCompressInputs
      <4>3. Written("compress", name, Layered(input, f, LayersOf(f) \o <<>>, pw), f, input, pw)
        BY <2>2, <3>2, <4>1
      <4> DEFINE stub == <<>>
      <4>4. stub \in {<<>>, <<"stub">>} /\ (stub = <<>> \/ f = "zip")
        OBVIOUS
      <4>5. Written("compress", name, Layered(input, f, LayersOf(f) \o stub, pw), f, input, pw)
        BY <4>3
      <4>6. f \in SingleStream \union ArchiveWriters
        BY <4>1
      <4> HIDE DEF f, layers, stub
      <4> QED
        BY <1>1, <4>2, <4>4, <4>5, <4>6
    <3> QED
      BY <3>1, <3>2
  <2> QED
    BY <1>3, <2>1, <2>2 DEF CompressStdin
<1> QED
  BY <1>2, <1>3 DEF Create

\* What the streams' and the archives' tables share.
LEMMA SameRoutes ==
  /\ WindowStreams = DecoderStreams /\ WindowPasswords = ReadsPasswords
  /\ WritesPasswords \subseteq ReadsPasswords
  /\ Restored \intersect {None} = {} /\ "isz" \notin DecoderStreams \union Restored
  /\ {"zip", "zipx"} \intersect (DecoderStreams \union {"isz"}) = {}
  /\ {"zip", "zipx"} \subseteq ReadsPasswords
  /\ Opens("zip") = Opens("zipx")
  BY DEF WindowStreams, DecoderStreams, WindowPasswords, ReadsPasswords, WritesPasswords,
         Restored, SingleStream, ArchiveWriters, TarWrapped, None, Opens

\* As one types it, a file is decompressed by its format's reader or decoder.
LEMMA UsualWay ==
  ASSUME NEW f, NEW c, NEW pw, f # "isz"
  PROVE  /\ DecompressVolume(f, c, pw, FALSE) = Peel(WaysOf(f), c, pw)
         /\ DecompressFile(f, c, pw, FALSE, FALSE) = Peel(WaysOf(f), c, pw)
         /\ BuildReader(f, c, pw) = Peel(WaysOf(f), c, pw)
  BY SameRoutes DEF DecompressVolume, DecompressFile, BuildReader, WaysOf, Decoded

\* Inductive: both properties, and what they rest on.
BackInv == IInv /\ PackedInv /\ TestedInv /\ RoundTrip /\ TestedIsReadable

LEMMA BackInit == Init => BackInv
<1> SUFFICES ASSUME Init PROVE BackInv
  OBVIOUS
<1>1. file # NoFile => file.told = None
  BY CommandAssumption DEF Init
<1>2. PackedInv /\ TestedInv
  BY <1>1 DEF Init, PackedInv, TestedInv
<1>3. RoundTrip /\ TestedIsReadable
  BY DEF Init, RoundTrip, TestedIsReadable, None
<1> QED
  BY <1>2, <1>3, InitInv DEF BackInv

LEMMA BackCreate == ASSUME file = NoFile, BackInv, Create PROVE BackInv'
<1>1. last'.cmd = "compress"
  BY DEF Create, Compress, CompressStdin, Written, Fails
<1>2. RoundTrip' /\ TestedIsReadable'
  BY <1>1 DEF RoundTrip, TestedIsReadable
<1>3. tested = {}
  BY DEF BackInv, TestedInv
<1>4. tested' = {}
  BY <1>3 DEF Create, Compress, CompressStdin, Written
<1>5. TestedInv'
  BY <1>4 DEF TestedInv
<1> QED
  BY <1>2, <1>5, CreateStep, PackedCreate DEF BackInv

\* A file nothing was done to.
LEMMA SameFile ==
  ASSUME BackInv, UNCHANGED file
  PROVE  PackedInv' /\ (UNCHANGED tested => TestedInv')
  BY DEF BackInv, PackedInv, TestedInv

\* A command that is not one of the readers leaves nothing to be compared.
LEMMA OtherCommand ==
  ASSUME last'.cmd \notin {"decompress", "window", "run"} PROVE RoundTrip' /\ TestedIsReadable'
  BY DEF RoundTrip, TestedIsReadable

\* A reader's answer that is one of the format's, refused for the same reasons.
LEMMA AnswerBack ==
  ASSUME BackInv, file # NoFile, UNCHANGED <<file, tested>>,
         NEW pw, NEW usual, NEW cmd \in {"decompress", "window"},
         NEW f \in {DetectArchiveFormat(WholeName(file.name), file.content)}
                      \union IF IsVolume(file.name) THEN {}
                             ELSE {WindowDetect(file.name, file.content)},
         NEW gives,
         usual /\ f # "isz" =>
           gives = IF Refuses(f, pw) THEN Broken ELSE Peel(WaysOf(f), file.content, pw),
         Result(cmd, pw, usual, gives)
  PROVE  RoundTrip' /\ TestedIsReadable'
<1>1. Shaped(file.content)
  BY DEF BackInv, IInv, FileInv
<1> DEFINE r == Peel(WaysOf(f), file.content, pw)
<1>2. RoundTrip'
  <2> SUFFICES ASSUME usual, file.told # None, ~Misleading, pw = file.asked
               PROVE  gives # Broken /\ SameData(gives, file.source)
    BY DEF RoundTrip, Result, Misleading
  <2>1. /\ r # Broken /\ SameData(r, file.source)
        /\ f \in Restored /\ (file.asked # None => f \in WritesPasswords)
    BY <1>1, PackedGives DEF BackInv
  <2>2. f # "isz" /\ f # None /\ (pw # None => f \in ReadsPasswords)
    BY <2>1, SameRoutes
  <2>3. gives = r
    BY <2>2 DEF Refuses
  <2> QED
    BY <2>1, <2>3
<1>3. TestedIsReadable'
  <2> SUFFICES ASSUME usual, pw \in tested, ~IsVolume(file.name), gives = Broken
               PROVE  IsSuffix(<<"isz">>, file.content.layers)
    BY DEF TestedIsReadable, Result
  <2> DEFINE g == DetectArchiveFormat(file.name, file.content)
  <2>1. ~Refuses(g, pw) /\ RunVerify(g, file.content, pw) # Broken
    BY DEF BackInv, TestedInv
  <2>2. WholeName(file.name) = file.name
    BY DEF WholeName
  <2>3. f = g \/ {f, g} = {"zip", "zipx"}
    BY <1>1, <2>2, SameAnswer DEF Shaped
  <2> HIDE DEF g
  <2>4. CASE g = "isz"
    <3>1. Decodes(g) = {<<"isz">>}
      BY <2>4 DEF Decodes, LayersOf, Wrapped
    <3>2. Peel({<<"isz">>}, file.content, pw) # Broken
      BY <2>1, <2>4, <3>1 DEF RunVerify, VerifiedAsStream
    <3> QED
      BY <3>2 DEF Peel
  <2>5. CASE g # "isz"
    <3>1. f # "isz"
      BY <2>3, <2>5
    <3>2. RunVerify(g, file.content, pw) = Peel(WaysOf(g), file.content, pw)
      BY <2>5 DEF RunVerify, VerifiedAsStream, WaysOf
    <3>3. WaysOf(f) = WaysOf(g) /\ (Refuses(f, pw) <=> Refuses(g, pw))
      <4>1. CASE f = g
        BY <4>1
      <4>2. CASE {f, g} = {"zip", "zipx"}
        <5>1. f \in {"zip", "zipx"} /\ g \in {"zip", "zipx"}
          BY <4>2
        <5> QED
          BY <5>1, SameRoutes DEF WaysOf, Refuses, None
      <4> QED
        BY <2>3, <4>1, <4>2
    <3>4. gives = r
      BY <2>1, <3>1, <3>3
    <3> QED
      BY <2>1, <3>2, <3>3, <3>4
  <2> QED
    BY <2>4, <2>5
<1> QED
  BY <1>2, <1>3

\* The stub gives back what compress put behind it.
LEMMA StubGives ==
  ASSUME PackedInv, file # NoFile, file.told # None, ~Misleading, file.asked = None,
         ZipBehind(file.content), Shaped(file.content)
  PROVE  LET r == Peel({<<"zip", "stub">>}, file.content, None)
         IN  r # Broken /\ SameData(r, file.source)
<1> DEFINE told == file.told
           c == file.content
           s == file.source.layers
           w == <<"zip", "stub">>
           name == WholeName(file.name)
<1>1. told \in Restored /\ told # None
  BY DEF PackedInv, Misleading, Restored
<1>2. PICK stub \in {<<>>, <<"stub">>} :
        (stub = <<>> \/ told = "zip") /\ c.layers = s \o (LayersOf(told) \o stub)
  BY DEF PackedInv
<1>3. s \in Seq(Marks)
  <2>1. STRING \subseteq Marks
    BY DEF Marks
  <2> QED
    BY <2>1, SeqMonotonic DEF PackedInv
<1>4. PackedAs(told, name, c, s, stub)
  BY <1>2 DEF PackedInv, PackedAs, Misleading
<1>5. "zip" \in Marks /\ "stub" \in Marks
  BY DEF Marks
<1>6. w \in Seq(Marks) /\ w # <<>> /\ Last(w) = "stub"
  BY <1>5, Short DEF Last
<1>7. c.layers \in Seq(Marks) /\ Last(c.layers) = IF stub = <<>> THEN Last(LayersOf(told)) ELSE "stub"
  BY <1>1, <1>3, <1>4, OuterIs
<1>8. Last(c.layers) = "stub"
  BY <1>6, <1>7, SuffixEnd DEF ZipBehind
<1>9. Last(LayersOf(told)) # "stub"
  <2>1. told # "stub"
    BY <1>1 DEF Restored, SingleStream, ArchiveWriters, TarWrapped
  <2>2. told \in Wrapped => told \in {"tar.gz", "tar.bz2", "tar.lz4", "tar.zst", "tar.xz", "tar.br"}
    BY <1>1 DEF Restored, SingleStream, ArchiveWriters, TarWrapped, Wrapped
  <2> QED
    BY <1>1, <2>1, <2>2, LayersEnd
<1>10. stub = <<"stub">> /\ told = "zip"
  BY <1>2, <1>7, <1>8, <1>9
<1>11. LayersOf(told) = <<"zip">>
  BY <1>1, <1>10, LayersAre DEF Wrapped
<1>12. c.layers = s \o w
  <2>1. <<"zip">> \o <<"stub">> = w
    BY <1>5, Short
  <2>2. LayersOf(told) \o stub = w
    BY <1>10, <1>11, <2>1
  <2> HIDE DEF w
  <2> QED
    BY <1>2, <2>2
<1>13. OnlyWay(w, {w}, s, c.layers)
  BY <1>12 DEF OnlyWay
<1>14. /\ IsContent(c) /\ c.locked = None /\ c.what = file.source.what
       /\ file.source.locked = None
  BY DEF PackedInv
<1> DEFINE r == Peel({w}, c, None)
<1> HIDE DEF w
<1>15. r # Broken /\ r.what = c.what /\ r.layers = s /\ r.locked = None
  BY <1>3, <1>6, <1>13, <1>14, PeelsBack
<1> HIDE DEF r
<1>16. r # Broken /\ SameData(r, file.source)
  BY <1>14, <1>15 DEF SameData
<1> QED
  BY <1>16 DEF r, w

LEMMA BackRead ==
  ASSUME file # NoFile, BackInv, Read \/ RunStub \/ \E name \in NewNames : Rename(name)
  PROVE  BackInv'
<1>0. IInv'
  BY ReadStep DEF BackInv
<1>1. ASSUME NEW pw, List(pw) PROVE BackInv'
  <2>1. last'.cmd = "list" /\ UNCHANGED <<file, tested>>
    BY <1>1 DEF List, Fails, Result
  <2> QED
    BY <1>0, <2>1, SameFile, OtherCommand DEF BackInv
<1>2. ASSUME NEW pw, Test(pw) PROVE BackInv'
  <2>1. last'.cmd = "test" /\ UNCHANGED file
    BY <1>2 DEF Test, Result
  <2>2. TestedInv'
    BY <1>2 DEF Test, BackInv, TestedInv
  <2> QED
    BY <1>0, <2>1, <2>2, SameFile, OtherCommand DEF BackInv
<1>3. ASSUME NEW pw, NEW hint, NEW stdout \in BOOLEAN, NEW here \in BOOLEAN,
             Decompress(pw, hint, stdout, here)
      PROVE  BackInv'
  <2> DEFINE f == IF hint # None THEN ParseFormat(hint)
                  ELSE DetectArchiveFormat(WholeName(file.name), file.content)
             g == DetectArchiveFormat(WholeName(file.name), file.content)
             usual == hint = None /\ ~stdout /\ ~here
             gives == IF Refuses(f, pw) THEN Broken
                      ELSE IF IsVolume(file.name)
                        THEN DecompressVolume(f, file.content, pw, stdout)
                        ELSE DecompressFile(f, file.content, pw, stdout, here)
  <2>1. Result("decompress", pw, usual, gives) /\ UNCHANGED <<file, tested>>
    BY <1>3 DEF Decompress
  <2>2. usual /\ g # "isz" =>
          gives = IF Refuses(g, pw) THEN Broken ELSE Peel(WaysOf(g), file.content, pw)
    <3> SUFFICES ASSUME usual, g # "isz"
                 PROVE  gives = IF Refuses(g, pw) THEN Broken ELSE Peel(WaysOf(g), file.content, pw)
      OBVIOUS
    <3>1. f = g /\ stdout = FALSE /\ here = FALSE
      OBVIOUS
    <3> HIDE DEF f, g
    <3> QED
      BY <3>1, UsualWay
  <2> HIDE DEF f, usual, gives
  <2>3. RoundTrip' /\ TestedIsReadable'
    BY <2>1, <2>2, AnswerBack DEF BackInv
  <2> QED
    BY <1>0, <2>1, <2>3, SameFile DEF BackInv
<1>4. ASSUME NEW pw, NEW hint, DecompressStdin(pw, hint) PROVE BackInv'
  <2>1. last'.cmd = "stdin" /\ UNCHANGED <<file, tested>>
    BY <1>4 DEF DecompressStdin, Fails, Result
  <2> QED
    BY <1>0, <2>1, SameFile, OtherCommand DEF BackInv
<1>5. ASSUME NEW pw, ExtractInWindow(pw) PROVE BackInv'
  <2> DEFINE f == WindowDetect(file.name, file.content)
             refused == f = None \/ (pw # None /\ f \notin WindowPasswords)
             gives == IF refused THEN Broken ELSE BuildReader(f, file.content, pw)
  <2>1. Result("window", pw, TRUE, gives) /\ UNCHANGED <<file, tested>>
    BY <1>5 DEF ExtractInWindow
  <2>2. f # "isz" =>
          gives = IF Refuses(f, pw) THEN Broken ELSE Peel(WaysOf(f), file.content, pw)
    BY UsualWay, SameRoutes DEF Refuses
  <2> HIDE DEF gives
  <2>3. CASE ~IsVolume(file.name)
    <3>1. RoundTrip' /\ TestedIsReadable'
      BY <2>1, <2>2, <2>3, AnswerBack DEF BackInv
    <3> QED
      BY <1>0, <2>1, <3>1, SameFile DEF BackInv
  <2>4. CASE IsVolume(file.name)
    <3>1. RoundTrip' /\ TestedIsReadable'
      BY <2>1, <2>4 DEF RoundTrip, TestedIsReadable, Result
    <3> QED
      BY <1>0, <2>1, <3>1, SameFile DEF BackInv
  <2> QED
    BY <2>3, <2>4
<1>6. CASE RunStub
  <2> DEFINE r == Peel({<<"zip", "stub">>}, file.content, None)
  <2>1. Result("run", None, TRUE, r) /\ UNCHANGED <<file, tested>>
    BY <1>6 DEF RunStub, StubExtracts
  <2>2. RoundTrip'
    <3> SUFFICES ASSUME file.told # None, ~Misleading, file.asked = None
                 PROVE  r # Broken /\ SameData(r, file.source)
      BY <2>1 DEF RoundTrip, Result, Misleading
    <3>1. PackedInv /\ ZipBehind(file.content) /\ Shaped(file.content)
      BY <1>6 DEF RunStub, BackInv, IInv, FileInv
    <3> QED
      BY <3>1, StubGives
  <2>3. TestedIsReadable'
    BY <2>1 DEF TestedIsReadable, Result
  <2> QED
    BY <1>0, <2>1, <2>2, <2>3, SameFile DEF BackInv
<1>7. ASSUME NEW name \in NewNames, Rename(name) PROVE BackInv'
  <2>1. last'.cmd = "rename" /\ tested' = {}
    BY <1>7 DEF Rename
  <2>2. TestedInv'
    BY <2>1 DEF TestedInv
  <2>3. PackedInv'
    <3>1. file'.told = Told(file.told, name) /\ file'.name = name
          /\ file'.content = file.content /\ file'.source = file.source /\ file'.asked = file.asked
      BY <1>7 DEF Rename, BackInv, IInv, FileInv
    <3>2. file'.told # None => file'.told = file.told
            /\ (file'.told = "zip" \/ file'.told = DetectFromExtension(WholeName(name)))
      BY <3>1 DEF Told
    <3> QED
      BY <3>1, <3>2 DEF BackInv, PackedInv
  <2> QED
    BY <1>0, <2>1, <2>2, <2>3, OtherCommand DEF BackInv
<1> QED
  BY <1>1, <1>2, <1>3, <1>4, <1>5, <1>6, <1>7 DEF Read

LEMMA BackStep == BackInv /\ [Next]_commandVars => BackInv'
<1> SUFFICES ASSUME BackInv, [Next]_commandVars PROVE BackInv'
  OBVIOUS
<1>1. CASE UNCHANGED commandVars
  <2>1. IInv'
    BY <1>1, StepInv DEF BackInv
  <2>2. RoundTrip' /\ TestedIsReadable'
    BY <1>1 DEF BackInv, RoundTrip, TestedIsReadable, commandVars, Misleading
  <2> QED
    BY <1>1, <2>1, <2>2, SameFile DEF BackInv, commandVars
<1> QED
  BY <1>1, BackCreate, BackRead DEF Next

\* What compress wrote under a name that says its format comes back as it was
\* given, whole, in parts, through the window or through the stub, whatever the
\* inputs, names, flags and passwords (compress, cmd_decompress,
\* reader_for_format, run_sfx).
THEOREM ComesBack == Spec => []RoundTrip
<1>1. BackInv => RoundTrip
  BY DEF BackInv
<1> QED
  BY <1>1, BackInit, BackStep, PTL DEF Spec

\* What test accepts is not refused by decompress or the window (run_verify).
THEOREM TestedCanBeRead == Spec => []TestedIsReadable
<1>1. BackInv => TestedIsReadable
  BY DEF BackInv
<1> QED
  BY <1>1, BackInit, BackStep, PTL DEF Spec

-----------------------------------------------------------------------------
(* The files the commands leave.                                           *)

StagedPCs  == {"prepare", "look", "pend", "work", "finish", "wrap", "commit", "persist"}
InPlacePCs == {"list", "entry", "open", "look2", "copy", "report"}

\* Each command runs the steps of its way, with a request that was made.
OnItsWay(c) ==
  /\ req[c] \in RequestsOf[c]
  /\ pc[c] \in StagedPCs => Way(c) \in Staged
  /\ pc[c] \in InPlacePCs => Way(c) \in InPlace
  /\ exit[c] = "running" <=> pc[c] # "ended"

\* The walk over an archive: every entry passed is accounted for, unless one
\* failed; a staged command has completed nothing before its end.
Accounted(c) ==
  /\ at[c] <= Len(req[c].outputs)
  /\ pc[c] \in {"open", "look2", "copy"} => at[c] < Len(req[c].outputs)
  /\ pc[c] = "report" => at[c] = Len(req[c].outputs)
  /\ kept[c] # {} => ~req[c].overwrite
  /\ Way(c) \in InPlace /\ ~failed[c] => put[c] \cup kept[c] = 1..at[c]
  /\ Way(c) \in Staged /\ exit[c] # "0" => put[c] = {} /\ kept[c] = {}

\* Status 0: every output was completed, or left to the file that was there.
Rewarded(c) == exit[c] = "0" => put[c] \cup kept[c] = 1..Len(req[c].outputs)

\* A Ctrl+C before the last look leaves the flag set, and no way to persist.
Heeded(c) ==
  asked[c] => flag[c] /\ pc[c] \notin {"install", "reset", "persist"}
              /\ (Way(c) \in Staged => put[c] = {})

\* The file of a staged command has a name only after a success.
Unnamed(c) ==
  /\ Way(c) \in Staged /\ exit[c] # "0" => \A n \in Paths : link[n] # Mine(c)
  /\ exit[c] \in {"0", "1", "130"} => temps[c] = {}

OutputInv == /\ OutputTypeOK
        /\ \A c \in Commands : OnItsWay(c) /\ Accounted(c) /\ Heeded(c) /\ Unnamed(c) /\ Rewarded(c)

LEMMA OutputsInit == OutputInit => OutputInv
<1> SUFFICES ASSUME OutputInit PROVE OutputInv
  OBVIOUS
<1> USE CliAssumption
<1>1. \A c \in Commands : req[c] \in RequestsOf[c] /\ req[c] \in Requests
  BY DEF OutputInit
<1>2. OutputTypeOK
  <2>1. Existing \in Files
    BY DEF Existing, Files
  <2> QED
    BY <1>1, <2>1, Z3 DEF OutputInit, OutputTypeOK, Files, PCs, Looking, Exits
<1>3. ASSUME NEW c \in Commands
      PROVE OnItsWay(c) /\ Accounted(c) /\ Heeded(c) /\ Unnamed(c) /\ Rewarded(c)
  <2>1. Existing # Mine(c)
    BY DEF Existing, Mine
  <2>2. Len(req[c].outputs) \in Nat
    BY <1>1 DEF Requests
  <2>3. pc[c] = "install" /\ exit[c] = "running" /\ ~asked[c] /\ at[c] = 0
        /\ put[c] = {} /\ kept[c] = {} /\ ~failed[c]
    BY DEF OutputInit
  <2>4. OnItsWay(c)
    BY <1>1, <2>3 DEF OnItsWay, StagedPCs, InPlacePCs
  <2>5. Accounted(c)
    BY <2>2, <2>3 DEF Accounted
  <2>6. Heeded(c)
    BY <2>3 DEF Heeded
  <2>7. Unnamed(c)
    <3>1. Mine(c) \in Files
      BY CliAssumption DEF Mine, Files
    <3> QED
      BY <2>1, <2>3, <3>1, <1>1 DEF Unnamed, OutputInit, CliAssumption
  <2>8. Rewarded(c)
    BY <2>3 DEF Rewarded
  <2> QED
    BY <2>4, <2>5, <2>6, <2>7, <2>8
<1> QED
  BY <1>2, <1>3 DEF OutputInv

\* The values of body.
Bodies == [by : Commands \cup {Outside}, whole : BOOLEAN]

LEMMA TypeStep == OutputInv /\ [OutputNext]_outputVars => OutputTypeOK'
<1> SUFFICES ASSUME OutputInv, [OutputNext]_outputVars PROVE OutputTypeOK'
  OBVIOUS
<1> USE DEF OutputTypeOK, At, Goto, Fail, Succeed, diskVars, workVars, PCs, Looking,
   Exits, Way
<1>t. OutputTypeOK /\ body \in [Files -> Bodies]
  BY DEF OutputInv, Bodies
<1>m. 1 \in 1..MaxOutputs /\ {1} \in SUBSET (1..MaxOutputs) /\ MaxOutputs \in Nat
      /\ \A c \in Commands : Mine(c) \in Files
  BY CliAssumption DEF Mine, Files
<1>r. \A c \in Commands, w \in BOOLEAN : [by |-> c, whole |-> w] \in Bodies
  BY DEF Bodies
<1>b. ASSUME NEW c \in Commands, pc[c] \in {"open", "look2", "copy"}
      PROVE at[c] + 1 \in 1..Len(req[c].outputs) /\ Len(req[c].outputs) \in 0..MaxOutputs
            /\ req[c].outputs \in Seq(Paths)
  BY <1>b, <1>t, CliAssumption DEF OutputInv, Accounted, OnItsWay, Requests
<1>1. ASSUME NEW c \in Commands, Install(c) PROVE OutputTypeOK'
  BY <1>t, <1>1 DEF Install
<1>2. ASSUME NEW c \in Commands, Reset(c) PROVE OutputTypeOK'
  BY <1>t, <1>2 DEF Reset
<1>3. ASSUME NEW c \in Commands, Prepare(c) PROVE OutputTypeOK'
  BY <1>t, <1>3 DEF Prepare
<1>4. ASSUME NEW c \in Commands, Look(c) PROVE OutputTypeOK'
  <2>1. put' \in [Commands -> SUBSET (1..MaxOutputs)] /\ kept' \in [Commands -> SUBSET (1..MaxOutputs)]
    BY <1>t, <1>m, <1>4 DEF Look
  <2>2. pc' \in [Commands -> PCs] /\ exit' \in [Commands -> Exits]
    BY <1>t, <1>m, <1>4 DEF Look
  <2>3. temps' \in [Commands -> SUBSET {"output", "sfx"}]
    BY <1>t, <1>m, <1>4 DEF Look
  <2> QED
    BY <1>t, <1>4, <2>1, <2>2, <2>3 DEF Look
<1>5. ASSUME NEW c \in Commands, Pend(c) PROVE OutputTypeOK'
  <2>1. body' \in [Files -> Bodies]
    BY <1>t, <1>m, <1>r, <1>5 DEF Pend
  <2>2. temps' \in [Commands -> SUBSET {"output", "sfx"}]
    BY <1>t, <1>m, <1>5 DEF Pend
  <2>3. pc' \in [Commands -> PCs]
    BY <1>t, <1>m, <1>5 DEF Pend
  <2> QED
    BY <1>t, <1>5, <2>1, <2>2, <2>3 DEF Pend, Bodies
<1>6. ASSUME NEW c \in Commands, Work(c) PROVE OutputTypeOK'
  BY <1>t, <1>6 DEF Work
<1>7. ASSUME NEW c \in Commands, Finish(c) PROVE OutputTypeOK'
  <2>1. body' \in [Files -> Bodies]
    BY <1>t, <1>m, <1>r, <1>7 DEF Finish
  <2>2. pc' \in [Commands -> PCs]
    BY <1>t, <1>7, SMTT(40) DEF Finish
  <2> QED
    BY <1>t, <1>7, <2>1, <2>2 DEF Finish, Bodies
<1>8. ASSUME NEW c \in Commands, Wrap(c) PROVE OutputTypeOK'
  BY <1>t, <1>8 DEF Wrap
<1>9. ASSUME NEW c \in Commands, Commit(c) PROVE OutputTypeOK'
  BY <1>t, <1>9 DEF Commit
<1>10. ASSUME NEW c \in Commands, Persist(c) PROVE OutputTypeOK'
  <2>1. link' \in [Paths -> Files \cup {Vacant}]
    BY <1>t, <1>m, <1>10 DEF Persist
  <2>2. put' \in [Commands -> SUBSET (1..MaxOutputs)] /\ kept' \in [Commands -> SUBSET (1..MaxOutputs)]
    <3>1. put' \in [Commands -> SUBSET (1..MaxOutputs)]
      BY <1>t, <1>m, <1>10, ZenonT(60) DEF Persist
    <3>2. kept' \in [Commands -> SUBSET (1..MaxOutputs)]
      BY <1>t, <1>m, <1>10 DEF Persist
    <3> QED
      BY <3>1, <3>2
  <2>3. pc' \in [Commands -> PCs] /\ exit' \in [Commands -> Exits]
    BY <1>t, <1>m, <1>10 DEF Persist
  <2>4. temps' \in [Commands -> SUBSET {"output", "sfx"}]
    BY <1>t, <1>m, <1>10 DEF Persist
  <2> QED
    BY <1>t, <1>10, <2>1, <2>2, <2>3, <2>4 DEF Persist
<1>11. ASSUME NEW c \in Commands, Unwind(c) PROVE OutputTypeOK'
  BY <1>t, <1>11 DEF Unwind
<1>12. ASSUME NEW c \in Commands, ListEntries(c) PROVE OutputTypeOK'
  BY <1>t, <1>12 DEF ListEntries
<1>13. ASSUME NEW c \in Commands, NextEntry(c) PROVE OutputTypeOK'
  BY <1>t, <1>13 DEF NextEntry
<1>14. ASSUME NEW c \in Commands, OpenOutput(c) PROVE OutputTypeOK'
  <2>l. at[c] + 1 \in 1..Len(req[c].outputs) /\ Len(req[c].outputs) \in 0..MaxOutputs
    BY <1>b, <1>14 DEF OpenOutput
  <2>a. at[c] + 1 \in 1..MaxOutputs /\ Output(c) \in Paths /\ at[c] \in Nat
    <3>1. req[c].outputs \in Seq(Paths) /\ at[c] \in Nat
      BY <1>t, <1>m, <1>b, <1>14 DEF OpenOutput
    <3>2. req[c].outputs[at[c] + 1] \in Paths
      BY <3>1, <2>l
    <3> QED
      BY <3>1, <3>2, <2>l, <1>m DEF Output
  <2>b. <<c, at[c] + 1>> \in Files
    BY <2>a DEF Files
  <2>1. link' \in [Paths -> Files \cup {Vacant}]
    BY <1>t, <1>m, <1>14, <2>a, <2>b DEF OpenOutput
  <2>2. body' \in [Files -> Bodies]
    BY <1>t, <1>m, <1>r, <1>14, <2>a, <2>b DEF OpenOutput
  <2>3. open' \in [Commands -> Files \cup {Vacant}]
    BY <1>t, <1>m, <1>14, <2>a, <2>b DEF OpenOutput
  <2>4. at' \in [Commands -> 0..MaxOutputs]
    BY <1>t, <1>m, <1>14, <2>a, <2>b DEF OpenOutput, Pass
  <2>5. put' \in [Commands -> SUBSET (1..MaxOutputs)] /\ kept' \in [Commands -> SUBSET (1..MaxOutputs)]
    <3>1. put' \in [Commands -> SUBSET (1..MaxOutputs)]
      BY <1>t, <1>m, <1>14, <2>a, <2>b DEF OpenOutput
    <3>2. kept' \in [Commands -> SUBSET (1..MaxOutputs)]
      BY <1>t, <1>m, <1>14, <2>a, <2>b, SMTT(30) DEF OpenOutput
    <3> QED
      BY <3>1, <3>2
  <2>6. pc' \in [Commands -> PCs]
    BY <1>t, <1>14, SMTT(40) DEF OpenOutput
  <2> QED
    BY <1>t, <1>14, <2>1, <2>2, <2>3, <2>4, <2>5, <2>6 DEF OpenOutput, Bodies
<1>15. ASSUME NEW c \in Commands, LookAgain(c) PROVE OutputTypeOK'
  BY <1>t, <1>15 DEF LookAgain
<1>16. ASSUME NEW c \in Commands, CopyEntry(c) PROVE OutputTypeOK'
  <2>l. at[c] + 1 \in 1..Len(req[c].outputs) /\ Len(req[c].outputs) \in 0..MaxOutputs
    BY <1>b, <1>16 DEF CopyEntry
  <2>a. at[c] + 1 \in 1..MaxOutputs /\ at[c] \in Nat
    BY <1>t, <1>m, <2>l
  <2>w. \A w \in BOOLEAN : [by |-> c, whole |-> w /\ body[open[c]].by = c] \in Bodies
    BY <1>r
  <2>1. body' \in [Files -> Bodies]
    BY <1>t, <1>16, <2>w DEF CopyEntry, Filled
  <2>2. at' \in [Commands -> 0..MaxOutputs]
    <3>1. at' = at \/ at' = [at EXCEPT ![c] = @ + 1]
      BY <1>16 DEF CopyEntry, Pass
    <3> QED
      BY <1>t, <1>m, <2>a, <3>1
  <2>3. put' \in [Commands -> SUBSET (1..MaxOutputs)] /\ kept' \in [Commands -> SUBSET (1..MaxOutputs)]
    <3>1. put' \in [Commands -> SUBSET (1..MaxOutputs)]
      <4>1. put' = put \/ put' = [put EXCEPT ![c] = @ \cup {at[c] + 1}]
        BY <1>16 DEF CopyEntry
      <4> QED
        BY <1>t, <2>a, <4>1
    <3>2. kept' \in [Commands -> SUBSET (1..MaxOutputs)]
      BY <1>t, <1>m, <1>16, <2>a DEF CopyEntry
    <3> QED
      BY <3>1, <3>2
  <2>4. pc' \in [Commands -> PCs]
    BY <1>t, <1>m, <1>16, <2>a, ZenonT(60) DEF CopyEntry
  <2> QED
    BY <1>t, <1>16, <2>1, <2>2, <2>3, <2>4 DEF CopyEntry, Bodies
<1>17. ASSUME NEW c \in Commands, Report(c) PROVE OutputTypeOK'
  BY <1>t, <1>17 DEF Report
<1>18. ASSUME NEW c \in Commands, Press(c) PROVE OutputTypeOK'
  <2>1. pc' \in [Commands -> PCs] /\ exit' \in [Commands -> Exits]
    BY <1>t, <1>m, <1>18 DEF Press
  <2>2. flag' \in [Commands -> BOOLEAN]
    BY <1>t, <1>m, <1>18 DEF Press
  <2>3. asked' \in [Commands -> BOOLEAN]
    <3>1. (pc[c] \in Looking) \in BOOLEAN
      OBVIOUS
    <3>2. \E b \in BOOLEAN : asked' = asked \/ asked' = [asked EXCEPT ![c] = b]
      <4> HIDE DEF Looking
      <4> QED
        BY <1>18, <3>1 DEF Press
    <3> QED
      BY <1>t, <3>2
  <2> QED
    BY <1>t, <1>18, <2>1, <2>2, <2>3 DEF Press
<1>19. ASSUME NEW c \in Commands, Kill(c) PROVE OutputTypeOK'
  BY <1>t, <1>19 DEF Kill
<1>20. ASSUME NEW n \in Paths, Change(n) PROVE OutputTypeOK'
  <2>1. <<Outside, outs + 1>> \in Files
    BY <1>t, <1>20, CliAssumption DEF Change, Files
  <2>2. outs' \in 0..MaxOutside
    BY <1>t, <1>20, CliAssumption DEF Change
  <2> QED
    BY <1>t, <1>20, <2>1, <2>2 DEF Change
<1>21. CASE UNCHANGED outputVars
  BY <1>t, <1>21 DEF outputVars
<1> QED
  BY <1>1, <1>2, <1>3, <1>4, <1>5, <1>6, <1>7, <1>8, <1>9, <1>10, <1>11, <1>12,
     <1>13, <1>14, <1>15, <1>16, <1>17, <1>18, <1>19, <1>20, <1>21 DEF OutputNext,
     StagedStep, InPlaceStep

-----------------------------------------------------------------------------
\* What only the command itself changes.
Own(c) == <<req[c], pc[c], exit[c], flag[c], at[c], failed[c], put[c], kept[c],
            asked[c], temps[c]>>

LEMMA OthersKeepOut ==
  ASSUME OutputTypeOK, NEW c \in Commands, NEW d \in Commands, c # d,
         StagedStep(d) \/ InPlaceStep(d) \/ Press(d) \/ Kill(d)
  PROVE  Own(c)' = Own(c)
<1> USE DEF OutputTypeOK, Own, At, Goto, Fail, Succeed, Pass, diskVars, workVars
<1>1. CASE Install(d)
  BY <1>1 DEF Install
<1>2. CASE Reset(d)
  BY <1>2 DEF Reset
<1>3. CASE Prepare(d)
  BY <1>3 DEF Prepare
<1>4. CASE Look(d)
  BY <1>4 DEF Look
<1>5. CASE Pend(d)
  BY <1>5 DEF Pend
<1>6. CASE Work(d)
  BY <1>6 DEF Work
<1>7. CASE Finish(d)
  BY <1>7 DEF Finish
<1>8. CASE Wrap(d)
  BY <1>8 DEF Wrap
<1>9. CASE Commit(d)
  BY <1>9 DEF Commit
<1>10. CASE Persist(d)
  BY <1>10 DEF Persist
<1>11. CASE Unwind(d)
  BY <1>11 DEF Unwind
<1>12. CASE ListEntries(d)
  BY <1>12 DEF ListEntries
<1>13. CASE NextEntry(d)
  BY <1>13 DEF NextEntry
<1>14. CASE OpenOutput(d)
  BY <1>14 DEF OpenOutput
<1>15. CASE LookAgain(d)
  BY <1>15 DEF LookAgain
<1>16. CASE CopyEntry(d)
  BY <1>16 DEF CopyEntry
<1>17. CASE Report(d)
  BY <1>17 DEF Report
<1>18. CASE Press(d)
  BY <1>18 DEF Press
<1>19. CASE Kill(d)
  BY <1>19 DEF Kill
<1> QED
  BY <1>1, <1>2, <1>3, <1>4, <1>5, <1>6, <1>7, <1>8, <1>9, <1>10, <1>11, <1>12,
     <1>13, <1>14, <1>15, <1>16, <1>17, <1>18, <1>19 DEF StagedStep, InPlaceStep

LEMMA WayStep ==
  ASSUME OutputInv, NEW c \in Commands, StagedStep(c) \/ InPlaceStep(c) \/ Press(c) \/ Kill(c)
  PROVE  OnItsWay(c)'
<1> USE DEF At, Goto, Fail, Succeed, Pass, diskVars, workVars, OnItsWay, StagedPCs,
   InPlacePCs, Staged, InPlace, Way
<1>t. OutputTypeOK /\ OnItsWay(c) /\ Accounted(c) /\ Heeded(c) /\ Unnamed(c) /\ Rewarded(c)
  BY DEF OutputInv
<1>1. CASE Install(c)
  BY <1>t, <1>1 DEF Install, OutputTypeOK
<1>2. CASE Reset(c)
  BY <1>t, <1>2 DEF Reset, OutputTypeOK, Requests
<1>3. CASE Prepare(c)
  BY <1>t, <1>3 DEF Prepare, OutputTypeOK
<1>4. CASE Look(c)
  BY <1>t, <1>4 DEF Look, OutputTypeOK
<1>5. CASE Pend(c)
  BY <1>t, <1>5 DEF Pend, OutputTypeOK
<1>6. CASE Work(c)
  BY <1>t, <1>6 DEF Work, OutputTypeOK
<1>7. CASE Finish(c)
  BY <1>t, <1>7 DEF Finish, OutputTypeOK
<1>8. CASE Wrap(c)
  BY <1>t, <1>8 DEF Wrap, OutputTypeOK
<1>9. CASE Commit(c)
  BY <1>t, <1>9 DEF Commit, OutputTypeOK
<1>10. CASE Persist(c)
  BY <1>t, <1>10 DEF Persist, OutputTypeOK
<1>11. CASE Unwind(c)
  BY <1>t, <1>11 DEF Unwind, OutputTypeOK
<1>12. CASE ListEntries(c)
  BY <1>t, <1>12 DEF ListEntries, OutputTypeOK
<1>13. CASE NextEntry(c)
  BY <1>t, <1>13 DEF NextEntry, OutputTypeOK
<1>14. CASE OpenOutput(c)
  BY <1>t, <1>14 DEF OpenOutput, OutputTypeOK
<1>15. CASE LookAgain(c)
  BY <1>t, <1>15 DEF LookAgain, OutputTypeOK
<1>16. CASE CopyEntry(c)
  BY <1>t, <1>16 DEF CopyEntry, OutputTypeOK
<1>17. CASE Report(c)
  BY <1>t, <1>17 DEF Report, OutputTypeOK
<1>18. CASE Press(c)
  BY <1>t, <1>18 DEF Press, OutputTypeOK
<1>19. CASE Kill(c)
  BY <1>t, <1>19 DEF Kill, OutputTypeOK
<1> QED
  BY <1>1, <1>2, <1>3, <1>4, <1>5, <1>6, <1>7, <1>8, <1>9, <1>10, <1>11, <1>12,
     <1>13, <1>14, <1>15, <1>16, <1>17, <1>18, <1>19 DEF StagedStep, InPlaceStep

LEMMA AccountStep ==
  ASSUME OutputInv, NEW c \in Commands, StagedStep(c) \/ InPlaceStep(c) \/ Press(c) \/ Kill(c)
  PROVE  Accounted(c)'
<1> USE DEF At, Goto, Fail, Succeed, Pass, diskVars, workVars, Accounted, OnItsWay,
   Staged, InPlace, StagedPCs, InPlacePCs, Way
<1>t. OutputTypeOK /\ OnItsWay(c) /\ Accounted(c) /\ Heeded(c) /\ Unnamed(c) /\ Rewarded(c)
  BY DEF OutputInv
<1>1. CASE Install(c)
  BY <1>t, <1>1 DEF Install, OutputTypeOK
<1>2. CASE Reset(c)
  BY <1>t, <1>2 DEF Reset, OutputTypeOK
<1>3. CASE Prepare(c)
  BY <1>t, <1>3 DEF Prepare, OutputTypeOK
<1>4. CASE Look(c)
  BY <1>t, <1>4 DEF Look, OutputTypeOK
<1>5. CASE Pend(c)
  BY <1>t, <1>5 DEF Pend, OutputTypeOK
<1>6. CASE Work(c)
  BY <1>t, <1>6 DEF Work, OutputTypeOK
<1>7. CASE Finish(c)
  BY <1>t, <1>7 DEF Finish, OutputTypeOK
<1>8. CASE Wrap(c)
  BY <1>t, <1>8 DEF Wrap, OutputTypeOK
<1>9. CASE Commit(c)
  BY <1>t, <1>9 DEF Commit, OutputTypeOK
<1>10. CASE Persist(c)
  BY <1>t, <1>10 DEF Persist, OutputTypeOK
<1>11. CASE Unwind(c)
  BY <1>t, <1>11 DEF Unwind, OutputTypeOK
<1>12. CASE ListEntries(c)
  BY <1>t, <1>12 DEF ListEntries, OutputTypeOK
<1>13. CASE NextEntry(c)
  BY <1>t, <1>13 DEF NextEntry, OutputTypeOK
<1>14. CASE OpenOutput(c)
  BY <1>t, <1>14 DEF OpenOutput, OutputTypeOK
<1>15. CASE LookAgain(c)
  BY <1>t, <1>15 DEF LookAgain, OutputTypeOK
<1>16. CASE CopyEntry(c)
  <2>1. at[c] \in Nat /\ Way(c) \in InPlace /\ Way(c) \notin Staged /\ at[c] < Len(req[c].outputs)
        /\ Len(req[c].outputs) \in Nat
    BY <1>t, <1>16 DEF CopyEntry, OutputTypeOK, Requests
  <2>2. UNCHANGED <<req, kept>> /\ pc'[c] \in {"entry", "unwind"}
    BY <1>t, <1>16 DEF CopyEntry, OutputTypeOK
  <2>3. CASE at'[c] = at[c] + 1 /\ put'[c] = put[c] \cup {at[c] + 1} /\ failed' = failed
    BY <1>t, <2>1, <2>2, <2>3
  <2>4. CASE at'[c] = at[c] + 1 /\ failed'[c]
    BY <1>t, <2>1, <2>2, <2>4
  <2>5. CASE UNCHANGED <<at, put, failed>>
    BY <1>t, <2>1, <2>2, <2>5
  <2> QED
    BY <1>t, <1>16, <2>3, <2>4, <2>5 DEF CopyEntry, OutputTypeOK
<1>17. CASE Report(c)
  BY <1>t, <1>17 DEF Report, OutputTypeOK
<1>18. CASE Press(c)
  BY <1>t, <1>18 DEF Press, OutputTypeOK
<1>19. CASE Kill(c)
  BY <1>t, <1>19 DEF Kill, OutputTypeOK
<1> QED
  BY <1>1, <1>2, <1>3, <1>4, <1>5, <1>6, <1>7, <1>8, <1>9, <1>10, <1>11, <1>12,
     <1>13, <1>14, <1>15, <1>16, <1>17, <1>18, <1>19 DEF StagedStep, InPlaceStep

LEMMA HeedStep ==
  ASSUME OutputInv, NEW c \in Commands, StagedStep(c) \/ InPlaceStep(c) \/ Press(c) \/ Kill(c)
  PROVE  Heeded(c)'
<1> USE DEF At, Goto, Fail, Succeed, Pass, diskVars, workVars, Heeded, OnItsWay,
   Accounted, Staged, InPlace, StagedPCs, InPlacePCs, Looking, Way
<1>t. OutputTypeOK /\ OnItsWay(c) /\ Accounted(c) /\ Heeded(c) /\ Unnamed(c) /\ Rewarded(c)
  BY DEF OutputInv
<1>1. CASE Install(c)
  BY <1>t, <1>1 DEF Install, OutputTypeOK
<1>2. CASE Reset(c)
  BY <1>t, <1>2 DEF Reset, OutputTypeOK
<1>3. CASE Prepare(c)
  BY <1>t, <1>3 DEF Prepare, OutputTypeOK
<1>4. CASE Look(c)
  BY <1>t, <1>4 DEF Look, OutputTypeOK
<1>5. CASE Pend(c)
  BY <1>t, <1>5 DEF Pend, OutputTypeOK
<1>6. CASE Work(c)
  BY <1>t, <1>6 DEF Work, OutputTypeOK
<1>7. CASE Finish(c)
  BY <1>t, <1>7 DEF Finish, OutputTypeOK
<1>8. CASE Wrap(c)
  BY <1>t, <1>8 DEF Wrap, OutputTypeOK
<1>9. CASE Commit(c)
  BY <1>t, <1>9 DEF Commit, OutputTypeOK
<1>10. CASE Persist(c)
  BY <1>t, <1>10 DEF Persist, OutputTypeOK
<1>11. CASE Unwind(c)
  BY <1>t, <1>11 DEF Unwind, OutputTypeOK
<1>12. CASE ListEntries(c)
  BY <1>t, <1>12 DEF ListEntries, OutputTypeOK
<1>13. CASE NextEntry(c)
  BY <1>t, <1>13 DEF NextEntry, OutputTypeOK
<1>14. CASE OpenOutput(c)
  BY <1>t, <1>14 DEF OpenOutput, OutputTypeOK
<1>15. CASE LookAgain(c)
  BY <1>t, <1>15 DEF LookAgain, OutputTypeOK
<1>16. CASE CopyEntry(c)
  BY <1>t, <1>16 DEF CopyEntry, OutputTypeOK
<1>17. CASE Report(c)
  BY <1>t, <1>17 DEF Report, OutputTypeOK
<1>18. CASE Press(c)
  BY <1>t, <1>18 DEF Press, OutputTypeOK
<1>19. CASE Kill(c)
  BY <1>t, <1>19 DEF Kill, OutputTypeOK
<1> QED
  BY <1>1, <1>2, <1>3, <1>4, <1>5, <1>6, <1>7, <1>8, <1>9, <1>10, <1>11, <1>12,
     <1>13, <1>14, <1>15, <1>16, <1>17, <1>18, <1>19 DEF StagedStep, InPlaceStep

\* A staged command's file gets a name by its own persist only.
LEMMA NewPaths ==
  ASSUME OutputInv, [OutputNext]_outputVars, NEW c \in Commands, Way(c) \in Staged, NEW n \in Paths,
         link[n] # Mine(c), link'[n] = Mine(c)
  PROVE  exit'[c] = "0"
<1>t. OutputTypeOK /\ \A d \in Commands : OnItsWay(d)
  BY DEF OutputInv
<1>1. ASSUME NEW d \in Commands, Persist(d) PROVE exit'[c] = "0"
  <2>1. Mine(d) = Mine(c)
    BY <1>1, <1>t DEF Persist, OutputTypeOK
  <2>2. d = c
    BY <2>1 DEF Mine
  <2> QED
    BY <1>1, <1>t, <2>2 DEF Persist, Succeed, Fail, Goto, OutputTypeOK
<1>2. ASSUME NEW d \in Commands, OpenOutput(d) PROVE FALSE
  <2>1. d # c
    BY <1>2, <1>t DEF OpenOutput, At, OnItsWay, InPlacePCs, Staged, InPlace, Way
  <2>2. <<d, at[d] + 1>> # Mine(c)
    BY <2>1 DEF Mine
  <2>3. PICK f : /\ f = IF link[Output(d)] = Vacant THEN <<d, at[d] + 1>> ELSE link[Output(d)]
                 /\ link' = link \/ link' = [link EXCEPT ![Output(d)] = f]
    BY <1>2 DEF OpenOutput
  <2>4. f = Mine(c) /\ n = Output(d)
    BY <2>3, <1>t DEF OutputTypeOK
  <2> QED
    BY <2>2, <2>3, <2>4
<1>3. ASSUME NEW m \in Paths, Change(m) PROVE FALSE
  <2>1. Mine(c) # Vacant /\ Mine(c)[1] # Outside
    BY CliAssumption DEF Mine, Files
  <2>2. <<Outside, outs + 1>> # Mine(c)
    BY <2>1
  <2> QED
    BY <1>3, <1>t, <2>1, <2>2 DEF Change, OutputTypeOK
<1>4. ASSUME link' = link PROVE FALSE
  BY <1>4
<1>5. ASSUME NEW d \in Commands,
             \/ StagedStep(d) /\ ~Persist(d)
             \/ InPlaceStep(d) /\ ~OpenOutput(d)
             \/ Press(d) \/ Kill(d)
      PROVE link' = link
  BY <1>5 DEF StagedStep, InPlaceStep, diskVars, Install, Reset, Prepare, Look,
     Pend, Work, Finish, Wrap, Commit, Unwind, ListEntries, NextEntry, LookAgain,
     CopyEntry, Report, Press, Kill
<1> QED
  BY <1>1, <1>2, <1>3, <1>4, <1>5 DEF OutputNext, outputVars

\* A status 0 comes from Look, Persist or Report.
LEMMA RewardStep ==
  ASSUME OutputInv, NEW c \in Commands, StagedStep(c) \/ InPlaceStep(c) \/ Press(c) \/ Kill(c)
  PROVE  Rewarded(c)'
<1> USE DEF At, Goto, Fail, Succeed, diskVars, workVars
<1>t. OutputTypeOK /\ OnItsWay(c) /\ Accounted(c) /\ Rewarded(c)
  BY DEF OutputInv
<1>n. pc[c] # "ended" /\ exit[c] = "running"
  BY <1>t DEF OnItsWay, StagedStep, InPlaceStep, Press, Kill, Install, Reset,
     Prepare, Look, Pend, Work, Finish, Wrap, Commit, Persist, Unwind, ListEntries,
     NextEntry, OpenOutput, LookAgain, CopyEntry, Report
<1>o. Way(c) \in Staged => Len(req[c].outputs) = 1
  BY <1>t, CliAssumption DEF OnItsWay, Way
<1>e. {1} = 1..1
  OBVIOUS
<1>1. ASSUME Look(c) \/ Persist(c), exit'[c] = "0" PROVE Rewarded(c)'
  <2>1. Len(req[c].outputs) = 1 /\ put[c] = {} /\ kept[c] = {} /\ req' = req
    BY <1>t, <1>n, <1>o, <1>1 DEF OnItsWay, StagedPCs, Look, Persist, Accounted
  <2>2. put'[c] \cup kept'[c] = {1}
    BY <1>t, <1>n, <1>1, <2>1 DEF Look, Persist, OutputTypeOK
  <2> QED
    BY <1>e, <2>1, <2>2 DEF Rewarded
<1>2. ASSUME Report(c), exit'[c] = "0" PROVE Rewarded(c)'
  <2>1. put[c] \cup kept[c] = 1..Len(req[c].outputs)
    BY <1>t, <1>n, <1>2 DEF OnItsWay, InPlacePCs, InPlace, Report, Accounted, OutputTypeOK
  <2> QED
    BY <1>2, <2>1 DEF Report, Rewarded
<1>3. ASSUME exit'[c] = "0" PROVE Look(c) \/ Persist(c) \/ Report(c)
  BY <1>t, <1>n, <1>3 DEF StagedStep, InPlaceStep, Press, Kill, OutputTypeOK, Install,
     Reset, Prepare, Pend, Work, Finish, Wrap, Commit, Unwind, ListEntries, NextEntry,
     OpenOutput, LookAgain, CopyEntry
<1> QED
  BY <1>1, <1>2, <1>3 DEF Rewarded

LEMMA TempsStep ==
  ASSUME OutputInv, NEW c \in Commands, StagedStep(c) \/ InPlaceStep(c) \/ Press(c) \/ Kill(c)
  PROVE  exit'[c] \in {"0", "1", "130"} => temps'[c] = {}
<1> USE DEF At, Goto, Fail, Succeed, Pass, diskVars, workVars, OnItsWay, Unnamed
<1>t. OutputTypeOK /\ OnItsWay(c) /\ Unnamed(c)
  BY DEF OutputInv
<1>1. CASE Install(c)
  BY <1>t, <1>1 DEF Install, OutputTypeOK
<1>2. CASE Reset(c)
  BY <1>t, <1>2 DEF Reset, OutputTypeOK
<1>3. CASE Prepare(c)
  BY <1>t, <1>3 DEF Prepare, OutputTypeOK
<1>4. CASE Look(c)
  BY <1>t, <1>4 DEF Look, OutputTypeOK
<1>5. CASE Pend(c)
  BY <1>t, <1>5 DEF Pend, OutputTypeOK
<1>6. CASE Work(c)
  BY <1>t, <1>6 DEF Work, OutputTypeOK
<1>7. CASE Finish(c)
  BY <1>t, <1>7 DEF Finish, OutputTypeOK
<1>8. CASE Wrap(c)
  BY <1>t, <1>8 DEF Wrap, OutputTypeOK
<1>9. CASE Commit(c)
  BY <1>t, <1>9 DEF Commit, OutputTypeOK
<1>10. CASE Persist(c)
  BY <1>t, <1>10 DEF Persist, OutputTypeOK
<1>11. CASE Unwind(c)
  BY <1>t, <1>11 DEF Unwind, OutputTypeOK
<1>12. CASE ListEntries(c)
  BY <1>t, <1>12 DEF ListEntries, OutputTypeOK
<1>13. CASE NextEntry(c)
  BY <1>t, <1>13 DEF NextEntry, OutputTypeOK
<1>14. CASE OpenOutput(c)
  BY <1>t, <1>14 DEF OpenOutput, OutputTypeOK
<1>15. CASE LookAgain(c)
  BY <1>t, <1>15 DEF LookAgain, OutputTypeOK
<1>16. CASE CopyEntry(c)
  BY <1>t, <1>16 DEF CopyEntry, OutputTypeOK
<1>17. CASE Report(c)
  BY <1>t, <1>17 DEF Report, OutputTypeOK
<1>18. CASE Press(c)
  BY <1>t, <1>18 DEF Press, OutputTypeOK
<1>19. CASE Kill(c)
  BY <1>t, <1>19 DEF Kill, OutputTypeOK
<1> QED
  BY <1>1, <1>2, <1>3, <1>4, <1>5, <1>6, <1>7, <1>8, <1>9, <1>10, <1>11, <1>12,
     <1>13, <1>14, <1>15, <1>16, <1>17, <1>18, <1>19 DEF StagedStep, InPlaceStep

LEMMA OutputsStep == OutputInv /\ [OutputNext]_outputVars => OutputInv'
<1> SUFFICES ASSUME OutputInv, [OutputNext]_outputVars PROVE OutputInv'
  OBVIOUS
<1>t. OutputTypeOK /\ \A d \in Commands : OnItsWay(d) /\ Accounted(d) /\ Heeded(d) /\ Unnamed(d) /\ Rewarded(d)
  BY DEF OutputInv
<1>1. ASSUME NEW c \in Commands PROVE OnItsWay(c)' /\ Accounted(c)' /\ Heeded(c)' /\ Rewarded(c)'
  <2>1. CASE StagedStep(c) \/ InPlaceStep(c) \/ Press(c) \/ Kill(c)
    BY <2>1, WayStep, AccountStep, HeedStep, RewardStep
  <2>2. CASE Own(c)' = Own(c)
    BY <1>t, <2>2 DEF Own, OnItsWay, Accounted, Heeded, Rewarded, Way
  <2>3. CASE UNCHANGED outputVars \/ \E n \in Paths : Change(n)
    BY <2>2, <2>3 DEF Own, outputVars, Change, workVars
  <2> QED
    BY <1>t, <2>1, <2>2, <2>3, OthersKeepOut DEF OutputNext
<1>2. ASSUME NEW c \in Commands PROVE Unnamed(c)'
  <2>1. req' = req
    BY DEF OutputNext, outputVars, StagedStep, InPlaceStep, Press, Kill, Change, Install, Reset,
       Prepare, Look, Pend, Work, Finish, Wrap, Commit, Persist, Unwind, ListEntries,
       NextEntry, OpenOutput, LookAgain, CopyEntry, Report
  <2>2. exit'[c] \in {"0", "1", "130"} => temps'[c] = {}
    <3>1. CASE StagedStep(c) \/ InPlaceStep(c) \/ Press(c) \/ Kill(c)
      BY <3>1, TempsStep
    <3>2. CASE Own(c)' = Own(c)
      BY <1>t, <3>2 DEF Own, Unnamed
    <3>3. CASE UNCHANGED outputVars \/ \E n \in Paths : Change(n)
      BY <3>2, <3>3 DEF Own, outputVars, Change, workVars
    <3> QED
      BY <1>t, <3>1, <3>2, <3>3, OthersKeepOut DEF OutputNext
  <2>3. exit[c] = "0" => exit'[c] = "0"
    <3>1. CASE StagedStep(c) \/ InPlaceStep(c) \/ Press(c) \/ Kill(c)
      BY <1>t, <3>1 DEF OnItsWay, At, StagedStep, InPlaceStep, Press, Kill, Install,
         Reset, Prepare, Look, Pend, Work, Finish, Wrap, Commit, Persist, Unwind,
         ListEntries, NextEntry, OpenOutput, LookAgain, CopyEntry, Report
    <3>2. CASE Own(c)' = Own(c)
      BY <3>2 DEF Own
    <3>3. CASE UNCHANGED outputVars \/ \E n \in Paths : Change(n)
      BY <3>2, <3>3 DEF Own, outputVars, Change, workVars
    <3> QED
      BY <1>t, <3>1, <3>2, <3>3, OthersKeepOut DEF OutputNext
  <2>4. ASSUME Way(c) \in Staged, exit'[c] # "0", NEW n \in Paths PROVE link'[n] # Mine(c)
    BY <1>t, <2>3, <2>4, NewPaths DEF Unnamed
  <2> QED
    BY <2>1, <2>2, <2>4 DEF Unnamed, Way, Mine
<1> QED
  BY <1>1, <1>2, TypeStep DEF OutputInv

\* The variables range over the values the module names.
THEOREM CliTyping == OutputSpec => []OutputTypeOK
<1>1. OutputInv => OutputTypeOK
  BY DEF OutputInv
<1> QED
  BY <1>1, OutputsInit, OutputsStep, PTL DEF OutputSpec

\* A staged command that fails, is cancelled or dies has published nothing.
THEOREM CliFailuresLeaveNothing == OutputSpec => []FailureLeavesNothing
<1>1. OutputInv => FailureLeavesNothing
  BY DEF OutputInv, FailureLeavesNothing, Unnamed
<1> QED
  BY <1>1, OutputsInit, OutputsStep, PTL DEF OutputSpec

\* Status 0 is true of every output that was asked for.
THEOREM SuccessesAreTrue == OutputSpec => []SuccessIsTrue
<1>1. OutputInv => SuccessIsTrue
  BY DEF OutputInv, SuccessIsTrue, Accounted, Rewarded
<1> QED
  BY <1>1, OutputsInit, OutputsStep, PTL DEF OutputSpec

\* A Ctrl+C before the last look at the flag is heeded.
THEOREM CancelIsHeeded == OutputSpec => []CancelHeeded
<1>1. OutputInv => CancelHeeded
  BY DEF OutputInv, CancelHeeded, Heeded
<1> QED
  BY <1>1, OutputsInit, OutputsStep, PTL DEF OutputSpec

=============================================================================
