---------------------------- MODULE InitrdProofs ----------------------------
(***************************************************************************)
(* The files from the directory to the screen, for directories, images,    *)
(* names and chunks of every size.  The image is what mkfs.py puts         *)
(* together file by file and cat shows what it reads chunk by chunk, so    *)
(* both are found by induction; a set takes the place of the predicate.    *)
(***************************************************************************)
EXTENDS Initrd, SequenceTheorems, WellFoundedInduction, TLAPS

Text == Seq(Byte)
File == [name : Text, data : Text, isfile : BOOLEAN]

(* The sizes are positive numbers.                                          *)
LEMMA Sizes ==
  /\ NAME \in Nat /\ NAME > 0 /\ MAX_FILES \in Nat /\ MAX_FILES > 0
  /\ CHUNK \in Nat /\ CHUNK > 0 /\ SHOWN \in Nat /\ SHOWN > 0
  /\ W \in Nat /\ W > 0 /\ HEADER \in Nat /\ FILE_HEADER \in Nat
BY SizesAssumption

-----------------------------------------------------------------------------
(* Induction over the numbers.                                              *)
LEMMA NatIsInductive ==
  ASSUME NEW T, 0 \in T, \A n \in Nat : n \in T => n + 1 \in T
  PROVE  Nat \subseteq T
<1> DEFINE Missing == Nat \ T
           Less == {p \in Nat \X Nat : p[1] < p[2]}
<1> SUFFICES ASSUME Missing # {} PROVE FALSE
  OBVIOUS
<1>1. IsWellFoundedOn(Less, Nat)
  BY NatLessThanWellFounded DEF OpToRel
<1>2. PICK x \in Missing : \A y \in Missing : <<y, x>> \notin Less
  <2> HIDE DEF Missing, Less
  <2>1. Missing \subseteq Nat
    BY DEF Missing
  <2> QED  BY <1>1, <2>1, WFMin
<1>3. x - 1 \in Missing
  BY DEF Missing
<1>4. <<x - 1, x>> \in Less
  BY <1>3
<1> QED  BY <1>2, <1>3, <1>4

(* The least of some numbers, and of two.                                   *)
LEMMA MinOfNats ==
  ASSUME NEW I, I \subseteq Nat, I # {}
  PROVE  Min(I) \in I /\ \A j \in I : Min(I) <= j
<1> DEFINE Less == {p \in Nat \X Nat : p[1] < p[2]}
<1>1. IsWellFoundedOn(Less, Nat)
  BY NatLessThanWellFounded DEF OpToRel
<1>2. PICK x \in I : \A y \in I : <<y, x>> \notin Less
  <2> HIDE DEF Less
  <2> QED  BY <1>1, WFMin
<1>3. \A y \in I : x <= y
  <2> SUFFICES ASSUME NEW y \in I PROVE x <= y
    OBVIOUS
  <2>1. <<y, x>> \notin Less /\ x \in Nat /\ y \in Nat
    BY <1>2
  <2> QED  BY <2>1
<1> QED  BY <1>3 DEF Min

LEMMA MinOfTwo ==
  ASSUME NEW a \in Nat, NEW b \in Nat
  PROVE  Min({a, b}) = IF a <= b THEN a ELSE b
<1>1. PICK m : m = Min({a, b})
  OBVIOUS
<1>2. m \in {a, b} /\ m <= a /\ m <= b
  BY <1>1, MinOfNats
<1> QED  BY <1>1, <1>2

LEMMA MinOfThree ==
  ASSUME NEW a \in Nat, NEW b \in Nat, NEW c \in Nat
  PROVE  /\ Min({a, b, c}) \in {a, b, c}
         /\ Min({a, b, c}) <= a /\ Min({a, b, c}) <= b /\ Min({a, b, c}) <= c
BY MinOfNats

(* The first element of a sequence that passes a test.                      *)
LEMMA Finddir ==
  ASSUME NEW name, NEW n \in Nat, num_files = n, Len(initrd_nodes) = n,
         DOMAIN initrd_nodes = 1 .. n
  PROVE  \/ /\ fs_finddir(name) = NULL
            /\ \A k \in 1 .. n : initrd_nodes[k].name # name
         \/ /\ fs_finddir(name) \in 1 .. n
            /\ initrd_nodes[fs_finddir(name)].name = name
<1> DEFINE nodes == SubSeq(initrd_nodes, 1, num_files)
           I == {k \in 1 .. Len(nodes) : nodes[k].name = name}
<1>1. Len(nodes) = n /\ \A k \in 1 .. n : nodes[k] = initrd_nodes[k]
  OBVIOUS
<1>2. fs_finddir(name) = IF I # {} THEN Min(I) ELSE 0
  BY DEF fs_finddir, SelectInSeq
<1> HIDE DEF nodes
<1>3. I # {} => Min(I) \in I
  BY <1>1, MinOfNats
<1> QED  BY <1>1, <1>2, <1>3 DEF NULL

LEMMA StringWithoutNul ==
  ASSUME NEW bytes \in Text, \A b \in 1 .. Len(bytes) : bytes[b] # NUL
  PROVE  String(bytes) = bytes
BY DEF String, SelectInSeq

LEMMA StringType ==
  ASSUME NEW bytes \in Text
  PROVE  String(bytes) \in Text
<1> DEFINE I == {b \in 1 .. Len(bytes) : bytes[b] = NUL}
           end == IF I # {} THEN Min(I) ELSE 0
<1>1. String(bytes) = IF end = 0 THEN bytes ELSE SubSeq(bytes, 1, end - 1)
  BY DEF String, SelectInSeq
<1>2. Len(bytes) \in Nat /\ DOMAIN bytes = 1 .. Len(bytes)
  BY LenProperties DEF Text
<1>3. I # {} => Min(I) \in I
  BY <1>2, MinOfNats
<1>4. end \in 0 .. Len(bytes)
  BY <1>2, <1>3
<1> HIDE DEF end
<1>5. \A b \in 1 .. end - 1 : bytes[b] \in Byte
  BY <1>2, <1>4, ElementOfSeq DEF Text
<1>6. SubSeq(bytes, 1, end - 1) \in Text
  BY <1>4, <1>5, SubSeqProperties DEF Text
<1> QED  BY <1>1, <1>6

LEMMA Part ==
  ASSUME NEW t \in Text, NEW m \in Nat \ {0}, NEW n \in 0 .. Len(t)
  PROVE  /\ SubSeq(t, m, n) \in Text
         /\ Len(SubSeq(t, m, n)) = IF m <= n THEN n - m + 1 ELSE 0
         /\ \A j \in 1 .. n - m + 1 : SubSeq(t, m, n)[j] = t[m + j - 1]
<1>1. Len(t) \in Nat
  BY LenProperties DEF Text
<1>2. \A j \in m .. n : t[j] \in Byte
  BY <1>1, ElementOfSeq DEF Text
<1> QED  BY <1>1, <1>2, SubSeqProperties DEF Text

-----------------------------------------------------------------------------
(* A sequence of texts, put together one after the other.                   *)
Together(f, n, s) ==
  /\ f \in [1 .. n -> Text]
  /\ \A k \in 1 .. n : f[k] = IF k = 1 THEN s[k] ELSE f[k - 1] \o s[k]

LEMMA TogetherExists ==
  ASSUME NEW s \in Seq(Text)
  PROVE  \E f : Together(f, Len(s), s)
<1> DEFINE T == {n \in Nat : n <= Len(s) => \E f : Together(f, n, s)}
<1>1. Len(s) \in Nat
  BY LenProperties
<1>2. 0 \in T
  <2>1. Together(<<>>, 0, s)
    BY DEF Together
  <2> QED  BY <2>1
<1>3. ASSUME NEW n \in Nat, n \in T PROVE n + 1 \in T
  <2> SUFFICES ASSUME n + 1 <= Len(s) PROVE \E f : Together(f, n + 1, s)
    OBVIOUS
  <2>1. PICK f : Together(f, n, s)
    BY <1>1, <1>3
  <2>2. s[n + 1] \in Text
    BY <1>1, ElementOfSeq
  <2>3. PICK u : u = IF n = 0 THEN s[n + 1] ELSE f[n] \o s[n + 1]
    OBVIOUS
  <2>4. u \in Text
    <3>1. CASE n = 0
      BY <2>2, <2>3, <3>1
    <3>2. CASE n # 0
      <4>1. f[n] \in Text
        BY <2>1, <3>2 DEF Together
      <4> QED  BY <2>2, <2>3, <3>2, <4>1, ConcatProperties DEF Text
    <3> QED  BY <3>1, <3>2
  <2> DEFINE g == [k \in 1 .. n + 1 |-> IF k <= n THEN f[k] ELSE u]
  <2>5. g \in [1 .. n + 1 -> Text]
    BY <2>1, <2>4 DEF Together
  <2>6. ASSUME NEW k \in 1 .. n + 1
        PROVE  g[k] = IF k = 1 THEN s[k] ELSE g[k - 1] \o s[k]
    <3>1. CASE k \in 1 .. n
      <4>1. f[k] = IF k = 1 THEN s[k] ELSE f[k - 1] \o s[k]
        BY <2>1, <3>1 DEF Together
      <4>2. g[k] = f[k] /\ (k # 1 => g[k - 1] = f[k - 1])
        BY <3>1
      <4> QED  BY <4>1, <4>2
    <3>2. CASE k = n + 1
      <4>1. g[k] = u /\ k - 1 = n /\ (k # 1 => g[n] = f[n])
        BY <3>2
      <4> QED  BY <2>3, <3>2, <4>1
    <3> QED  BY <3>1, <3>2
  <2>7. Together(g, n + 1, s)
    BY <2>5, <2>6 DEF Together
  <2> QED  BY <2>7
<1>4. Nat \subseteq T
  <2> HIDE DEF T
  <2> QED  BY <1>2, <1>3, NatIsInductive
<1> QED  BY <1>1, <1>4

LEMMA FlattenIsLast ==
  ASSUME NEW s \in Seq(Text), s # <<>>, NEW f, Together(f, Len(s), s)
  PROVE  FlattenSeq(s) = f[Len(s)]
<1> DEFINE next(h) == [k \in 1 .. Len(s) |-> IF k = 1 THEN s[k] ELSE h[k - 1] \o s[k]]
           flatten == CHOOSE h : h = next(h)
<1>1. Len(s) \in Nat \ {0}
  BY EmptySeq
<1>2. FlattenSeq(s) = flatten[Len(s)]
  BY <1>1 DEF FlattenSeq
<1>3. f = next(f)
  <2>1. f = [k \in 1 .. Len(s) |-> f[k]]
    BY DEF Together
  <2>2. \A k \in 1 .. Len(s) : f[k] = next(f)[k]
    BY DEF Together
  <2>3. next(f) = [k \in 1 .. Len(s) |-> next(f)[k]]
    OBVIOUS
  <2> HIDE DEF next
  <2> QED  BY <2>1, <2>2, <2>3
<1>4. flatten = next(flatten)
  <2> HIDE DEF next
  <2> QED  BY <1>3
<1> HIDE DEF flatten
<1> DEFINE T == {n \in Nat : n \in 1 .. Len(s) => flatten[n] = f[n]}
<1>5. 0 \in T
  OBVIOUS
<1>6. ASSUME NEW n \in Nat, n \in T PROVE n + 1 \in T
  <2> SUFFICES ASSUME n + 1 <= Len(s) PROVE flatten[n + 1] = f[n + 1]
    BY <1>1
  <2>1. n + 1 \in 1 .. Len(s) /\ n + 1 - 1 = n
    BY <1>1
  <2>2. next(flatten)[n + 1] = IF n + 1 = 1 THEN s[n + 1] ELSE flatten[n] \o s[n + 1]
    BY <2>1
  <2>3. flatten[n + 1] = IF n + 1 = 1 THEN s[n + 1] ELSE flatten[n] \o s[n + 1]
    <3> HIDE DEF next
    <3> QED  BY <1>4, <2>2
  <2>4. f[n + 1] = IF n + 1 = 1 THEN s[n + 1] ELSE f[n] \o s[n + 1]
    <3>1. PICK m \in 1 .. Len(s) : m = n + 1
      BY <2>1
    <3>2. f[m] = IF m = 1 THEN s[m] ELSE f[m - 1] \o s[m]
      BY DEF Together
    <3>3. m - 1 = n
      BY <3>1
    <3> QED  BY <3>1, <3>2, <3>3
  <2>5. n # 0 => flatten[n] = f[n]
    BY <1>6, <2>1
  <2> QED  BY <2>3, <2>4, <2>5
<1>7. Nat \subseteq T
  <2> HIDE DEF T
  <2> QED  BY <1>5, <1>6, NatIsInductive
<1> QED  BY <1>1, <1>2, <1>7

LEMMA FlattenType ==
  ASSUME NEW s \in Seq(Text)
  PROVE  FlattenSeq(s) \in Text
<1>1. CASE s = <<>>
  BY <1>1, EmptySeq DEF FlattenSeq, Text
<1>2. CASE s # <<>>
  <2>1. PICK f : Together(f, Len(s), s)
    BY TogetherExists
  <2>2. Len(s) \in Nat \ {0}
    BY <1>2, EmptySeq
  <2>3. f[Len(s)] \in Text
    BY <2>1, <2>2 DEF Together
  <2> QED  BY <1>2, <2>1, <2>3, FlattenIsLast
<1> QED  BY <1>1, <1>2

(* One more text comes behind the others.                                   *)
LEMMA FlattenAppend ==
  ASSUME NEW s \in Seq(Text), NEW e \in Text
  PROVE  FlattenSeq(Append(s, e)) = FlattenSeq(s) \o e
<1> DEFINE t == Append(s, e)
           n == Len(s)
<1>1. /\ t \in Seq(Text) /\ t # <<>> /\ Len(t) = n + 1 /\ n \in Nat
      /\ t[n + 1] = e /\ \A k \in 1 .. n : t[k] = s[k]
  BY AppendProperties, LenProperties
<1> HIDE DEF t
<1>2. PICK f : Together(f, n + 1, t)
  BY <1>1, TogetherExists
<1>3. FlattenSeq(t) = f[n + 1]
  BY <1>1, <1>2, FlattenIsLast
<1>4. f[n + 1] = IF n = 0 THEN e ELSE f[n] \o e
  <2>1. n + 1 \in 1 .. n + 1
    BY <1>1
  <2>2. PICK m \in 1 .. n + 1 : m = n + 1
    BY <2>1
  <2>3. f[m] = IF m = 1 THEN t[m] ELSE f[m - 1] \o t[m]
    BY <1>2 DEF Together
  <2>4. m - 1 = n /\ (m = 1 <=> n = 0)
    BY <1>1, <2>2
  <2> QED  BY <1>1, <2>2, <2>3, <2>4
<1>5. CASE s = <<>>
  <2>1. n = 0 /\ FlattenSeq(s) = <<>>
    BY <1>5, EmptySeq DEF FlattenSeq
  <2>2. <<>> \o e = e
    BY ConcatEmptySeq DEF Text
  <2> QED  BY <1>3, <1>4, <2>1, <2>2 DEF t
<1>6. CASE s # <<>>
  <2>1. n # 0
    BY <1>6, EmptySeq
  <2> DEFINE g == [k \in 1 .. n |-> f[k]]
  <2>2. g \in [1 .. n -> Text]
    BY <1>1, <1>2 DEF Together
  <2>3. ASSUME NEW k \in 1 .. n
        PROVE  g[k] = IF k = 1 THEN s[k] ELSE g[k - 1] \o s[k]
    <3>1. k \in 1 .. n + 1 /\ t[k] = s[k] /\ (k # 1 => k - 1 \in 1 .. n)
      BY <1>1
    <3>2. f[k] = IF k = 1 THEN t[k] ELSE f[k - 1] \o t[k]
      BY <1>2, <3>1 DEF Together
    <3> QED  BY <3>1, <3>2
  <2>4. Together(g, n, s)
    BY <2>2, <2>3 DEF Together
  <2>5. FlattenSeq(s) = g[n] /\ g[n] = f[n]
    BY <1>1, <1>6, <2>1, <2>4, FlattenIsLast
  <2> QED  BY <1>3, <1>4, <2>1, <2>5 DEF t
<1> QED  BY <1>5, <1>6

-----------------------------------------------------------------------------
(* The image.  The files are entries of the directory.                      *)
EntriesOf(dir) == {dir[k] : k \in DOMAIN dir}

Kept(f, n, dir) ==
  /\ f \in [0 .. n -> Seq(EntriesOf(dir))]
  /\ f[0] = <<>>
  /\ \A k \in 1 .. n : f[k] = IF dir[k].isfile THEN Append(f[k - 1], dir[k]) ELSE f[k - 1]

LEMMA KeptExists ==
  ASSUME NEW dir, NEW n \in Nat, DOMAIN dir = 1 .. n
  PROVE  \E f : Kept(f, n, dir)
<1> DEFINE T == {k \in Nat : k <= n => \E f : Kept(f, k, dir)}
<1>1. 0 \in T
  <2>1. Kept([k \in 0 .. 0 |-> <<>>], 0, dir)
    BY EmptySeq DEF Kept
  <2> QED  BY <2>1
<1>2. ASSUME NEW k \in Nat, k \in T PROVE k + 1 \in T
  <2> SUFFICES ASSUME k + 1 <= n PROVE \E f : Kept(f, k + 1, dir)
    OBVIOUS
  <2>1. PICK f : Kept(f, k, dir)
    BY <1>2
  <2>2. f[k] \in Seq(EntriesOf(dir)) /\ dir[k + 1] \in EntriesOf(dir)
    <3>1. k + 1 \in DOMAIN dir
      OBVIOUS
    <3>2. dir[k + 1] \in EntriesOf(dir)
      BY <3>1 DEF EntriesOf
    <3> QED  BY <2>1, <3>2 DEF Kept
  <2>3. PICK u : u = IF dir[k + 1].isfile THEN Append(f[k], dir[k + 1]) ELSE f[k]
    OBVIOUS
  <2>4. u \in Seq(EntriesOf(dir))
    BY <2>2, <2>3, AppendProperties
  <2> DEFINE g == [j \in 0 .. k + 1 |-> IF j <= k THEN f[j] ELSE u]
  <2>5. g \in [0 .. k + 1 -> Seq(EntriesOf(dir))] /\ g[0] = <<>>
    BY <2>1, <2>4 DEF Kept
  <2>6. ASSUME NEW j \in 1 .. k + 1
        PROVE  g[j] = IF dir[j].isfile THEN Append(g[j - 1], dir[j]) ELSE g[j - 1]
    <3>1. CASE j \in 1 .. k
      BY <2>1, <3>1 DEF Kept
    <3>2. CASE j = k + 1
      BY <2>3, <3>2
    <3> QED  BY <3>1, <3>2
  <2>7. Kept(g, k + 1, dir)
    BY <2>5, <2>6 DEF Kept
  <2> QED  BY <2>7
<1>3. Nat \subseteq T
  <2> HIDE DEF T
  <2> QED  BY <1>1, <1>2, NatIsInductive
<1> QED  BY <1>3

LEMMA FilesAreEntries ==
  ASSUME NEW dir, NEW n \in Nat, DOMAIN dir = 1 .. n, Len(dir) = n
  PROVE  FilesOf(dir) \in Seq(EntriesOf(dir))
<1>1. PICK f : Kept(f, n, dir)
  BY KeptExists
<1> DEFINE next(h) == [k \in 0 .. n |->
                         IF k = 0 THEN <<>>
                         ELSE IF dir[k].isfile THEN Append(h[k - 1], dir[k])
                         ELSE h[k - 1]]
           kept == CHOOSE h : h = next(h)
<1>2. FilesOf(dir) = kept[n]
  BY DEF FilesOf
<1>3. f = next(f)
  <2>1. f = [k \in 0 .. n |-> f[k]]
    BY <1>1 DEF Kept
  <2>2. ASSUME NEW k \in 0 .. n PROVE f[k] = next(f)[k]
    <3>1. CASE k = 0
      BY <1>1, <3>1 DEF Kept
    <3>2. CASE k \in 1 .. n
      BY <1>1, <3>2 DEF Kept
    <3> QED  BY <3>1, <3>2
  <2>3. next(f) = [k \in 0 .. n |-> next(f)[k]]
    OBVIOUS
  <2> HIDE DEF next
  <2> QED  BY <2>1, <2>2, <2>3
<1>4. kept = next(kept)
  <2> HIDE DEF next
  <2> QED  BY <1>3
<1> HIDE DEF kept
<1> DEFINE T == {k \in Nat : k <= n => kept[k] \in Seq(EntriesOf(dir))}
<1>5. 0 \in T
  BY <1>4, EmptySeq
<1>6. ASSUME NEW k \in Nat, k \in T PROVE k + 1 \in T
  <2> SUFFICES ASSUME k + 1 <= n PROVE kept[k + 1] \in Seq(EntriesOf(dir))
    OBVIOUS
  <2>1. kept[k] \in Seq(EntriesOf(dir)) /\ dir[k + 1] \in EntriesOf(dir)
    <3>1. k <= n
      OBVIOUS
    <3>2. kept[k] \in Seq(EntriesOf(dir))
      BY <1>6, <3>1
    <3>3. k + 1 \in DOMAIN dir
      OBVIOUS
    <3>4. dir[k + 1] \in EntriesOf(dir)
      BY <3>3 DEF EntriesOf
    <3> QED  BY <3>2, <3>4
  <2>2. kept[k + 1] = IF dir[k + 1].isfile THEN Append(kept[k], dir[k + 1]) ELSE kept[k]
    <3>1. k + 1 \in 0 .. n /\ k + 1 # 0 /\ k + 1 - 1 = k
      OBVIOUS
    <3>2. next(kept)[k + 1] =
            IF dir[k + 1].isfile THEN Append(kept[k], dir[k + 1]) ELSE kept[k]
      BY <3>1
    <3> HIDE DEF next
    <3> QED  BY <1>4, <3>2
  <2> QED  BY <2>1, <2>2, AppendProperties
<1>7. Nat \subseteq T
  <2> HIDE DEF T
  <2> QED  BY <1>5, <1>6, NatIsInductive
<1> QED  BY <1>2, <1>7

LEMMA FilesType ==
  ASSUME rootfs \in Rootfs
  PROVE  /\ Files \in Seq(File) /\ Files \in Seq(EntriesOf(rootfs))
         /\ Len(Files) \in Nat /\ DOMAIN Files = 1 .. Len(Files)
         /\ \A k \in 1 .. Len(Files) :
              /\ Files[k].name \in Text /\ Files[k].data \in Text
              /\ Len(Files[k].data) \in Nat
<1>1. rootfs \in Seq(File)
  BY InitrdAssumption DEF File, Text
<1>2. PICK n \in Nat : DOMAIN rootfs = 1 .. n /\ Len(rootfs) = n
  BY <1>1, LenProperties
<1>3. Files \in Seq(EntriesOf(rootfs))
  BY <1>2, FilesAreEntries DEF Files
<1>4. EntriesOf(rootfs) \subseteq File
  BY <1>1, <1>2, ElementOfSeq DEF EntriesOf
<1>5. Files \in Seq(File)
  BY <1>3, <1>4, SeqMonotonic
<1>6. Len(Files) \in Nat /\ DOMAIN Files = 1 .. Len(Files)
  BY <1>3, LenProperties
<1>7. ASSUME NEW k \in 1 .. Len(Files)
      PROVE  /\ Files[k].name \in Text /\ Files[k].data \in Text
             /\ Len(Files[k].data) \in Nat
  <2>1. Files[k] \in File
    BY <1>3, <1>4, ElementOfSeq
  <2>2. Files[k].name \in Text /\ Files[k].data \in Text
    BY <2>1 DEF File
  <2> QED  BY <2>2, LenProperties DEF Text
<1> QED  BY <1>3, <1>5, <1>6, <1>7

(* The data of the files lie one behind the other.                          *)
LEMMA DataType ==
  ASSUME rootfs \in Rootfs, NEW k \in 1 .. Len(Files) + 1
  PROVE  DataBefore(k) \in Text /\ Len(DataBefore(k)) \in Nat
<1> DEFINE s == [l \in 1 .. k - 1 |-> Files[l].data]
<1>1. s \in Seq(Text)
  BY FilesType
<1>2. DataBefore(k) = FlattenSeq(s)
  BY DEF DataBefore
<1> HIDE DEF s
<1>3. DataBefore(k) \in Text
  BY <1>1, <1>2, FlattenType
<1> QED  BY <1>3, LenProperties DEF Text

LEMMA DataStep ==
  ASSUME rootfs \in Rootfs, NEW k \in 1 .. Len(Files)
  PROVE  DataBefore(k + 1) = DataBefore(k) \o Files[k].data
<1> DEFINE s == [l \in 1 .. k - 1 |-> Files[l].data]
           t == [l \in 1 .. k |-> Files[l].data]
<1>1. s \in Seq(Text) /\ t \in Seq(Text) /\ Len(s) = k - 1 /\ Len(t) = k
      /\ Files[k].data \in Text
  BY FilesType
<1>2. DataBefore(k) = FlattenSeq(s)
  BY DEF DataBefore
<1>3. DataBefore(k + 1) = FlattenSeq(t)
  <2>1. k + 1 - 1 = k
    BY FilesType
  <2> QED  BY <2>1 DEF DataBefore
<1>4. t = Append(s, Files[k].data)
  <2>1. \A l \in 1 .. k : t[l] = IF l = k THEN Files[k].data ELSE s[l]
    OBVIOUS
  <2> HIDE DEF s, t
  <2> DEFINE a == Append(s, Files[k].data)
  <2>2. /\ a \in Seq(Text) /\ Len(a) = k
        /\ \A l \in 1 .. k : a[l] = IF l = k THEN Files[k].data ELSE s[l]
    <3>1. /\ a \in Seq(Text) /\ Len(a) = Len(s) + 1
          /\ \A l \in 1 .. Len(s) : a[l] = s[l]
          /\ a[Len(s) + 1] = Files[k].data
      BY <1>1, AppendProperties
    <3>2. Len(s) = k - 1 /\ k \in Nat
      BY <1>1, FilesType
    <3> HIDE DEF a
    <3> QED  BY <3>1, <3>2
  <2> HIDE DEF a
  <2>3. \A l \in 1 .. Len(t) : t[l] = a[l]
    BY <1>1, <2>1, <2>2
  <2>4. t = a
    BY <1>1, <2>2, <2>3, SeqEqual
  <2> QED  BY <2>4 DEF a
<1> HIDE DEF s, t
<1> QED  BY <1>1, <1>2, <1>3, <1>4, FlattenAppend

Inside(k, n) ==
  /\ Len(DataBefore(k)) + Len(Files[k].data) <= Len(DataBefore(n))
  /\ \A j \in 1 .. Len(Files[k].data) :
       DataBefore(n)[Len(DataBefore(k)) + j] = Files[k].data[j]

LEMMA DataInside ==
  ASSUME rootfs \in Rootfs, NEW k \in 1 .. Len(Files)
  PROVE  Inside(k, Len(Files) + 1)
<1> DEFINE T == {d \in Nat : k + d <= Len(Files) => Inside(k, k + 1 + d)}
<1>0. Len(Files) \in Nat /\ k \in Nat /\ Files[k].data \in Text
  BY FilesType
<1>1. 0 \in T
  <2>1. DataBefore(k + 1) = DataBefore(k) \o Files[k].data
    BY DataStep
  <2>2. DataBefore(k) \in Text /\ Len(DataBefore(k)) \in Nat /\ Len(Files[k].data) \in Nat
    BY DataType, FilesType
  <2>3. PICK a \in Text : a = DataBefore(k)
    BY <2>2
  <2>4. PICK b \in Text : b = Files[k].data
    BY <1>0
  <2>5. /\ Len(a \o b) = Len(a) + Len(b)
        /\ \A j \in 1 .. Len(a) + Len(b) : (a \o b)[j] = IF j <= Len(a) THEN a[j] ELSE b[j - Len(a)]
    BY ConcatProperties DEF Text
  <2>6. \A j \in 1 .. Len(b) : (a \o b)[Len(a) + j] = b[j]
    BY <2>2, <2>3, <2>4, <2>5
  <2>7. k + 1 + 0 = k + 1
    BY <1>0
  <2> QED  BY <2>1, <2>2, <2>3, <2>4, <2>5, <2>6, <2>7 DEF Inside
<1>2. ASSUME NEW d \in Nat, d \in T PROVE d + 1 \in T
  <2> SUFFICES ASSUME k + (d + 1) <= Len(Files) PROVE Inside(k, k + 1 + (d + 1))
    OBVIOUS
  <2>1. PICK m \in 1 .. Len(Files) : m = k + 1 + d
    BY <1>0
  <2>2. Inside(k, m)
    BY <1>0, <1>2, <2>1
  <2>3. DataBefore(m + 1) = DataBefore(m) \o Files[m].data
    BY DataStep
  <2>4. /\ DataBefore(m) \in Text /\ Len(DataBefore(m)) \in Nat
        /\ Files[m].data \in Text /\ Len(Files[m].data) \in Nat
        /\ Len(DataBefore(k)) \in Nat /\ Len(Files[k].data) \in Nat
    BY DataType, FilesType
  <2>5. PICK a \in Text : a = DataBefore(m)
    BY <2>4
  <2>6. PICK b \in Text : b = Files[m].data
    BY <2>4
  <2>7. /\ Len(a \o b) = Len(a) + Len(b)
        /\ \A j \in 1 .. Len(a) + Len(b) : (a \o b)[j] = IF j <= Len(a) THEN a[j] ELSE b[j - Len(a)]
    BY ConcatProperties DEF Text
  <2>8. \A j \in 1 .. Len(Files[k].data) :
          (a \o b)[Len(DataBefore(k)) + j] = a[Len(DataBefore(k)) + j]
    BY <2>2, <2>4, <2>5, <2>6, <2>7 DEF Inside
  <2>9. Inside(k, m + 1)
    <3>1. DataBefore(m + 1) = a \o b
      BY <2>3, <2>5, <2>6
    <3>2. Len(DataBefore(k)) + Len(Files[k].data) <= Len(a \o b)
      BY <2>2, <2>4, <2>5, <2>6, <2>7 DEF Inside
    <3>3. \A j \in 1 .. Len(Files[k].data) : (a \o b)[Len(DataBefore(k)) + j] = Files[k].data[j]
      BY <2>2, <2>5, <2>8 DEF Inside
    <3> QED  BY <3>1, <3>2, <3>3 DEF Inside
  <2>10. m + 1 = k + 1 + (d + 1)
    BY <1>0, <2>1
  <2> QED  BY <2>9, <2>10
<1>3. Nat \subseteq T
  <2> HIDE DEF T
  <2> QED  BY <1>1, <1>2, NatIsInductive
<1>4. Len(Files) - k \in T
  <2> HIDE DEF T
  <2>1. Len(Files) - k \in Nat
    BY <1>0
  <2> QED  BY <1>3, <2>1
<1>5. k + (Len(Files) - k) = Len(Files) /\ k + 1 + (Len(Files) - k) = Len(Files) + 1
  BY <1>0
<1> QED  BY <1>0, <1>4, <1>5

(* Where the node of file k says that it lies, and what is there.           *)
LEMMA ImageSize ==
  ASSUME rootfs \in Rootfs, boot \in Boots
  PROVE  /\ boot.location \in Nat /\ HEADER \in Nat /\ FILE_HEADER * Len(Files) \in Nat
         /\ boot.location + (HEADER + FILE_HEADER * Len(Files)
              + Len(DataBefore(Len(Files) + 1))) < W
<1>1. Len(Files) \in Nat /\ DOMAIN Files = 1 .. Len(Files) /\ Len(Files) + 1 - 1 = Len(Files)
  BY FilesType
<1>2. Size(rootfs) = HEADER + FILE_HEADER * Len(Files) + Len(DataBefore(Len(Files) + 1))
  BY <1>1 DEF Size, Files, DataBefore
<1>3. boot.location + Size(rootfs) < W /\ boot.location \in Nat
      /\ HEADER \in Nat /\ FILE_HEADER \in Nat
  BY InitrdAssumption, Sizes
<1>4. FILE_HEADER * Len(Files) \in Nat
  BY <1>1, <1>3
<1> QED  BY <1>2, <1>3, <1>4

Node(k) ==
  [name |-> Cut(Files[k].name), length |-> Len(Files[k].data),
   impl |-> (boot.location + FileHeader(k).offset) % W]

Place(k) == boot.location + (HEADER + FILE_HEADER * Len(Files) + Len(DataBefore(k)))

LEMMA NodePlace ==
  ASSUME rootfs \in Rootfs, boot \in Boots, NEW k \in 1 .. Len(Files)
  PROVE  /\ Place(k) \in Nat /\ Len(Files[k].data) \in Nat
         /\ Place(k) + Len(Files[k].data) < W
         /\ Node(k).impl = Place(k)
<1>1. PICK h \in Nat : h = FILE_HEADER * Len(Files)
  BY ImageSize
<1>2. PICK a \in Nat : a = Len(DataBefore(k))
  BY DataType, FilesType
<1>3. PICK z \in Nat : z = Len(DataBefore(Len(Files) + 1))
  BY DataType, FilesType
<1>4. PICK d \in Nat : d = Len(Files[k].data)
  BY FilesType
<1>5. a + d <= z
  BY <1>2, <1>3, <1>4, DataInside DEF Inside
<1>6. PICK x \in Nat : x = boot.location
  BY ImageSize
<1>7. HEADER \in Nat /\ W \in Nat \ {0} /\ x + (HEADER + h + z) < W
  BY <1>1, <1>3, <1>6, ImageSize, Sizes
<1>8. Place(k) = x + (HEADER + h + a)
  BY <1>1, <1>2, <1>6 DEF Place
<1>9. x + (HEADER + h + a) + d < W
  BY <1>5, <1>7
<1>10. (x + (HEADER + h + a)) % W = x + (HEADER + h + a)
  BY <1>7, <1>9
<1>11. Node(k).impl = (x + (HEADER + h + a)) % W
  BY <1>1, <1>2, <1>6 DEF Node, FileHeader
<1>12. PICK p \in Nat : p = x + (HEADER + h + a)
  BY <1>7
<1>13. Place(k) = p /\ p + d < W /\ Node(k).impl = p
  <2>1. Node(k).impl = p
    BY <1>10, <1>11, <1>12
  <2> QED  BY <1>8, <1>9, <1>12, <2>1
<1> QED  BY <1>4, <1>13

LEMMA FileInMemory ==
  ASSUME rootfs \in Rootfs, boot \in Boots, NEW k \in 1 .. Len(Files),
         NEW j \in 1 .. Len(Files[k].data)
  PROVE  Memory(Place(k) + j - 1) = Files[k].data[j]
<1>1. PICK h \in Nat : h = FILE_HEADER * Len(Files)
  BY ImageSize
<1>2. PICK a \in Nat : a = Len(DataBefore(k))
  BY DataType, FilesType
<1>3. PICK z \in Nat : z = Len(DataBefore(Len(Files) + 1))
  BY DataType, FilesType
<1>4. PICK x \in Nat : x = boot.location
  BY ImageSize
<1>5. /\ Len(Files[k].data) \in Nat /\ HEADER \in Nat /\ j \in Nat
      /\ a + Len(Files[k].data) <= z
      /\ DataBefore(Len(Files) + 1)[a + j] = Files[k].data[j]
  <2>1. Len(Files[k].data) \in Nat
    BY FilesType
  <2>2. HEADER \in Nat
    BY ImageSize
  <2>3. Inside(k, Len(Files) + 1)
    BY DataInside
  <2> QED  BY SMTT(30), <1>2, <1>3, <2>1, <2>2, <2>3 DEF Inside
<1>6. Place(k) = x + (HEADER + h + a)
  BY <1>1, <1>2, <1>4 DEF Place
<1>7. PICK i \in Nat : i = a + j - 1
  BY <1>5
<1>8. Place(k) + j - 1 - x - HEADER - h = i
  BY <1>5, <1>6, <1>7
<1>9. i \in 0 .. z - 1 /\ i + 1 = a + j
  BY <1>5, <1>7
<1>10. Memory(Place(k) + j - 1) =
         IF i \in 0 .. z - 1 THEN DataBefore(Len(Files) + 1)[i + 1] ELSE "other"
  <2>1. PICK address \in Nat : address = Place(k) + j - 1
    BY SMTT(30), <1>2, <1>4, <1>1, <1>5, <1>6, <1>7
  <2>2. address - x - HEADER - h = i
    <3>1. address = x + (HEADER + h + a) + j - 1
      BY <1>6, <2>1
    <3>2. x \in Nat /\ HEADER \in Nat /\ h \in Nat /\ a \in Nat /\ j \in Nat
      BY <1>1, <1>2, <1>4, <1>5
    <3> QED  BY <1>7, <3>1, <3>2
  <2>3. Memory(address) =
          IF address - x - HEADER - h \in 0 .. z - 1
            THEN DataBefore(Len(Files) + 1)[address - x - HEADER - h + 1] ELSE "other"
    BY <1>1, <1>3, <1>4 DEF Memory
  <2> QED  BY <2>1, <2>2, <2>3
<1> QED  BY <1>5, <1>9, <1>10

(* A read gives the part of the file that was asked for.                    *)
LEMMA ReadPart ==
  ASSUME rootfs \in Rootfs, boot \in Boots, NEW k \in 1 .. Len(Files),
         NEW node, node = Node(k), NEW from \in Nat, NEW size \in Nat, from + size < W
  PROVE  initrd_read(node, from, size) =
           SubSeq(Files[k].data, from + 1, Min({from + size, Len(Files[k].data)}))
<1>1. PICK t \in Text : t = Files[k].data
  BY FilesType
<1>2. PICK d \in Nat : d = Len(t)
  BY <1>1, FilesType
<1>3. PICK p \in Nat : p = Place(k) /\ p + d < W /\ node.impl = p /\ node.length = d
  BY <1>1, <1>2, NodePlace DEF Node
<1>4. W \in Nat \ {0} /\ (from + size) % W = from + size
  <2>1. W \in Nat \ {0}
    BY Sizes
  <2>2. PICK q \in Nat : q = from + size
    OBVIOUS
  <2>3. q % W = q
    BY <2>1, <2>2
  <2> QED  BY <2>1, <2>2, <2>3
<1>5. PICK m \in Nat : m = Min({from + size, d})
  BY MinOfTwo
<1>6. m = IF from + size <= d THEN from + size ELSE d
  BY <1>5, MinOfTwo
<1> DEFINE n == IF from + size > d THEN d - from ELSE size
<1>7. initrd_read(node, from, size) =
        IF from >= d THEN <<>> ELSE [j \in 1 .. n |-> Memory((p + from + j - 1) % W)]
  BY <1>3, <1>4 DEF initrd_read
<1>8. CASE from >= d
  <2>1. m < from + 1
    BY <1>6, <1>8
  <2>2. SubSeq(t, from + 1, m) = <<>>
    BY <2>1, SubSeqEmpty
  <2> QED  BY <1>1, <1>2, <1>5, <1>7, <1>8, <2>2
<1>9. CASE from < d
  <2>1. n \in Nat /\ from + n = m /\ m <= d
    BY <1>6, <1>9
  <2> HIDE DEF n
  <2>2. ASSUME NEW j \in 1 .. n PROVE Memory((p + from + j - 1) % W) = t[from + j]
    <3>1. PICK l \in 1 .. d : l = from + j
      BY <2>1
    <3>2. p + from + j - 1 = p + l - 1 /\ p + l - 1 \in Nat /\ p + l - 1 < W
      <4> l \in Nat /\ j \in Nat /\ l > 0
        BY <2>1, <3>1
      <4>1. p \in Nat /\ d \in Nat /\ p + d < W /\ W \in Nat /\ l <= d
        BY <1>2, <1>3, <1>4, <3>1
      <4> QED  BY <3>1, <4>1
    <3>3. (p + from + j - 1) % W = p + l - 1
      <4>1. PICK q \in Nat : q = p + l - 1
        BY <3>2
      <4>2. q % W = q
        BY <1>4, <3>2, <4>1
      <4> QED  BY <3>2, <4>1, <4>2
    <3>4. Memory(p + l - 1) = t[l]
      BY <1>1, <1>2, <1>3, FileInMemory
    <3> QED  BY <3>1, <3>3, <3>4
  <2>3. initrd_read(node, from, size) = [j \in 1 .. n |-> t[from + j]]
    <3>1. ~(from >= d)
      BY <1>2, <1>9
    <3>2. [j \in 1 .. n |-> Memory((p + from + j - 1) % W)] = [j \in 1 .. n |-> t[from + j]]
      BY <2>2, Zenon
    <3> QED  BY <1>7, <3>1, <3>2 DEF n
  <2>4. PICK s : s = SubSeq(t, from + 1, m)
    OBVIOUS
  <2>5. s \in Text /\ Len(s) = n /\ \A j \in 1 .. n : s[j] = t[from + j]
    <3>1. m \in 0 .. Len(t) /\ from + 1 \in Nat \ {0}
      BY <1>2, <2>1
    <3>2. /\ s \in Text
          /\ Len(s) = IF from + 1 <= m THEN m - (from + 1) + 1 ELSE 0
          /\ \A j \in 1 .. m - (from + 1) + 1 : s[j] = t[from + 1 + j - 1]
      BY <2>4, <3>1, Part
    <3>3. m - (from + 1) + 1 = n /\ (~(from + 1 <= m) => n = 0)
      BY <2>1
    <3>4. \A j \in 1 .. n : from + 1 + j - 1 = from + j
      BY <2>1
    <3> QED  BY <3>2, <3>3, <3>4
  <2>6. s = [j \in 1 .. n |-> t[from + j]]
    BY <2>5, LenProperties DEF Text
  <2> QED  BY <1>1, <1>2, <1>5, <2>3, <2>4, <2>6
<1>10. from >= d \/ from < d
  BY <1>2
<1> QED  BY <1>8, <1>9, <1>10

-----------------------------------------------------------------------------
(* The invariants.  Once a module is mounted, the nodes are those of the    *)
(* files, as many as there is room for.                                     *)
TreeInv ==
  /\ rootfs \in Rootfs /\ boot \in Boots
  /\ num_files = IF pc # "boot" /\ Mounted THEN Min({Len(Files), MAX_FILES}) ELSE 0
  /\ initrd_nodes = [i \in 1 .. num_files |-> Node(i)]
  /\ fs_root = (pc # "boot" /\ boot.module # "none")

(* What cat has read and what is left are the file it found.                *)
ScalarInv ==
  /\ dir_cache \in Text
  /\ pc \in {"boot", "mounted", "overrun", "shell", "ls", "cat"}
  /\ index \in 0 .. SHOWN + MAX_FILES
  /\ pc = "boot" => index = 0
  /\ pc = "mounted" => index <= SHOWN
  /\ pc = "ls" => index <= num_files
  /\ fsnode \in 0 .. num_files
  /\ offset \in 0 .. W - 1 /\ sz \in 0 .. W - 1
  /\ pc = "cat" => fsnode # 0 /\ offset + sz = Len(Files[fsnode].data)
  /\ buf \in Text /\ Len(buf) <= CHUNK
  /\ text \in Seq(Text)

(* What is listed so far is the listing up to the index.                    *)
ListInv ==
  /\ pc = "boot" => text = <<>> /\ command = <<"boot">>
  /\ pc = "mounted" => text = Listing(index) /\ command = <<"boot">>
  /\ pc = "ls" => text = Listing(index) /\ command = <<"ls">>
  /\ pc = "cat" => \E name \in Names : command = <<"cat", name>>
  /\ FilesAreListed

(* What is shown so far is the part of the file before the offset.          *)
ShownInv ==
  /\ pc = "cat" =>
       /\ command = <<"cat", Cut(Files[fsnode].name)>>
       /\ (\A b \in 1 .. Len(Files[fsnode].data) : Files[fsnode].data[b] # NUL) =>
            FlattenSeq(text) = SubSeq(Files[fsnode].data, 1, offset)
  /\ FilesAreShown

-----------------------------------------------------------------------------
LEMMA CutType ==
  ASSUME NEW name \in Text
  PROVE  Cut(name) \in Text /\ (Len(name) < NAME => Cut(name) = name)
<1>1. Len(name) \in Nat
  BY LenProperties DEF Text
<1>2. NAME - 1 \in Nat /\ NAME \in Nat
  BY Sizes
<1>3. PICK m \in 0 .. Len(name) :
        m = Min({Len(name), NAME - 1}) /\ (Len(name) < NAME => m = Len(name))
  <2>1. PICK n \in Nat : n = NAME - 1
    BY <1>2
  <2>2. Min({Len(name), n}) = IF Len(name) <= n THEN Len(name) ELSE n
    BY <1>1, MinOfTwo
  <2> QED  BY <1>1, <1>2, <2>1, <2>2
<1>4. Cut(name) = SubSeq(name, 1, m)
  BY <1>3 DEF Cut
<1>5. Cut(name) \in Text
  BY <1>4, Part
<1>6. SubSeq(name, 1, Len(name)) = name
  BY SubSeqFull DEF Text
<1> QED  BY <1>3, <1>4, <1>5, <1>6

LEMMA NodeType ==
  ASSUME rootfs \in Rootfs, boot \in Boots, NEW k \in 1 .. Len(Files)
  PROVE  /\ Node(k) \in [name : Text, length : 0 .. W - 1, impl : 0 .. W - 1]
         /\ Node(k).name = Cut(Files[k].name)
         /\ Node(k).length = Len(Files[k].data)
         /\ Len(Files[k].data) \in 0 .. W - 1
<1>1. PICK p \in Nat : p = Place(k)
  BY NodePlace
<1>2. PICK d \in Nat : d = Len(Files[k].data)
  BY NodePlace
<1>3. Node(k).impl = p /\ p + d < W
  BY <1>1, <1>2, NodePlace
<1>4. W \in Nat
  BY Sizes
<1>5. p \in 0 .. W - 1 /\ d \in 0 .. W - 1
  BY <1>3, <1>4
<1>6. Cut(Files[k].name) \in Text
  BY CutType, FilesType
<1>7. Node(k) = [name |-> Cut(Files[k].name), length |-> d, impl |-> p]
  BY <1>2, <1>3 DEF Node
<1> QED  BY <1>2, <1>5, <1>6, <1>7

LEMMA KeptFiles ==
  ASSUME rootfs \in Rootfs
  PROVE  /\ Min({Len(Files), MAX_FILES}) \in 0 .. MAX_FILES
         /\ Min({Len(Files), MAX_FILES}) <= Len(Files)
<1>1. PICK n \in Nat : n = Len(Files)
  BY FilesType
<1>2. MAX_FILES \in Nat
  BY Sizes
<1>3. Min({n, MAX_FILES}) = IF n <= MAX_FILES THEN n ELSE MAX_FILES
  BY <1>2, MinOfTwo
<1> QED  BY <1>1, <1>2, <1>3

LEMMA TreeFacts ==
  ASSUME TreeInv
  PROVE  /\ rootfs \in Rootfs /\ boot \in Boots
         /\ num_files \in 0 .. MAX_FILES /\ num_files \in Nat
         /\ num_files <= Len(Files) /\ Len(Files) \in Nat
         /\ Len(initrd_nodes) = num_files /\ DOMAIN initrd_nodes = 1 .. num_files
         /\ \A k \in 1 .. num_files : k \in 1 .. Len(Files) /\ initrd_nodes[k] = Node(k)
<1>1. rootfs \in Rootfs /\ boot \in Boots /\ Len(Files) \in Nat
  BY FilesType DEF TreeInv
<1>2. MAX_FILES \in Nat
  BY Sizes
<1>3. num_files \in 0 .. MAX_FILES /\ num_files <= Len(Files)
  BY <1>1, <1>2, KeptFiles DEF TreeInv
<1>4. initrd_nodes = [i \in 1 .. num_files |-> Node(i)]
  BY DEF TreeInv
<1>5. num_files \in Nat
  BY <1>2, <1>3
<1>6. Len(initrd_nodes) = num_files /\ DOMAIN initrd_nodes = 1 .. num_files
  BY <1>4, <1>5
<1> QED  BY <1>1, <1>3, <1>4, <1>5, <1>6

(* The two invariants have the types, and reads what they promise.          *)
LEMMA TypeImplied ==
  ASSUME TreeInv, ScalarInv
  PROVE  TypeOK
<1>1. fs_root \in BOOLEAN
  BY Zenon DEF TreeInv
<1>2. ASSUME NEW k \in 1 .. num_files
      PROVE  initrd_nodes[k] \in [name : Seq(Byte), length : 0 .. W - 1, impl : 0 .. W - 1]
  BY <1>2, TreeFacts, NodeType DEF Text
<1>3. {offset, sz} \subseteq 0 .. W - 1
  BY DEF ScalarInv
<1> QED  BY <1>1, <1>2, <1>3, TreeFacts DEF TypeOK, ScalarInv, Text

LEMMA ReadImplied ==
  ASSUME TreeInv
  PROVE  ReadStaysInFile
<1> SUFFICES ASSUME NEW k \in 1 .. num_files, NEW from \in 0 .. W - 1, NEW size \in 0 .. W - 1,
                    from + size < W
             PROVE  initrd_read(initrd_nodes[k], from, size) =
                      SubSeq(Files[k].data, from + 1, Min({from + size, Len(Files[k].data)}))
  BY DEF ReadStaysInFile
<1>1. W \in Nat
  BY Sizes
<1>2. from \in Nat /\ size \in Nat
  BY <1>1
<1>3. PICK node : node = initrd_nodes[k] /\ node = Node(k) /\ k \in 1 .. Len(Files)
  BY TreeFacts
<1>4. rootfs \in Rootfs /\ boot \in Boots
  BY TreeFacts
<1> QED  BY <1>2, <1>3, <1>4, ReadPart

LEMMA TreeInit ==
  ASSUME Init
  PROVE  TreeInv
<1>1. /\ rootfs \in Rootfs /\ boot \in Boots /\ fs_root = FALSE /\ num_files = 0
      /\ initrd_nodes = <<>> /\ pc = "boot"
  BY DEF Init
<1>2. [i \in 1 .. 0 |-> Node(i)] = <<>>
  OBVIOUS
<1>3. fs_root = (pc # "boot" /\ boot.module # "none")
  BY <1>1, Zenon
<1> QED  BY <1>1, <1>2, <1>3 DEF TreeInv

LEMMA TreeStep ==
  ASSUME TreeInv, [Next]_vars
  PROVE  TreeInv'
<1>1. CASE initrd_initialize
  <2>1. pc = "boot" /\ boot.module # "none" /\ rootfs' = rootfs /\ boot' = boot /\ pc' = "mounted"
    BY <1>1 DEF initrd_initialize
  <2>2. Files' = Files
    BY <2>1 DEF Files
  <2>3. \A k : Node(k)' = Node(k)
    BY <2>1, <2>2 DEF Node, FileHeader, DataBefore
  <2>4. Mounted' <=> Mounted
    BY <2>1 DEF Mounted
  <2>5. Len(file_headers) = Len(Files) /\ \A k \in 1 .. Len(Files) : file_headers[k] = FileHeader(k)
    BY FilesType DEF file_headers, TreeInv
  <2>6. num_files' = IF Mounted THEN Min({Len(Files), MAX_FILES}) ELSE 0
    BY <1>1, <2>5 DEF initrd_initialize, Mounted
  <2>7. Len(Files) \in Nat /\ MAX_FILES \in Nat /\ rootfs \in Rootfs /\ boot \in Boots
    BY Sizes, FilesType DEF TreeInv
  <2>8. num_files' \in Nat /\ num_files' <= Len(Files)
    BY <2>6, <2>7, KeptFiles
  <2>9. initrd_nodes' = [i \in 1 .. num_files' |-> Node(i)]
    <3>1. \A i \in 1 .. num_files' :
            [name |-> file_headers[i].name, length |-> file_headers[i].length,
             impl |-> (boot.location + file_headers[i].offset) % W] = Node(i)
      <4> SUFFICES ASSUME NEW i \in 1 .. num_files'
                   PROVE  [name |-> file_headers[i].name, length |-> file_headers[i].length,
                           impl |-> (boot.location + file_headers[i].offset) % W] = Node(i)
        OBVIOUS
      <4>1. file_headers[i] = FileHeader(i)
        BY <2>5, <2>7, <2>8
      <4>2. FileHeader(i).name = Cut(Files[i].name) /\ FileHeader(i).length = Len(Files[i].data)
        BY DEF FileHeader
      <4> QED  BY <4>1, <4>2 DEF Node
    <3> QED  BY <1>1, <3>1, Zenon DEF initrd_initialize
  <2>10. fs_root' = TRUE
    BY <1>1 DEF initrd_initialize
  <2> QED  BY <2>1, <2>2, <2>3, <2>4, <2>6, <2>7, <2>9, <2>10 DEF TreeInv
<1>2. ASSUME tree' = tree,
             \/ pc' = pc
             \/ pc # "boot" /\ pc' # "boot"
             \/ boot.module = "none"
      PROVE  TreeInv'
  <2>1. /\ rootfs' = rootfs /\ boot' = boot /\ fs_root' = fs_root
        /\ num_files' = num_files /\ initrd_nodes' = initrd_nodes
    BY <1>2 DEF tree
  <2>2. Files' = Files
    BY <2>1 DEF Files
  <2>3. \A k : Node(k)' = Node(k)
    BY <2>1, <2>2 DEF Node, FileHeader, DataBefore
  <2>4. (Mounted' <=> Mounted) /\ (Mounted => boot.module # "none")
    BY <2>1 DEF Mounted
  <2> QED  BY <1>2, <2>1, <2>2, <2>3, <2>4 DEF TreeInv
<1>3. CASE UNCHANGED vars
  <2>1. tree' = tree
    BY <1>3 DEF vars
  <2>2. pc' = pc
    BY <1>3 DEF vars
  <2> QED  BY <1>2, <2>1, <2>2
<1>4. CASE NoModule
  BY <1>2, <1>4 DEF NoModule
<1>5. CASE List
  BY <1>2, <1>5 DEF List
<1>6. CASE Hello
  BY <1>2, <1>6 DEF Hello
<1>13. CASE Overrun
  BY <1>2, <1>13 DEF Overrun, vars
<1>7. CASE ls
  BY <1>2, <1>7 DEF ls, Call, NotMounted
<1>8. CASE Entry
  BY <1>2, <1>8 DEF Entry
<1>9. CASE EndOfDirectory
  BY <1>2, <1>9 DEF EndOfDirectory
<1>10. CASE \E name \in Names : cat(name)
  BY <1>2, <1>10 DEF cat, Call, NotMounted
<1>11. CASE Chunk
  BY <1>2, <1>11 DEF Chunk
<1>12. CASE EndOfFile
  BY <1>2, <1>12 DEF EndOfFile
<1> QED
  BY <1>1, <1>3, <1>4, <1>5, <1>6, <1>7, <1>8, <1>9, <1>10, <1>11, <1>12, <1>13 DEF Next

-----------------------------------------------------------------------------
LEMMA One ==
  ASSUME NEW S, NEW e \in S
  PROVE  <<e>> \in Seq(S)
OBVIOUS

(* What is printed without a file.                                          *)
LEMMA Messages ==
  /\ <<"not found">> \in Text /\ <<"not mounted">> \in Text
  /\ << <<"not found">> >> \in Seq(Text) /\ << <<"not mounted">> >> \in Seq(Text)
  /\ <<>> \in Seq(Text)
<1>1. <<"not found">> \in Text /\ <<"not mounted">> \in Text
  <2>1. "not found" \in Byte /\ "not mounted" \in Byte
    BY InitrdAssumption
  <2> QED  BY <2>1, One DEF Text
<1>2. << <<"not found">> >> \in Seq(Text) /\ << <<"not mounted">> >> \in Seq(Text)
  BY <1>1, One
<1> QED  BY <1>1, <1>2, EmptySeq

(* Only the mount changes what the files are read from.                     *)
LEMMA SameTree ==
  ASSUME tree' = tree
  PROVE  /\ Files' = Files /\ (Mounted' <=> Mounted) /\ num_files' = num_files
         /\ boot' = boot /\ rootfs' = rootfs /\ \A n : Listing(n)' = Listing(n)
<1>1. rootfs' = rootfs /\ boot' = boot /\ num_files' = num_files
  BY DEF tree
<1>2. Files' = Files /\ (Mounted' <=> Mounted)
  BY <1>1 DEF Files, Mounted
<1>3. \A n : Listing(n)' = Listing(n)
  BY <1>2 DEF Listing, First
<1> QED  BY <1>1, <1>2, <1>3

(* A read inside the file.                                                  *)
LEMMA ReadFacts ==
  ASSUME TreeInv, NEW k \in 1 .. num_files, NEW from \in Nat, NEW size \in Nat,
         from + size <= Len(Files[k].data)
  PROVE  LET bytes == initrd_read(initrd_nodes[k], from, size)
         IN  /\ bytes = SubSeq(Files[k].data, from + 1, from + size)
             /\ bytes \in Text /\ Len(bytes) = size
             /\ \A j \in 1 .. size : bytes[j] = Files[k].data[from + j]
<1>1. rootfs \in Rootfs /\ boot \in Boots /\ k \in 1 .. Len(Files) /\ initrd_nodes[k] = Node(k)
  BY TreeFacts
<1>2. PICK t \in Text : t = Files[k].data
  BY <1>1, FilesType
<1>3. PICK m \in Nat : m = from + size
  OBVIOUS
<1>4. Len(t) \in Nat /\ m <= Len(t)
  BY <1>1, <1>2, <1>3, FilesType
<1>5. m < W
  <2>1. Len(t) \in 0 .. W - 1 /\ W \in Nat
    BY <1>1, <1>2, NodeType, Sizes
  <2> QED  BY <1>4, <2>1
<1>6. Min({m, Len(t)}) = m
  BY <1>4, MinOfTwo
<1>7. initrd_read(initrd_nodes[k], from, size) = SubSeq(t, from + 1, Min({from + size, Len(t)}))
  <2>1. from + size < W
    BY <1>3, <1>5
  <2>2. PICK node : node = initrd_nodes[k] /\ node = Node(k)
    BY <1>1
  <2>3. rootfs \in Rootfs /\ boot \in Boots /\ k \in 1 .. Len(Files)
        /\ from \in Nat /\ size \in Nat
    BY <1>1
  <2>4. initrd_read(node, from, size) =
          SubSeq(Files[k].data, from + 1, Min({from + size, Len(Files[k].data)}))
    <3> HIDE <1>2, <1>3
    <3> QED  BY <2>1, <2>2, <2>3, ReadPart
  <2> QED  BY <1>2, <2>2, <2>4
<1>8. initrd_read(initrd_nodes[k], from, size) = SubSeq(t, from + 1, m)
  BY <1>3, <1>6, <1>7
<1>9. /\ SubSeq(t, from + 1, m) \in Text
      /\ Len(SubSeq(t, from + 1, m)) = size
      /\ \A j \in 1 .. size : SubSeq(t, from + 1, m)[j] = t[from + j]
  <2>1. m \in 0 .. Len(t) /\ from + 1 \in Nat \ {0}
    BY <1>4
  <2>2. PICK s : s = SubSeq(t, from + 1, m)
    OBVIOUS
  <2>3. /\ s \in Text /\ Len(s) = IF from + 1 <= m THEN m - (from + 1) + 1 ELSE 0
        /\ \A j \in 1 .. m - (from + 1) + 1 : s[j] = t[from + 1 + j - 1]
    BY <2>1, <2>2, Part
  <2>4. m - (from + 1) + 1 = size /\ (~(from + 1 <= m) => size = 0)
    BY <1>3
  <2>5. \A j \in 1 .. size : from + 1 + j - 1 = from + j
    OBVIOUS
  <2> QED  BY <2>2, <2>3, <2>4, <2>5
<1> QED  BY <1>2, <1>3, <1>8, <1>9

LEMMA FoundFacts ==
  ASSUME TreeInv, NEW name
  PROVE  /\ fs_finddir(name) \in 0 .. num_files
         /\ fs_finddir(name) # NULL =>
              /\ fs_finddir(name) \in 1 .. num_files
              /\ initrd_nodes[fs_finddir(name)].name = name
              /\ Cut(Files[fs_finddir(name)].name) = name
              /\ initrd_nodes[fs_finddir(name)].length = Len(Files[fs_finddir(name)].data)
         /\ \A k \in 1 .. num_files : Cut(Files[k].name) = name => fs_finddir(name) # NULL
<1>1. \A k \in 1 .. num_files :
        /\ initrd_nodes[k].name = Cut(Files[k].name)
        /\ initrd_nodes[k].length = Len(Files[k].data)
  BY TreeFacts, NodeType
<1>2. num_files \in Nat
  BY TreeFacts
<1>3. \/ /\ fs_finddir(name) = NULL
         /\ \A k \in 1 .. num_files : initrd_nodes[k].name # name
      \/ /\ fs_finddir(name) \in 1 .. num_files
         /\ initrd_nodes[fs_finddir(name)].name = name
  BY TreeFacts, Finddir
<1>4. fs_finddir(name) \in 1 .. num_files => fs_finddir(name) # NULL
  BY <1>2 DEF NULL
<1>5. fs_finddir(name) = NULL => fs_finddir(name) \in 0 .. num_files
  BY <1>2 DEF NULL
<1> QED  BY <1>1, <1>2, <1>3, <1>4, <1>5

-----------------------------------------------------------------------------
LEMMA ScalarInit ==
  ASSUME Init
  PROVE  ScalarInv
<1>1. 0 \in 0 .. SHOWN + MAX_FILES /\ 0 \in 0 .. W - 1 /\ 0 <= CHUNK
  BY Sizes
<1>2. <<>> \in Text /\ <<>> \in Seq(Text) /\ Len(<<>>) = 0
  BY EmptySeq DEF Text
<1> QED  BY <1>1, <1>2 DEF Init, ScalarInv, NULL

LEMMA ScalarStep ==
  ASSUME TreeInv, TreeInv', ScalarInv, [Next]_vars
  PROVE  ScalarInv'
<1> USE DEF ScalarInv
<1>0. /\ num_files \in Nat /\ MAX_FILES \in Nat /\ SHOWN \in Nat /\ W \in Nat
      /\ num_files <= MAX_FILES /\ CHUNK \in Nat
  <2>1. num_files \in 0 .. MAX_FILES /\ num_files \in Nat
    BY TreeFacts
  <2> QED  BY <2>1, Sizes
<1>1. CASE initrd_initialize
  <2>1. num_files = 0 /\ fsnode = 0
    <3>1. num_files = 0
      BY <1>1 DEF initrd_initialize, TreeInv
    <3> QED  BY <3>1
  <2>2. pc' = "mounted" /\ UNCHANGED <<dir_cache, command, index, catVars, text>> /\ pc = "boot"
    BY <1>1 DEF initrd_initialize
  <2>3. num_files' \in Nat
    <3>1. Len(file_headers) = Len(Files) /\ rootfs \in Rootfs
      BY FilesType, TreeFacts DEF file_headers
    <3>2. num_files' = IF boot.module = "initrd" THEN Min({Len(Files), MAX_FILES}) ELSE 0
      BY <1>1, <3>1 DEF initrd_initialize
    <3> QED  BY <1>0, <3>1, <3>2, KeptFiles
  <2>4. fsnode' \in 0 .. num_files'
    BY <2>1, <2>2, <2>3 DEF catVars
  <2> QED  BY <1>0, <2>1, <2>2, <2>4 DEF catVars
<1>2. CASE NoModule
  <2>1. tree' = tree
    BY <1>2 DEF NoModule
  <2> QED  BY <1>0, <1>2, <2>1, SameTree DEF NoModule, catVars
<1>3. CASE List
  <2>1. tree' = tree
    BY <1>3 DEF List
  <2>2. index' \in 0 .. SHOWN + MAX_FILES /\ index' <= SHOWN /\ pc' = "mounted"
    BY <1>0, <1>3 DEF List
  <2>3. dir_cache' \in Text /\ text' \in Seq(Text)
    <3>1. CASE UNCHANGED <<dir_cache, text>>
      BY <3>1
    <3>2. CASE dir_cache' \in fs_readdir(index) /\ text' = Append(text, dir_cache')
      <4>1. index < num_files /\ dir_cache' = initrd_nodes[index + 1].name
        BY <3>2 DEF fs_readdir
      <4>2. PICK i \in 1 .. num_files : i = index + 1
        BY <1>0, <4>1
      <4>3. dir_cache' \in Text
        BY <4>1, <4>2, TreeFacts, NodeType
      <4> QED  BY <3>2, <4>3, AppendProperties
    <3> QED  BY <1>3, <3>1, <3>2 DEF List
  <2> QED  BY <1>3, <2>1, <2>2, <2>3, SameTree DEF List, catVars
<1>4. CASE Hello
  <2>1. tree' = tree
    BY <1>4 DEF Hello
  <2>2. pc' \in {"shell", "overrun"} /\ UNCHANGED <<dir_cache, command, index, catVars>>
    BY <1>4 DEF Hello
  <2>3. PICK k : k = fs_finddir(HELLO)
    OBVIOUS
  <2>4. CASE k = NULL
    <3>1. text' = Append(text, <<"not found">>)
      BY <1>4, <2>3, <2>4 DEF Hello
    <3>2. <<"not found">> \in Text
      BY Messages
    <3>3. text' \in Seq(Text)
      BY <3>1, <3>2, AppendProperties
    <3> QED  BY <2>1, <2>2, <3>3, SameTree DEF catVars
  <2>5. CASE k # NULL
    <3>1. /\ k \in 1 .. num_files /\ Cut(Files[k].name) = HELLO
          /\ initrd_nodes[k].length = Len(Files[k].data) /\ k \in 1 .. Len(Files)
      BY <2>3, <2>5, FoundFacts, TreeFacts
    <3>2. Len(Files[k].data) \in Nat
      BY <3>1, FilesType, TreeFacts
    <3>3. PICK d \in Nat : d = Len(Files[k].data)
      BY <3>2
    <3>4. 0 + d <= Len(Files[k].data) /\ 0 \in Nat
      BY <3>3
    <3>5. initrd_read(initrd_nodes[k], 0, d) \in Text
      BY <3>1, <3>4, ReadFacts
    <3>6. text' = Append(text, String(initrd_read(initrd_nodes[k], 0, d)))
      BY <1>4, <2>3, <2>5, <3>1, <3>3 DEF Hello
    <3>7. text' \in Seq(Text)
      BY <3>5, <3>6, StringType, AppendProperties
    <3> QED  BY <2>1, <2>2, <3>7, SameTree DEF catVars
  <2> QED  BY <2>4, <2>5
<1>5. CASE ls
  <2>1. tree' = tree /\ dir_cache' = dir_cache /\ UNCHANGED catVars /\ pc = "shell"
    BY <1>5 DEF ls, Call, NotMounted
  <2>2. << <<"not mounted">> >> \in Seq(Text) /\ <<>> \in Seq(Text)
    BY Messages
  <2>3. \/ pc' = "shell" /\ text' = << <<"not mounted">> >> /\ index' = index
        \/ pc' = "ls" /\ text' = <<>> /\ index' = 0
    BY <1>5, <2>1 DEF ls, NotMounted
  <2>4. num_files' = num_files /\ Files' = Files
    BY <2>1, SameTree
  <2>5. CASE pc' = "shell" /\ text' = << <<"not mounted">> >> /\ index' = index
    BY <2>1, <2>2, <2>4, <2>5 DEF catVars
  <2>6. CASE pc' = "ls" /\ text' = <<>> /\ index' = 0
    <3>1. 0 <= num_files /\ 0 \in 0 .. SHOWN + MAX_FILES
      BY <1>0
    <3> QED  BY <2>1, <2>2, <2>4, <2>6, <3>1 DEF catVars
  <2> QED  BY <2>3, <2>5, <2>6
<1>6. CASE Entry
  <2>1. tree' = tree /\ UNCHANGED catVars /\ pc = "ls" /\ pc' = "ls" /\ index' = index + 1
    BY <1>6 DEF Entry
  <2>2. index < num_files /\ dir_cache' = initrd_nodes[index + 1].name
    BY <1>6 DEF Entry, fs_readdir
  <2>3. PICK i \in 1 .. num_files : i = index + 1
    BY <1>0, <2>2
  <2>4. dir_cache' \in Text
    BY <2>2, <2>3, TreeFacts, NodeType
  <2>5. text' \in Seq(Text)
    BY <1>6, <2>4, AppendProperties DEF Entry
  <2>6. index' \in 0 .. SHOWN + MAX_FILES /\ index' <= num_files
    BY <1>0, <2>1, <2>2
  <2> QED  BY <2>1, <2>4, <2>5, <2>6, SameTree DEF catVars
<1>7. CASE EndOfDirectory
  <2>1. tree' = tree
    BY <1>7 DEF EndOfDirectory
  <2> QED  BY <1>7, <2>1, SameTree DEF EndOfDirectory, catVars
<1>8. ASSUME NEW name \in Names, cat(name) PROVE ScalarInv'
  <2>1. tree' = tree /\ UNCHANGED <<dir_cache, index, buf>> /\ pc = "shell"
    BY <1>8 DEF cat, Call, NotMounted, catVars
  <2>2. << <<"not mounted">> >> \in Seq(Text) /\ << <<"not found">> >> \in Seq(Text)
        /\ <<>> \in Seq(Text)
    BY Messages
  <2>3. CASE pc' = "shell" /\ UNCHANGED catVars
             /\ text' \in {<< <<"not mounted">> >>, << <<"not found">> >>}
    BY <2>1, <2>2, <2>3, SameTree DEF catVars
  <2>4. CASE /\ fs_finddir(name) # NULL /\ pc' = "cat" /\ text' = <<>>
             /\ fsnode' = fs_finddir(name) /\ offset' = 0 /\ sz' = initrd_nodes[fsnode'].length
    <3>1. fsnode' \in 1 .. num_files /\ initrd_nodes[fsnode'].length = Len(Files[fsnode'].data)
      BY <2>4, FoundFacts
    <3>2. fsnode' \in 1 .. Len(Files) /\ Len(Files[fsnode'].data) \in 0 .. W - 1
      BY <3>1, TreeFacts, NodeType
    <3>3. PICK d \in 0 .. W - 1 : d = sz' /\ d = Len(Files[fsnode'].data)
      BY <2>4, <3>1, <3>2
    <3>4. 0 + d = d /\ 0 \in 0 .. W - 1
      BY <1>0
    <3>5. fsnode' # 0 /\ fsnode' \in 0 .. num_files
      BY <1>0, <3>1
    <3> QED  BY <2>1, <2>2, <2>4, <3>3, <3>4, <3>5, SameTree
  <2>5. \/ /\ pc' = "shell" /\ UNCHANGED catVars
           /\ text' \in {<< <<"not mounted">> >>, << <<"not found">> >>}
        \/ /\ fs_finddir(name) # NULL /\ pc' = "cat" /\ text' = <<>>
           /\ fsnode' = fs_finddir(name) /\ offset' = 0 /\ sz' = initrd_nodes[fsnode'].length
    BY <1>8, <2>1 DEF cat, NotMounted
  <2> QED  BY <2>3, <2>4, <2>5
<1>9. CASE Chunk
  <2>1. tree' = tree /\ UNCHANGED <<dir_cache, index, fsnode>> /\ pc = "cat" /\ sz > 0
    BY <1>9 DEF Chunk
  <2>2. PICK size : size = ReadSize(sz)
    OBVIOUS
  <2>3. size \in Nat /\ size <= CHUNK /\ size <= sz /\ offset \in Nat /\ sz \in Nat
    BY <1>0, <2>1, <2>2 DEF ReadSize
  <2>4. fsnode \in 1 .. num_files /\ Len(Files[fsnode].data) = offset + sz
    BY <1>0, <2>1
  <2>5. offset + size <= Len(Files[fsnode].data)
    BY <2>3, <2>4
  <2>6. PICK bytes : bytes = initrd_read(initrd_nodes[fsnode], offset, size)
    OBVIOUS
  <2>7. bytes \in Text /\ Len(bytes) = size
    BY <2>3, <2>4, <2>5, <2>6, ReadFacts
  <2>8. \/ pc' = "shell" /\ UNCHANGED <<offset, sz, buf, text>>
        \/ /\ buf' = bytes /\ text' = Append(text, String(bytes))
           /\ offset' = offset + Len(bytes) /\ sz' = sz - Len(bytes) /\ pc' = pc
    BY <1>9, <2>2, <2>6 DEF Chunk
  <2>9. CASE pc' = "shell" /\ UNCHANGED <<offset, sz, buf, text>>
    BY <2>1, <2>9, SameTree
  <2>10. CASE /\ buf' = bytes /\ text' = Append(text, String(bytes))
              /\ offset' = offset + Len(bytes) /\ sz' = sz - Len(bytes) /\ pc' = pc
    <3>1. text' \in Seq(Text)
      BY <2>7, <2>10, StringType, AppendProperties
    <3>2. offset' + sz' = Len(Files[fsnode].data)
      BY <2>3, <2>4, <2>7, <2>10
    <3>3. Len(Files[fsnode].data) \in 0 .. W - 1
      BY <2>4, TreeFacts, NodeType
    <3>4. offset' \in 0 .. W - 1 /\ sz' \in 0 .. W - 1
      BY <1>0, <2>3, <2>4, <2>7, <2>10, <3>3
    <3>5. fsnode # 0 /\ buf' \in Text /\ Len(buf') <= CHUNK
      BY <2>1, <2>3, <2>7, <2>10
    <3> QED  BY <2>1, <2>10, <3>1, <3>2, <3>4, <3>5, SameTree
  <2> QED  BY <2>8, <2>9, <2>10
<1>10. CASE EndOfFile
  <2>1. tree' = tree
    BY <1>10 DEF EndOfFile
  <2> QED  BY <1>10, <2>1, SameTree DEF EndOfFile, catVars
<1>11. CASE Overrun \/ UNCHANGED vars
  <2>1. tree' = tree
    BY <1>11 DEF Overrun, vars
  <2> QED  BY <1>11, <2>1, SameTree DEF Overrun, vars, catVars
<1> QED
  BY <1>1, <1>2, <1>3, <1>4, <1>5, <1>6, <1>7, <1>8, <1>9, <1>10, <1>11 DEF Next

-----------------------------------------------------------------------------
(* The listing follows the nodes.                                           *)
LEMMA ListingOfNodes ==
  ASSUME TreeInv, pc # "boot", NEW n \in Nat
  PROVE  /\ Listing(n) = [k \in 1 .. (IF n <= num_files THEN n ELSE num_files) |->
                            initrd_nodes[k].name]
         /\ Listing(n) \in Seq(Text)
<1>1. \A k \in 1 .. num_files :
        initrd_nodes[k].name = Cut(Files[k].name) /\ Cut(Files[k].name) \in Text
  BY TreeFacts, NodeType, FilesType, CutType
<1>2. num_files \in Nat /\ Len(Files) \in Nat /\ MAX_FILES \in Nat
  BY TreeFacts, Sizes
<1>3. PICK m \in Nat : m = IF n <= num_files THEN n ELSE num_files
  BY <1>2
<1>4. CASE Mounted
  <2>1. num_files = Min({Len(Files), MAX_FILES})
    BY <1>4 DEF TreeInv
  <2>2. num_files = IF Len(Files) <= MAX_FILES THEN Len(Files) ELSE MAX_FILES
    BY <1>2, <2>1, MinOfTwo
  <2>3. PICK c : c = Min({n, MAX_FILES, Len(Files)})
    OBVIOUS
  <2>4. c \in {n, MAX_FILES, Len(Files)} /\ c <= n /\ c <= MAX_FILES /\ c <= Len(Files)
    BY <1>2, <2>3, MinOfThree
  <2>5. c = m
    BY <1>2, <1>3, <2>2, <2>4
  <2>6. m <= Len(Files) /\ m <= num_files
    BY <1>2, <1>3, <2>2
  <2>7. First(n) = SubSeq(Files, 1, m)
    BY <2>3, <2>5 DEF First
  <2>8. DOMAIN First(n) = 1 .. m
    <3>1. Files \in Seq(File)
      BY TreeFacts, FilesType
    <3>2. \A k \in 1 .. m : Files[k] \in File
      BY <1>2, <2>6, <3>1, ElementOfSeq
    <3>3. SubSeq(Files, 1, m) \in Seq(File) /\ Len(SubSeq(Files, 1, m)) = IF 1 <= m THEN m - 1 + 1 ELSE 0
      BY <3>2, SubSeqProperties
    <3>4. Len(SubSeq(Files, 1, m)) = m
      BY <3>3
    <3> QED  BY <2>7, <3>3, <3>4, LenProperties
  <2>9. Listing(n) = [k \in 1 .. m |-> Cut(Files[k].name)]
    BY <1>4, <2>8 DEF Listing
  <2>10. \A k \in 1 .. m : Cut(Files[k].name) = initrd_nodes[k].name /\ Cut(Files[k].name) \in Text
    BY <1>1, <1>2, <2>6
  <2>11. Listing(n) = [k \in 1 .. m |-> initrd_nodes[k].name]
    BY <2>9, <2>10
  <2>12. Listing(n) \in Seq(Text)
    BY <2>9, <2>10
  <2> QED  BY <1>3, <2>11, <2>12
<1>5. CASE ~Mounted
  <2>1. num_files = 0 /\ Listing(n) = <<>>
    BY <1>5 DEF TreeInv, Listing
  <2>2. m = 0
    BY <1>3, <2>1
  <2>3. <<>> = [k \in 1 .. m |-> initrd_nodes[k].name]
    BY <2>2
  <2> QED  BY <1>3, <2>1, <2>3, EmptySeq
<1> QED  BY <1>4, <1>5

LEMMA ListingStep ==
  ASSUME TreeInv, pc # "boot", NEW n \in Nat
  PROVE  /\ n >= num_files => Listing(n + 1) = Listing(n)
         /\ n < num_files => Listing(n + 1) = Append(Listing(n), initrd_nodes[n + 1].name)
<1>1. num_files \in Nat
  BY TreeFacts
<1>2. n + 1 \in Nat
  OBVIOUS
<1>3. ASSUME n >= num_files PROVE Listing(n + 1) = Listing(n)
  <2>1. \A i \in {n, n + 1} : (IF i <= num_files THEN i ELSE num_files) = num_files
    BY <1>1, <1>3
  <2>2. Listing(n) = [k \in 1 .. num_files |-> initrd_nodes[k].name]
    BY <2>1, ListingOfNodes
  <2>3. Listing(n + 1) = [k \in 1 .. num_files |-> initrd_nodes[k].name]
    BY <1>2, <2>1, ListingOfNodes
  <2> QED  BY <2>2, <2>3
<1>4. ASSUME n < num_files
      PROVE  Listing(n + 1) = Append(Listing(n), initrd_nodes[n + 1].name)
  <2>1. \A i \in {n, n + 1} : (IF i <= num_files THEN i ELSE num_files) = i
    BY <1>1, <1>4
  <2>2. PICK s : s = Listing(n)
    OBVIOUS
  <2>3. PICK t : t = Listing(n + 1)
    OBVIOUS
  <2>4. s = [k \in 1 .. n |-> initrd_nodes[k].name] /\ s \in Seq(Text)
    BY <2>1, <2>2, ListingOfNodes
  <2>5. t = [k \in 1 .. n + 1 |-> initrd_nodes[k].name] /\ t \in Seq(Text)
    BY <1>2, <2>1, <2>3, ListingOfNodes
  <2>6. PICK e \in Text : e = initrd_nodes[n + 1].name /\ e = t[n + 1]
    <3>1. n + 1 \in 1 .. n + 1
      OBVIOUS
    <3>2. Len(t) = n + 1
      BY <2>5
    <3> QED  BY <2>5, <3>1, <3>2, ElementOfSeq
  <2>7. PICK a : a = Append(s, e)
    OBVIOUS
  <2>8. /\ a \in Seq(Text) /\ Len(a) = Len(s) + 1 /\ Len(s) = n
        /\ \A i \in 1 .. Len(s) : a[i] = s[i]
        /\ a[Len(s) + 1] = e
    BY <2>4, <2>7, AppendProperties
  <2>9. Len(t) = n + 1 /\ \A i \in 1 .. n : t[i] = s[i]
    BY <2>4, <2>5
  <2>10. \A i \in 1 .. Len(t) : t[i] = a[i]
    <3> SUFFICES ASSUME NEW i \in 1 .. n + 1 PROVE t[i] = a[i]
      BY <2>9
    <3>1. i \in 1 .. n \/ i = n + 1
      OBVIOUS
    <3> QED  BY <2>6, <2>8, <2>9, <3>1
  <2>11. t = a
    BY <2>5, <2>8, <2>9, <2>10, SeqEqual
  <2> QED  BY <2>2, <2>3, <2>6, <2>7, <2>11
<1> QED  BY <1>3, <1>4

(* From the last file on the listing stays the same.                        *)
LEMMA ListingEnd ==
  ASSUME TreeInv, pc # "boot", NEW n \in Nat, n >= num_files
  PROVE  Listing(n) = Listing(MAX_FILES)
<1>1. num_files \in Nat /\ MAX_FILES \in Nat /\ num_files <= MAX_FILES
  BY TreeFacts, Sizes
<1>2. \A i \in {n, MAX_FILES} : (IF i <= num_files THEN i ELSE num_files) = num_files
  BY <1>1
<1>3. Listing(n) = [k \in 1 .. num_files |-> initrd_nodes[k].name]
  BY <1>2, ListingOfNodes
<1>4. Listing(MAX_FILES) = [k \in 1 .. num_files |-> initrd_nodes[k].name]
  BY <1>1, <1>2, ListingOfNodes
<1> QED  BY <1>3, <1>4

LEMMA ListingEmpty ==
  ASSUME TreeInv, pc # "boot"
  PROVE  Listing(0) = <<>>
<1>1. (IF 0 <= num_files THEN 0 ELSE num_files) = 0
  BY TreeFacts
<1>2. Listing(0) = [k \in 1 .. 0 |-> initrd_nodes[k].name]
  BY <1>1, ListingOfNodes
<1> QED  BY <1>2

LEMMA PrefixOfAppend ==
  ASSUME NEW S, NEW s \in Seq(S), NEW e \in S
  PROVE  IsPrefix(s, Append(s, e)) /\ Len(Append(s, e)) = Len(s) + 1
<1>1. PICK t \in Seq(S) : t = Append(s, e)
  BY AppendProperties
<1>2. Len(t) = Len(s) + 1 /\ Len(s) \in Nat /\ \A i \in 1 .. Len(s) : t[i] = s[i]
  BY <1>1, AppendProperties, LenProperties
<1>3. PICK u : u = SubSeq(t, 1, Len(s))
  OBVIOUS
<1>4. \A i \in 1 .. Len(s) : t[i] \in S
  BY <1>2, ElementOfSeq
<1>5. /\ u \in Seq(S) /\ Len(u) = IF 1 <= Len(s) THEN Len(s) - 1 + 1 ELSE 0
      /\ \A i \in 1 .. Len(s) - 1 + 1 : u[i] = t[1 + i - 1]
  BY <1>2, <1>3, <1>4, SubSeqProperties
<1>6. Len(u) = Len(s) /\ \A i \in 1 .. Len(u) : u[i] = s[i]
  BY <1>2, <1>5
<1>7. u = s
  BY <1>5, <1>6, SeqEqual
<1>8. SubSeq(s, 1, Len(s)) = s
  BY SubSeqFull
<1>9. IsPrefix(s, t)
  BY <1>2, <1>3, <1>7, <1>8 DEF IsPrefix
<1> QED  BY <1>1, <1>2, <1>9

(* The commands are told apart.                                             *)
LEMMA Commands ==
  ASSUME NEW name
  PROVE  /\ <<"boot">> # <<"ls">>
         /\ <<"cat", name>> # <<"ls">> /\ <<"cat", name>> # <<"boot">>
OBVIOUS

-----------------------------------------------------------------------------
LEMMA ListInit ==
  ASSUME Init
  PROVE  ListInv
BY DEF Init, ListInv, FilesAreListed

LEMMA ListStep ==
  ASSUME TreeInv, TreeInv', ScalarInv, ListInv, [Next]_vars
  PROVE  ListInv'
<1>0. /\ num_files \in Nat /\ index \in Nat /\ SHOWN \in Nat
      /\ <<"boot">> # <<"ls">>
  <2>1. index \in Nat
    BY Sizes DEF ScalarInv
  <2> QED  BY <2>1, Sizes, TreeFacts, Commands
<1>1. CASE initrd_initialize
  <2>1. /\ pc = "boot" /\ pc' = "mounted" /\ UNCHANGED <<index, text, command>>
        /\ rootfs' = rootfs /\ boot' = boot
    BY <1>1 DEF initrd_initialize
  <2>2. text = <<>> /\ command = <<"boot">> /\ index = 0
    BY <2>1 DEF ListInv, ScalarInv
  <2>3. Listing(0)' = <<>>
    <3>1. Files' = Files /\ (Mounted' <=> Mounted)
      BY <2>1 DEF Files, Mounted
    <3>2. Listing(0)' = Listing(0)
      BY <3>1 DEF Listing, First
    <3>3. PICK n \in Nat : n = Len(Files)
      BY FilesType, TreeFacts
    <3>4. Min({0, MAX_FILES, n}) = 0
      <4>1. Min({0, MAX_FILES, n}) \in {0, MAX_FILES, n} /\ Min({0, MAX_FILES, n}) <= 0
        BY Sizes, MinOfThree
      <4> QED  BY <4>1, Sizes
    <3>5. First(0) = <<>>
      <4>1. SubSeq(Files, 1, 0) = <<>>
        BY SubSeqEmpty
      <4> QED  BY <3>3, <3>4, <4>1 DEF First
    <3>6. Listing(0) = <<>>
      <4>1. [k \in DOMAIN First(0) |-> Cut(Files[k].name)] = <<>>
        BY <3>5
      <4> QED  BY <4>1 DEF Listing
    <3> QED  BY <3>2, <3>6
  <2>4. text' = Listing(index)'
    <3>1. index' = 0 /\ text' = <<>>
      BY <2>1, <2>2
    <3>2. Listing(index)' = Listing(0)'
      BY <3>1 DEF Listing, First
    <3> QED  BY <2>3, <3>1, <3>2
  <2> QED  BY <2>1, <2>2, <2>4 DEF ListInv, FilesAreListed
<1>2. CASE NoModule
  <2>1. boot' = boot /\ boot.module = "none" /\ pc' = "shell"
    BY <1>2 DEF NoModule, tree
  <2> QED  BY <2>1 DEF ListInv, FilesAreListed
<1>3. CASE List
  <2>1. /\ pc = "mounted" /\ pc' = "mounted" /\ index' = index + 1 /\ tree' = tree
        /\ command' = command
    BY <1>3 DEF List
  <2>2. text = Listing(index) /\ command = <<"boot">>
    BY <2>1 DEF ListInv
  <2>3. text' = Listing(index + 1)
    <3>1. CASE fs_readdir(index) = {} /\ text' = text
      <4>1. index >= num_files
        BY <1>0, <3>1 DEF fs_readdir
      <4> QED  BY <1>0, <2>1, <2>2, <3>1, <4>1, ListingStep
    <3>2. CASE dir_cache' \in fs_readdir(index) /\ text' = Append(text, dir_cache')
      <4>1. index < num_files /\ dir_cache' = initrd_nodes[index + 1].name
        BY <3>2 DEF fs_readdir
      <4> QED  BY <1>0, <2>1, <2>2, <3>2, <4>1, ListingStep
    <3> QED  BY <1>3, <3>1, <3>2 DEF List
  <2>4. Listing(index)' = Listing(index + 1)
    <3>1. Files' = Files /\ (Mounted' <=> Mounted)
      BY <2>1, SameTree
    <3> QED  BY <2>1, <3>1 DEF Listing, First
  <2> QED  BY <2>1, <2>2, <2>3, <2>4 DEF ListInv, FilesAreListed
<1>4. CASE Hello
  <2>1. /\ pc = "mounted" /\ index = SHOWN /\ pc' \in {"shell", "overrun"}
        /\ tree' = tree /\ command' = command
    BY <1>4 DEF Hello
  <2>2. text = Listing(SHOWN) /\ command = <<"boot">> /\ text \in Seq(Text)
    BY <2>1 DEF ListInv, ScalarInv
  <2>3. PICK e \in Text : text' = Append(text, e)
    <3>1. PICK k : k = fs_finddir(HELLO)
      OBVIOUS
    <3>2. CASE k = NULL
      BY <1>4, <3>1, <3>2, Messages DEF Hello
    <3>3. CASE k # NULL
      <4>1. k \in 1 .. num_files /\ initrd_nodes[k].length = Len(Files[k].data)
        BY <3>1, <3>3, FoundFacts
      <4>2. PICK d \in Nat : d = Len(Files[k].data)
        BY <4>1, FilesType, TreeFacts
      <4>3. 0 + d <= Len(Files[k].data) /\ 0 \in Nat
        BY <4>2
      <4>4. initrd_read(initrd_nodes[k], 0, d) \in Text
        BY <4>1, <4>3, ReadFacts
      <4>5. text' = Append(text, String(initrd_read(initrd_nodes[k], 0, d)))
        BY <1>4, <3>1, <3>3, <4>1, <4>2 DEF Hello
      <4> QED  BY <4>4, <4>5, StringType
    <3> QED  BY <3>2, <3>3
  <2>4. IsPrefix(Listing(SHOWN), text') /\ Len(text') = Len(Listing(SHOWN)) + 1
    BY <2>2, <2>3, PrefixOfAppend
  <2>5. Listing(SHOWN)' = Listing(SHOWN)
    BY <2>1, SameTree
  <2> QED  BY <1>0, <2>1, <2>2, <2>4, <2>5 DEF ListInv, FilesAreListed
<1>5. CASE ls
  <2>1. pc = "shell" /\ tree' = tree /\ command' = <<"ls">>
    BY <1>5 DEF ls, Call, NotMounted
  <2>2. CASE ~fs_root /\ pc' = "shell"
    <3>1. boot'.module = "none"
      <4>1. boot.module = "none"
        BY <2>1, <2>2 DEF TreeInv
      <4> QED  BY <2>1, <4>1, SameTree
    <3> QED  BY <2>2, <3>1 DEF ListInv, FilesAreListed
  <2>3. CASE pc' = "ls" /\ text' = <<>> /\ index' = 0
    <3>1. Listing(0) = <<>>
      BY <2>1, ListingEmpty
    <3>2. Listing(index)' = Listing(0)
      <4>1. Files' = Files /\ (Mounted' <=> Mounted)
        BY <2>1, SameTree
      <4> QED  BY <2>3, <4>1 DEF Listing, First
    <3> QED  BY <2>1, <2>3, <3>1, <3>2 DEF ListInv, FilesAreListed
  <2> QED  BY <1>5, <2>1, <2>2, <2>3 DEF ls, NotMounted
<1>6. CASE Entry
  <2>1. /\ pc = "ls" /\ pc' = "ls" /\ index' = index + 1 /\ tree' = tree
        /\ command' = command
    BY <1>6 DEF Entry
  <2>2. text = Listing(index) /\ command = <<"ls">>
    BY <2>1 DEF ListInv
  <2>3. index < num_files /\ dir_cache' = initrd_nodes[index + 1].name
    BY <1>6 DEF Entry, fs_readdir
  <2>4. fs_finddir(dir_cache') # NULL
    <3>1. PICK i \in 1 .. num_files : i = index + 1
      BY <1>0, <2>3
    <3>2. Cut(Files[i].name) = dir_cache'
      BY <2>3, <3>1, TreeFacts, NodeType
    <3> QED  BY <3>2, FoundFacts
  <2>5. text' = Listing(index + 1)
    <3>1. text' = Append(text, initrd_nodes[index + 1].name)
      BY <1>6, <2>3, <2>4 DEF Entry
    <3> QED  BY <1>0, <2>1, <2>2, <2>3, <3>1, ListingStep
  <2>6. Listing(index)' = Listing(index + 1)
    <3>1. Files' = Files /\ (Mounted' <=> Mounted)
      BY <2>1, SameTree
    <3> QED  BY <2>1, <3>1 DEF Listing, First
  <2> QED  BY <2>1, <2>2, <2>5, <2>6 DEF ListInv, FilesAreListed
<1>7. CASE EndOfDirectory
  <2>1. pc = "ls" /\ pc' = "shell" /\ tree' = tree /\ text' = text /\ command' = command
        /\ fs_readdir(index) = {}
    BY <1>7 DEF EndOfDirectory
  <2>2. text = Listing(index) /\ command = <<"ls">>
    BY <2>1 DEF ListInv
  <2>3. index >= num_files
    <3>1. index < num_files => initrd_nodes[index + 1].name \in fs_readdir(index)
      BY DEF fs_readdir
    <3> QED  BY <1>0, <2>1, <3>1
  <2>4. text = Listing(MAX_FILES)
    BY <1>0, <2>1, <2>2, <2>3, ListingEnd
  <2>5. text' = Listing(MAX_FILES)'
    BY <2>1, <2>4, SameTree
  <2> QED  BY <1>0, <2>1, <2>2, <2>5 DEF ListInv, FilesAreListed
<1>8. ASSUME NEW name \in Names, cat(name) PROVE ListInv'
  <2>1. command' = <<"cat", name>> /\ pc' \in {"shell", "cat"}
    <3>1. pc = "shell" /\ command' = <<"cat", name>>
      BY <1>8 DEF cat, Call
    <3> QED  BY <1>8, <3>1 DEF cat, NotMounted
  <2> QED  BY <2>1, Commands DEF ListInv, FilesAreListed
<1>9. CASE Chunk \/ EndOfFile
  <2>1. pc = "cat" /\ pc' \in {"cat", "shell"} /\ command' = command
    BY <1>9 DEF Chunk, EndOfFile
  <2>2. PICK name \in Names : command = <<"cat", name>>
    BY <2>1 DEF ListInv
  <2> QED  BY <2>1, <2>2, Commands DEF ListInv, FilesAreListed
<1>10. CASE Overrun \/ UNCHANGED vars
  <2>1. tree' = tree
    BY <1>10 DEF Overrun, vars
  <2>2. pc' = pc /\ command' = command /\ text' = text /\ index' = index
    BY <1>10 DEF Overrun, vars
  <2>3. Listing(index)' = Listing(index) /\ Listing(SHOWN)' = Listing(SHOWN)
        /\ Listing(MAX_FILES)' = Listing(MAX_FILES) /\ boot' = boot
    <3>1. Files' = Files /\ (Mounted' <=> Mounted) /\ boot' = boot
      BY <2>1, SameTree
    <3> QED  BY <2>2, <3>1 DEF Listing, First
  <2> QED  BY <2>2, <2>3 DEF ListInv, FilesAreListed
<1> QED
  BY <1>1, <1>2, <1>3, <1>4, <1>5, <1>6, <1>7, <1>8, <1>9, <1>10 DEF Next

-----------------------------------------------------------------------------
LEMMA ShownInit ==
  ASSUME Init
  PROVE  ShownInv
BY DEF Init, ShownInv, FilesAreShown

(* Of the files cat can be given by name, it finds the right one.           *)
Findable(k) ==
  /\ k \in DOMAIN First(MAX_FILES)
  /\ Len(Files[k].name) < NAME
  /\ \A l \in DOMAIN Files : l # k => Cut(Files[l].name) # Files[k].name

LEMMA FindableFacts ==
  ASSUME TreeInv, pc # "boot", Mounted, NEW k, Findable(k)
  PROVE  /\ k \in 1 .. num_files
         /\ fs_finddir(Files[k].name) # NULL
         /\ \A l \in 1 .. num_files : Cut(Files[l].name) = Files[k].name => l = k
<1>1. num_files \in Nat /\ Len(Files) \in Nat /\ num_files <= Len(Files)
      /\ DOMAIN Files = 1 .. Len(Files)
  BY TreeFacts, FilesType
<1>2. k \in 1 .. num_files
  <2>1. num_files <= MAX_FILES /\ MAX_FILES \in Nat
    BY TreeFacts, Sizes
  <2>2. num_files = IF Len(Files) <= MAX_FILES THEN Len(Files) ELSE MAX_FILES
    <3>1. num_files = Min({Len(Files), MAX_FILES})
      BY DEF TreeInv
    <3> QED  BY <1>1, <2>1, <3>1, MinOfTwo
  <2>3. PICK c : c = Min({MAX_FILES, MAX_FILES, Len(Files)})
    OBVIOUS
  <2>4. c \in {MAX_FILES, Len(Files)} /\ c <= MAX_FILES /\ c <= Len(Files)
    BY <1>1, <2>1, <2>3, MinOfThree
  <2>5. c = num_files
    <3>1. PICK a \in Nat : a = Len(Files)
      BY <1>1
    <3>2. PICK b \in Nat : b = MAX_FILES
      BY <2>1
    <3>3. (c = a \/ c = b) /\ c <= a /\ c <= b /\ c \in Nat
      BY <2>4, <3>1, <3>2
    <3>4. num_files = IF a <= b THEN a ELSE b
      BY <2>2, <3>1, <3>2
    <3> QED  BY <3>3, <3>4
  <2>6. First(MAX_FILES) = SubSeq(Files, 1, num_files)
    BY <2>3, <2>5 DEF First
  <2>7. DOMAIN SubSeq(Files, 1, num_files) = 1 .. num_files
    <3>1. \A i \in 1 .. num_files : Files[i] \in File
      BY <1>1, TreeFacts, FilesType, ElementOfSeq
    <3>2. /\ SubSeq(Files, 1, num_files) \in Seq(File)
          /\ Len(SubSeq(Files, 1, num_files)) = IF 1 <= num_files THEN num_files - 1 + 1 ELSE 0
      BY <1>1, <3>1, SubSeqProperties
    <3>3. Len(SubSeq(Files, 1, num_files)) = num_files
      BY <1>1, <3>2
    <3> QED  BY <3>2, <3>3, LenProperties
  <2> QED  BY <2>6, <2>7 DEF Findable
<1>3. Files[k].name \in Text
  BY <1>2, TreeFacts, FilesType
<1>4. Cut(Files[k].name) = Files[k].name
  BY <1>3, CutType DEF Findable
<1>5. fs_finddir(Files[k].name) # NULL
  BY <1>2, <1>4, FoundFacts
<1>6. ASSUME NEW l \in 1 .. num_files, Cut(Files[l].name) = Files[k].name PROVE l = k
  <2>1. l \in DOMAIN Files
    BY <1>1
  <2> QED  BY <1>6, <2>1 DEF Findable
<1> QED  BY <1>2, <1>5, <1>6

Clean(k) == \A b \in 1 .. Len(Files[k].data) : Files[k].data[b] # NUL

LEMMA ShownStep ==
  ASSUME TreeInv, TreeInv', ScalarInv, ScalarInv', ListInv, ListInv', ShownInv, [Next]_vars
  PROVE  ShownInv'
<1>0. num_files \in Nat /\ offset \in Nat /\ sz \in Nat
  BY Sizes, TreeFacts DEF ScalarInv
<1>1. ASSUME pc' # "cat", pc' = "shell" => command' = <<"boot">> \/ command' = <<"ls">>
      PROVE  ShownInv'
  BY <1>1, Commands DEF ShownInv, FilesAreShown
<1>2. CASE initrd_initialize \/ List \/ Entry
  <2>1. pc' # "cat" /\ pc' # "shell"
    BY <1>2 DEF initrd_initialize, List, Entry
  <2> QED  BY <1>1, <2>1
<1>3. CASE NoModule
  <2>1. pc = "boot" /\ pc' = "shell" /\ command' = command
    BY <1>3 DEF NoModule
  <2>2. command = <<"boot">>
    BY <2>1 DEF ListInv
  <2> QED  BY <1>1, <2>1, <2>2
<1>4. CASE Hello
  <2>1. pc = "mounted" /\ pc' \in {"shell", "overrun"} /\ command' = command
    BY <1>4 DEF Hello
  <2>2. command = <<"boot">>
    BY <2>1 DEF ListInv
  <2> QED  BY <1>1, <2>1, <2>2
<1>5. CASE ls
  <2>1. command' = <<"ls">> /\ pc' # "cat"
    BY <1>5 DEF ls, Call, NotMounted
  <2> QED  BY <1>1, <2>1
<1>6. CASE EndOfDirectory
  <2>1. pc = "ls" /\ pc' = "shell" /\ command' = command
    BY <1>6 DEF EndOfDirectory
  <2>2. command = <<"ls">>
    BY <2>1 DEF ListInv
  <2> QED  BY <1>1, <2>1, <2>2
<1>7. ASSUME NEW name \in Names, cat(name) PROVE ShownInv'
  <2>1. tree' = tree /\ pc = "shell" /\ command' = <<"cat", name>>
    BY <1>7 DEF cat, Call
  <2>2. Files' = Files /\ (Mounted' <=> Mounted) /\ rootfs' = rootfs
    BY <2>1, SameTree
  <2>3. CASE fs_finddir(name) # NULL /\ pc' = "cat" /\ text' = <<>>
             /\ fsnode' = fs_finddir(name) /\ offset' = 0
    <3>1. Cut(Files[fsnode'].name) = name /\ fsnode' \in 1 .. num_files
      BY <2>3, FoundFacts
    <3>2. FlattenSeq(text') = <<>>
      BY <2>3, EmptySeq DEF FlattenSeq
    <3>3. SubSeq(Files[fsnode'].data, 1, 0) = <<>>
      BY SubSeqEmpty
    <3> QED  BY <2>1, <2>2, <2>3, <3>1, <3>2, <3>3 DEF ShownInv, FilesAreShown
  <2>4. CASE pc' = "shell" /\ (~fs_root \/ fs_finddir(name) = NULL)
    <3>1. SUFFICES FilesAreShown'
      BY <2>4 DEF ShownInv
    <3>2. ASSUME Mounted, NEW k, Findable(k), <<"cat", name>> = <<"cat", Files[k].name>>
          PROVE  FALSE
      <4>1. name = Files[k].name
        BY <3>2
      <4>2. fs_finddir(name) # NULL
        BY <2>1, <3>2, <4>1, FindableFacts
      <4>3. fs_root
        BY <2>1, <3>2 DEF TreeInv, Mounted
      <4> QED  BY <2>4, <4>2, <4>3
    <3>3. \A k : Findable(k)' <=> Findable(k)
      BY <2>2 DEF Findable, First
    <3>4. \A k \in DOMAIN First(MAX_FILES)' :
             Mounted' /\ command' = <<"cat", Files'[k].name>> => ~Findable(k)'
      BY <2>1, <2>2, <3>2, <3>3
    <3> QED  BY <3>4 DEF FilesAreShown, Findable
  <2> QED  BY <1>7, <2>1, <2>3, <2>4 DEF cat, NotMounted
<1>8. CASE Chunk
  <2>1. /\ tree' = tree /\ UNCHANGED <<command, fsnode>> /\ pc = "cat" /\ sz > 0
    BY <1>8 DEF Chunk
  <2>2. Files' = Files /\ (Mounted' <=> Mounted)
    BY <2>1, SameTree
  <2>3. PICK size : size = ReadSize(sz)
    OBVIOUS
  <2>4. size \in Nat /\ size > 0 /\ size <= sz
    BY <1>0, <2>1, <2>3, Sizes DEF ReadSize
  <2>5. fsnode \in 1 .. num_files /\ Len(Files[fsnode].data) = offset + sz
    BY <1>0, <2>1 DEF ScalarInv
  <2>6. offset + size <= Len(Files[fsnode].data)
    BY <1>0, <2>4, <2>5
  <2>7. PICK bytes : bytes = initrd_read(initrd_nodes[fsnode], offset, size)
    OBVIOUS
  <2>8. PICK t \in Text : t = Files[fsnode].data
    BY <2>5, TreeFacts, FilesType
  <2>9. /\ bytes = SubSeq(t, offset + 1, offset + size)
        /\ bytes \in Text /\ Len(bytes) = size
        /\ \A j \in 1 .. size : bytes[j] = t[offset + j]
    <3>1. TreeInv /\ fsnode \in 1 .. num_files /\ offset \in Nat
      BY <1>0, <2>5
    <3>2. /\ initrd_read(initrd_nodes[fsnode], offset, size) =
               SubSeq(Files[fsnode].data, offset + 1, offset + size)
          /\ initrd_read(initrd_nodes[fsnode], offset, size) \in Text
          /\ Len(initrd_read(initrd_nodes[fsnode], offset, size)) = size
          /\ \A j \in 1 .. size :
               initrd_read(initrd_nodes[fsnode], offset, size)[j] = Files[fsnode].data[offset + j]
      BY <2>4, <2>6, <3>1, ReadFacts
    <3> QED  BY <2>7, <2>8, <3>2
  <2>10. bytes # <<>>
    <3>1. SUFFICES ASSUME bytes = <<>> PROVE FALSE
      OBVIOUS
    <3>2. Len(bytes) = 0
      BY <3>1
    <3>3. Len(bytes) = size
      BY <2>9
    <3> QED  BY <2>4, <3>2, <3>3
  <2>11. text' = Append(text, String(bytes)) /\ offset' = offset + size /\ pc' = "cat"
    BY <1>8, <2>1, <2>3, <2>7, <2>9, <2>10 DEF Chunk
  <2>12. ASSUME Clean(fsnode) PROVE FlattenSeq(text') = SubSeq(t, 1, offset + size)
    <3>1. FlattenSeq(text) = SubSeq(t, 1, offset)
      BY <2>1, <2>8, <2>12 DEF ShownInv, Clean
    <3>2. \A j \in 1 .. Len(bytes) : bytes[j] # NUL
      <4> SUFFICES ASSUME NEW j \in 1 .. size PROVE bytes[j] # NUL
        BY <2>9
      <4>1. PICK l \in 1 .. Len(t) : l = offset + j
        BY <1>0, <2>4, <2>6, <2>8
      <4> QED  BY <2>8, <2>9, <2>12, <4>1 DEF Clean
    <3>3. String(bytes) = bytes
      BY <2>9, <3>2, StringWithoutNul
    <3>4. FlattenSeq(text') = FlattenSeq(text) \o bytes
      BY <2>9, <2>11, <3>3, FlattenAppend DEF ScalarInv
    <3>5. PICK m \in Nat : m = offset + size
      BY <1>0, <2>4
    <3>6. SubSeq(t, 1, offset) \o SubSeq(t, offset + 1, m) = SubSeq(t, 1, m)
      <4>1. Len(t) \in Nat /\ m <= Len(t) /\ offset <= m
        BY <1>0, <2>4, <2>6, <2>8, <3>5, LenProperties DEF Text
      <4>2. 1 \in 1 .. Len(t) + 1 /\ offset \in 1 - 1 .. Len(t) /\ m \in offset .. Len(t)
        BY <1>0, <3>5, <4>1
      <4> QED  BY <4>2, ConcatAdjacentSubSeq DEF Text
    <3> QED  BY <2>9, <3>1, <3>4, <3>5, <3>6
  <2>13. command = <<"cat", Cut(Files[fsnode].name)>>
    BY <2>1 DEF ShownInv
  <2> QED  BY <2>1, <2>2, <2>8, <2>11, <2>12, <2>13 DEF ShownInv, FilesAreShown, Clean
<1>9. CASE EndOfFile
  <2>1. /\ tree' = tree /\ UNCHANGED <<command, fsnode, text>> /\ pc = "cat" /\ sz = 0
        /\ pc' = "shell"
    BY <1>9 DEF EndOfFile, catVars
  <2>2. Files' = Files /\ (Mounted' <=> Mounted)
    BY <2>1, SameTree
  <2>3. fsnode \in 1 .. num_files /\ Len(Files[fsnode].data) = offset
    BY <1>0, <2>1 DEF ScalarInv
  <2>4. command = <<"cat", Cut(Files[fsnode].name)>>
    BY <2>1 DEF ShownInv
  <2>5. PICK t \in Text : t = Files[fsnode].data
    BY <2>3, TreeFacts, FilesType
  <2>6. ASSUME Mounted, NEW k, Findable(k), command = <<"cat", Files[k].name>>,
               \A b \in DOMAIN Files[k].data : Files[k].data[b] # NUL
        PROVE  FlattenSeq(text) = Files[k].data
    <3>1. Cut(Files[fsnode].name) = Files[k].name
      BY <2>4, <2>6
    <3>2. fsnode = k
      BY <2>1, <2>3, <2>6, <3>1, FindableFacts
    <3>3. Clean(fsnode)
      BY <2>5, <2>6, <3>2, LenProperties DEF Clean, Text
    <3>4. FlattenSeq(text) = SubSeq(t, 1, offset)
      BY <2>1, <2>5, <3>3 DEF ShownInv, Clean
    <3>5. SubSeq(t, 1, Len(t)) = t
      BY SubSeqFull DEF Text
    <3> QED  BY <2>3, <2>5, <3>2, <3>4, <3>5
  <2>7. \A k : Findable(k)' <=> Findable(k)
    BY <2>2 DEF Findable, First
  <2>8. FilesAreShown'
    BY <2>1, <2>2, <2>6, <2>7 DEF FilesAreShown, Findable
  <2> QED  BY <2>1, <2>8 DEF ShownInv
<1>10. CASE Overrun \/ UNCHANGED vars
  <2>1. tree' = tree
    BY <1>10 DEF Overrun, vars
  <2>2. UNCHANGED <<pc, command, text, fsnode, offset>>
    BY <1>10 DEF Overrun, vars, catVars
  <2>3. Files' = Files /\ (Mounted' <=> Mounted)
    BY <2>1, SameTree
  <2> QED  BY <2>2, <2>3 DEF ShownInv, FilesAreShown, First
<1> QED
  BY <1>2, <1>3, <1>4, <1>5, <1>6, <1>7, <1>8, <1>9, <1>10 DEF Next

-----------------------------------------------------------------------------
LEMMA Invariants == Spec => [](TreeInv /\ ScalarInv /\ ListInv /\ ShownInv)
<1>1. Init => TreeInv /\ ScalarInv /\ ListInv /\ ShownInv
  BY TreeInit, ScalarInit, ListInit, ShownInit
<1>2. TreeInv /\ ScalarInv /\ ListInv /\ ShownInv /\ [Next]_vars
        => (TreeInv /\ ScalarInv /\ ListInv /\ ShownInv)'
  BY TreeStep, ScalarStep, ListStep, ShownStep
<1> QED  BY <1>1, <1>2, PTL DEF Spec

(* The nodes, the state of cat and the texts have their types, and the      *)
(* buffer of cat keeps a byte for the NUL, for every directory, image, name *)
(* and chunk size (shell.c:64-105, initrd.c:62-71).  Of kernel_main's       *)
(* buffer nothing of the kind is true.                                      *)
THEOREM TypeCorrect == Spec => []TypeOK
<1>1. TreeInv /\ ScalarInv => TypeOK
  BY TypeImplied
<1> QED  BY <1>1, Invariants, PTL

(* A read of fs_read gives the part of the file that was asked for, as it   *)
(* was in the directory, and stays inside the file (initrd.c:23-32,         *)
(* mkfs.py:27-38).                                                          *)
THEOREM ReadCorrect == Spec => []ReadStaysInFile
<1>1. TreeInv => ReadStaysInFile
  BY ReadImplied
<1> QED  BY <1>1, Invariants, PTL

(* ls and kernel_main list the directory the image was made from            *)
(* (kernel.c:97-104, shell.c:64-78, initrd.c:34-43, 62-71).                 *)
THEOREM ListedCorrect == Spec => []FilesAreListed
<1>1. ListInv => FilesAreListed
  BY DEF ListInv
<1> QED  BY <1>1, Invariants, PTL

(* cat shows the file, put together from its chunks (shell.c:90-101,        *)
(* initrd.c:23-32, 45-53, mkfs.py:27-38).                                   *)
THEOREM ShownCorrect == Spec => []FilesAreShown
<1>1. ShownInv => FilesAreShown
  BY DEF ShownInv
<1> QED  BY <1>1, Invariants, PTL
=============================================================================
