---------------------------- MODULE ManifestProofs ----------------------------
(***************************************************************************)
(* For every size of the file and of its chunks, and whatever happened to  *)
(* the source: chunks tile the file, and a torn manifest does not load.    *)
(***************************************************************************)
EXTENDS Manifest, FiniteSetTheorems, SequenceTheorems, TLAPS

LEMMA MulMono ==
  ASSUME NEW a \in Int, NEW b \in Int, NEW c \in Nat, a <= b
  PROVE  a * c <= b * c
OBVIOUS

LEMMA DivBounds ==
  ASSUME NEW a \in Nat, NEW c \in Nat \ {0}
  PROVE  /\ a \div c \in Nat
         /\ (a \div c) * c <= a /\ a < (a \div c) * c + c
OBVIOUS

LEMMA DivMono ==
  ASSUME NEW a \in Nat, NEW b \in Nat, NEW c \in Nat \ {0}, a <= b
  PROVE  a \div c <= b \div c
<1>1. /\ a \div c \in Nat /\ b \div c \in Nat
      /\ (a \div c) * c <= a /\ b < (b \div c) * c + c
  BY DivBounds
<1> DEFINE x == a \div c  y == b \div c
<1>2. x \in Nat /\ y \in Nat /\ x * c <= a /\ b < y * c + c
  BY <1>1
<1> HIDE DEF x, y
<1>3. ASSUME y + 1 <= x PROVE FALSE
  <2>1. (y + 1) * c <= x * c
    BY <1>2, <1>3, MulMono
  <2>2. (y + 1) * c = y * c + c
    BY <1>2
  <2>3. x * c \in Int /\ y * c \in Int
    BY <1>2
  <2> QED  BY <1>2, <2>1, <2>2, <2>3
<1>4. x <= y
  BY <1>2, <1>3
<1> QED  BY <1>4 DEF x, y

-----------------------------------------------------------------------------
(* The layout.                                                             *)

\* Byte b is in chunk i if i is the quotient of b - 1, and in no other.
LEMMA OneQuotient ==
  ASSUME NEW b \in Nat \ {0}, NEW c \in Nat \ {0}, NEW i \in Nat,
         i * c < b, b <= i * c + c
  PROVE  i = (b - 1) \div c
<1> DEFINE q == (b - 1) \div c
<1>1. q \in Nat /\ q * c <= b - 1 /\ b - 1 < q * c + c
  BY DivBounds
<1> HIDE DEF q
<1>2. i * c \in Int /\ q * c \in Int /\ (i + 1) * c = i * c + c /\ (q + 1) * c = q * c + c
  BY <1>1
<1>3. ASSUME i + 1 <= q PROVE FALSE
  <2>1. (i + 1) * c <= q * c
    BY <1>1, <1>3, MulMono
  <2> QED  BY <1>1, <1>2, <2>1
<1>4. ASSUME q + 1 <= i PROVE FALSE
  <2>1. (q + 1) * c <= i * c
    BY <1>1, <1>4, MulMono
  <2> QED  BY <1>1, <1>2, <2>1
<1>5. i = q
  BY <1>1, <1>3, <1>4
<1> QED  BY <1>5 DEF q

Fits(m) ==
  /\ m.file_size \in Nat /\ m.chunk_size \in Nat \ {0}
  /\ Len(m.chunk_hashes) = expected_chunk_count(m.file_size, m.chunk_size)

LEMMA ChunkBytes ==
  ASSUME NEW m, Fits(m), NEW i \in Indices(m)
  PROVE  /\ i \in Nat /\ i * m.chunk_size \in Nat
         /\ \A b \in Int : b \in Bytes(m, i) <=>
              i * m.chunk_size < b /\ b <= i * m.chunk_size + m.chunk_size /\ b <= m.file_size
<1> DEFINE s == m.file_size  c == m.chunk_size  n == Len(m.chunk_hashes)
<1>1. s \in Nat /\ c \in Nat \ {0} /\ n = expected_chunk_count(s, c)
  BY DEF Fits
<1>2. n \in Int
  <2>1. CASE s = 0
    BY <2>1, <1>1 DEF expected_chunk_count
  <2>2. CASE s # 0
    <3>1. (s - 1) \div c \in Nat
      BY <1>1, <2>2, DivBounds
    <3> QED  BY <1>1, <2>2, <3>1 DEF expected_chunk_count
  <2> QED  BY <2>1, <2>2
<1>3. i \in Nat /\ i <= n - 1
  BY <1>2 DEF Indices
<1>4. i * c \in Nat
  BY <1>1, <1>3
<1>5. Bytes(m, i) = i * c + 1 .. i * c + (IF s - i * c < c THEN s - i * c ELSE c)
  BY DEF Bytes, ChunkOffset, ChunkSize
<1> HIDE DEF s, c, n
<1>6. \A b \in Int : b \in Bytes(m, i) <=> i * c < b /\ b <= i * c + c /\ b <= s
  <2> DEFINE o == i * c
  <2>1. o \in Nat /\ Bytes(m, i) = o + 1 .. o + (IF s - o < c THEN s - o ELSE c)
    BY <1>4, <1>5
  <2> HIDE DEF o
  <2>2. \A b \in Int : b \in Bytes(m, i) <=> o < b /\ b <= o + c /\ b <= s
    BY <1>1, <2>1
  <2> QED  BY <2>2 DEF o
<1> QED  BY <1>3, <1>4, <1>6 DEF s, c

LEMMA Tiles ==
  ASSUME NEW m, Fits(m)
  PROVE  /\ \A i \in Indices(m) : Bytes(m, i) \subseteq 1 .. m.file_size
         /\ \A b \in 1 .. m.file_size :
              Cardinality({i \in Indices(m) : b \in Bytes(m, i)}) = 1
<1>1. m.file_size \in Nat /\ m.chunk_size \in Nat \ {0}
  BY DEF Fits
<1>2. ASSUME NEW i \in Indices(m) PROVE Bytes(m, i) \subseteq 1 .. m.file_size
  <2>1. Bytes(m, i) \subseteq Int
    <3>1. i * m.chunk_size \in Nat
      BY <1>2, ChunkBytes
    <3> QED  BY <1>1, <3>1 DEF Bytes, ChunkOffset, ChunkSize
  <2>2. ASSUME NEW b \in Bytes(m, i) PROVE b \in 1 .. m.file_size
    <3>1. b \in Int /\ i * m.chunk_size \in Nat /\ i * m.chunk_size < b /\ b <= m.file_size
      BY <2>1, <2>2, <1>2, ChunkBytes
    <3> QED  BY <1>1, <3>1
  <2> QED  BY <2>2
<1>3. ASSUME NEW b \in 1 .. m.file_size
      PROVE  Cardinality({i \in Indices(m) : b \in Bytes(m, i)}) = 1
  <2> DEFINE q == (b - 1) \div m.chunk_size
  <2>1. b \in Nat \ {0} /\ b <= m.file_size /\ b - 1 \in Nat
    BY <1>1
  <2>2. q \in Nat /\ q * m.chunk_size <= b - 1 /\ b - 1 < q * m.chunk_size + m.chunk_size
    BY <1>1, <2>1, DivBounds
  <2>3. Len(m.chunk_hashes) = ((m.file_size - 1) \div m.chunk_size) + 1
    BY <1>1, <2>1 DEF Fits, expected_chunk_count
  <2>4. q <= (m.file_size - 1) \div m.chunk_size
    BY <1>1, <2>1, DivMono
  <2>5. (m.file_size - 1) \div m.chunk_size \in Nat
    BY <1>1, <2>1, DivBounds
  <2> HIDE DEF q
  <2>6. q \in Indices(m)
    BY <2>2, <2>3, <2>4, <2>5 DEF Indices
  <2>7. b \in Bytes(m, q)
    <3>1. q * m.chunk_size \in Int
      BY <1>1, <2>2
    <3>2. q * m.chunk_size < b /\ b <= q * m.chunk_size + m.chunk_size
      BY <1>1, <2>1, <2>2, <3>1
    <3> QED  BY <2>1, <2>6, <3>2, ChunkBytes
  <2>8. ASSUME NEW i \in Indices(m), b \in Bytes(m, i) PROVE i = q
    <3>1. i \in Nat /\ i * m.chunk_size < b /\ b <= i * m.chunk_size + m.chunk_size
      BY <2>1, <2>8, ChunkBytes
    <3> QED  BY <1>1, <2>1, <3>1, OneQuotient DEF q
  <2>9. {i \in Indices(m) : b \in Bytes(m, i)} = {q}
    BY <2>6, <2>7, <2>8
  <2> QED  BY <2>9, FS_Singleton, Zenon
<1> QED  BY <1>2, <1>3

-----------------------------------------------------------------------------
(* What is made has this layout.                                           *)

\* Between TakeSize and Validate nothing touches the two sizes, however the source
\* is edited; Validate compares their count with the digests.
LayoutInv ==
  /\ source \in Seq(Nat)
  /\ DOMAIN manifest = DOMAIN NoManifest
  /\ pc \in {"Hash", "Read", "Validate"} =>
       manifest.file_size \in Nat /\ manifest.chunk_size \in Nat \ {0}
  /\ Made => Fits(manifest)

LEMMA EditedSource ==
  ASSUME source \in Seq(Nat), Edit
  PROVE  source' \in Seq(Nat)
<1>1. ASSUME NEW i \in DOMAIN source, source' = [source EXCEPT ![i] = 0] PROVE source' \in Seq(Nat)
  BY <1>1
<1>2. ASSUME NEW n \in 0 .. Len(source) - 1, source' = SubSeq(source, 1, n) PROVE source' \in Seq(Nat)
  BY <1>2
<1>3. ASSUME source' = Append(source, 0) PROVE source' \in Seq(Nat)
  BY <1>3
<1> QED  BY <1>1, <1>2, <1>3 DEF Edit

LEMMA LayoutStep == LayoutInv /\ [Next]_vars => LayoutInv'
<1> SUFFICES ASSUME LayoutInv, [Next]_vars PROVE LayoutInv'
  OBVIOUS
<1> USE DEF LayoutInv
<1>1. ASSUME TakeSize PROVE LayoutInv'
  <2>1. CASE pc' = "Threw" /\ UNCHANGED manifest
    BY <1>1, <2>1 DEF TakeSize, Made
  <2>2. CASE /\ pc' = "Hash" /\ chunk_size \in 1 .. MaxChunkSize
             /\ manifest' = [manifest EXCEPT !.file_size = Len(source), !.chunk_size = chunk_size]
    <3>1. {"file_size", "chunk_size"} \subseteq DOMAIN manifest
      BY DEF NoManifest
    <3>2. manifest'.file_size = Len(source) /\ manifest'.chunk_size = chunk_size
      BY <2>2, <3>1
    <3>3. Len(source) \in Nat /\ chunk_size \in Nat \ {0}
      BY <2>2, ManifestAssumption
    <3>4. source' = source /\ DOMAIN manifest' = DOMAIN manifest
      BY <1>1, <2>2 DEF TakeSize
    <3> QED  BY <2>2, <3>2, <3>3, <3>4 DEF Made
  <2> QED  BY <1>1, <2>1, <2>2 DEF TakeSize
<1>2. ASSUME HashFile PROVE LayoutInv'
  BY <1>2 DEF HashFile, Made, NoManifest
<1>3. ASSUME ReadChunk PROVE LayoutInv'
  BY <1>3 DEF ReadChunk, Made, NoManifest
<1>4. ASSUME Validate PROVE LayoutInv'
  BY <1>4 DEF Validate, Made, Valid, Fits
<1>5. ASSUME OpenTruncated \/ WriteManifest \/ WriteFails \/ Kill PROVE LayoutInv'
  BY <1>5 DEF OpenTruncated, WriteManifest, WriteFails, Kill, Made, Fits
<1>6. ASSUME Edit PROVE LayoutInv'
  <2>1. source' \in Seq(Nat)
    BY <1>6, EditedSource
  <2>2. UNCHANGED <<pc, manifest>> /\ ~Made
    BY <1>6 DEF Edit, Made
  <2> QED  BY <2>1, <2>2 DEF Made
<1>7. CASE UNCHANGED vars
  BY <1>7 DEF vars, Made, Fits
<1> QED  BY <1>1, <1>2, <1>3, <1>4, <1>5, <1>6, <1>7 DEF Next

\* The chunks of every manifest that from_file makes cover every byte of the file
\* once and none beyond it, for all sizes and whatever happened to the source.
THEOREM TilingSafety == Spec => []ChunksTileFile
<1>1. Init => LayoutInv
  <2> SUFFICES ASSUME Init PROVE LayoutInv
    OBVIOUS
  <2>1. PICK n \in 0 .. MaxSize : source = [i \in 1 .. n |-> i]
    BY DEF Init
  <2>2. source \in Seq(Nat)
    BY <2>1, ManifestAssumption
  <2> QED  BY <2>2 DEF Init, LayoutInv, Made
<1>2. LayoutInv => ChunksTileFile
  BY Tiles DEF LayoutInv, ChunksTileFile
<1> QED  BY <1>1, <1>2, LayoutStep, PTL DEF Spec

-----------------------------------------------------------------------------
(* The read loop of from_file takes the digests of these chunks.           *)

LEMMA MinPair ==
  ASSUME NEW a \in Int, NEW b \in Int
  PROVE  Min({a, b}) = IF a <= b THEN a ELSE b
<1> DEFINE P(x) == x \in {a, b} /\ \A y \in {a, b} : x <= y
<1>1. \A x : P(x) <=> x = (IF a <= b THEN a ELSE b)
  OBVIOUS
<1>2. Min({a, b}) = CHOOSE x : P(x)
  BY DEF Min
<1> HIDE DEF P
<1> QED  BY <1>1, <1>2

\* The count that validate() expects is the one number of chunks that reaches the
\* end of the file and no further.
LEMMA CountOfLast ==
  ASSUME NEW size \in Nat \ {0}, NEW c \in Nat \ {0}, NEW n \in Nat,
         n * c < size, size <= n * c + c
  PROVE  expected_chunk_count(size, c) = n + 1
BY OneQuotient DEF expected_chunk_count

LEMMA CountOfFull ==
  ASSUME NEW c \in Nat \ {0}, NEW n \in Nat
  PROVE  n * c \in Nat /\ expected_chunk_count(n * c, c) = n
<1>1. CASE n = 0
  BY <1>1 DEF expected_chunk_count
<1>2. CASE n # 0
  <2>1. n - 1 \in Nat /\ (n - 1) * c + c = n * c /\ (n - 1) * c \in Nat /\ n * c \in Nat
    BY <1>2
  <2>2. n * c # 0 /\ (n - 1) * c < n * c /\ n * c <= (n - 1) * c + c
    BY <2>1
  <2>3. expected_chunk_count(n * c, c) = (n - 1) + 1
    BY <2>1, <2>2, CountOfLast
  <2> QED  BY <1>2, <2>1, <2>3
<1> QED  BY <1>1, <1>2

ManifestType == [file_name : {"file"}, file_size : Nat, chunk_size : Nat,
                 file_sha256 : Seq(Nat), chunk_hashes : Seq(Seq(Nat))]

Piece(i) == SubSeq(source, ChunkOffset(manifest, i) + 1,
                           ChunkOffset(manifest, i) + ChunkSize(manifest, i))

Sized == pc \in {"Hash", "Read", "Validate"} \/ Made

ReadTypes ==
  /\ source \in Seq(Nat) /\ edits \in Nat /\ position \in Nat /\ chunk_size \in Nat
  /\ manifest \in ManifestType

\* While nobody has edited the source the loop stands at the end of the chunks it
\* has read, and ends with as many as validate() expects.
ReadInv ==
  /\ ReadTypes
  /\ pc \in {"Size", "Hash"} => manifest.chunk_hashes = <<>> /\ position = 0
  /\ Sized => /\ chunk_size \in 1 .. MaxChunkSize /\ manifest.chunk_size = chunk_size
              /\ expected_chunk_count(manifest.file_size, chunk_size) <= MaxChunkCount
  /\ edits = 0 =>
       /\ Sized => manifest.file_size = Len(source)
       /\ pc = "Read" => /\ position = Len(manifest.chunk_hashes) * chunk_size
                         /\ position <= Len(source)
       /\ pc = "Validate" \/ Made =>
            Len(manifest.chunk_hashes) = expected_chunk_count(Len(source), chunk_size)
       /\ \A i \in 1 .. Len(manifest.chunk_hashes) : manifest.chunk_hashes[i] = Piece(i - 1)

\* What a round of the loop reads, wherever it stands and however long the source is.
LEMMA BlockType ==
  ASSUME ReadTypes
  PROVE  Block \in Seq(Nat) /\ Push \in Seq(Seq(Nat))
<1> DEFINE hi == Min({position + chunk_size, Len(source)})
<1>1. Len(source) \in Nat /\ position + chunk_size \in Nat
  BY DEF ReadTypes
<1>2. hi \in Nat /\ hi <= Len(source)
  BY <1>1, MinPair
<1> HIDE DEF hi
<1>3. SubSeq(source, position + 1, hi) \in Seq(Nat)
  BY <1>1, <1>2 DEF ReadTypes
<1>4. Block \in Seq(Nat)
  BY <1>3 DEF Block, hi
<1> QED  BY <1>4 DEF Push, ReadTypes, ManifestType

LEMMA BlockIsPiece ==
  ASSUME ReadInv, pc = "Read", edits = 0
  PROVE  LET k == Len(manifest.chunk_hashes)
             size == IF Len(source) - position < chunk_size THEN Len(source) - position ELSE chunk_size
         IN  Block = Piece(k) /\ Len(Block) = size
<1> DEFINE k == Len(manifest.chunk_hashes)
           L == Len(source)
           size == IF L - position < chunk_size THEN L - position ELSE chunk_size
<1>1. /\ k \in Nat /\ L \in Nat /\ position \in Nat /\ chunk_size \in Nat \ {0}
      /\ manifest.chunk_size = chunk_size /\ manifest.file_size = L
      /\ position = k * chunk_size /\ position <= L
  BY ManifestAssumption DEF ReadInv, ReadTypes, ManifestType, Sized
<1>2. Min({position + chunk_size, L}) = position + size
  <2>1. L \in Int /\ position \in Int /\ chunk_size \in Int /\ position + chunk_size \in Int
    BY <1>1
  <2> HIDE DEF L
  <2>2. Min({position + chunk_size, L}) = IF position + chunk_size <= L THEN position + chunk_size ELSE L
    BY <2>1, MinPair
  <2> QED  BY <2>1, <2>2
<1>3. Block = SubSeq(source, position + 1, position + size)
  BY <1>2 DEF Block
<1>4. ChunkOffset(manifest, k) = position /\ ChunkSize(manifest, k) = size
  BY <1>1 DEF ChunkOffset, ChunkSize
<1>5. size \in Nat /\ position + size <= L
  <2>1. L \in Nat /\ position \in Nat /\ chunk_size \in Nat /\ position <= L
    BY <1>1
  <2> HIDE DEF L
  <2> QED  BY <2>1
<1> HIDE DEF size
<1>6. Len(SubSeq(source, position + 1, position + size)) = size
  BY <1>1, <1>5 DEF ReadInv, ReadTypes
<1> QED  BY <1>3, <1>4, <1>6 DEF Piece, size

\* The one step that depends on where the loop stands.
LEMMA ReadChunkStep ==
  ASSUME ReadInv, ReadChunk
  PROVE  ReadInv'
<1> DEFINE k == Len(manifest.chunk_hashes)
           L == Len(source)
           new == manifest'.chunk_hashes
<1>1. /\ manifest \in ManifestType /\ pc = "Read" /\ k \in Nat /\ L \in Nat
      /\ chunk_size \in Nat \ {0} /\ chunk_size \in 1 .. MaxChunkSize
      /\ source \in Seq(Nat) /\ edits \in Nat /\ position \in Nat
      /\ UNCHANGED <<source, edits, chunk_size>>
  BY ManifestAssumption DEF ReadInv, ReadTypes, ManifestType, Sized, ReadChunk
<1>2. /\ manifest' \in ManifestType /\ new = Push
      /\ manifest'.file_size = manifest.file_size /\ manifest'.chunk_size = manifest.chunk_size
  BY <1>1, BlockType DEF ReadInv, ReadChunk, ManifestType
<1>3. Block \in Seq(Nat) /\ Len(Block) \in Nat /\ position' = position + Len(Block)
  BY BlockType DEF ReadInv, ReadChunk
<1>4. ReadTypes'
  BY <1>1, <1>2, <1>3 DEF ReadTypes
<1>5. pc' \in {"Read", "Validate"} /\ ~Made'
  BY DEF ReadChunk, Made
<1>6. ASSUME edits = 0
      PROVE  /\ manifest'.file_size = Len(source')
             /\ pc' = "Read" => position' = Len(new) * chunk_size' /\ position' <= Len(source')
             /\ pc' = "Validate" => Len(new) = expected_chunk_count(Len(source'), chunk_size')
             /\ \A i \in 1 .. Len(new) : new[i] = Piece(i - 1)'
  <2>1. /\ manifest.file_size = L /\ position = k * chunk_size /\ position <= L
        /\ \A i \in 1 .. k : manifest.chunk_hashes[i] = Piece(i - 1)
    BY <1>1, <1>6 DEF ReadInv, Sized
  <2>2. /\ Block = Piece(k)
        /\ Len(Block) = IF L - position < chunk_size THEN L - position ELSE chunk_size
    BY <1>1, <1>6, BlockIsPiece
  <2>3. \A i : Piece(i)' = Piece(i)
    BY <1>1, <1>2 DEF Piece, ChunkOffset, ChunkSize
  <2>4. CASE Block = <<>>
    <3>1. new = manifest.chunk_hashes
      BY <1>2, <2>4 DEF Push
    <3>2. Len(Block) = 0 /\ position = L
      BY <1>1, <2>1, <2>2, <2>4
    <3>3. pc' = "Validate"
      BY <1>1, <3>2 DEF ReadChunk
    <3>4. expected_chunk_count(L, chunk_size) = k
      BY <1>1, <2>1, <3>2, CountOfFull
    <3> QED  BY <1>1, <1>2, <2>1, <2>3, <3>1, <3>3, <3>4
  <2>5. CASE Block # <<>>
    <3>1. new = Append(manifest.chunk_hashes, Block)
      BY <1>2, <2>5 DEF Push
    <3>2. Len(new) = k + 1 /\ new[k + 1] = Block /\ \A i \in 1 .. k : new[i] = manifest.chunk_hashes[i]
      BY <1>1, <1>3, <3>1 DEF ManifestType
    <3>3. \A i \in 1 .. Len(new) : new[i] = Piece(i - 1)'
      <4> TAKE i \in 1 .. Len(new)
      <4>1. CASE i = k + 1
        BY <1>1, <2>2, <2>3, <3>2, <4>1
      <4>2. CASE i # k + 1
        <5>1. i \in 1 .. k
          BY <1>1, <3>2, <4>2
        <5> QED  BY <2>1, <2>3, <3>2, <5>1
      <4> QED  BY <4>1, <4>2
    <3>4. (k + 1) * chunk_size = position + chunk_size
      BY <1>1, <2>1
    <3>5. Len(Block) # 0
      BY <1>3, <2>5
    <3>6. CASE Len(Block) < chunk_size
      <4>1. position < L /\ L <= position + chunk_size
        BY <1>1, <2>1, <2>2, <3>5, <3>6
      <4>2. L \in Nat \ {0}
        BY <1>1, <4>1
      <4>3. expected_chunk_count(L, chunk_size) = k + 1
        BY <1>1, <2>1, <4>1, <4>2, CountOfLast
      <4>4. pc' = "Validate"
        BY <3>6 DEF ReadChunk
      <4> QED  BY <1>1, <1>2, <2>1, <3>2, <3>3, <4>3, <4>4
    <3>7. CASE ~(Len(Block) < chunk_size)
      <4>1. Len(Block) = chunk_size /\ position + chunk_size <= L
        BY <1>1, <2>1, <2>2, <3>7
      <4>2. pc' = "Read"
        BY <3>7 DEF ReadChunk
      <4>3. position' = Len(new) * chunk_size /\ position' <= L
        BY <1>3, <3>2, <3>4, <4>1
      <4> QED  BY <1>1, <1>2, <2>1, <3>3, <4>2, <4>3
    <3> QED  BY <3>6, <3>7
  <2> QED  BY <2>4, <2>5
<1>7. /\ chunk_size' \in 1 .. MaxChunkSize /\ manifest'.chunk_size = chunk_size'
      /\ expected_chunk_count(manifest'.file_size, chunk_size') <= MaxChunkCount
  BY <1>1, <1>2 DEF ReadInv, Sized
<1> QED  BY <1>1, <1>4, <1>5, <1>6, <1>7 DEF ReadInv

LEMMA ReadStep == ReadInv /\ [Next]_vars => ReadInv'
<1> SUFFICES ASSUME ReadInv, [Next]_vars PROVE ReadInv'
  OBVIOUS
<1>1. ASSUME TakeSize PROVE ReadInv'
  <2>1. CASE pc' = "Threw" /\ UNCHANGED manifest
    BY <1>1, <2>1 DEF TakeSize, ReadInv, ReadTypes, Sized, Made, Piece
  <2>2. CASE /\ pc' = "Hash" /\ chunk_size \in 1 .. MaxChunkSize
             /\ expected_chunk_count(Len(source), chunk_size) <= MaxChunkCount
             /\ manifest' = [manifest EXCEPT !.file_size = Len(source), !.chunk_size = chunk_size]
    <3>1. pc = "Size" /\ UNCHANGED <<source, edits, chunk_size, position>> /\ position = 0
      BY <1>1 DEF TakeSize, ReadInv
    <3>2. /\ manifest' \in ManifestType /\ manifest'.file_size = Len(source)
          /\ manifest'.chunk_size = chunk_size /\ manifest'.chunk_hashes = <<>>
      <4>1. manifest \in ManifestType /\ manifest.chunk_hashes = <<>>
        BY <3>1 DEF ReadInv, ReadTypes
      <4>2. Len(source) \in Nat /\ chunk_size \in Nat
        BY DEF ReadInv, ReadTypes
      <4> QED  BY <2>2, <4>1, <4>2 DEF ManifestType
    <3>3. ReadTypes'
      BY <3>1, <3>2 DEF ReadInv, ReadTypes
    <3>4. \A i \in 1 .. Len(manifest'.chunk_hashes) : FALSE
      BY <3>2
    <3> QED  BY <2>2, <3>1, <3>2, <3>3, <3>4 DEF ReadInv, Sized, Made
  <2> QED  BY <1>1, <2>1, <2>2 DEF TakeSize
<1>2. ASSUME HashFile PROVE ReadInv'
  <2>1. /\ pc = "Hash" /\ pc' = "Read" /\ UNCHANGED <<source, edits, chunk_size, position>>
        /\ manifest.chunk_hashes = <<>> /\ position = 0
    BY <1>2 DEF HashFile, ReadInv
  <2>2. /\ manifest' \in ManifestType /\ manifest'.file_size = manifest.file_size
        /\ manifest'.chunk_size = manifest.chunk_size /\ manifest'.chunk_hashes = <<>>
    BY <1>2, <2>1 DEF HashFile, ReadInv, ReadTypes, ManifestType
  <2>3. ReadTypes'
    BY <2>1, <2>2 DEF ReadInv, ReadTypes
  <2>4. 0 = Len(manifest'.chunk_hashes) * chunk_size /\ 0 <= Len(source)
    <3>1. Len(manifest'.chunk_hashes) = 0 /\ chunk_size \in Nat /\ Len(source) \in Nat
      BY <2>2 DEF ReadInv, ReadTypes
    <3>2. 0 * chunk_size = 0
      BY <3>1
    <3> QED  BY <3>1, <3>2
  <2>5. \A i \in 1 .. Len(manifest'.chunk_hashes) : FALSE
    BY <2>2
  <2> QED  BY <2>1, <2>2, <2>3, <2>4, <2>5 DEF ReadInv, Sized, Made
<1>3. ASSUME ReadChunk PROVE ReadInv'
  BY <1>3, ReadChunkStep
<1>4. ASSUME Validate \/ OpenTruncated \/ WriteManifest \/ WriteFails \/ Kill PROVE ReadInv'
  <2>1. /\ UNCHANGED <<source, edits, chunk_size, position, manifest>>
        /\ pc = "Validate" \/ Made
    BY <1>4 DEF Validate, OpenTruncated, WriteManifest, WriteFails, Kill, Made
  <2>2. \A i : Piece(i)' = Piece(i)
    BY <2>1 DEF Piece
  <2>3. pc' \notin {"Size", "Hash", "Read"}
    BY <1>4 DEF Validate, OpenTruncated, WriteManifest, WriteFails, Kill
  <2>4. Sized /\ (pc = "Validate" \/ Made)
    BY <2>1 DEF Sized
  <2>5. ReadTypes'
    BY <2>1 DEF ReadInv, ReadTypes
  <2> QED  BY <2>1, <2>2, <2>3, <2>4, <2>5 DEF ReadInv
<1>5. ASSUME Edit PROVE ReadInv'
  <2>1. source' \in Seq(Nat)
    BY <1>5, EditedSource DEF ReadInv, ReadTypes
  <2>2. UNCHANGED <<pc, chunk_size, position, manifest>> /\ edits' \in Nat /\ edits' # 0
    BY <1>5 DEF Edit, ReadInv, ReadTypes
  <2> QED  BY <2>1, <2>2 DEF ReadInv, ReadTypes, Sized, Made
<1>6. CASE UNCHANGED vars
  BY <1>6 DEF vars, ReadInv, ReadTypes, Sized, Made, Piece
<1> QED  BY <1>1, <1>2, <1>3, <1>4, <1>5, <1>6 DEF Next

LEMMA InitRead == Init => ReadInv
<1> SUFFICES ASSUME Init PROVE ReadInv
  OBVIOUS
<1>1. PICK n \in 0 .. MaxSize : source = [i \in 1 .. n |-> i]
  BY DEF Init
<1>2. source \in Seq(Nat)
  BY <1>1, ManifestAssumption
<1>3. manifest \in ManifestType /\ manifest.chunk_hashes = <<>>
  BY DEF Init, NoManifest, ManifestType
<1>4. chunk_size \in Nat /\ edits \in Nat /\ position \in Nat
  BY ManifestAssumption DEF Init
<1>5. \A i \in 1 .. Len(manifest.chunk_hashes) : FALSE
  BY <1>3
<1>6. pc = "Size" /\ position = 0 /\ ~Sized /\ ~Made
  BY DEF Init, Sized, Made
<1> QED  BY <1>2, <1>3, <1>4, <1>5, <1>6 DEF ReadInv, ReadTypes

\* Every digest in a manifest is that of the bytes where chunk_offset() and
\* chunk_size() place its chunk, for all sizes, if nobody edited the source.
THEOREM DigestSafety == Spec => []DigestsAreOfChunks
<1>1. ASSUME ReadInv PROVE DigestsAreOfChunks
  <2> SUFFICES ASSUME Made, edits = 0, NEW i \in Indices(manifest)
               PROVE  manifest.chunk_hashes[i + 1] = Piece(i)
    BY DEF DigestsAreOfChunks, Piece
  <2>1. Len(manifest.chunk_hashes) \in Nat
    BY <1>1 DEF ReadInv, ReadTypes, ManifestType
  <2>2. i + 1 \in 1 .. Len(manifest.chunk_hashes) /\ (i + 1) - 1 = i
    BY <2>1 DEF Indices
  <2>3. manifest.chunk_hashes[i + 1] = Piece((i + 1) - 1)
    BY <1>1, <2>2 DEF ReadInv
  <2> QED  BY <2>2, <2>3
<1> QED  BY <1>1, InitRead, ReadStep, PTL DEF Spec

\* The read loop of from_file and validate() never disagree on the number of
\* chunks of a file that nobody edits, whatever its size.
THEOREM AgreementSafety == Spec => []RefusesOnlyForLimits
<1>1. ASSUME ReadInv PROVE RefusesOnlyForLimits
  <2> SUFFICES ASSUME pc = "Validate", edits = 0 PROVE Valid(manifest)
    BY DEF RefusesOnlyForLimits
  <2>1. manifest \in ManifestType /\ manifest.file_size = Len(source) /\ manifest.chunk_size = chunk_size
    BY <1>1 DEF ReadInv, ReadTypes, Sized
  <2>2. /\ chunk_size \in 1 .. MaxChunkSize
        /\ Len(manifest.chunk_hashes) = expected_chunk_count(manifest.file_size, chunk_size)
        /\ expected_chunk_count(manifest.file_size, chunk_size) <= MaxChunkCount
    BY <1>1, <2>1 DEF ReadInv, Sized
  <2>3. manifest.file_name # Bad /\ IsDigest(manifest.file_sha256)
    BY <2>1, ManifestAssumption DEF ManifestType, IsDigest
  <2>4. \A i \in DOMAIN manifest.chunk_hashes : IsDigest(manifest.chunk_hashes[i])
    BY <2>1, ManifestAssumption DEF ManifestType, IsDigest
  <2> QED  BY <2>1, <2>2, <2>3, <2>4 DEF Valid
<1> QED  BY <1>1, InitRead, ReadStep, PTL DEF Spec

-----------------------------------------------------------------------------
\* The lines of the manifest file.
HeaderLines(m) ==
  <<Line("magic", "V1"), Line("file_name", m.file_name), Line("file_size", m.file_size),
    Line("chunk_size", m.chunk_size), Line("file_sha256", m.file_sha256),
    Line("chunk_count", Len(m.chunk_hashes))>>
ChunkLine(m, i) == Line("chunk", [index |-> i - 1, hash |-> m.chunk_hashes[i]])
Lines(m) == ToSet(HeaderLines(m)) \cup {ChunkLine(m, i) : i \in 1 .. Len(m.chunk_hashes)}

LEMMA SixAndMore ==
  ASSUME NEW S, NEW header \in Seq(S), NEW tail \in Seq(S), Len(header) = 6
  PROVE  /\ header \o tail \in Seq(S)
         /\ Len(header \o tail) = Len(tail) + 6
         /\ \A i \in 1 .. 6 : (header \o tail)[i] = header[i]
         /\ \A i \in 1 .. Len(tail) : (header \o tail)[6 + i] = tail[i]
<1> DEFINE t == header \o tail
<1>1. /\ t \in Seq(S) /\ Len(t) = Len(header) + Len(tail)
      /\ \A i \in 1 .. Len(header) + Len(tail) : t[i] = IF i <= Len(header) THEN header[i] ELSE tail[i - Len(header)]
  BY ConcatProperties
<1>2. Len(tail) \in Nat
  OBVIOUS
<1> HIDE DEF t
<1>3. \A i \in 1 .. 6 : t[i] = header[i]
  BY <1>1, <1>2
<1>4. \A i \in 1 .. Len(tail) : t[6 + i] = tail[i]
  <2> SUFFICES ASSUME NEW i \in 1 .. Len(tail) PROVE t[6 + i] = tail[i]
    OBVIOUS
  <2>1. 6 + i \in 1 .. Len(header) + Len(tail) /\ ~(6 + i <= 6) /\ (6 + i) - 6 = i
    BY <1>2
  <2> QED  BY <1>1, <2>1
<1>5. t \in Seq(S) /\ Len(t) = Len(tail) + 6
  BY <1>1, <1>2
<1> QED  BY <1>3, <1>4, <1>5 DEF t

LEMMA SerializedLines ==
  ASSUME NEW m \in ManifestType
  PROVE  /\ Serialize(m) \in Seq(Lines(m))
         /\ Len(Serialize(m)) = Len(m.chunk_hashes) + 6
         /\ \A i \in 1 .. 6 : Serialize(m)[i] = HeaderLines(m)[i]
         /\ \A i \in 1 .. Len(m.chunk_hashes) : Serialize(m)[6 + i] = ChunkLine(m, i)
<1> DEFINE n == Len(m.chunk_hashes)
           tail == [i \in 1 .. n |-> ChunkLine(m, i)]
<1>1. n \in Nat /\ DOMAIN m.chunk_hashes = 1 .. n
  BY DEF ManifestType
<1>2. Serialize(m) = HeaderLines(m) \o tail
  BY <1>1 DEF Serialize, HeaderLines, ChunkLine
<1>3. tail \in Seq(Lines(m)) /\ Len(tail) = n
  BY <1>1 DEF Lines
<1>4. Len(HeaderLines(m)) = 6 /\ DOMAIN HeaderLines(m) = 1 .. 6
  BY DEF HeaderLines
<1>5. \A i \in 1 .. 6 : HeaderLines(m)[i] \in Lines(m)
  BY <1>4 DEF Lines, ToSet
<1>6. HeaderLines(m) \in Seq(Lines(m))
  <2>1. HeaderLines(m) = [i \in 1 .. 6 |-> HeaderLines(m)[i]]
    BY <1>4 DEF HeaderLines
  <2> QED  BY <1>5, <2>1
<1>7. \A i \in 1 .. n : tail[i] = ChunkLine(m, i)
  OBVIOUS
<1> HIDE DEF tail, n
<1>8. /\ HeaderLines(m) \o tail \in Seq(Lines(m))
      /\ Len(HeaderLines(m) \o tail) = n + 6
      /\ \A i \in 1 .. 6 : (HeaderLines(m) \o tail)[i] = HeaderLines(m)[i]
      /\ \A i \in 1 .. n : (HeaderLines(m) \o tail)[6 + i] = tail[i]
  <2> DEFINE header == HeaderLines(m)
             S == Lines(m)
  <2>1. header \in Seq(S) /\ tail \in Seq(S) /\ Len(header) = 6
    BY <1>3, <1>4, <1>6
  <2> HIDE DEF header, S
  <2>2. /\ header \o tail \in Seq(S)
        /\ Len(header \o tail) = Len(tail) + 6
        /\ \A i \in 1 .. 6 : (header \o tail)[i] = header[i]
        /\ \A i \in 1 .. Len(tail) : (header \o tail)[6 + i] = tail[i]
    BY <2>1, SixAndMore
  <2> QED  BY <1>3, <2>2 DEF header, S
<1>9. \A i \in 1 .. n : Serialize(m)[6 + i] = ChunkLine(m, i)
  BY <1>2, <1>7, <1>8
<1> QED  BY <1>2, <1>8, <1>9 DEF n

\* The fields of the lines.
LEMMA LineFields ==
  ASSUME NEW m \in ManifestType
  PROVE  /\ \A i \in 1 .. 6 : HeaderLines(m)[i].field = Fields[i]
         /\ HeaderLines(m)[1].value = "V1" /\ HeaderLines(m)[2].value = m.file_name
         /\ HeaderLines(m)[3].value = m.file_size /\ HeaderLines(m)[4].value = m.chunk_size
         /\ HeaderLines(m)[5].value = m.file_sha256 /\ HeaderLines(m)[6].value = Len(m.chunk_hashes)
         /\ \A i \in 1 .. Len(m.chunk_hashes) :
              /\ ChunkLine(m, i).field = "chunk"
              /\ ChunkLine(m, i).value = [index |-> i - 1, hash |-> m.chunk_hashes[i]]
BY DEF HeaderLines, ChunkLine, Line, Fields

\* Entries(t) are the lines after the header.
LEMMA EntriesOf ==
  ASSUME NEW S, NEW t \in Seq(S), Len(t) >= 6
  PROVE  /\ Entries(t) \in Seq(S) /\ Len(Entries(t)) = Len(t) - 6
         /\ \A i \in 1 .. Len(t) - 6 : Entries(t)[i] = t[6 + i]
<1>1. Len(Fields) = 6 /\ Len(t) \in Nat
  BY DEF Fields
<1>2. \A i \in 7 .. Len(t) : t[i] \in S
  BY <1>1
<1>3. Entries(t) = SubSeq(t, 7, Len(t))
  BY <1>1 DEF Entries
<1>4. /\ SubSeq(t, 7, Len(t)) \in Seq(S)
      /\ Len(SubSeq(t, 7, Len(t))) = IF 7 <= Len(t) THEN Len(t) - 7 + 1 ELSE 0
      /\ \A i \in 1 .. Len(t) - 7 + 1 : SubSeq(t, 7, Len(t))[i] = t[7 + i - 1]
  BY <1>1, <1>2, SubSeqProperties
<1>5. Len(t) - 7 + 1 = Len(t) - 6 /\ \A i \in Int : 7 + i - 1 = 6 + i
  BY <1>1
<1> QED  BY <1>1, <1>3, <1>4, <1>5

\* The hash that load() finds for an index, if the indices are in order.
LEMMA HashFound ==
  ASSUME NEW S, NEW E \in Seq(S), \A i \in 1 .. Len(E) : E[i].value.index = i - 1,
         NEW k \in 1 .. Len(E)
  PROVE  (CHOOSE e \in ToSet(E) : e.value.index = k - 1) = E[k]
<1>1. DOMAIN E = 1 .. Len(E) /\ Len(E) \in Nat
  OBVIOUS
<1>2. ToSet(E) = {E[i] : i \in 1 .. Len(E)}
  BY <1>1 DEF ToSet
<1>3. E[k] \in ToSet(E) /\ E[k].value.index = k - 1
  BY <1>2
<1>4. ASSUME NEW e \in ToSet(E), e.value.index = k - 1 PROVE e = E[k]
  <2>1. PICK i \in 1 .. Len(E) : e = E[i]
    BY <1>2
  <2>2. i - 1 = k - 1
    BY <1>4, <2>1
  <2>3. i = k
    BY <1>1, <2>2
  <2> QED  BY <2>1, <2>3
<1> DEFINE f == CHOOSE e \in ToSet(E) : e.value.index = k - 1
<1>5. f \in ToSet(E) /\ f.value.index = k - 1
  BY <1>3
<1> HIDE DEF f
<1>6. f = E[k]
  BY <1>4, <1>5
<1> QED  BY <1>6 DEF f

\* load() of the whole file returns the manifest.
LEMMA ParsedWhole ==
  ASSUME NEW m \in ManifestType
  PROVE  Parsed(Serialize(m)) = m
<1> DEFINE t == Serialize(m)
           n == Len(m.chunk_hashes)
           E == Entries(t)
<1>1. n \in Nat /\ m.chunk_hashes = [k \in 1 .. n |-> m.chunk_hashes[k]]
  BY DEF ManifestType
<1>2. /\ t \in Seq(Lines(m)) /\ Len(t) = n + 6
      /\ \A i \in 1 .. 6 : t[i] = HeaderLines(m)[i]
      /\ \A i \in 1 .. n : t[6 + i] = ChunkLine(m, i)
  BY SerializedLines
<1>3. /\ t[2].value = m.file_name /\ t[3].value = m.file_size /\ t[4].value = m.chunk_size
      /\ t[5].value = m.file_sha256 /\ t[6].value = n
  BY <1>2, LineFields
<1> HIDE DEF n, t
<1>4. /\ E \in Seq(Lines(m)) /\ Len(E) = n
      /\ \A i \in 1 .. n : E[i] = t[6 + i]
  <2>1. Len(t) >= 6 /\ Len(t) - 6 = n
    BY <1>1, <1>2
  <2> QED  BY <1>2, <2>1, EntriesOf
<1> HIDE DEF E
<1>5. \A i \in 1 .. n : /\ E[i].value.index = i - 1
                        /\ E[i].value.hash = m.chunk_hashes[i]
  <2> SUFFICES ASSUME NEW i \in 1 .. n
               PROVE  E[i].value.index = i - 1 /\ E[i].value.hash = m.chunk_hashes[i]
    OBVIOUS
  <2>1. ChunkLine(m, i).value = [index |-> i - 1, hash |-> m.chunk_hashes[i]]
    BY LineFields DEF n
  <2>2. E[i] = ChunkLine(m, i)
    BY <1>2, <1>4
  <2> QED  BY <2>1, <2>2
<1>6. \A k \in 1 .. n : (CHOOSE e \in ToSet(E) : e.value.index = k - 1) = E[k]
  BY <1>4, <1>5, HashFound
<1>7. [k \in 1 .. n |-> (CHOOSE e \in ToSet(E) : e.value.index = k - 1).value.hash] = m.chunk_hashes
  BY <1>1, <1>5, <1>6
<1>8. Parsed(t) = [file_name |-> m.file_name, file_size |-> m.file_size, chunk_size |-> m.chunk_size,
                   file_sha256 |-> m.file_sha256, chunk_hashes |-> m.chunk_hashes]
  BY <1>3, <1>7 DEF Parsed, E
<1>9. m = [file_name |-> m.file_name, file_size |-> m.file_size, chunk_size |-> m.chunk_size,
           file_sha256 |-> m.file_sha256, chunk_hashes |-> m.chunk_hashes]
  BY DEF ManifestType
<1> QED  BY <1>8, <1>9 DEF t

\* load() accepts the whole file of a manifest that passed validate().
LEMMA WholeLoads ==
  ASSUME NEW m \in ManifestType, Valid(m)
  PROVE  Loads(Serialize(m))
<1> DEFINE t == Serialize(m)
           n == Len(m.chunk_hashes)
<1>1. n \in Nat /\ m.file_size \in Nat /\ m.chunk_size \in Nat /\ n <= MaxChunkCount
  BY DEF ManifestType, Valid
<1>2. /\ t \in Seq(Lines(m)) /\ Len(t) = n + 6
      /\ \A i \in 1 .. 6 : t[i] = HeaderLines(m)[i]
      /\ \A i \in 1 .. n : t[6 + i] = ChunkLine(m, i)
  BY SerializedLines
<1>3. /\ t[1].value = "V1" /\ t[3].value = m.file_size /\ t[4].value = m.chunk_size /\ t[6].value = n
      /\ \A i \in 1 .. 6 : t[i].field = Fields[i]
  BY <1>2, LineFields
<1>4. \A i \in 1 .. n : /\ t[6 + i].field = "chunk"
                        /\ t[6 + i].value = [index |-> i - 1, hash |-> m.chunk_hashes[i]]
  <2>1. \A i \in 1 .. n : /\ ChunkLine(m, i).field = "chunk"
                          /\ ChunkLine(m, i).value = [index |-> i - 1, hash |-> m.chunk_hashes[i]]
    BY LineFields, Zenon
  <2> HIDE DEF t, n
  <2> QED  BY <1>2, <2>1, Zenon
<1> HIDE DEF t
<1>5. HeaderParses(t)
  <2>1. Len(Fields) = 6 /\ DOMAIN Fields = 1 .. 6
    BY DEF Fields
  <2>2. \A i \in {1, 3, 4, 6} : t[i].value # Bad
    BY <1>1, <1>3, ManifestAssumption
  <2>3. Len(t) >= 6
    BY <1>1, <1>2
  <2> QED  BY <1>3, <2>1, <2>2, <2>3 DEF HeaderParses
<1>6. EntriesParse(t)
  <2>1. Len(t) >= 6 /\ Len(t) - 6 = n
    BY <1>1, <1>2
  <2>2. /\ Entries(t) \in Seq(Lines(m)) /\ Len(Entries(t)) = n /\ DOMAIN Entries(t) = 1 .. n
        /\ \A i \in 1 .. n : Entries(t)[i] = t[6 + i]
    <3>1. /\ Entries(t) \in Seq(Lines(m)) /\ Len(Entries(t)) = Len(t) - 6
          /\ \A i \in 1 .. Len(t) - 6 : Entries(t)[i] = t[6 + i]
      BY <1>2, <2>1, EntriesOf, Zenon
    <3>2. DOMAIN Entries(t) = 1 .. Len(Entries(t))
      BY <3>1
    <3> QED  BY <2>1, <3>1, <3>2, Zenon
  <2>3. ASSUME NEW i \in 1 .. n
        PROVE  /\ Entries(t)[i].field = "chunk" /\ Entries(t)[i].value # Bad
               /\ Entries(t)[i].value.index = i - 1
    <3>1. i - 1 \in Nat /\ m.chunk_hashes[i] \in Seq(Nat)
      BY <1>1 DEF ManifestType
    <3>2. [index |-> i - 1, hash |-> m.chunk_hashes[i]] \in [index : Nat, hash : Seq(Nat)]
      BY <3>1
    <3>3. [index |-> i - 1, hash |-> m.chunk_hashes[i]] # Bad
      BY <3>2, ManifestAssumption
    <3>4. Entries(t)[i].value = [index |-> i - 1, hash |-> m.chunk_hashes[i]]
      BY <1>4, <2>2
    <3>5. Entries(t)[i].field = "chunk"
      BY <1>4, <2>2
    <3> QED  BY <3>3, <3>4, <3>5
  <2>4. {Entries(t)[i].value.index : i \in 1 .. n} = 0 .. n - 1
    <3>1. {Entries(t)[i].value.index : i \in 1 .. n} = {i - 1 : i \in 1 .. n}
      BY <2>3
    <3> HIDE DEF n
    <3>2. \A x \in 0 .. n - 1 : x + 1 \in 1 .. n /\ x = (x + 1) - 1
      BY <1>1
    <3>3. \A i \in 1 .. n : i - 1 \in 0 .. n - 1
      BY <1>1
    <3>4. {i - 1 : i \in 1 .. n} = 0 .. n - 1
      BY <3>2, <3>3
    <3> QED  BY <3>1, <3>4
  <2> QED  BY <1>1, <1>3, <2>2, <2>3, <2>4 DEF EntriesParse
<1> QED  BY <1>5, <1>6, ParsedWhole DEF Loads, t

\* What is left of the line of the number of chunks is a line that does not parse,
\* or declares chunks that the file does not have.
LEMMA CutCount ==
  ASSUME NEW n \in Nat, NEW c \in Cut(Line("chunk_count", n)), c.value # Bad
  PROVE  c.value # 0
<1>1. c.value \in DecimalPrefixes(n)
  BY DEF Cut, CutValue, Line
<1>2. PICK k \in PowersOfTen : n >= k /\ c.value = n \div k
  BY <1>1 DEF DecimalPrefixes
<1>3. k \in Nat \ {0, 1}
  BY ManifestAssumption
<1>4. n \div k >= 1
  BY <1>2, <1>3
<1> QED  BY <1>2, <1>4

\* What is left of a chunk line does not parse, or has no digest.
LEMMA CutChunk ==
  ASSUME NEW value \in [index : Nat, hash : Seq(Nat)], NEW c \in Cut(Line("chunk", value)), c.value # Bad
  PROVE  c.value.index = value.index /\ c.value.hash = Bad
<1>1. c.value \in {[value EXCEPT !.hash = Bad], Bad}
  BY DEF Cut, CutValue, Line
<1> QED  BY <1>1

\* Wherever the file is cut, load() throws, or the file is whole.
LEMMA TornOrWhole ==
  ASSUME NEW m \in ManifestType, NEW t \in Torn(Serialize(m)), Loads(t)
  PROVE  t = Serialize(m)
<1> DEFINE full == Serialize(m)
           n == Len(m.chunk_hashes)
<1>1. n \in Nat
  BY DEF ManifestType
<1>2. /\ full \in Seq(Lines(m)) /\ Len(full) = n + 6
      /\ \A i \in 1 .. 6 : full[i] = HeaderLines(m)[i]
      /\ \A i \in 1 .. n : full[6 + i] = ChunkLine(m, i)
  BY SerializedLines
<1>3. full[6] = Line("chunk_count", n) /\ full[6].value = n
  BY <1>2 DEF HeaderLines, Line
<1>4. \A i \in 1 .. n : full[6 + i] = Line("chunk", [index |-> i - 1, hash |-> m.chunk_hashes[i]])
  BY <1>2 DEF ChunkLine
<1>5. /\ Len(t) >= 6 /\ t[6].value # Bad
      /\ Len(Entries(t)) = t[6].value
      /\ \A i \in DOMAIN Entries(t) : Entries(t)[i].value # Bad
  BY DEF Loads, HeaderParses, EntriesParse, Fields
<1> HIDE DEF full, n
\* The header is whole, so the number of lines is right.
<1>6. ASSUME NEW S, t \in Seq(S), t[6] = full[6]
      PROVE  /\ Len(t) = n + 6 /\ Len(Entries(t)) = n /\ Entries(t) \in Seq(S)
             /\ \A i \in 1 .. n : Entries(t)[i] = t[6 + i]
  <2>1. /\ Entries(t) \in Seq(S) /\ Len(Entries(t)) = Len(t) - 6
        /\ \A i \in 1 .. Len(t) - 6 : Entries(t)[i] = t[6 + i]
    BY <1>5, <1>6, EntriesOf
  <2>2. Len(t) \in Nat /\ Len(t) - 6 = n
    BY <1>3, <1>5, <1>6, <2>1
  <2> QED  BY <1>1, <2>1, <2>2
<1>7. ASSUME NEW k \in 0 .. Len(full), t = SubSeq(full, 1, k) PROVE t = full
  <2>1. \A i \in 1 .. k : full[i] \in Lines(m)
    BY <1>1, <1>2
  <2>2. /\ t \in Seq(Lines(m)) /\ Len(t) = k
        /\ \A i \in 1 .. k : t[i] = full[i]
    <3>1. /\ t \in Seq(Lines(m))
          /\ Len(t) = IF 1 <= k THEN k - 1 + 1 ELSE 0
          /\ \A i \in 1 .. k - 1 + 1 : t[i] = full[1 + i - 1]
      BY <1>7, <2>1, SubSeqProperties
    <3>2. k \in Nat /\ k - 1 + 1 = k /\ \A i \in Int : 1 + i - 1 = i
      BY <1>1, <1>2
    <3> QED  BY <3>1, <3>2
  <2>3. k = Len(full)
    BY <1>1, <1>2, <1>5, <1>6, <2>2
  <2> QED  BY <1>2, <1>7, <2>3, SubSeqFull
<1>8. ASSUME NEW k \in DOMAIN full, NEW c \in Cut(full[k]), t = SubSeq(full, 1, k - 1) \o <<c>>
      PROVE  FALSE
  <2> DEFINE s == SubSeq(full, 1, k - 1)
             S == Lines(m) \cup {c}
  <2>0. k \in 1 .. n + 6 /\ k - 1 \in Nat
    BY <1>1, <1>2
  <2>1. \A i \in 1 .. k - 1 : full[i] \in S
    BY <1>1, <1>2, <2>0
  <2>2. s \in Seq(S) /\ Len(s) = k - 1 /\ \A i \in 1 .. k - 1 : s[i] = full[i]
    <3> HIDE DEF S
    <3>1. /\ s \in Seq(S)
          /\ Len(s) = IF 1 <= k - 1 THEN k - 1 - 1 + 1 ELSE 0
          /\ \A i \in 1 .. k - 1 - 1 + 1 : s[i] = full[1 + i - 1]
      BY <2>0, <2>1, SubSeqProperties
    <3>2. k - 1 - 1 + 1 = k - 1 /\ \A i \in Int : 1 + i - 1 = i
      BY <2>0
    <3> QED  BY <2>0, <3>1, <3>2
  <2>3. <<c>> \in Seq(S) /\ Len(<<c>>) = 1 /\ <<c>>[1] = c
    OBVIOUS
  <2> HIDE DEF s, S
  <2>4. t \in Seq(S) /\ Len(t) = k /\ t[k] = c /\ \A i \in 1 .. k - 1 : t[i] = full[i]
    <3>1. /\ t \in Seq(S) /\ Len(t) = Len(s) + Len(<<c>>)
          /\ \A i \in 1 .. Len(s) + Len(<<c>>) : t[i] = IF i <= Len(s) THEN s[i] ELSE <<c>>[i - Len(s)]
      BY <1>8, <2>2, <2>3, ConcatProperties DEF s
    <3>2. Len(s) = k - 1 /\ Len(<<c>>) = 1 /\ (k - 1) + 1 = k /\ k - (k - 1) = 1
      BY <2>0, <2>2, <2>3
    <3>3. /\ Len(t) = k
          /\ \A i \in 1 .. k : t[i] = IF i <= k - 1 THEN s[i] ELSE <<c>>[i - (k - 1)]
      BY <3>1, <3>2
    <3>4. t[k] = c
      <4>1. k \in 1 .. k /\ ~(k <= k - 1)
        BY <2>0
      <4>2. t[k] = <<c>>[k - (k - 1)]
        BY <3>3, <4>1
      <4> QED  BY <2>3, <3>2, <4>2
    <3>5. \A i \in 1 .. k - 1 : t[i] = full[i]
      BY <2>0, <2>2, <3>3
    <3> QED  BY <3>1, <3>3, <3>4, <3>5
  <2>5. k >= 6
    BY <1>5, <2>4
  <2>6. CASE k = 6
    <3>1. c.value # Bad /\ c \in Cut(Line("chunk_count", n))
      BY <1>3, <1>5, <1>8, <2>4, <2>6
    <3>2. c.value # 0
      BY <1>1, <3>1, CutCount
    <3>3. Len(Entries(t)) = 0
      <4>1. Len(Entries(t)) = Len(t) - 6
        BY <1>5, <2>4, EntriesOf
      <4> QED  BY <2>4, <2>6, <4>1
    <3> QED  BY <1>5, <2>4, <2>6, <3>2, <3>3
  <2>7. CASE k > 6
    <3>1. t[6] = full[6]
      BY <2>0, <2>4, <2>7
    <3>2. /\ k = n + 6 /\ Entries(t) \in Seq(S) /\ Len(Entries(t)) = n
          /\ \A i \in 1 .. n : Entries(t)[i] = t[6 + i]
      BY <1>6, <2>4, <3>1
    <3>3. n \in 1 .. n /\ 6 + n = k /\ \A i \in 1 .. n : 6 + i \in 1 .. k /\ (i # n => 6 + i \in 1 .. k - 1)
      BY <1>1, <2>7, <3>2
    <3>4. DOMAIN Entries(t) = 1 .. n /\ Entries(t)[n] = c /\ c.value # Bad
      BY <1>5, <2>4, <3>2, <3>3
    <3>5. \A i \in 1 .. n : [index |-> i - 1, hash |-> m.chunk_hashes[i]] \in [index : Nat, hash : Seq(Nat)]
      BY <1>1 DEF ManifestType, n
    <3>6. c.value.index = n - 1 /\ c.value.hash = Bad
      <4> DEFINE v == [index |-> n - 1, hash |-> m.chunk_hashes[n]]
      <4>1. c \in Cut(Line("chunk", v)) /\ v \in [index : Nat, hash : Seq(Nat)] /\ v.index = n - 1
        BY <1>4, <1>8, <3>3, <3>5
      <4> HIDE DEF v
      <4> QED  BY <3>4, <4>1, CutChunk
    <3>7. \A i \in 1 .. n : Entries(t)[i].value.index = i - 1
      <4> SUFFICES ASSUME NEW i \in 1 .. n PROVE Entries(t)[i].value.index = i - 1
        OBVIOUS
      <4>1. CASE i = n
        BY <3>4, <3>6, <4>1
      <4>2. CASE i # n
        <5>1. Entries(t)[i] = full[6 + i]
          BY <2>4, <3>2, <3>3, <4>2
        <5>2. full[6 + i].value = [index |-> i - 1, hash |-> m.chunk_hashes[i]]
          <6>1. full[6 + i] = Line("chunk", [index |-> i - 1, hash |-> m.chunk_hashes[i]])
            BY <1>4
          <6> QED  BY <6>1 DEF Line
        <5> QED  BY <5>1, <5>2
      <4> QED  BY <4>1, <4>2
    <3>8. (CHOOSE e \in ToSet(Entries(t)) : e.value.index = n - 1) = c
      <4>1. n \in 1 .. Len(Entries(t)) /\ \A i \in 1 .. Len(Entries(t)) : Entries(t)[i].value.index = i - 1
        BY <3>2, <3>3, <3>7
      <4>2. (CHOOSE e \in ToSet(Entries(t)) : e.value.index = n - 1) = Entries(t)[n]
        BY <3>2, <4>1, HashFound
      <4> QED  BY <3>4, <4>2
    <3>9. t[6].value = n
      BY <1>3, <3>1
    <3>10. Parsed(t).chunk_hashes[n] = Bad /\ n \in DOMAIN Parsed(t).chunk_hashes
      BY <3>3, <3>6, <3>8, <3>9 DEF Parsed
    <3> QED  BY <3>10 DEF Loads, Valid, IsDigest
  <2> QED  BY <2>0, <2>5, <2>6, <2>7
<1> QED  BY <1>7, <1>8 DEF Torn, full

\* What from_file returned is valid, and the file is one that stopped somewhere.
SavedInv ==
  /\ Made => Valid(manifest)
  /\ pc \in {"Write", "Saved", "Killed"} => text \in Torn(Serialize(manifest))

LEMMA SavedStep == ReadInv /\ SavedInv /\ [Next]_vars => SavedInv'
<1> SUFFICES ASSUME ReadInv, SavedInv, [Next]_vars PROVE SavedInv'
  OBVIOUS
<1> DEFINE full == Serialize(manifest)
<1>1. full \in Seq(Lines(manifest)) /\ Len(full) \in Nat
  <2>1. manifest \in ManifestType
    BY DEF ReadInv, ReadTypes
  <2> QED  BY <2>1, SerializedLines
<1>2. ASSUME TakeSize \/ HashFile \/ ReadChunk \/ Edit PROVE SavedInv'
  BY <1>2 DEF TakeSize, HashFile, ReadChunk, Edit, SavedInv, Made
<1>3. ASSUME Validate PROVE SavedInv'
  BY <1>3 DEF Validate, SavedInv, Made
<1>4. ASSUME OpenTruncated PROVE SavedInv'
  <2>1. SubSeq(full, 1, 0) = <<>>
    BY <1>1, SubSeqEmpty
  <2>2. <<>> \in Torn(full)
    BY <1>1, <2>1 DEF Torn
  <2> QED  BY <1>4, <2>2 DEF OpenTruncated, SavedInv, Made
<1>5. ASSUME WriteManifest PROVE SavedInv'
  <2>1. SubSeq(full, 1, Len(full)) = full
    BY <1>1, SubSeqFull
  <2>2. full \in {SubSeq(full, 1, k) : k \in 0 .. Len(full)}
    <3>1. Len(full) \in 0 .. Len(full)
      BY <1>1
    <3> HIDE DEF full
    <3> QED  BY <2>1, <3>1
  <2>3. full \in Torn(full)
    BY <2>2 DEF Torn
  <2> QED  BY <1>5, <2>3 DEF WriteManifest, SavedInv, Made
<1>6. ASSUME WriteFails \/ Kill PROVE SavedInv'
  BY <1>6 DEF WriteFails, Kill, SavedInv, Made
<1>7. CASE UNCHANGED vars
  BY <1>7 DEF vars, SavedInv, Made
<1> QED  BY <1>2, <1>3, <1>4, <1>5, <1>6, <1>7 DEF Next

\* load() accepts the file that save() wrote, and of a file whose writing
\* stopped somewhere it makes the manifest that was to be written, or throws:
\* for manifests of every size, and wherever the file was cut.
THEOREM LoadSafety == Spec => []LoadsWhatWasSaved
<1>1. ASSUME ReadInv, SavedInv PROVE LoadsWhatWasSaved
  <2> SUFFICES ASSUME pc \in {"Write", "Saved", "Killed"}
               PROVE  /\ text = Serialize(manifest) => Loads(text)
                      /\ Loads(text) => Parsed(text) = manifest
    BY DEF LoadsWhatWasSaved
  <2>1. manifest \in ManifestType /\ Valid(manifest) /\ text \in Torn(Serialize(manifest))
    BY <1>1 DEF ReadInv, ReadTypes, SavedInv, Made
  <2>2. Loads(Serialize(manifest)) /\ Parsed(Serialize(manifest)) = manifest
    BY <2>1, WholeLoads, ParsedWhole
  <2>3. Loads(text) => text = Serialize(manifest)
    BY <2>1, TornOrWhole
  <2> QED  BY <2>2, <2>3
<1>2. Init => SavedInv
  BY DEF Init, SavedInv, Made
<1> QED  BY <1>1, <1>2, InitRead, ReadStep, SavedStep, PTL DEF Spec

-----------------------------------------------------------------------------
(* The bounds.                                                             *)

LEMMA BlockBounds ==
  ASSUME ReadTypes
  PROVE  /\ Block \in Seq(Nat) /\ Len(Block) <= chunk_size
         /\ Block # <<>> => position + Len(Block) <= Len(source)
<1> DEFINE hi == Min({position + chunk_size, Len(source)})
           L == Len(source)
<1>1. L \in Nat /\ position \in Nat /\ chunk_size \in Nat /\ source \in Seq(Nat)
  BY DEF ReadTypes
<1>2. hi \in Nat /\ hi <= L /\ hi <= position + chunk_size
  <2> HIDE DEF L
  <2> QED  BY <1>1, MinPair DEF L
<1>3. Block = SubSeq(source, position + 1, hi)
  BY DEF Block
<1> HIDE DEF hi, L
<1>4. CASE hi <= position
  <2>1. Block = <<>>
    BY <1>1, <1>2, <1>3, <1>4, SubSeqEmpty
  <2> QED  BY <1>1, <2>1
<1>5. CASE position + 1 <= hi
  <2>1. \A i \in position + 1 .. hi : source[i] \in Nat
    BY <1>1, <1>2 DEF L
  <2>2. Block \in Seq(Nat) /\ Len(Block) = IF position + 1 <= hi THEN hi - (position + 1) + 1 ELSE 0
    BY <1>1, <1>2, <1>3, <2>1, SubSeqProperties
  <2>3. Len(Block) = hi - position
    BY <1>1, <1>2, <1>5, <2>2
  <2> QED  BY <1>1, <1>2, <2>2, <2>3 DEF L
<1> QED  BY <1>1, <1>2, <1>4, <1>5

LEMMA TypeStep == ReadInv /\ TypeOK /\ [Next]_vars => TypeOK'
<1> SUFFICES ASSUME ReadInv, TypeOK, [Next]_vars PROVE TypeOK'
  OBVIOUS
<1>0. /\ source \in Seq(Nat) /\ edits \in Nat /\ position \in Nat /\ chunk_size \in Nat
      /\ manifest \in ManifestType /\ Len(source) \in Nat
  BY DEF ReadInv, ReadTypes
<1>1. ASSUME TakeSize PROVE TypeOK'
  <2>1. CASE UNCHANGED manifest
    BY <1>1, <2>1 DEF TakeSize, TypeOK
  <2>2. CASE /\ manifest' = [manifest EXCEPT !.file_size = Len(source), !.chunk_size = chunk_size]
             /\ chunk_size \in 1 .. MaxChunkSize /\ pc' = "Hash"
    <3>1. /\ manifest'.file_size = Len(source) /\ manifest'.chunk_size = chunk_size
          /\ manifest'.file_sha256 = manifest.file_sha256
          /\ manifest'.chunk_hashes = manifest.chunk_hashes
      BY <1>0, <2>2 DEF ManifestType
    <3>2. Len(source) \in 0 .. MaxSize /\ chunk_size \in 0 .. MaxChunkSize
      BY <1>0, <2>2, ManifestAssumption DEF TypeOK
    <3> QED  BY <1>1, <2>2, <3>1, <3>2 DEF TakeSize, TypeOK
  <2> QED  BY <1>1, <2>1, <2>2 DEF TakeSize
<1>2. ASSUME HashFile PROVE TypeOK'
  <2>1. /\ manifest'.file_size = manifest.file_size /\ manifest'.chunk_size = manifest.chunk_size
        /\ manifest'.file_sha256 = source
        /\ manifest'.chunk_hashes = manifest.chunk_hashes
    BY <1>0, <1>2 DEF HashFile, ManifestType
  <2> QED  BY <1>2, <2>1 DEF HashFile, TypeOK
<1>3. ASSUME ReadChunk PROVE TypeOK'
  <2>1. /\ manifest'.file_size = manifest.file_size /\ manifest'.chunk_size = manifest.chunk_size
        /\ manifest'.file_sha256 = manifest.file_sha256
        /\ manifest'.chunk_hashes = Push
    BY <1>0, <1>3 DEF ReadChunk, ManifestType
  <2>2. /\ Block \in Seq(Nat) /\ Len(Block) \in Nat /\ Len(Block) <= chunk_size
        /\ Block # <<>> => position + Len(Block) <= Len(source)
    BY BlockBounds DEF ReadInv
  <2>3. chunk_size \in 1 .. MaxChunkSize
    BY <1>3 DEF ReadInv, Sized, ReadChunk
  <2>4. position' \in 0 .. MaxSize
    <3>1. CASE Block = <<>>
      <4>1. position' = position + 0
        BY <1>3, <3>1 DEF ReadChunk
      <4> QED  BY <1>0, <4>1 DEF TypeOK
    <3>2. CASE Block # <<>>
      <4>1. position' = position + Len(Block) /\ position + Len(Block) <= Len(source)
        BY <1>3, <2>2, <3>2 DEF ReadChunk
      <4>2. Len(source) <= MaxSize
        BY DEF TypeOK
      <4> QED  BY <1>0, <2>2, <4>1, <4>2, ManifestAssumption
    <3> QED  BY <3>1, <3>2
  <2>5. \A h \in ToSet(Push) : Len(h) \in 1 .. MaxChunkSize
    <3>1. CASE Block = <<>>
      BY <3>1 DEF Push, TypeOK
    <3>2. CASE Block # <<>>
      <4>1. Len(Block) \in 1 .. MaxChunkSize
        <5>1. Len(Block) # 0
          BY <2>2, <3>2
        <5> QED  BY <2>2, <2>3, <5>1, ManifestAssumption
      <4>2. manifest.chunk_hashes \in Seq(Seq(Nat)) /\ Push = Append(manifest.chunk_hashes, Block)
        BY <1>0, <3>2 DEF Push, ManifestType
      <4>3. \A i \in DOMAIN Push : Push[i] \in ToSet(manifest.chunk_hashes) \cup {Block}
        BY <2>2, <4>2 DEF ToSet
      <4>4. ToSet(Push) \subseteq ToSet(manifest.chunk_hashes) \cup {Block}
        BY <4>3 DEF ToSet
      <4> QED  BY <4>1, <4>4 DEF TypeOK
    <3> QED  BY <3>1, <3>2
  <2> QED  BY <1>3, <2>1, <2>4, <2>5 DEF ReadChunk, TypeOK
<1>4. ASSUME Validate \/ OpenTruncated \/ WriteManifest \/ WriteFails \/ Kill PROVE TypeOK'
  <2>1. UNCHANGED <<source, edits, chunk_size, position, manifest>> /\ pc' \in {"Save", "Threw", "Write", "Saved", "Killed"}
    BY <1>4 DEF Validate, OpenTruncated, WriteManifest, WriteFails, Kill
  <2> QED  BY <2>1 DEF TypeOK
<1>5. ASSUME Edit PROVE TypeOK'
  <2>1. UNCHANGED <<pc, chunk_size, position, manifest>> /\ edits' \in 0 .. MaxEdits
    <3>1. UNCHANGED <<pc, chunk_size, position, manifest>> /\ edits < MaxEdits /\ edits' = edits + 1
      BY <1>5 DEF Edit
    <3> QED  BY <1>0, <3>1, ManifestAssumption
  <2>2. source' \in Seq(Nat)
    BY <1>0, <1>5, EditedSource
  <2>3. Len(source') <= MaxSize
    <3>1. CASE \E i \in DOMAIN source : source' = [source EXCEPT ![i] = 0]
      <4>1. Len(source') = Len(source)
        BY <1>0, <3>1
      <4> QED  BY <4>1 DEF TypeOK
    <3>2. CASE \E n \in 0 .. Len(source) - 1 : source' = SubSeq(source, 1, n)
      <4>1. PICK n \in 0 .. Len(source) - 1 : source' = SubSeq(source, 1, n)
        BY <3>2
      <4>2. n \in Nat /\ n <= Len(source)
        BY <1>0
      <4>3. Len(source') = n
        BY <1>0, <4>1, <4>2
      <4> QED  BY <1>0, <4>2, <4>3, ManifestAssumption DEF TypeOK
    <3>3. CASE Len(source) < MaxSize /\ source' = Append(source, 0)
      <4>1. Len(source') = Len(source) + 1
        BY <1>0, <3>3
      <4> QED  BY <1>0, <3>3, <4>1, ManifestAssumption
    <3> QED  BY <1>5, <3>1, <3>2, <3>3 DEF Edit
  <2> QED  BY <2>1, <2>2, <2>3 DEF TypeOK, Digest
<1>6. CASE UNCHANGED vars
  BY <1>6 DEF vars, TypeOK
<1> QED  BY <1>1, <1>2, <1>3, <1>4, <1>5, <1>6 DEF Next

\* from_file never reads past the source and never takes a digest of nothing
\* or of more than a chunk, however the source is edited under it.
THEOREM TypeCorrect == Spec => []TypeOK
<1>1. Init => TypeOK
  <2> SUFFICES ASSUME Init PROVE TypeOK
    OBVIOUS
  <2>1. PICK n \in 0 .. MaxSize : source = [i \in 1 .. n |-> i]
    BY DEF Init
  <2>2. source \in Seq(Nat) /\ Len(source) <= MaxSize
    BY <2>1, ManifestAssumption
  <2>3. /\ manifest.file_size = 0 /\ manifest.chunk_size = 0
        /\ manifest.file_sha256 = <<>> /\ manifest.chunk_hashes = <<>>
    BY DEF Init, NoManifest
  <2>4. ToSet(manifest.chunk_hashes) = {}
    BY <2>3 DEF ToSet
  <2>5. 0 \in 0 .. MaxSize /\ 0 \in 0 .. MaxChunkSize /\ 0 \in 0 .. MaxEdits /\ <<>> \in Seq(Nat)
    BY ManifestAssumption
  <2> QED  BY <2>2, <2>3, <2>4, <2>5 DEF Init, TypeOK, Digest
<1> QED  BY <1>1, InitRead, ReadStep, TypeStep, PTL DEF Spec
=============================================================================
