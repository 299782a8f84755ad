------------------------------- MODULE Manifest -------------------------------
(***************************************************************************)
(* `swarmsync manifest create' and Manifest::load(): how from_file() cuts  *)
(* a source file into chunks while somebody may be editing it, how save()  *)
(* writes the manifest in place, and what load() makes of the file that a  *)
(* death of the process leaves behind.                                     *)
(*                                                                         *)
(* A digest is the sequence of bytes it was computed from: SHA-256 is      *)
(* taken to be free of collisions.  The manifest file is a sequence of     *)
(* lines, each a field and its value.                                      *)
(***************************************************************************)
EXTENDS Integers, FiniteSets, SequencesExt

CONSTANTS
  Bad,                  \* a value cut short: no digest, name or number
  PowersOfTen,          \* 10, 100, ...: for the numbers of digits that occur
  MaxChunkSize,         \* kMaxChunkSize
  MaxChunkCount,        \* kMaxChunkCount
  MaxSize,              \* bound: the largest source file
  MaxEdits              \* bound: edits of the source file by others

ASSUME ManifestAssumption ==
  /\ MaxChunkSize \in Nat \ {0} /\ MaxChunkCount \in Nat
  /\ MaxSize \in Nat /\ MaxEdits \in Nat
  /\ Bad \notin {"file", "V1"} \cup Nat \cup Seq(Nat) \cup [index : Nat, hash : Seq(Nat)]
  /\ PowersOfTen \subseteq Nat \ {0, 1}

VARIABLES
  pc,                   \* where the program is
  source,               \* the bytes of the source file
  edits,                \* edits so far
  chunk_size,           \* the argument of from_file
  position,             \* how far the input stream has been read
  manifest,             \* the manifest that is being made
  text                  \* the lines of the manifest file

vars == <<pc, source, edits, chunk_size, position, manifest, text>>

Digest == Seq(Nat)

NoManifest == [file_name |-> "file", file_size |-> 0, chunk_size |-> 0,
               file_sha256 |-> <<>>, chunk_hashes |-> <<>>]

-----------------------------------------------------------------------------
(* The layout of the chunks; indices count from 0.                         *)

CountOneMore(size, chunk) == (size \div chunk) + 1
expected_chunk_count(size, chunk) == IF size = 0 THEN 0 ELSE ((size - 1) \div chunk) + 1

ChunkOffset(m, i) == i * m.chunk_size

ChunkSizeWhole(m, i) == m.chunk_size
ChunkSize(m, i) ==
  LET remaining == m.file_size - i * m.chunk_size
  IN  IF remaining < m.chunk_size THEN remaining ELSE m.chunk_size

DigestAny(d) == TRUE
IsDigest(d) == d # Bad

Valid(m) ==
  /\ m.file_name # Bad
  /\ m.chunk_size \in 1 .. MaxChunkSize
  /\ IsDigest(m.file_sha256)
  /\ Len(m.chunk_hashes) = expected_chunk_count(m.file_size, m.chunk_size)
  /\ Len(m.chunk_hashes) <= MaxChunkCount
  /\ \A i \in DOMAIN m.chunk_hashes : IsDigest(m.chunk_hashes[i])

-----------------------------------------------------------------------------
(* serialize() and load().                                                 *)

Line(field, value) == [field |-> field, value |-> value]

Serialize(m) ==
  <<Line("magic", "V1"), Line("file_name", m.file_name), Line("file_size", m.file_size),
    Line("chunk_size", m.chunk_size), Line("file_sha256", m.file_sha256),
    Line("chunk_count", Len(m.chunk_hashes))>>
  \o [i \in DOMAIN m.chunk_hashes |-> Line("chunk", [index |-> i - 1, hash |-> m.chunk_hashes[i]])]

Fields == <<"magic", "file_name", "file_size", "chunk_size", "file_sha256", "chunk_count">>

\* read_line, require_field and parse_unsigned succeed on the six header lines.
HeaderParses(t) ==
  /\ Len(t) >= Len(Fields)
  /\ \A i \in DOMAIN Fields : t[i].field = Fields[i]
  /\ \A i \in {1, 3, 4, 6} : t[i].value # Bad

Entries(t) == SubSeq(t, Len(Fields) + 1, Len(t))

\* As many chunk lines as declared, nothing after them, and every index once.
EntriesParse(t) ==
  LET count == t[6].value IN
  /\ count <= MaxChunkCount /\ Len(Entries(t)) = count
  /\ \A i \in DOMAIN Entries(t) : Entries(t)[i].field = "chunk" /\ Entries(t)[i].value # Bad
  /\ {Entries(t)[i].value.index : i \in DOMAIN Entries(t)} = 0 .. count - 1

Parsed(t) ==
  LET entries == ToSet(Entries(t))
      hash(k) == (CHOOSE e \in entries : e.value.index = k).value.hash
  IN  [file_name |-> t[2].value, file_size |-> t[3].value, chunk_size |-> t[4].value,
       file_sha256 |-> t[5].value, chunk_hashes |-> [k \in 1 .. t[6].value |-> hash(k - 1)]]

Loads(t) == HeaderParses(t) /\ EntriesParse(t) /\ Valid(Parsed(t))

-----------------------------------------------------------------------------
(* What is left of a line that is cut short.                               *)

\* The proper prefixes of a decimal number.
DecimalPrefixes(n) == {n \div k : k \in {k \in PowersOfTen : n >= k}}

CutValue(field, value) ==
  CASE field \in {"file_size", "chunk_size", "chunk_count"} -> DecimalPrefixes(value) \cup {Bad}
    [] field = "file_name" -> {"fi", Bad}
    [] field = "chunk" -> {[value EXCEPT !.hash = Bad], Bad}
    [] OTHER -> {Bad}

\* Cut in the name of the field, or in the value.
Cut(line) == {Line(Bad, Bad)} \cup {Line(line.field, v) : v \in CutValue(line.field, line.value)}

\* What a file may hold when the writing of t stops at some byte.
Torn(t) ==
  {SubSeq(t, 1, k) : k \in 0 .. Len(t)}
    \cup UNION {{SubSeq(t, 1, k - 1) \o <<c>> : c \in Cut(t[k])} : k \in DOMAIN t}

-----------------------------------------------------------------------------
TypeOK ==
  /\ pc \in {"Size", "Hash", "Read", "Validate", "Save", "Write", "Saved", "Threw", "Killed"}
  /\ source \in Digest /\ Len(source) <= MaxSize
  /\ edits \in 0 .. MaxEdits /\ chunk_size \in 0 .. MaxChunkSize + 1
  /\ position \in 0 .. MaxSize
  /\ manifest.file_size \in 0 .. MaxSize
  /\ manifest.chunk_size \in 0 .. MaxChunkSize
  /\ manifest.file_sha256 \in Digest
  /\ \A h \in ToSet(manifest.chunk_hashes) : Len(h) \in 1 .. MaxChunkSize

\* The bytes of the source are all different, which tells every misplaced or
\* missing byte; an older manifest may be in the file.
Init ==
  /\ pc = "Size"
  /\ \E n \in 0 .. MaxSize : source = [i \in 1 .. n |-> i]
  /\ edits = 0 /\ position = 0
  /\ chunk_size \in 0 .. MaxChunkSize + 1
  /\ manifest = NoManifest
  /\ text \in {<<>>, Serialize([NoManifest EXCEPT !.chunk_size = 1])}

\* The checks of from_file, and the size of the file as it is now.
TakeSize ==
  /\ pc = "Size"
  /\ IF /\ chunk_size \in 1 .. MaxChunkSize
        /\ expected_chunk_count(Len(source), chunk_size) <= MaxChunkCount
     THEN /\ manifest' = [manifest EXCEPT !.file_size = Len(source), !.chunk_size = chunk_size]
          /\ pc' = "Hash"
     ELSE pc' = "Threw" /\ UNCHANGED manifest
  /\ UNCHANGED <<source, edits, chunk_size, position, text>>

\* sha256_file(path)
HashFile ==
  /\ pc = "Hash"
  /\ manifest' = [manifest EXCEPT !.file_sha256 = source]
  /\ pc' = "Read"
  /\ UNCHANGED <<source, edits, chunk_size, position, text>>

\* One round of the read loop: what input.read() gets, and where it goes.
Block == SubSeq(source, position + 1, Min({position + chunk_size, Len(source)}))

PushAlways == Append(manifest.chunk_hashes, Block)
PushFront == IF Block = <<>> THEN manifest.chunk_hashes ELSE <<Block>> \o manifest.chunk_hashes
Push == IF Block = <<>> THEN manifest.chunk_hashes ELSE Append(manifest.chunk_hashes, Block)

\* A read that comes back short ends the loop.
ReadChunk ==
  /\ pc = "Read"
  /\ manifest' = [manifest EXCEPT !.chunk_hashes = Push]
  /\ position' = position + Len(Block)
  /\ pc' = IF Len(Block) < chunk_size THEN "Validate" ELSE "Read"
  /\ UNCHANGED <<source, edits, chunk_size, text>>

\* validate() at the end of from_file.
Validate ==
  /\ pc = "Validate"
  /\ pc' = IF Valid(manifest) THEN "Save" ELSE "Threw"
  /\ UNCHANGED <<source, edits, chunk_size, position, manifest, text>>

\* save(): the file is truncated, and written when the stream is closed.
OpenTruncated ==
  /\ pc = "Save"
  /\ text' = <<>>
  /\ pc' = "Write"
  /\ UNCHANGED <<source, edits, chunk_size, position, manifest>>

WriteManifest ==
  /\ pc = "Write"
  /\ text' = Serialize(manifest)
  /\ pc' = "Saved"
  /\ UNCHANGED <<source, edits, chunk_size, position, manifest>>

\* The disk is full.  The stream was tested before its buffer was written, so
\* that save() throws or not depends on how much of it was.
WriteFails ==
  /\ pc = "Write"
  /\ text' \in Torn(Serialize(manifest))
  /\ pc' \in {"Saved", "Threw"}
  /\ UNCHANGED <<source, edits, chunk_size, position, manifest>>

\* The process dies while it writes.
Kill ==
  /\ pc = "Write"
  /\ text' \in Torn(Serialize(manifest))
  /\ pc' = "Killed"
  /\ UNCHANGED <<source, edits, chunk_size, position, manifest>>

\* Somebody overwrites a byte of the source, truncates it or appends to it.
Edit ==
  /\ pc \in {"Size", "Hash", "Read"}
  /\ edits < MaxEdits /\ edits' = edits + 1
  /\ \/ \E i \in DOMAIN source : source' = [source EXCEPT ![i] = 0]
     \/ \E n \in 0 .. Len(source) - 1 : source' = SubSeq(source, 1, n)
     \/ Len(source) < MaxSize /\ source' = Append(source, 0)
  /\ UNCHANGED <<pc, chunk_size, position, manifest, text>>

Next ==
  \/ TakeSize \/ HashFile \/ ReadChunk \/ Validate
  \/ OpenTruncated \/ WriteManifest \/ WriteFails \/ Kill \/ Edit

Spec == Init /\ [][Next]_vars

-----------------------------------------------------------------------------
(* Properties.                                                             *)

Made == pc \in {"Save", "Write", "Saved", "Killed"}
Bytes(m, i) == ChunkOffset(m, i) + 1 .. ChunkOffset(m, i) + ChunkSize(m, i)
Indices(m) == 0 .. Len(m.chunk_hashes) - 1

\* The chunks that chunk_offset() and chunk_size() give the downloader cover
\* every byte of the file exactly once and none beyond it, whatever happened to
\* the source.
ChunksTileFile ==
  Made =>
    /\ \A i \in Indices(manifest) : Bytes(manifest, i) \subseteq 1 .. manifest.file_size
    /\ \A b \in 1 .. manifest.file_size :
         Cardinality({i \in Indices(manifest) : b \in Bytes(manifest, i)}) = 1

\* The digests that the read loop of from_file took one after the other are
\* those of the bytes at these offsets, if nobody edited the source.
DigestsAreOfChunks ==
  Made /\ edits = 0 =>
    \A i \in Indices(manifest) :
      manifest.chunk_hashes[i + 1] =
        SubSeq(source, ChunkOffset(manifest, i) + 1, ChunkOffset(manifest, i) + ChunkSize(manifest, i))

\* from_file refuses a file that nobody edits only for its limits: at no size,
\* a multiple of the chunk size or zero included, do the read loop and
\* validate() disagree on the number of chunks.
RefusesOnlyForLimits ==
  pc = "Validate" /\ edits = 0 => Valid(manifest)

\* load() accepts the file that save() writes.  Wherever the writing stops, it
\* throws or returns the manifest that was to be written: no prefix of the file
\* passes for another manifest.
LoadsWhatWasSaved ==
  pc \in {"Write", "Saved", "Killed"} =>
    /\ text = Serialize(manifest) => Loads(text)
    /\ Loads(text) => Parsed(text) = manifest

-----------------------------------------------------------------------------
(* What the program says and does not do.                                  *)

\* manifest.cpp: save() throws "Unable to finish manifest write" if it could not
\* finish, so that a manifest that was saved is there.
SavedIsComplete == pc = "Saved" => text = Serialize(manifest)
=============================================================================
