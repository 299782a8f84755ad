------------------------------- MODULE ChunkList -------------------------------
(***************************************************************************)
(* Lists of chunk indices as the program writes and reads them: in an      *)
(* ANNOUNCE or PEER line, where a complete download is "all", and in a     *)
(* resume file.  A text is its form and, for a list, its indices in order. *)
(***************************************************************************)
EXTENDS Integers, SequencesExt

Ascending(indices) == \A i \in 2 .. Len(indices) : indices[i - 1] < indices[i]

Text(form, indices) == [form |-> form, indices |-> indices]

\* ResumeStore::completed_chunks()
completed_chunks(chunks) == CHOOSE indices \in SetToSeqs(chunks) : Ascending(indices)

\* encode_chunk_list; a list out of order is an Error.
encode_empty_as_all(indices, has_all) ==
  IF has_all \/ indices = <<>> THEN Text("all", <<>>) ELSE Text("list", indices)
encode_chunk_list(indices, has_all) ==
  IF has_all THEN Text("all", <<>>)
  ELSE IF indices = <<>> THEN Text("none", <<>>)
  ELSE IF Ascending(indices) THEN Text("list", indices) ELSE Text("error", <<>>)

\* The last field of parse_tracker_request: "all" and "none" have no indices.
parse_chunk_field(text) == [has_all_chunks |-> text.form = "all", chunks |-> text.indices]

peer_has_chunk(record, index) ==
  record.has_all_chunks \/ index \in ToSet(record.chunks)

\* serialize_locked, of which only the "complete=" line varies.
serialize(chunks) ==
  IF chunks = {} THEN Text("none", <<>>) ELSE Text("list", completed_chunks(chunks))

\* load_existing rejects an index that is out of order or not below `count'.
Loadable(text, count) ==
  Ascending(text.indices) /\ \A i \in ToSet(text.indices) : i < count
load_existing(text) == ToSet(text.indices)
=============================================================================
