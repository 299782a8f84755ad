--------------------------- MODULE OutputDirectory ---------------------------
(***************************************************************************)
(* The output directory of one download: the partial file, the resume file *)
(* and the final file, as DownloadCoordinator::run() uses them through the *)
(* file system.  The file system itself is external to the repository.     *)
(*                                                                         *)
(* Every file is seen twice.  `vol' is what a running process reads: it    *)
(* survives the death of the process and is lost with the machine.  `dur'  *)
(* is what is left after a power loss.  The bytes of a chunk are           *)
(* abstracted to the one thing run() asks of them: do they hash to the     *)
(* manifest's digest.                                                      *)
(***************************************************************************)
EXTENDS Integers

CONSTANT N              \* manifest.chunk_hashes.size(); 0 for an empty file

ASSUME NAssumption == N \in Nat

Chunks == 0 .. N - 1

VARIABLES vol, dur

diskVars == <<vol, dur>>

(***************************************************************************)
(* part    the size of <file>.part: no such file, another size than the    *)
(*         manifest says (most often smaller), or the right size           *)
(* data    the chunks whose bytes match the manifest, in <file>.part or,   *)
(*         once it has been renamed, in the final file                     *)
(* resume  does <swarm_id>.resume exist; `marks' is its "complete=" list   *)
(* final   the final file: missing, another file of that name, or a        *)
(*         renamed partial file with the manifest's bytes                  *)
(***************************************************************************)
Directory == [part : {"absent", "short", "sized"}, data : SUBSET Chunks,
              resume : BOOLEAN, marks : SUBSET Chunks,
              final : {"absent", "foreign", "published"}]

EmptyDirectory == [part |-> "absent", data |-> {}, resume |-> FALSE,
                   marks |-> {}, final |-> "absent"]

\* A resume file without its partial file and an unrelated file under the
\* final name are left by a person, and run() has a branch for each.
InitialDirectories == {EmptyDirectory,
                       [EmptyDirectory EXCEPT !.final = "foreign"],
                       [EmptyDirectory EXCEPT !.resume = TRUE]}

DirectoryInit == vol \in InitialDirectories /\ dur = vol

\* Directory entries and file sizes reach the disk in the order in which they
\* were made, at a moment of the kernel's choosing: run() never syncs the
\* directory.  Chunk bytes get there by fsync only (a chunk the kernel happens
\* to write back by itself is as safe as one that was synced).
JournalCommit ==
  /\ dur' = [vol EXCEPT !.data = dur.data]
  /\ UNCHANGED vol

\* fsync of the partial file, of which the caller relies on chunk c alone.
SyncChunk(c) ==
  dur' = [dur EXCEPT !.part = vol.part, !.data = @ \cup ({c} \cap vol.data)]
=============================================================================
