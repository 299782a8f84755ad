-------------------------- MODULE DownloadInvariant --------------------------
(***************************************************************************)
(* The inductive invariant of Download, in named parts.  Module MCDownload *)
(* checks it on small instances, module DownloadProofs proves it.          *)
(***************************************************************************)
EXTENDS Download

\* Chunks that may be recorded as complete: undamaged ones are durable, and one
\* that reads back as the manifest says is durable too.
Safe(S) == S \ rotted \subseteq dur.data /\ S \cap vol.data \subseteq dur.data

\* The disk.  Bytes that are durable are visible; both resume files are safe.
DiskInv ==
  /\ dur.data \subseteq vol.data
  /\ Safe(vol.marks)
  /\ dur.marks \ rotted \subseteq dur.data

\* The store.  From the revalidation on, memory knows all that the file lists.
StoreInv ==
  /\ Safe(completed)
  /\ CleanIsPersisted
  /\ main = "Revalidate" => completed = vol.marks
  /\ main \in {"Serve", "Announce", "Join"} => vol.marks \subseteq completed

\* Calls of flush().  One at a time, and what it writes is still what is complete.
FlushInv ==
  /\ \A t \in Threads : flush[t].step # "idle" =>
       flush[t].chunks = completed /\ flush[t].revision = revision
  /\ \A t \in Threads : flush[t].step = "confirm" => vol.resume /\ vol.marks = completed
  /\ \A w \in Workers : flush[w].step # "idle" => worker[w].pc = "Flush"
  /\ flush[Main].step # "idle" => main \in {"RevalidateFlush", "FinalFlush", "CatchFlush"}

Critical(w) == worker[w].pc \in {"Write", "Fsync", "Mark", "Flush"}

\* The workers: write_mutex, and what a worker at each step knows of its chunk.
WorkerInv ==
  /\ \A w \in Workers : Critical(w) => writer = w
  /\ main # "Join" => \A w \in Workers : worker[w].pc \in {"Off", "Done"}
  /\ \A w \in Workers : Working(w) =>
       worker[w].chunk \in Chunks /\ worker[w].chunk < next_index
  /\ OneWorkerPerChunk
  /\ \A w \in Workers : worker[w].pc \in {"Lock", "Write"} => worker[w].match
  /\ \A w \in Workers : worker[w].pc = "Fsync" => worker[w].chunk \in vol.data \cup rotted
  /\ \A w \in Workers : worker[w].pc = "Mark" => Safe({worker[w].chunk})

\* The work: every chunk handed out is complete, in work, or lost to a failure.
DispatchInv ==
  /\ failed <=> failure # NoWorker
  /\ main \in {"Down", "Size", "Load", "Revalidate", "RevalidateFlush", "Serve", "Announce"}
       => next_index = 0 /\ ~failed
  /\ \A c \in Chunks : c < next_index =>
       \/ c \in completed \/ failed
       \/ \E w \in Workers : worker[w].chunk = c /\ (Working(w) \/ worker[w].pc = "Fail")
  /\ \A w \in Workers : worker[w].pc = "Done" => failed \/ next_index >= N

\* The final file.
FinalInv ==
  /\ FinalIsVerified
  /\ main \notin {"Down", "Remove", "Leave"} =>
       vol.final = "absent" /\ vol.part # "absent"
  /\ main \in {"FinalFlush", "Hash", "Publish"} => AllComplete
  /\ main = "Publish" => vol.data = Chunks
  /\ main = "Remove" => vol.final = "published"
  /\ dur.final = "published" => vol.final = "published"
  /\ Orphan(vol) <=> Orphan(dur)

\* Everything the safety properties of run() rest on: what each file and each
\* thread may be relied on for, in every state (download.cpp, resume_store.cpp).
Inv == TypeOK /\ DiskInv /\ StoreInv /\ FlushInv /\ WorkerInv /\ DispatchInv /\ FinalInv
=============================================================================
