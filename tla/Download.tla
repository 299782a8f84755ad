------------------------------- MODULE Download -------------------------------
(***************************************************************************)
(* DownloadCoordinator::run(): the main thread, its download workers, the  *)
(* resume store and the output directory, over any number of runs of the   *)
(* program, with the failures of the network, the disk, the process and    *)
(* the machine between any two steps.                                      *)
(*                                                                         *)
(* The tracker and the other peers are the environment here: an announce   *)
(* or a fetch succeeds or fails.  The heartbeat thread and the upload      *)
(* server change nothing that this module talks about.                     *)
(***************************************************************************)
EXTENDS ResumeStore

CONSTANTS
  Workers,        \* the worker_count download threads
  Main,           \* the thread that calls run()
  NoWorker,       \* a free mutex, a null exception_ptr
  Shared,         \* is the directory used with other manifests too
  MaxListed,      \* how many chunk indices fit in an announce header
  MaxFaults       \* bound: failures of any kind in one behaviour

ASSUME WorkersAssumption ==
  /\ Workers # {} /\ NoWorker \notin Workers
  /\ Main \notin Workers /\ Threads = Workers \cup {Main}
ASSUME BoundsAssumption == MaxListed \in Nat /\ MaxFaults \in Nat

VARIABLES
  main, result,         \* where the main thread is, and how its run ends
  worker,               \* the locals of each worker
  next_index, failed, failure,
  writer,               \* the owner of write_mutex
  rotted,               \* ghost: chunks damaged from outside, not synced since
  faults                \* failures so far

mainVars == <<main, result>>
poolVars == <<worker, next_index, failed, failure, writer>>
faultVars == <<rotted, faults>>
vars == <<diskVars, storeVars, mainVars, poolVars, faultVars>>

MainSteps == {"Down", "Size", "Load", "Revalidate", "RevalidateFlush", "Serve",
              "Announce", "Join", "FinalFlush", "Hash", "Publish", "Remove",
              "CatchFlush", "Leave"}

Results == {"none", "returned", "existing", "final_mismatch", "orphan_resume",
            "part_mismatch", "header_too_long", "incomplete", "threw", "killed"}

WorkerSteps == {"Off", "Loop", "Claim", "Fetch", "Lock", "Write", "Fsync",
                "Mark", "Flush", "Fail", "Done"}

\* A worker: its step, its chunk, and whether the bytes it has got match.
WorkerFrame == [pc : WorkerSteps, chunk : Nat, match : BOOLEAN]

TypeOK ==
  /\ vol \in Directory /\ dur \in Directory
  /\ StoreTypeOK
  /\ main \in MainSteps /\ result \in Results
  /\ worker \in [Workers -> WorkerFrame]
  /\ next_index \in Nat
  /\ failed \in BOOLEAN
  /\ {failure, writer} \subseteq Workers \cup {NoWorker}
  /\ rotted \in SUBSET Chunks /\ faults \in 0 .. MaxFaults

NoWork == [pc |-> "Off", chunk |-> 0, match |-> FALSE]
Started == [NoWork EXCEPT !.pc = "Loop"]

Init ==
  /\ DirectoryInit
  /\ StoreInit
  /\ main = "Down" /\ result = "none"
  /\ worker = [w \in Workers |-> NoWork]
  /\ next_index = 0
  /\ failed = FALSE /\ failure = NoWorker /\ writer = NoWorker
  /\ rotted = {} /\ faults = 0

-----------------------------------------------------------------------------
Goto(step) == main' = step /\ UNCHANGED result

\* An exception in the try block of run(): catch (...) takes over.
Throw(r) == main' = "CatchFlush" /\ result' = r

\* The process ends, and its memory with it.
Exit(r) ==
  /\ main' = "Down" /\ result' = r
  /\ completed' = {} /\ revision' = 0 /\ dirty' = TRUE
  /\ flush' = [t \in Threads |-> NoFlush]
  /\ worker' = [w \in Workers |-> NoWork]
  /\ next_index' = 0
  /\ failed' = FALSE /\ failure' = NoWorker /\ writer' = NoWorker

-----------------------------------------------------------------------------
(* The main thread.                                                        *)

\* run() ends where it starts: the final file exists, and matches or not; the
\* resume file has no partial file; the partial file has another size.
EndAtOnceDiscarding ==
  /\ main = "Down" /\ vol.final = "absent" /\ vol.part = "short"
  /\ result' = "part_mismatch"
  /\ vol' = [vol EXCEPT !.part = "absent", !.data = {}]
  /\ UNCHANGED <<dur, storeVars, main, poolVars, faultVars>>
EndAtOnce ==
  /\ main = "Down"
  /\ \/ vol.final # "absent" /\ result' = IF vol.final = "published" /\ vol.data = Chunks
                                          THEN "existing" ELSE "final_mismatch"
     \/ /\ vol.final = "absent"
        /\ \/ vol.resume /\ vol.part = "absent" /\ result' = "orphan_resume"
           \/ vol.part = "short" /\ result' = "part_mismatch"
  /\ UNCHANGED <<diskVars, storeVars, main, poolVars, faultVars>>

\* prepare_partial_file finds a file of the right size, or creates one.  An
\* empty file has its size at once.
PreparePartial ==
  /\ main = "Down" /\ vol.final = "absent"
  /\ \/ /\ vol.part = "sized"
        /\ main' = "Load"
        /\ UNCHANGED vol
     \/ /\ vol.part = "absent" /\ ~vol.resume
        /\ vol' = [vol EXCEPT !.part = IF N = 0 THEN "sized" ELSE "short"]
        /\ main' = IF N = 0 THEN "Load" ELSE "Size"
  /\ result' = "none"
  /\ UNCHANGED <<dur, storeVars, poolVars, faultVars>>

\* The byte that gives the file its size is written when the stream closes.
SizePartial ==
  /\ main = "Size"
  /\ vol' = [vol EXCEPT !.part = "sized"]
  /\ Goto("Load")
  /\ UNCHANGED <<dur, storeVars, poolVars, faultVars>>

Load ==
  /\ main = "Load"
  /\ LoadOrCreate
  /\ Goto("Revalidate")
  /\ UNCHANGED <<diskVars, poolVars, faultVars>>

\* What the resume file lists and partial_chunk_matches rejects.
StaleNever == {}
StaleAll == IF completed \subseteq vol.data THEN {} ELSE completed
Stale == completed \ vol.data

\* revalidate_completed_chunks
Revalidate ==
  /\ main = "Revalidate"
  /\ MarkIncomplete(Stale)
  /\ Goto(IF Stale = {} THEN "Serve" ELSE "RevalidateFlush")
  /\ UNCHANGED <<diskVars, poolVars, faultVars>>

StartServer ==
  /\ main = "Serve"
  /\ Goto("Announce")
  /\ UNCHANGED <<diskVars, storeVars, poolVars, faultVars>>

\* A complete download is announced as "all", any other by its indices, and
\* TrackerClient::announce throws if its header exceeds kMaxHeaderBytes.
HeaderFits == AllComplete \/ Cardinality(completed) <= MaxListed

\* announce_current(), after which the workers are started.
Announce ==
  /\ main = "Announce"
  /\ \/ /\ HeaderFits
        /\ Goto("Join")
        /\ worker' = [w \in Workers |-> Started]
     \/ /\ ~HeaderFits
        /\ Throw("header_too_long")
        /\ UNCHANGED worker
  /\ UNCHANGED <<diskVars, storeVars, next_index, failed, failure, writer, faultVars>>

\* Every worker has returned: rethrow the failure of one of them, or go on.
JoinWorkers ==
  /\ main = "Join"
  /\ \A w \in Workers : worker[w].pc = "Done"
  /\ IF failure # NoWorker THEN Throw("threw")
     ELSE IF AllComplete THEN Goto("FinalFlush") ELSE Throw("incomplete")
  /\ UNCHANGED <<diskVars, storeVars, poolVars, faultVars>>

\* sha256_file(partial_path) is the manifest's file_sha256.
FileMatchesMarks == AllComplete
FileMatches == vol.part = "sized" /\ vol.data = Chunks

VerifyFile ==
  /\ main = "Hash"
  /\ IF FileMatches THEN Goto("Publish") ELSE Throw("threw")
  /\ UNCHANGED <<diskVars, storeVars, poolVars, faultVars>>

\* The partial file is renamed to the final file.
Publish ==
  /\ main = "Publish"
  /\ vol' = [vol EXCEPT !.part = "absent", !.final = "published"]
  /\ Goto("Remove")
  /\ UNCHANGED <<dur, storeVars, poolVars, faultVars>>

RemoveResume ==
  /\ main = "Remove"
  /\ vol' = [vol EXCEPT !.resume = FALSE, !.marks = {}]
  /\ main' = "Leave" /\ result' = "returned"
  /\ UNCHANGED <<dur, storeVars, poolVars, faultVars>>

\* The three calls of flush() by the main thread, and where each leads.
MainFlush ==
  /\ main \in {"RevalidateFlush", "FinalFlush", "CatchFlush"}
  /\ \/ (FlushSnapshot(Main) \/ FlushWrite(Main)) /\ UNCHANGED main
     \/ FlushReturns(Main) /\ main' = IF main = "RevalidateFlush" THEN "Serve"
                                      ELSE IF main = "FinalFlush" THEN "Hash" ELSE "Leave"
  /\ UNCHANGED <<result, poolVars, faultVars>>

LeaveCleaned ==
  /\ main = "Leave"
  /\ Exit(result)
  /\ vol' = [vol EXCEPT !.resume = FALSE, !.marks = {}]
  /\ UNCHANGED <<dur, faultVars>>
Leave ==
  /\ main = "Leave"
  /\ Exit(result)
  /\ UNCHANGED <<diskVars, faultVars>>

-----------------------------------------------------------------------------
(* The workers.                                                            *)

Move(w, step) == worker' = [worker EXCEPT ![w].pc = step]

\* while (!failed.load())
LoopTest(w) ==
  /\ worker[w].pc = "Loop"
  /\ Move(w, IF failed THEN "Done" ELSE "Claim")
  /\ UNCHANGED <<diskVars, storeVars, mainVars, next_index, failed, failure, writer, faultVars>>

\* index >= chunk_hashes.size()
PastLastByOne(i) == i > N
PastLast(i) == i >= N

\* next_index.fetch_add(1) and the two tests of it.  Nobody else marks this
\* chunk, so resume.complete(index) is not a step of its own.
Claim(w) ==
  /\ worker[w].pc = "Claim"
  /\ worker' = [worker EXCEPT ![w].chunk = next_index,
                              ![w].pc = IF PastLast(next_index) THEN "Done"
                                        ELSE IF next_index \in completed THEN "Loop"
                                        ELSE "Fetch"]
  /\ next_index' = next_index + 1
  /\ UNCHANGED <<diskVars, storeVars, mainVars, failed, failure, writer, faultVars>>

\* The checks of fetch_chunk, on an answer that matches the manifest or not.
Verified(match) == match

\* fetch_with_retry returns the bytes of some peer that passed fetch_chunk.
Fetch(w) ==
  /\ worker[w].pc = "Fetch"
  /\ \E match \in BOOLEAN :
       /\ Verified(match)
       /\ worker' = [worker EXCEPT ![w].pc = "Lock", ![w].match = match]
  /\ UNCHANGED <<diskVars, storeVars, mainVars, next_index, failed, failure, writer, faultVars>>

\* write_verified_chunk: the lock_guard of write_mutex.
MutexIgnored == TRUE
MutexFree == writer = NoWorker

Lock(w) ==
  /\ worker[w].pc = "Lock"
  /\ MutexFree
  /\ writer' = w
  /\ Move(w, "Write")
  /\ UNCHANGED <<diskVars, storeVars, mainVars, next_index, failed, failure, faultVars>>

\* The pwrite loop runs to its end.  The last chunk gives the file its size.
WriteAndMark(w) ==
  /\ worker[w].pc = "Write"
  /\ MarkComplete(worker[w].chunk)
  /\ vol' = [vol EXCEPT !.data = @ \cup {worker[w].chunk}]
  /\ Move(w, "Fsync")
  /\ UNCHANGED <<dur, mainVars, next_index, failed, failure, writer, faultVars>>
WriteChunk(w) ==
  LET c == worker[w].chunk IN
  /\ worker[w].pc = "Write"
  /\ vol' = [vol EXCEPT !.data = IF worker[w].match THEN @ \cup {c} ELSE @ \ {c},
                        !.part = IF c = N - 1 THEN "sized" ELSE @]
  /\ worker' = [worker EXCEPT ![w].pc = "Fsync", ![w].match = FALSE]
  /\ UNCHANGED <<dur, storeVars, mainVars, next_index, failed, failure, writer, faultVars>>

FsyncSkipped(w) ==
  /\ worker[w].pc = "Fsync"
  /\ Move(w, "Mark")
  /\ UNCHANGED <<diskVars, storeVars, mainVars, next_index, failed, failure, writer, faultVars>>
Fsync(w) ==
  /\ worker[w].pc = "Fsync"
  /\ SyncChunk(worker[w].chunk)
  /\ rotted' = rotted \ ({worker[w].chunk} \cap vol.data)
  /\ Move(w, "Mark")
  /\ UNCHANGED <<vol, storeVars, mainVars, next_index, failed, failure, writer, faults>>

\* close() and resume.mark_complete(index)
Mark(w) ==
  /\ worker[w].pc = "Mark"
  /\ MarkComplete(worker[w].chunk)
  /\ Move(w, "Flush")
  /\ UNCHANGED <<diskVars, mainVars, next_index, failed, failure, writer, faultVars>>

\* resume.flush(), and the end of the lock_guard.  The announce that follows
\* changes nothing here, whether it succeeds or not.
WorkerFlush(w) ==
  /\ worker[w].pc = "Flush"
  /\ \/ (FlushSnapshot(w) \/ FlushWrite(w)) /\ UNCHANGED <<worker, writer>>
     \/ FlushReturns(w) /\ writer' = NoWorker /\ Move(w, "Loop")
  /\ UNCHANGED <<mainVars, next_index, failed, failure, faultVars>>

\* catch (...) of the worker: the first exception is kept.
StopQuietly(w) == failed' = TRUE /\ UNCHANGED failure
RecordFailure(w) == failed' = TRUE /\ failure' = IF failure = NoWorker THEN w ELSE failure

Fail(w) ==
  /\ worker[w].pc = "Fail"
  /\ RecordFailure(w)
  /\ Move(w, "Done")
  /\ UNCHANGED <<diskVars, storeVars, mainVars, next_index, writer, faultVars>>

-----------------------------------------------------------------------------
(* What goes wrong around the program.                                     *)

Fault == faults < MaxFaults /\ faults' = faults + 1

\* Closing the stream fails: prepare_partial_file has tested it before that.
SizePartialFails ==
  /\ main = "Size"
  /\ Fault
  /\ Goto("Load")
  /\ UNCHANGED <<diskVars, storeVars, poolVars, rotted>>

\* A call of the main thread throws, before the try block or in it, or the
\* removal of the resume file reports an error that is only logged.
MainFails ==
  /\ Fault
  /\ \/ main \in {"Load", "Revalidate", "Serve"} /\ main' = "Leave" /\ result' = "threw"
     \/ main \in {"Announce", "Hash", "Publish"} /\ Throw("threw")
     \/ main = "Remove" /\ main' = "Leave" /\ result' = "returned"
  /\ UNCHANGED <<diskVars, storeVars, poolVars, rotted>>

\* The flush of the main thread throws: out of run(), into its catch block, or
\* in that block, which swallows it.
MainFlushFails ==
  /\ Fault
  /\ FlushFails(Main)
  /\ \/ main = "RevalidateFlush" /\ main' = "Leave" /\ result' = "threw"
     \/ main = "FinalFlush" /\ Throw("threw")
     \/ main = "CatchFlush" /\ Goto("Leave")
  /\ UNCHANGED <<poolVars, rotted>>

\* All rounds of fetch_with_retry fail.
FetchFails(w) ==
  /\ worker[w].pc = "Fetch"
  /\ Fault
  /\ Move(w, "Fail")
  /\ UNCHANGED <<diskVars, storeVars, mainVars, next_index, failed, failure, writer, rotted>>

\* The lock_guard is unwound with the stack.
UnlockForgotten == UNCHANGED writer
Unlock == writer' = NoWorker

\* open, pwrite, fsync, close or write_atomic fails.  A torn pwrite leaves
\* the chunk as good, or as bad, as it was.
DiskFails(w) ==
  /\ Fault
  /\ \/ worker[w].pc \in {"Write", "Fsync", "Mark"} /\ UNCHANGED <<diskVars, storeVars>>
     \/ worker[w].pc = "Flush" /\ FlushFails(w)
  /\ Unlock
  /\ worker' = [worker EXCEPT ![w].pc = "Fail", ![w].match = FALSE]
  /\ UNCHANGED <<mainVars, next_index, failed, failure, rotted>>

\* The process dies, or the machine does and what was not durable is gone.
Crash ==
  /\ Fault
  /\ (main # "Down" /\ UNCHANGED vol) \/ vol' = dur
  /\ Exit("killed")
  /\ UNCHANGED <<dur, rotted>>

\* A chunk is damaged on the disk, at the latest before the final hash reads it.
Rot(c) ==
  /\ Fault
  /\ c \in vol.data /\ vol.final = "absent" /\ main # "Publish"
  /\ vol' = [vol EXCEPT !.data = @ \ {c}]
  /\ dur' = [dur EXCEPT !.data = @ \ {c}]
  /\ rotted' = rotted \cup {c}
  /\ UNCHANGED <<storeVars, mainVars, poolVars>>

\* Until now the program was down, and somebody ran it with another manifest for
\* a file of this name: it has its own resume file, but <file>.part and the final
\* name are the same.  It stopped half way, with bytes of which any may match here,
\* or published its file, which may be this one cut into other chunks, and long
\* enough ago for all of it to be durable.
OtherManifest ==
  /\ Shared /\ Fault
  /\ main = "Down" /\ vol.final = "absent"
  /\ \/ \E D \in SUBSET Chunks : \E p \in {"short", "sized"} :
          vol.part \in {"absent", p} /\ vol' = [vol EXCEPT !.part = p, !.data = D]
     \/ vol' = [vol EXCEPT !.part = "absent", !.data = {}, !.final = "foreign"]
     \/ vol' = [vol EXCEPT !.part = "absent", !.data = Chunks, !.final = "published"]
  /\ dur' = vol'
  /\ rotted' = (rotted \cup vol.data) \ vol'.data
  /\ UNCHANGED <<storeVars, mainVars, poolVars>>

Writeback == JournalCommit /\ UNCHANGED <<storeVars, mainVars, poolVars, faultVars>>

-----------------------------------------------------------------------------
MainStep ==
  \/ SizePartial \/ Load \/ Revalidate \/ StartServer \/ Announce \/ JoinWorkers
  \/ VerifyFile \/ Publish \/ RemoveResume \/ MainFlush \/ Leave

WorkerStep(w) ==
  \/ LoopTest(w) \/ Claim(w) \/ Fetch(w) \/ Lock(w) \/ WriteChunk(w)
  \/ Fsync(w) \/ Mark(w) \/ WorkerFlush(w) \/ Fail(w)

Failure ==
  \/ SizePartialFails \/ MainFails \/ MainFlushFails \/ Crash \/ OtherManifest
  \/ \E w \in Workers : FetchFails(w) \/ DiskFails(w)
  \/ \E c \in Chunks : Rot(c)

Next ==
  \/ EndAtOnce \/ PreparePartial \/ MainStep
  \/ \E w \in Workers : WorkerStep(w)
  \/ Failure \/ Writeback

Spec == Init /\ [][Next]_vars

\* Every thread that can take a step takes it in the end, and the operator
\* runs the program again after it has stopped.
FairSpec ==
  /\ Spec
  /\ WF_vars(PreparePartial) /\ WF_vars(MainStep)
  /\ \A w \in Workers : WF_vars(WorkerStep(w))

-----------------------------------------------------------------------------
(* Properties.                                                             *)

\* The resume file, as it is or as a power loss would leave it, lists only
\* chunks whose bytes are durable, apart from those damaged from outside
\* (write_verified_chunk: fsync, then mark_complete, then flush).
ResumeOnlyDurable == (vol.marks \cup dur.marks) \ rotted \subseteq dur.data

\* A store that is not dirty is on the disk as it is in memory, although
\* flush() writes the file outside the store's mutex.
CleanIsPersisted ==
  main \notin {"Down", "Size", "Load", "Leave"} /\ ~dirty
    => vol.resume /\ vol.marks = completed

\* When every worker has returned and none has failed, every chunk is complete:
\* the test of all_complete() after the join never throws.
JoinMeansComplete ==
  (\A w \in Workers : worker[w].pc = "Done") /\ failure = NoWorker => AllComplete

\* No two workers work on one chunk, and none on a chunk that is complete and
\* so already served to other peers (run(): next_index, resume.complete).
Working(w) == worker[w].pc \in {"Fetch", "Lock", "Write", "Fsync", "Mark"}
OneWorkerPerChunk ==
  \A w \in Workers : Working(w) =>
    /\ worker[w].chunk \notin completed
    /\ \A v \in Workers \ {w} : Working(v) => worker[v].chunk # worker[w].chunk

\* A final file that run() made holds the manifest's bytes, and would hold them
\* after a power loss too.
FinalIsVerified ==
  /\ vol.final = "published" => vol.data = Chunks /\ dur.data = Chunks
  /\ dur.final = "published" => dur.data = Chunks

\* run() never leaves, not even by a crash, a resume file whose partial file is
\* missing: the next run would refuse to start.
Orphan(dir) == dir.resume /\ dir.part = "absent" /\ dir.final = "absent"
NeverOrphaned == [][(Orphan(vol') => Orphan(vol)) /\ (Orphan(dur') => Orphan(dur))]_vars

\* Every run ends: the join returns and no worker is left waiting for
\* write_mutex, whichever step fails.
RunEnds == main # "Down" ~> main = "Down"

\* From an empty directory, and however runs are interrupted, running the
\* program again ends with a final file in place, unless the partial file was
\* left with another size.
Recovers ==
  vol = EmptyDirectory => <>[](vol.final # "absent" \/ vol.part = "short")

-----------------------------------------------------------------------------
(* What the documentation says and the code does not do.                   *)

\* docs/runbook.md: "Existing partial file does not match" means "Disk state
\* was changed outside SwarmSync" (unless the directory is shared, nothing here
\* changes the file's size but prepare_partial_file and write_verified_chunk).
PartialMismatchIsExternal == result # "part_mismatch"

\* README.md: "If a downloader stops, re-run the same command with the same
\* manifest and output directory", which then "requests only missing or invalid
\* chunks" (the header of its first announce must not keep it from that).
RerunIsAccepted == result # "header_too_long"
=============================================================================
