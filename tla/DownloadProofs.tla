---------------------------- MODULE DownloadProofs ----------------------------
(***************************************************************************)
(* Proofs, for any number of chunks, workers and failures, of the safety   *)
(* properties of DownloadCoordinator::run() that module Download states.   *)
(***************************************************************************)
EXTENDS DownloadInvariant, FiniteSetTheorems, TLAPS

-----------------------------------------------------------------------------
(* Types.                                                                  *)

\* revalidate_completed_chunks marks finitely many chunks incomplete.
LEMMA CardinalityOfChunks ==
  ASSUME NEW S \in SUBSET Chunks
  PROVE  Cardinality(S) \in Nat
<1>1. N - 1 \in Int
  BY NAssumption
<1>2. IsFiniteSet(Chunks)
  BY <1>1, FS_Interval DEF Chunks
<1>3. IsFiniteSet(S)
  BY <1>2, FS_Subset
<1> QED
  BY <1>3, FS_CardinalityType

\* The locals of a flush() and of a worker, and the directories run() starts
\* from, have their types.
LEMMA FrameTypes ==
  /\ NoFlush \in FlushFrame
  /\ NoWork \in WorkerFrame /\ Started \in WorkerFrame
  /\ InitialDirectories \subseteq Directory
<1>1. NoFlush \in FlushFrame
  BY DEF NoFlush, FlushFrame
<1>2. NoWork \in WorkerFrame /\ Started \in WorkerFrame
  BY DEF NoWork, Started, WorkerFrame, WorkerSteps
<1>3. EmptyDirectory \in Directory
  BY DEF EmptyDirectory, Directory
<1>4. [EmptyDirectory EXCEPT !.final = "foreign"] \in Directory
  BY DEF EmptyDirectory, Directory
<1>5. [EmptyDirectory EXCEPT !.resume = TRUE] \in Directory
  BY DEF EmptyDirectory, Directory
<1> QED
  BY <1>1, <1>2, <1>3, <1>4, <1>5 DEF InitialDirectories

\* A step of flush() by thread t preserves the types of the store and the disk.
LEMMA FlushTypes ==
  ASSUME TypeOK, NEW t \in Threads,
         FlushSnapshot(t) \/ FlushWrite(t) \/ FlushReturns(t) \/ FlushFails(t)
  PROVE  StoreTypeOK' /\ vol' \in Directory /\ dur' \in Directory
<1> USE DEF TypeOK, StoreTypeOK, diskVars
<1>0. flush[t] \in FlushFrame
  OBVIOUS
<1>1. CASE FlushSnapshot(t)
  <2>1. [step |-> "write", chunks |-> completed, revision |-> revision] \in FlushFrame
    BY DEF FlushFrame
  <2> QED
    BY <1>1, <2>1 DEF FlushSnapshot
<1>2. CASE FlushWrite(t)
  <2>1. [flush[t] EXCEPT !.step = "confirm"] \in FlushFrame /\ flush[t].chunks \in SUBSET Chunks
    BY <1>0 DEF FlushFrame
  <2>2. [vol EXCEPT !.resume = TRUE, !.marks = flush[t].chunks] \in Directory
    BY <2>1 DEF Directory
  <2> QED
    BY <1>2, <2>1, <2>2 DEF FlushWrite
<1>3. CASE FlushReturns(t)
  BY <1>3, FrameTypes DEF FlushReturns
<1>4. CASE FlushFails(t)
  BY <1>4, FrameTypes DEF FlushFails
<1> QED
  BY <1>1, <1>2, <1>3, <1>4

\* The type invariant holds of a directory a person has left and no process.
LEMMA TypeInit == Init => TypeOK
<1> SUFFICES ASSUME Init
             PROVE  TypeOK
  OBVIOUS
<1>1. vol \in Directory /\ dur \in Directory
  BY FrameTypes DEF Init, DirectoryInit
<1>2. StoreTypeOK
  BY FrameTypes DEF Init, StoreInit, StoreTypeOK
<1>3. worker \in [Workers -> WorkerFrame]
  BY FrameTypes DEF Init
<1>4. faults \in 0 .. MaxFaults /\ rotted \in SUBSET Chunks /\ next_index \in Nat
  BY BoundsAssumption DEF Init
<1>5. main \in MainSteps /\ result \in Results /\ failed \in BOOLEAN
  BY DEF Init, MainSteps, Results
<1>6. {failure, writer} \subseteq Workers \cup {NoWorker}
  BY DEF Init
<1> QED
  BY <1>1, <1>2, <1>3, <1>4, <1>5, <1>6 DEF TypeOK

\* What a run with another manifest leaves: this run's resume file is as it was,
\* and the rest of the directory is durable.
LEMMA OtherManifestLeaves ==
  ASSUME TypeOK, OtherManifest
  PROVE  /\ vol' \in Directory /\ dur' = vol'
         /\ vol'.resume = vol.resume /\ vol'.marks = vol.marks
         /\ \/ vol'.final = "absent" /\ vol'.part # "absent"
            \/ vol'.final = "foreign"
            \/ vol'.final = "published" /\ vol'.data = Chunks
         /\ vol.final = "absent" /\ main = "Down" /\ faults' \in 0 .. MaxFaults
         /\ rotted' = (rotted \cup vol.data) \ vol'.data
         /\ UNCHANGED <<storeVars, mainVars, poolVars>>
<1>0. vol \in Directory
  BY DEF TypeOK
<1>1. faults' \in 0 .. MaxFaults
  <2>1. faults \in 0 .. MaxFaults /\ faults < MaxFaults /\ faults' = faults + 1
    BY DEF OtherManifest, Fault, TypeOK
  <2> QED
    BY <2>1, BoundsAssumption
<1>2. CASE \E D \in SUBSET Chunks : \E p \in {"short", "sized"} :
             vol' = [vol EXCEPT !.part = p, !.data = D]
  BY <1>0, <1>1, <1>2 DEF OtherManifest, Directory
<1>3. CASE vol' = [vol EXCEPT !.part = "absent", !.data = {}, !.final = "foreign"]
  BY <1>0, <1>1, <1>3 DEF OtherManifest, Directory
<1>4. CASE vol' = [vol EXCEPT !.part = "absent", !.data = Chunks, !.final = "published"]
  BY <1>0, <1>1, <1>4 DEF OtherManifest, Directory
<1> QED
  BY <1>2, <1>3, <1>4 DEF OtherManifest

\* Every step of run(), of its workers and of their environment preserves it.
LEMMA TypeStep == TypeOK /\ WorkerInv /\ [Next]_vars => TypeOK'
<1> USE NAssumption, WorkersAssumption, BoundsAssumption
<1> SUFFICES ASSUME TypeOK, WorkerInv, [Next]_vars
             PROVE  TypeOK'
  OBVIOUS
<1> USE DEF TypeOK, StoreTypeOK, MainSteps, Results, Goto, Throw, Exit, Move, Fault,
            vars, diskVars, storeVars, mainVars, poolVars, faultVars
<1>1. CASE EndAtOnce
  BY <1>1 DEF EndAtOnce
<1>2. CASE PreparePartial
  BY <1>2 DEF PreparePartial, Directory
<1>3. CASE SizePartial
  BY <1>3 DEF SizePartial, Directory
<1>4. CASE Load
  BY <1>4 DEF Load, LoadOrCreate, Directory
<1>5. CASE Revalidate
  BY <1>5, CardinalityOfChunks DEF Revalidate, MarkIncomplete, Stale
<1>6. CASE StartServer
  BY <1>6 DEF StartServer
<1>7. CASE Announce
  BY <1>7, FrameTypes DEF Announce
<1>8. CASE JoinWorkers
  BY <1>8 DEF JoinWorkers
<1>9. CASE VerifyFile
  BY <1>9 DEF VerifyFile
<1>10. CASE Publish
  BY <1>10 DEF Publish, Directory
<1>11. CASE RemoveResume
  BY <1>11 DEF RemoveResume, Directory
<1>12. CASE MainFlush
  BY <1>12, FlushTypes DEF MainFlush
<1>13. CASE Leave
  BY <1>13, FrameTypes DEF Leave
<1>14. CASE SizePartialFails
  BY <1>14 DEF SizePartialFails
<1>15. CASE MainFails
  BY <1>15 DEF MainFails
<1>16. CASE MainFlushFails
  BY <1>16, FlushTypes DEF MainFlushFails
<1>17. CASE Crash
  <2>1. vol' \in Directory /\ dur' \in Directory
    BY <1>17 DEF Crash
  <2>2. StoreTypeOK'
    BY <1>17, FrameTypes DEF Crash
  <2>3. main' \in MainSteps /\ result' \in Results /\ next_index' \in Nat /\ faults' \in 0 .. MaxFaults
    BY <1>17 DEF Crash
  <2>4. worker' \in [Workers -> WorkerFrame]
    BY <1>17, FrameTypes DEF Crash
  <2> QED
    BY <1>17, <2>1, <2>2, <2>3, <2>4 DEF Crash
<1>18. CASE Writeback
  BY <1>18 DEF Writeback, JournalCommit, Directory
<1>19. ASSUME NEW w \in Workers, LoopTest(w)
       PROVE  TypeOK'
  <2>1. worker' \in [Workers -> WorkerFrame]
    BY <1>19 DEF LoopTest, WorkerSteps, WorkerFrame
  <2> QED
    BY <1>19, <2>1 DEF LoopTest
<1>20. ASSUME NEW w \in Workers, Claim(w)
       PROVE  TypeOK'
  <2>1. worker' \in [Workers -> WorkerFrame]
    BY <1>20 DEF Claim, WorkerSteps, WorkerFrame
  <2> QED
    BY <1>20, <2>1 DEF Claim
<1>21. ASSUME NEW w \in Workers, Fetch(w)
       PROVE  TypeOK'
  <2>1. PICK match \in BOOLEAN : worker' = [worker EXCEPT ![w].pc = "Lock", ![w].match = match]
    BY <1>21 DEF Fetch
  <2>2. worker[w] \in WorkerFrame
    OBVIOUS
  <2>3. [worker[w] EXCEPT !.pc = "Lock", !.match = match] \in WorkerFrame
    BY <2>2 DEF WorkerSteps, WorkerFrame
  <2>4. worker' \in [Workers -> WorkerFrame]
    BY <2>1, <2>3
  <2> QED
    BY <1>21, <2>4 DEF Fetch
<1>22. ASSUME NEW w \in Workers, Lock(w)
       PROVE  TypeOK'
  <2>1. worker' \in [Workers -> WorkerFrame]
    BY <1>22 DEF Lock, WorkerSteps, WorkerFrame
  <2> QED
    BY <1>22, <2>1 DEF Lock
<1>23. ASSUME NEW w \in Workers, WriteChunk(w)
       PROVE  TypeOK'
  <2>0. worker[w].chunk \in Chunks
    BY <1>23 DEF WriteChunk, WorkerInv, Working
  <2>1. vol' \in Directory
    BY <1>23, <2>0 DEF WriteChunk, Directory
  <2>2. worker' \in [Workers -> WorkerFrame]
    BY <1>23 DEF WriteChunk, WorkerSteps, WorkerFrame
  <2> QED
    BY <1>23, <2>1, <2>2 DEF WriteChunk
<1>24. ASSUME NEW w \in Workers, Fsync(w)
       PROVE  TypeOK'
  <2>1. dur' \in Directory
    BY <1>24 DEF Fsync, SyncChunk, Directory
  <2>2. worker' \in [Workers -> WorkerFrame]
    BY <1>24 DEF Fsync, WorkerSteps, WorkerFrame
  <2> QED
    BY <1>24, <2>1, <2>2 DEF Fsync
<1>25. ASSUME NEW w \in Workers, Mark(w)
       PROVE  TypeOK'
  <2>1. worker' \in [Workers -> WorkerFrame]
    BY <1>25 DEF Mark, WorkerSteps, WorkerFrame
  <2>2. worker[w].chunk \in Chunks
    BY <1>25 DEF Mark, WorkerInv, Working
  <2> QED
    BY <1>25, <2>1, <2>2 DEF Mark, MarkComplete
<1>26. ASSUME NEW w \in Workers, WorkerFlush(w)
       PROVE  TypeOK'
  <2>0. [worker EXCEPT ![w].pc = "Loop"] \in [Workers -> WorkerFrame]
    BY DEF WorkerSteps, WorkerFrame
  <2>1. worker' \in [Workers -> WorkerFrame]
    BY <1>26, <2>0 DEF WorkerFlush
  <2> QED
    BY <1>26, <2>1, FlushTypes DEF WorkerFlush
<1>27. ASSUME NEW w \in Workers, Fail(w)
       PROVE  TypeOK'
  <2>1. worker' \in [Workers -> WorkerFrame]
    BY <1>27 DEF Fail, WorkerSteps, WorkerFrame
  <2> QED
    BY <1>27, <2>1 DEF Fail, RecordFailure
<1>28. ASSUME NEW w \in Workers, FetchFails(w)
       PROVE  TypeOK'
  <2>1. worker' \in [Workers -> WorkerFrame]
    BY <1>28 DEF FetchFails, WorkerSteps, WorkerFrame
  <2> QED
    BY <1>28, <2>1 DEF FetchFails
<1>29. ASSUME NEW w \in Workers, DiskFails(w)
       PROVE  TypeOK'
  <2>1. worker' \in [Workers -> WorkerFrame]
    BY <1>29 DEF DiskFails, WorkerSteps, WorkerFrame
  <2>2. StoreTypeOK' /\ vol' \in Directory /\ dur' \in Directory
    BY <1>29, FlushTypes DEF DiskFails
  <2>3. faults' \in 0 .. MaxFaults /\ writer' = NoWorker
    BY <1>29 DEF DiskFails, Unlock
  <2>4. UNCHANGED <<mainVars, next_index, failed, failure, rotted>>
    BY <1>29 DEF DiskFails
  <2> QED
    BY <2>1, <2>2, <2>3, <2>4
<1>30. ASSUME NEW c \in Chunks, Rot(c)
       PROVE  TypeOK'
  BY <1>30 DEF Rot, Directory
<1>31. CASE OtherManifest
  <2>1. vol.data \in SUBSET Chunks
    BY DEF Directory
  <2>2. vol' \in Directory /\ dur' \in Directory /\ rotted' \in SUBSET Chunks
    BY <1>31, <2>1, OtherManifestLeaves
  <2> QED
    BY <1>31, <2>2, OtherManifestLeaves
<1>32. CASE UNCHANGED vars
  BY <1>32
<1> QED
  BY <1>1, <1>2, <1>3, <1>4, <1>5, <1>6, <1>7, <1>8, <1>9, <1>10, <1>11, <1>12, <1>13,
     <1>14, <1>15, <1>16, <1>17, <1>18, <1>19, <1>20, <1>21, <1>22, <1>23, <1>24, <1>25,
     <1>26, <1>27, <1>28, <1>29, <1>30, <1>31, <1>32
  DEF Next, MainStep, WorkerStep, Failure

-----------------------------------------------------------------------------
(* The parts of the inductive invariant.                                   *)

\* A chunk whose bytes become durable before it is marked stays safe: no step
\* makes the resume file, in memory or on the disk, list a chunk too early.
LEMMA DiskStep == Inv /\ [Next]_vars => DiskInv'
<1> SUFFICES ASSUME Inv, [Next]_vars
             PROVE  DiskInv'
  OBVIOUS
<1> USE DEF DiskInv, Safe, diskVars, faultVars
<1>0. /\ DiskInv
      /\ vol \in Directory /\ dur \in Directory
  BY DEF Inv, TypeOK
<1>1. CASE UNCHANGED <<vol, dur, rotted>>
  BY <1>0, <1>1
<1>2. CASE PreparePartial \/ SizePartial \/ Publish \/ RemoveResume
  <2>1. /\ UNCHANGED <<dur, rotted>> /\ vol'.data = vol.data
        /\ vol'.marks \in {vol.marks, {}}
    BY <1>0, <1>2 DEF PreparePartial, SizePartial, Publish, RemoveResume, Directory
  <2> QED
    BY <1>0, <2>1
<1>3. ASSUME NEW t \in Threads, FlushWrite(t), UNCHANGED rotted
      PROVE  DiskInv'
  <2>1. UNCHANGED dur /\ vol'.data = vol.data /\ vol'.marks = flush[t].chunks
    BY <1>0, <1>3 DEF FlushWrite, Directory
  <2>2. flush[t].chunks = completed /\ Safe(completed)
    BY <1>3 DEF Inv, FlushInv, StoreInv, FlushWrite
  <2> QED
    BY <1>0, <1>3, <2>1, <2>2
<1>4. CASE MainFlush
  <2>1. Main \in Threads
    BY WorkersAssumption
  <2>2. CASE FlushWrite(Main)
    BY <1>3, <1>4, <2>1, <2>2 DEF MainFlush
  <2> QED
    BY <1>1, <1>4, <2>2 DEF MainFlush, FlushSnapshot, FlushReturns
<1>5. CASE Crash
  <2>1. UNCHANGED <<dur, rotted>> /\ vol' \in {vol, dur}
    BY <1>5 DEF Crash
  <2> QED
    BY <1>0, <2>1
<1>6. CASE Writeback
  <2>1. /\ UNCHANGED <<vol, rotted>>
        /\ dur'.data = dur.data /\ dur'.marks = vol.marks
    BY <1>0, <1>6 DEF Writeback, JournalCommit, Directory
  <2> QED
    BY <1>0, <2>1
<1>7. ASSUME NEW w \in Workers, WriteChunk(w)
      PROVE  DiskInv'
  <2>1. worker[w].match /\ worker[w].chunk \notin vol.marks
    <3>1. worker[w].pc = "Write" /\ main = "Join"
      BY <1>7 DEF WriteChunk, Inv, WorkerInv
    <3> QED
      BY <3>1 DEF Inv, WorkerInv, StoreInv, OneWorkerPerChunk, Working
  <2>2. /\ UNCHANGED <<dur, rotted>> /\ vol'.marks = vol.marks
        /\ vol'.data = vol.data \cup {worker[w].chunk}
    BY <1>0, <1>7, <2>1 DEF WriteChunk, Directory
  <2> QED
    BY <1>0, <2>1, <2>2
<1>8. ASSUME NEW w \in Workers, Fsync(w)
      PROVE  DiskInv'
  <2>1. /\ UNCHANGED vol /\ dur'.marks = dur.marks
        /\ dur'.data = dur.data \cup ({worker[w].chunk} \cap vol.data)
        /\ rotted' = rotted \ ({worker[w].chunk} \cap vol.data)
    BY <1>0, <1>8 DEF Fsync, SyncChunk, Directory
  <2> QED
    BY <1>0, <2>1
<1>9. ASSUME NEW w \in Workers, WorkerFlush(w)
      PROVE  DiskInv'
  <2>1. w \in Threads
    BY WorkersAssumption
  <2>2. CASE FlushWrite(w)
    BY <1>3, <1>9, <2>1, <2>2 DEF WorkerFlush
  <2> QED
    BY <1>1, <1>9, <2>2 DEF WorkerFlush, FlushSnapshot, FlushReturns
<1>10. ASSUME NEW c \in Chunks, Rot(c)
       PROVE  DiskInv'
  <2>1. /\ vol'.marks = vol.marks /\ dur'.marks = dur.marks
        /\ vol'.data = vol.data \ {c} /\ dur'.data = dur.data \ {c}
        /\ rotted' = rotted \cup {c}
    BY <1>0, <1>10 DEF Rot, Directory
  <2> QED
    BY <1>0, <2>1
<1>11. CASE \/ EndAtOnce \/ Load \/ Revalidate \/ StartServer \/ Announce \/ JoinWorkers
            \/ VerifyFile \/ Leave \/ SizePartialFails \/ MainFails \/ MainFlushFails
  BY <1>1, <1>11 DEF EndAtOnce, Load, Revalidate, StartServer, Announce, JoinWorkers,
     VerifyFile, Leave, SizePartialFails, MainFails, MainFlushFails, FlushFails
<1>12. ASSUME NEW w \in Workers,
              \/ LoopTest(w) \/ Claim(w) \/ Fetch(w) \/ Lock(w) \/ Mark(w) \/ Fail(w)
              \/ FetchFails(w) \/ DiskFails(w)
       PROVE  DiskInv'
  BY <1>1, <1>12 DEF LoopTest, Claim, Fetch, Lock, Mark, Fail, FetchFails, DiskFails,
     FlushFails
<1>13. CASE UNCHANGED vars
  BY <1>1, <1>13 DEF vars
<1>14. CASE OtherManifest
  <2>1. /\ dur' = vol' /\ vol'.marks = vol.marks
        /\ rotted' = (rotted \cup vol.data) \ vol'.data
    BY <1>14, OtherManifestLeaves DEF Inv
  <2> QED
    BY <1>0, <2>1
<1> QED
  BY <1>2, <1>4, <1>5, <1>6, <1>7, <1>8, <1>9, <1>10, <1>11, <1>12, <1>13, <1>14
  DEF Next, MainStep, WorkerStep, Failure

\* What flush() writes, and what it relies on when it clears dirty_: it writes
\* the chunks that are complete, and has written them when it returns.
LEMMA FlushStep ==
  ASSUME Inv, NEW t \in Threads
  PROVE  /\ FlushSnapshot(t) => UNCHANGED <<vol, dur, completed, revision, dirty>>
         /\ FlushWrite(t) => /\ UNCHANGED <<dur, completed, revision, dirty>>
                             /\ vol'.part = vol.part /\ vol'.final = vol.final
                             /\ vol'.data = vol.data
                             /\ vol'.resume = TRUE /\ vol'.marks = completed
         /\ FlushReturns(t) => /\ UNCHANGED <<vol, dur, completed, revision>>
                               /\ ~dirty => dirty' = dirty
                               /\ dirty => vol.resume /\ vol.marks = completed
         /\ FlushFails(t) => UNCHANGED <<vol, dur, completed, revision, dirty>>
<1>1. vol \in Directory
  BY DEF Inv, TypeOK
<1>2. flush[t].step # "idle" => flush[t].chunks = completed
  BY DEF Inv, FlushInv
<1>3. flush[t].step = "confirm" => vol.resume /\ vol.marks = completed
  BY DEF Inv, FlushInv
<1>4. FlushSnapshot(t) => UNCHANGED <<vol, dur, completed, revision, dirty>>
  BY DEF FlushSnapshot, diskVars
<1>5. FlushFails(t) => UNCHANGED <<vol, dur, completed, revision, dirty>>
  BY DEF FlushFails, diskVars
<1>6. FlushReturns(t) => /\ UNCHANGED <<vol, dur, completed, revision>>
                         /\ ~dirty => dirty' = dirty
                         /\ dirty => vol.resume /\ vol.marks = completed
  BY <1>3 DEF FlushReturns, diskVars, Inv, TypeOK, StoreTypeOK
<1>7. FlushWrite(t) => /\ UNCHANGED <<dur, completed, revision, dirty>>
                       /\ vol'.part = vol.part /\ vol'.final = vol.final
                       /\ vol'.data = vol.data
                       /\ vol'.resume = TRUE /\ vol'.marks = completed
  BY <1>1, <1>2 DEF FlushWrite, Directory
<1> QED
  BY <1>4, <1>5, <1>6, <1>7

\* Memory stays safe, and a clean store stays equal to the resume file.
LEMMA StoreStep == Inv /\ [Next]_vars => StoreInv'
<1> SUFFICES ASSUME Inv, [Next]_vars
             PROVE  StoreInv'
  OBVIOUS
<1> USE DEF StoreInv, Safe, CleanIsPersisted, diskVars, storeVars, mainVars, faultVars,
            Goto, Throw
<1>0. /\ StoreInv /\ DiskInv
      /\ vol \in Directory /\ dur \in Directory
      /\ Main \in Threads /\ Workers \subseteq Threads
  BY WorkersAssumption DEF Inv, TypeOK
<1>1. CASE UNCHANGED <<vol, dur, completed, dirty, main, rotted>>
  BY <1>0, <1>1
<1>2. CASE PreparePartial \/ SizePartial \/ SizePartialFails
  <2>1. /\ UNCHANGED <<dur, rotted, completed>> /\ vol'.data = vol.data
        /\ main' \in {"Size", "Load"}
    BY <1>0, <1>2 DEF PreparePartial, SizePartial, SizePartialFails, Directory
  <2> QED
    BY <1>0, <2>1
<1>3. CASE Load
  BY <1>0, <1>3 DEF Load, LoadOrCreate, DiskInv
<1>4. CASE Revalidate
  BY <1>0, <1>4 DEF Revalidate, MarkIncomplete, Stale
<1>5. CASE StartServer \/ Announce \/ JoinWorkers \/ VerifyFile \/ MainFails
  BY <1>0, <1>5 DEF StartServer, Announce, JoinWorkers, VerifyFile, MainFails
<1>6. CASE Publish \/ RemoveResume
  <2>1. /\ UNCHANGED <<dur, rotted, completed, dirty>> /\ vol'.data = vol.data
        /\ \/ vol'.resume = vol.resume /\ vol'.marks = vol.marks /\ main' = "Remove"
           \/ main' = "Leave"
        /\ main = "Publish" \/ main' = "Leave"
    BY <1>0, <1>6 DEF Publish, RemoveResume, Directory
  <2> QED
    BY <1>0, <2>1
<1>7. CASE MainFlush
  BY <1>0, <1>7, FlushStep DEF MainFlush
<1>8. CASE MainFlushFails
  BY <1>0, <1>8, FlushStep DEF MainFlushFails
<1>9. CASE Leave \/ Crash
  BY <1>9 DEF Leave, Crash, Exit
<1>10. CASE Writeback
  <2>1. /\ UNCHANGED <<vol, rotted, completed, dirty, main>> /\ dur'.data = dur.data
    BY <1>0, <1>10 DEF Writeback, JournalCommit, Directory
  <2> QED
    BY <1>0, <2>1
<1>11. ASSUME NEW w \in Workers, WriteChunk(w)
       PROVE  StoreInv'
  <2>1. worker[w].match /\ worker[w].chunk \notin completed
    BY <1>11 DEF WriteChunk, Inv, WorkerInv, OneWorkerPerChunk, Working
  <2>2. /\ UNCHANGED <<dur, rotted, completed, dirty, main>>
        /\ vol'.marks = vol.marks /\ vol'.resume = vol.resume
        /\ vol'.data = vol.data \cup {worker[w].chunk}
    BY <1>0, <1>11, <2>1 DEF WriteChunk, Directory
  <2> QED
    BY <1>0, <2>1, <2>2
<1>12. ASSUME NEW w \in Workers, Fsync(w)
       PROVE  StoreInv'
  <2>1. /\ UNCHANGED <<vol, completed, dirty, main>>
        /\ dur'.data = dur.data \cup ({worker[w].chunk} \cap vol.data)
        /\ rotted' = rotted \ ({worker[w].chunk} \cap vol.data)
    BY <1>0, <1>12 DEF Fsync, SyncChunk, Directory
  <2> QED
    BY <1>0, <2>1
<1>13. ASSUME NEW w \in Workers, Mark(w)
       PROVE  StoreInv'
  <2>1. Safe({worker[w].chunk}) /\ worker[w].chunk \notin completed /\ main = "Join"
    BY <1>13 DEF Mark, Inv, WorkerInv, OneWorkerPerChunk, Working
  <2> QED
    BY <1>0, <1>13, <2>1 DEF Mark, MarkComplete
<1>14. ASSUME NEW w \in Workers, WorkerFlush(w)
       PROVE  StoreInv'
  BY <1>0, <1>14, FlushStep DEF WorkerFlush
<1>15. ASSUME NEW w \in Workers, DiskFails(w)
       PROVE  StoreInv'
  BY <1>0, <1>1, <1>15, FlushStep DEF DiskFails
<1>16. ASSUME NEW c \in Chunks, Rot(c)
       PROVE  StoreInv'
  <2>1. /\ vol'.marks = vol.marks /\ vol'.resume = vol.resume
        /\ vol'.data = vol.data \ {c} /\ dur'.data = dur.data \ {c}
        /\ rotted' = rotted \cup {c} /\ UNCHANGED <<completed, dirty, main>>
    BY <1>0, <1>16 DEF Rot, Directory
  <2> QED
    BY <1>0, <2>1
<1>17. ASSUME NEW w \in Workers,
              LoopTest(w) \/ Claim(w) \/ Fetch(w) \/ Lock(w) \/ Fail(w) \/ FetchFails(w)
       PROVE  StoreInv'
  BY <1>1, <1>17 DEF LoopTest, Claim, Fetch, Lock, Fail, FetchFails
<1>18. CASE EndAtOnce \/ UNCHANGED vars
  BY <1>1, <1>18 DEF EndAtOnce, vars
<1>19. CASE OtherManifest
  <2>1. /\ dur' = vol' /\ UNCHANGED completed /\ main' = "Down"
        /\ rotted' = (rotted \cup vol.data) \ vol'.data
    BY <1>19, OtherManifestLeaves DEF Inv
  <2> QED
    BY <1>0, <2>1 DEF DiskInv
<1> QED
  BY <1>2, <1>3, <1>4, <1>5, <1>6, <1>7, <1>8, <1>9, <1>10, <1>11, <1>12, <1>13, <1>14,
     <1>15, <1>16, <1>17, <1>18, <1>19
  DEF Next, MainStep, WorkerStep, Failure

\* At most one thread is in flush() at a time: the workers hold write_mutex
\* around it, and the main thread flushes when no worker runs.
LEMMA OneFlush ==
  ASSUME Inv
  PROVE  /\ main \notin {"RevalidateFlush", "FinalFlush", "CatchFlush", "Join"} =>
              \A t \in Threads : flush[t].step = "idle"
         /\ main \in {"RevalidateFlush", "FinalFlush", "CatchFlush"} =>
              \A t \in Threads \ {Main} : flush[t].step = "idle"
         /\ (\A w \in Workers : worker[w].pc = "Done") =>
              \A t \in Threads \ {Main} : flush[t].step = "idle"
         /\ \A w \in Workers : Critical(w) =>
              \A t \in Threads \ {w} : flush[t].step = "idle"
<1> USE WorkersAssumption DEF Inv, FlushInv, WorkerInv, Critical
<1>1. \A w \in Workers : worker[w].pc \notin {"Flush"} => flush[w].step = "idle"
  OBVIOUS
<1>2. main # "Join" => \A w \in Workers : flush[w].step = "idle"
  BY <1>1
<1>3. \A w \in Workers : Critical(w) => main = "Join" /\ flush[Main].step = "idle"
  OBVIOUS
<1>4. \A v, w \in Workers : Critical(w) /\ v # w => flush[v].step = "idle"
  BY <1>1
<1> QED
  BY <1>1, <1>2, <1>3, <1>4

\* A flush() in progress still writes what is complete: nothing is marked
\* meanwhile.
LEMMA FlushInvStep == Inv /\ [Next]_vars => FlushInv'
<1> SUFFICES ASSUME Inv, [Next]_vars
             PROVE  FlushInv'
  OBVIOUS
<1> USE WorkersAssumption
    DEF FlushInv, diskVars, storeVars, mainVars, poolVars, Goto, Throw, Move, Critical
<1>0. /\ FlushInv /\ WorkerInv
      /\ vol \in Directory /\ flush \in [Threads -> FlushFrame]
      /\ worker \in [Workers -> WorkerFrame]
      /\ Main \in Threads /\ Main \notin Workers
      /\ \A t \in Threads : t = Main \/ t \in Workers
  BY DEF Inv, TypeOK, StoreTypeOK
<1>1. CASE \A t \in Threads : flush'[t].step = "idle"
  BY <1>0, <1>1
<1>2. CASE \/ EndAtOnce \/ PreparePartial \/ SizePartial \/ Load \/ Revalidate \/ StartServer
           \/ Announce \/ VerifyFile \/ Publish \/ RemoveResume \/ SizePartialFails \/ MainFails
  <2>1. main \notin {"RevalidateFlush", "FinalFlush", "CatchFlush", "Join"} /\ UNCHANGED flush
    BY <1>2 DEF EndAtOnce, PreparePartial, SizePartial, Load, LoadOrCreate, Revalidate,
       MarkIncomplete, StartServer, Announce, VerifyFile, Publish, RemoveResume,
       SizePartialFails, MainFails
  <2> QED
    BY <1>1, <2>1, OneFlush
<1>3. CASE JoinWorkers
  BY <1>0, <1>1, <1>3, OneFlush DEF JoinWorkers
<1>4. CASE Leave \/ Crash
  <2>1. flush' = [t \in Threads |-> NoFlush]
    BY <1>4 DEF Leave, Crash, Exit
  <2>2. \A t \in Threads : flush'[t].step = "idle"
    BY <2>1 DEF NoFlush
  <2> QED
    BY <1>1, <2>2
<1>5. CASE Writeback
  BY <1>0, <1>5 DEF Writeback, JournalCommit
<1>6. ASSUME NEW t \in Threads, \A u \in Threads \ {t} : flush[u].step = "idle",
             FlushSnapshot(t) \/ FlushWrite(t) \/ FlushReturns(t) \/ FlushFails(t)
      PROVE  /\ \A u \in Threads \ {t} : flush'[u].step = "idle"
             /\ flush'[t].step # "idle" =>
                  flush'[t].chunks = completed' /\ flush'[t].revision = revision'
             /\ flush'[t].step = "confirm" => vol'.resume /\ vol'.marks = completed'
             /\ FlushReturns(t) \/ FlushFails(t) => flush'[t].step = "idle"
  <2>1. CASE FlushSnapshot(t)
    BY <1>0, <1>6, <2>1 DEF FlushSnapshot, FlushReturns, FlushFails, FlushFrame
  <2>2. CASE FlushWrite(t)
    <3>1. /\ flush[t].chunks = completed /\ flush[t].revision = revision
          /\ flush' = [flush EXCEPT ![t].step = "confirm"]
      BY <1>0, <2>2 DEF FlushWrite
    <3>2. /\ flush'[t].step = "confirm"
          /\ flush'[t].chunks = flush[t].chunks /\ flush'[t].revision = flush[t].revision
          /\ \A u \in Threads \ {t} : flush'[u] = flush[u]
      BY <1>0, <3>1 DEF FlushFrame
    <3>3. ~FlushReturns(t) /\ ~FlushFails(t)
      BY <1>0, <2>2, <3>2 DEF FlushWrite, FlushReturns, FlushFails, NoFlush
    <3> QED
      BY <1>6, <2>2, <3>1, <3>2, <3>3, FlushStep
  <2>3. CASE FlushReturns(t) \/ FlushFails(t)
    <3>1. flush' = [flush EXCEPT ![t] = NoFlush]
      BY <2>3 DEF FlushReturns, FlushFails
    <3>2. flush'[t].step = "idle" /\ \A u \in Threads \ {t} : flush'[u] = flush[u]
      BY <1>0, <3>1 DEF NoFlush
    <3> QED
      BY <1>6, <3>2
  <2> QED
    BY <1>6, <2>1, <2>2, <2>3
<1>7. CASE MainFlush
  <2>1. \A u \in Threads \ {Main} : flush[u].step = "idle"
    BY <1>7, OneFlush DEF MainFlush
  <2> QED
    BY <1>0, <1>6, <1>7, <2>1 DEF MainFlush
<1>8. CASE MainFlushFails
  <2>1. \A u \in Threads \ {Main} : flush[u].step = "idle"
    BY <1>8, OneFlush DEF MainFlushFails
  <2> QED
    BY <1>0, <1>1, <1>6, <1>8, <2>1 DEF MainFlushFails
<1>9. ASSUME NEW w \in Workers,
             LoopTest(w) \/ Claim(w) \/ Fetch(w) \/ Lock(w) \/ Fail(w) \/ FetchFails(w)
      PROVE  FlushInv'
  <2>1. /\ UNCHANGED <<vol, completed, revision, flush, main>>
        /\ worker[w].pc # "Flush" /\ \A v \in Workers \ {w} : worker'[v] = worker[v]
    BY <1>0, <1>9 DEF LoopTest, Claim, Fetch, Lock, Fail, FetchFails
  <2> QED
    BY <1>0, <2>1
<1>10. ASSUME NEW w \in Workers, WriteChunk(w) \/ Fsync(w) \/ Mark(w)
       PROVE  FlushInv'
  <2>1. UNCHANGED flush /\ worker[w].pc \in {"Write", "Fsync", "Mark"}
    BY <1>10 DEF WriteChunk, Fsync, Mark, MarkComplete
  <2> QED
    BY <1>0, <1>1, <2>1, OneFlush
<1>11. ASSUME NEW w \in Workers, WorkerFlush(w)
       PROVE  FlushInv'
  <2>1. \A u \in Threads \ {w} : flush[u].step = "idle"
    BY <1>11, OneFlush DEF WorkerFlush
  <2>2. CASE FlushReturns(w)
    BY <1>0, <1>1, <1>6, <2>1, <2>2
  <2>3. CASE (FlushSnapshot(w) \/ FlushWrite(w)) /\ UNCHANGED worker
    BY <1>0, <1>6, <1>11, <2>1, <2>3 DEF WorkerFlush
  <2> QED
    BY <1>11, <2>2, <2>3 DEF WorkerFlush
<1>12. ASSUME NEW w \in Workers, DiskFails(w)
       PROVE  FlushInv'
  <2>1. \A u \in Threads \ {w} : flush[u].step = "idle"
    BY <1>12, OneFlush DEF DiskFails
  <2>2. CASE worker[w].pc # "Flush"
    BY <1>0, <1>1, <1>12, <2>1, <2>2 DEF DiskFails
  <2>3. CASE FlushFails(w)
    BY <1>0, <1>1, <1>6, <2>1, <2>3
  <2> QED
    BY <1>12, <2>2, <2>3 DEF DiskFails
<1>13. ASSUME NEW c \in Chunks, Rot(c)
       PROVE  FlushInv'
  <2>1. /\ vol'.marks = vol.marks /\ vol'.resume = vol.resume
        /\ UNCHANGED <<completed, revision, flush, main, worker>>
    BY <1>0, <1>13 DEF Rot, Directory
  <2> QED
    BY <1>0, <2>1
<1>14. CASE UNCHANGED vars
  BY <1>0, <1>14 DEF vars
<1>15. CASE OtherManifest
  <2>1. main = "Down" /\ UNCHANGED flush
    BY <1>15, OtherManifestLeaves DEF Inv
  <2> QED
    BY <1>1, <2>1, OneFlush
<1> QED
  BY <1>2, <1>3, <1>4, <1>5, <1>7, <1>8, <1>9, <1>10, <1>11, <1>12, <1>13, <1>14, <1>15
  DEF Next, MainStep, WorkerStep, Failure

\* The workers keep write_mutex to one of them and their chunks apart.
LEMMA WorkerStepInv == Inv /\ [Next]_vars => WorkerInv'
<1> SUFFICES ASSUME Inv, [Next]_vars
             PROVE  WorkerInv'
  OBVIOUS
<1> USE DEF WorkerInv, OneWorkerPerChunk, Working, Critical, Safe,
            diskVars, storeVars, mainVars, poolVars, faultVars, Goto, Throw, Move
<1>0. /\ WorkerInv /\ DiskInv
      /\ vol \in Directory /\ dur \in Directory
      /\ worker \in [Workers -> WorkerFrame] /\ next_index \in Nat
  BY DEF Inv, TypeOK
<1>1. CASE \A w \in Workers : worker'[w].pc \in {"Off", "Done"}
  BY <1>1
<1>2. CASE \/ EndAtOnce \/ PreparePartial \/ SizePartial \/ Load \/ Revalidate \/ StartServer
           \/ VerifyFile \/ Publish \/ RemoveResume \/ MainFlush
           \/ SizePartialFails \/ MainFails \/ MainFlushFails
  <2>1. main # "Join" /\ UNCHANGED worker
    BY <1>2 DEF EndAtOnce, PreparePartial, SizePartial, Load, Revalidate, StartServer,
       VerifyFile, Publish, RemoveResume, MainFlush, SizePartialFails, MainFails, MainFlushFails
  <2> QED
    BY <1>0, <1>1, <2>1
<1>3. CASE Announce
  <2>1. CASE main' = "Join" /\ worker' = [w \in Workers |-> Started]
    BY <2>1 DEF Started, NoWork
  <2>2. CASE main # "Join" /\ UNCHANGED worker
    BY <1>0, <1>1, <2>2
  <2> QED
    BY <1>3, <2>1, <2>2 DEF Announce
<1>4. CASE JoinWorkers
  BY <1>0, <1>1, <1>4 DEF JoinWorkers
<1>5. CASE Leave \/ Crash
  BY <1>1, <1>5 DEF Leave, Crash, Exit, NoWork
<1>6. CASE Writeback
  <2>1. UNCHANGED <<vol, rotted, completed, main, worker, writer, next_index>> /\ dur'.data = dur.data
    BY <1>0, <1>6 DEF Writeback, JournalCommit, Directory
  <2> QED
    BY <1>0, <2>1
<1>7. ASSUME NEW w \in Workers, LoopTest(w) \/ Fail(w) \/ FetchFails(w)
      PROVE  WorkerInv'
  <2>1. /\ UNCHANGED <<vol, dur, rotted, completed, main, writer, next_index>>
        /\ worker'[w].pc \in {"Claim", "Done", "Fail"}
        /\ worker[w].pc \in {"Loop", "Fail", "Fetch"}
        /\ \A v \in Workers \ {w} : worker'[v] = worker[v]
    BY <1>0, <1>7 DEF LoopTest, Fail, FetchFails, WorkerFrame
  <2> QED
    BY <1>0, <2>1
<1>8. ASSUME NEW w \in Workers, Claim(w)
      PROVE  WorkerInv'
  <2>1. /\ UNCHANGED <<vol, dur, rotted, completed, main, writer>>
        /\ worker[w].pc = "Claim" /\ worker'[w].pc \in {"Done", "Loop", "Fetch"}
        /\ worker'[w].pc = "Fetch" => next_index < N /\ next_index \notin completed
        /\ worker'[w].chunk = next_index /\ next_index' = next_index + 1
        /\ \A v \in Workers \ {w} : worker'[v] = worker[v]
    BY <1>0, <1>8, NAssumption DEF Claim, PastLast, WorkerFrame
  <2>2. next_index < N => next_index \in Chunks
    BY <1>0, NAssumption DEF Chunks
  <2>3. \A i \in Chunks : i < next_index => i < next_index' /\ i # next_index
    BY <1>0, <2>1, NAssumption DEF Chunks
  <2>4. next_index < next_index'
    BY <1>0, <2>1
  <2> QED
    BY <1>0, <2>1, <2>2, <2>3, <2>4
<1>9. ASSUME NEW w \in Workers, Fetch(w)
      PROVE  WorkerInv'
  <2>1. /\ UNCHANGED <<vol, dur, rotted, completed, main, writer, next_index>>
        /\ worker[w].pc = "Fetch" /\ worker'[w].pc = "Lock"
        /\ worker'[w].chunk = worker[w].chunk /\ worker'[w].match
        /\ \A v \in Workers \ {w} : worker'[v] = worker[v]
    BY <1>0, <1>9 DEF Fetch, Verified, WorkerFrame
  <2> QED
    BY <1>0, <2>1
<1>10. ASSUME NEW w \in Workers, Lock(w)
       PROVE  WorkerInv'
  <2>1. /\ UNCHANGED <<vol, dur, rotted, completed, main, next_index>>
        /\ worker[w].pc = "Lock" /\ worker'[w].pc = "Write" /\ writer = NoWorker /\ writer' = w
        /\ worker'[w].chunk = worker[w].chunk /\ worker'[w].match = worker[w].match
        /\ \A v \in Workers \ {w} : worker'[v] = worker[v]
    BY <1>0, <1>10 DEF Lock, MutexFree, WorkerFrame
  <2> QED
    BY <1>0, <2>1, WorkersAssumption
<1>11. ASSUME NEW w \in Workers, WriteChunk(w)
       PROVE  WorkerInv'
  <2>1. /\ UNCHANGED <<dur, rotted, completed, main, writer, next_index>>
        /\ worker[w].pc = "Write" /\ worker'[w].pc = "Fsync"
        /\ worker'[w].chunk = worker[w].chunk
        /\ \A v \in Workers \ {w} : worker'[v] = worker[v]
    BY <1>0, <1>11 DEF WriteChunk, WorkerFrame
  <2>2. vol'.data = vol.data \cup {worker[w].chunk}
    BY <1>0, <1>11 DEF WriteChunk, Directory
  <2> QED
    BY <1>0, <2>1, <2>2
<1>12. ASSUME NEW w \in Workers, Fsync(w)
       PROVE  WorkerInv'
  <2>1. /\ UNCHANGED <<vol, completed, main, writer, next_index>>
        /\ worker[w].pc = "Fsync" /\ worker'[w].pc = "Mark"
        /\ worker'[w].chunk = worker[w].chunk
        /\ \A v \in Workers \ {w} : worker'[v] = worker[v]
    BY <1>0, <1>12 DEF Fsync, WorkerFrame
  <2>2. /\ dur'.data = dur.data \cup ({worker[w].chunk} \cap vol.data)
        /\ rotted' = rotted \ ({worker[w].chunk} \cap vol.data)
    BY <1>0, <1>12 DEF Fsync, SyncChunk, Directory
  <2> QED
    BY <1>0, <2>1, <2>2
<1>13. ASSUME NEW w \in Workers, Mark(w)
       PROVE  WorkerInv'
  <2>1. /\ UNCHANGED <<vol, dur, rotted, main, writer, next_index>>
        /\ completed' = completed \cup {worker[w].chunk}
        /\ worker[w].pc = "Mark" /\ worker'[w].pc = "Flush"
        /\ \A v \in Workers \ {w} : worker'[v] = worker[v]
    BY <1>0, <1>13 DEF Mark, MarkComplete, WorkerFrame
  <2>2. ~Working(w)' /\ \A v \in Workers \ {w} : Working(v)' <=> Working(v)
    BY <2>1 DEF Working
  <2>3. OneWorkerPerChunk'
    <3>1. Working(w)
      BY <2>1 DEF Working
    <3>2. \A v \in Workers \ {w} : Working(v) =>
             worker[v].chunk \notin completed /\ worker[v].chunk # worker[w].chunk
      BY <1>0, <3>1 DEF OneWorkerPerChunk
    <3> QED
      BY <1>0, <2>1, <2>2, <3>2 DEF OneWorkerPerChunk
  <2>4. \A v \in Workers : Working(v)' => worker'[v].chunk \in Chunks /\ worker'[v].chunk < next_index'
    BY <1>0, <2>1, <2>2
  <2> QED
    BY <1>0, <2>1, <2>3, <2>4
<1>14. ASSUME NEW w \in Workers, WorkerFlush(w)
       PROVE  WorkerInv'
  <2>1. /\ UNCHANGED <<dur, rotted, completed, main, next_index>> /\ vol'.data = vol.data
        /\ worker[w].pc = "Flush"
    BY <1>14, FlushStep, WorkersAssumption DEF WorkerFlush
  <2>2. CASE UNCHANGED <<worker, writer>>
    BY <1>0, <2>1, <2>2
  <2>3. CASE writer' = NoWorker /\ Move(w, "Loop")
    <3>1. worker'[w].pc = "Loop" /\ \A v \in Workers \ {w} : worker'[v] = worker[v]
      BY <1>0, <2>3 DEF WorkerFrame
    <3> QED
      BY <1>0, <2>1, <2>3, <3>1
  <2> QED
    BY <1>14, <2>2, <2>3 DEF WorkerFlush
<1>15. ASSUME NEW w \in Workers, DiskFails(w)
       PROVE  WorkerInv'
  <2>1. /\ UNCHANGED <<vol, dur, rotted, completed, main, next_index>>
        /\ worker[w].pc \in {"Write", "Fsync", "Mark", "Flush"} /\ worker'[w].pc = "Fail"
        /\ \A v \in Workers \ {w} : worker'[v] = worker[v]
    BY <1>0, <1>15 DEF DiskFails, FlushFails, WorkerFrame
  <2> QED
    BY <1>0, <2>1
<1>16. ASSUME NEW c \in Chunks, Rot(c)
       PROVE  WorkerInv'
  <2>1. /\ vol'.data = vol.data \ {c} /\ dur'.data = dur.data \ {c}
        /\ rotted' = rotted \cup {c}
        /\ UNCHANGED <<completed, main, worker, writer, next_index>>
    BY <1>0, <1>16 DEF Rot, Directory
  <2> QED
    BY <1>0, <2>1
<1>17. CASE UNCHANGED vars
  BY <1>0, <1>17 DEF vars
<1>18. CASE OtherManifest
  <2>1. main = "Down" /\ UNCHANGED <<main, worker>>
    BY <1>18, OtherManifestLeaves DEF Inv
  <2> QED
    BY <1>0, <1>1, <2>1
<1> QED
  BY <1>2, <1>3, <1>4, <1>5, <1>6, <1>7, <1>8, <1>9, <1>10, <1>11, <1>12, <1>13, <1>14,
     <1>15, <1>16, <1>17, <1>18
  DEF Next, MainStep, WorkerStep, Failure

\* No chunk that next_index has handed out is forgotten.
LEMMA DispatchStep == Inv /\ [Next]_vars => DispatchInv'
<1> SUFFICES ASSUME Inv, [Next]_vars
             PROVE  DispatchInv'
  OBVIOUS
<1> USE DEF DispatchInv, Working, diskVars, storeVars, mainVars, poolVars, faultVars,
            Goto, Throw, Move
<1>0. /\ DispatchInv /\ WorkerInv
      /\ worker \in [Workers -> WorkerFrame] /\ next_index \in Nat
  BY DEF Inv, TypeOK
<1>1. CASE /\ UNCHANGED <<completed, worker, next_index, failed, failure>>
           /\ main' \in {"Down", "Size", "Load", "Revalidate", "RevalidateFlush", "Serve",
                         "Announce"}
                => main \in {"Down", "Size", "Load", "Revalidate", "RevalidateFlush",
                             "Serve", "Announce"}
  BY <1>0, <1>1
<1>2. CASE \/ EndAtOnce \/ PreparePartial \/ SizePartial \/ StartServer \/ JoinWorkers
           \/ VerifyFile \/ Publish \/ RemoveResume \/ SizePartialFails \/ MainFails \/ Writeback
  BY <1>1, <1>2 DEF EndAtOnce, PreparePartial, SizePartial, StartServer, JoinWorkers,
     VerifyFile, Publish, RemoveResume, SizePartialFails, MainFails, Writeback
<1>3. CASE MainFlush \/ MainFlushFails
  BY <1>1, <1>3, FlushStep, WorkersAssumption DEF MainFlush, MainFlushFails
<1>4. CASE Load \/ Revalidate
  <2>1. /\ UNCHANGED <<worker, next_index, failed, failure>>
        /\ next_index = 0 /\ ~failed
    BY <1>0, <1>4 DEF Load, Revalidate
  <2>2. \A c \in Chunks : ~(c < next_index')
    BY <2>1, NAssumption DEF Chunks
  <2> QED
    BY <1>0, <2>1, <2>2
<1>5. CASE Announce
  <2>1. CASE UNCHANGED worker
    BY <1>0, <1>5, <2>1 DEF Announce
  <2>2. CASE worker' = [w \in Workers |-> Started]
    <3>1. \A c \in Chunks : ~(c < next_index')
      BY <1>0, <1>5, NAssumption DEF Announce, Chunks
    <3>2. \A w \in Workers : worker'[w].pc = "Loop"
      BY <2>2 DEF Started, NoWork
    <3> QED
      BY <1>0, <1>5, <3>1, <3>2 DEF Announce
  <2> QED
    BY <1>5, <2>1, <2>2 DEF Announce
<1>6. CASE Leave \/ Crash
  <2>1. \A c \in Chunks : ~(c < 0)
    BY NAssumption DEF Chunks
  <2> QED
    BY <1>6, <2>1 DEF Leave, Crash, Exit, NoWork
<1>7. ASSUME NEW w \in Workers, LoopTest(w)
      PROVE  DispatchInv'
  <2>1. /\ UNCHANGED <<completed, main, next_index, failed, failure>>
        /\ worker[w].pc = "Loop" /\ worker'[w].pc = IF failed THEN "Done" ELSE "Claim"
        /\ \A v \in Workers \ {w} : worker'[v] = worker[v]
    BY <1>0, <1>7 DEF LoopTest, WorkerFrame
  <2> QED
    BY <1>0, <2>1
<1>8. ASSUME NEW w \in Workers, Claim(w)
      PROVE  DispatchInv'
  <2>1. /\ UNCHANGED <<completed, main, failed, failure>>
        /\ worker[w].pc = "Claim" /\ worker'[w].chunk = next_index
        /\ worker'[w].pc = IF next_index >= N THEN "Done"
                           ELSE IF next_index \in completed THEN "Loop" ELSE "Fetch"
        /\ next_index' = next_index + 1
        /\ \A v \in Workers \ {w} : worker'[v] = worker[v]
    BY <1>0, <1>8 DEF Claim, PastLast, WorkerFrame
  <2>2. main = "Join"
    BY <1>0, <2>1 DEF WorkerInv
  <2>3. \A c \in Chunks : c < next_index + 1 => c < next_index \/ (c = next_index /\ ~(next_index >= N))
    <3>1. next_index \in Nat
      BY <1>0
    <3> QED
      BY <3>1, NAssumption DEF Chunks
  <2>4. next_index >= N => next_index' >= N
    BY <1>0, <2>1, NAssumption
  <2>5. ASSUME NEW c \in Chunks, c < next_index'
        PROVE  \/ c \in completed \/ failed
               \/ \E v \in Workers : worker'[v].chunk = c /\ (Working(v)' \/ worker'[v].pc = "Fail")
    <3>1. CASE c < next_index
      BY <1>0, <2>1, <3>1
    <3>2. CASE c = next_index /\ ~(next_index >= N)
      BY <2>1, <3>2
    <3> QED
      BY <2>1, <2>3, <2>5, <3>1, <3>2
  <2>6. \A v \in Workers : worker'[v].pc = "Done" => failed \/ next_index' >= N
    BY <1>0, <2>1, <2>4
  <2> QED
    BY <1>0, <2>1, <2>2, <2>5, <2>6
<1>9. ASSUME NEW w \in Workers,
             Fetch(w) \/ Lock(w) \/ WriteChunk(w) \/ Fsync(w) \/ FetchFails(w) \/ DiskFails(w)
      PROVE  DispatchInv'
  <2>1. UNCHANGED <<completed, main, next_index, failed, failure>>
    BY <1>9 DEF Fetch, Lock, WriteChunk, Fsync, FetchFails, DiskFails, FlushFails
  <2>2. /\ worker'[w].chunk = worker[w].chunk
        /\ worker'[w].pc \in {"Lock", "Write", "Fsync", "Mark", "Fail"}
        /\ \A v \in Workers \ {w} : worker'[v] = worker[v]
    BY <1>0, <1>9 DEF Fetch, Lock, WriteChunk, Fsync, FetchFails, DiskFails, WorkerFrame
  <2> QED
    BY <1>0, <2>1, <2>2
<1>10. ASSUME NEW w \in Workers, Mark(w)
       PROVE  DispatchInv'
  <2>1. /\ UNCHANGED <<main, next_index, failed, failure>>
        /\ completed' = completed \cup {worker[w].chunk}
        /\ worker'[w].pc = "Flush"
        /\ \A v \in Workers \ {w} : worker'[v] = worker[v]
    BY <1>0, <1>10 DEF Mark, MarkComplete, WorkerFrame
  <2> QED
    BY <1>0, <2>1
<1>11. ASSUME NEW w \in Workers, WorkerFlush(w)
       PROVE  DispatchInv'
  <2>1. UNCHANGED <<completed, main, next_index, failed, failure>> /\ worker[w].pc = "Flush"
    BY <1>11, FlushStep, WorkersAssumption DEF WorkerFlush
  <2>2. CASE UNCHANGED worker
    BY <1>1, <2>1, <2>2
  <2>3. CASE Move(w, "Loop")
    <3>1. worker'[w].pc = "Loop" /\ \A v \in Workers \ {w} : worker'[v] = worker[v]
      BY <1>0, <2>3 DEF WorkerFrame
    <3> QED
      BY <1>0, <2>1, <3>1
  <2> QED
    BY <1>11, <2>2, <2>3 DEF WorkerFlush
<1>12. ASSUME NEW w \in Workers, Fail(w)
       PROVE  DispatchInv'
  <2>1. /\ UNCHANGED main /\ failed' = TRUE /\ worker[w].pc = "Fail"
        /\ failure' = IF failure = NoWorker THEN w ELSE failure
    BY <1>12 DEF Fail, RecordFailure
  <2>2. main = "Join"
    BY <1>0, <2>1 DEF WorkerInv
  <2> QED
    BY <2>1, <2>2, WorkersAssumption
<1>13. ASSUME NEW c \in Chunks, Rot(c)
       PROVE  DispatchInv'
  BY <1>1, <1>13 DEF Rot
<1>14. CASE UNCHANGED vars
  BY <1>1, <1>14 DEF vars
<1>15. CASE OtherManifest
  BY <1>1, <1>15, OtherManifestLeaves DEF Inv
<1> QED
  BY <1>2, <1>3, <1>4, <1>5, <1>6, <1>7, <1>8, <1>9, <1>10, <1>11, <1>12, <1>13, <1>14, <1>15
  DEF Next, MainStep, WorkerStep, Failure

\* The final file and the directory's entries stay consistent.
LEMMA FinalStep == Inv /\ [Next]_vars => FinalInv'
<1> SUFFICES ASSUME Inv, [Next]_vars
             PROVE  FinalInv'
  OBVIOUS
<1> USE DEF FinalInv, FinalIsVerified, AllComplete, Orphan, diskVars, storeVars, mainVars,
            poolVars, faultVars, Goto, Throw
<1>0. /\ FinalInv /\ DiskInv /\ StoreInv
      /\ vol \in Directory /\ dur \in Directory /\ completed \in SUBSET Chunks
      /\ Main \in Threads /\ Workers \subseteq Threads
      /\ \A w \in Workers : worker[w].pc \notin {"Off", "Done"} => main = "Join"
  BY WorkersAssumption DEF Inv, TypeOK, StoreTypeOK, WorkerInv
<1>1. CASE UNCHANGED <<vol, dur, completed, main>>
  BY <1>0, <1>1
<1>2. CASE EndAtOnce \/ UNCHANGED vars
  BY <1>1, <1>2 DEF EndAtOnce, vars
<1>3. CASE PreparePartial
  <2>1. /\ vol.final = "absent" /\ vol'.final = "absent" /\ vol'.part # "absent"
        /\ vol.resume => vol.part # "absent"
        /\ vol'.data = vol.data /\ UNCHANGED dur /\ main' \in {"Load", "Size"}
    BY <1>0, <1>3 DEF PreparePartial, Directory
  <2> QED
    BY <1>0, <2>1
<1>4. CASE SizePartial
  <2>1. /\ main = "Size" /\ vol'.final = vol.final /\ vol'.part = "sized"
        /\ vol'.data = vol.data /\ UNCHANGED dur /\ main' = "Load"
    BY <1>0, <1>4 DEF SizePartial, Directory
  <2> QED
    BY <1>0, <2>1
<1>5. CASE \/ Load \/ Revalidate \/ StartServer \/ Announce \/ SizePartialFails \/ MainFails
  <2>1. /\ UNCHANGED <<vol, dur>>
        /\ \/ main \notin {"Down", "Remove", "Leave"} /\ main' \notin {"FinalFlush", "Hash", "Publish", "Remove"}
           \/ main' = "Leave"
    BY <1>5 DEF Load, Revalidate, StartServer, Announce, SizePartialFails, MainFails
  <2> QED
    BY <1>0, <2>1
<1>6. CASE JoinWorkers \/ VerifyFile
  BY <1>0, <1>6 DEF JoinWorkers, VerifyFile, FileMatches
<1>7. CASE Publish
  <2>1. /\ main = "Publish" /\ main' = "Remove" /\ UNCHANGED dur
        /\ vol'.part = "absent" /\ vol'.final = "published" /\ vol'.data = vol.data
    BY <1>0, <1>7 DEF Publish, Directory
  <2>2. vol.data = Chunks /\ completed = Chunks
    BY <1>0, <2>1
  <2>3. dur.data = Chunks
    BY <1>0, <2>2 DEF DiskInv, StoreInv, Safe
  <2> QED
    BY <1>0, <2>1, <2>2, <2>3
<1>8. CASE RemoveResume
  <2>1. /\ main = "Remove" /\ main' = "Leave" /\ UNCHANGED dur
        /\ vol'.final = vol.final /\ vol'.data = vol.data
    BY <1>0, <1>8 DEF RemoveResume, Directory
  <2> QED
    BY <1>0, <2>1
<1>9. CASE MainFlush
  <2>1. /\ main \in {"RevalidateFlush", "FinalFlush", "CatchFlush"}
        /\ \/ UNCHANGED main
           \/ main' = IF main = "RevalidateFlush" THEN "Serve"
                      ELSE IF main = "FinalFlush" THEN "Hash" ELSE "Leave"
    BY <1>9 DEF MainFlush
  <2>2. /\ UNCHANGED <<dur, completed>>
        /\ vol'.part = vol.part /\ vol'.final = vol.final /\ vol'.data = vol.data
    BY <1>0, <1>9, FlushStep DEF MainFlush
  <2> QED
    BY <1>0, <2>1, <2>2
<1>10. CASE MainFlushFails
  BY <1>0, <1>10, FlushStep DEF MainFlushFails
<1>11. CASE Leave \/ Crash
  <2>1. UNCHANGED dur /\ vol' \in {vol, dur} /\ main' = "Down"
    BY <1>11 DEF Leave, Crash, Exit
  <2> QED
    BY <1>0, <2>1
<1>12. CASE Writeback
  <2>1. /\ UNCHANGED <<vol, completed, main>> /\ dur'.data = dur.data
        /\ dur'.part = vol.part /\ dur'.resume = vol.resume /\ dur'.final = vol.final
    BY <1>0, <1>12 DEF Writeback, JournalCommit, Directory
  <2> QED
    BY <1>0, <2>1
<1>13. ASSUME NEW w \in Workers, WriteChunk(w)
       PROVE  FinalInv'
  <2>1. main = "Join" /\ UNCHANGED <<dur, completed, main>>
    BY <1>0, <1>13 DEF WriteChunk
  <2>2. vol'.final = vol.final /\ vol'.resume = vol.resume /\ vol'.part \in {vol.part, "sized"}
    BY <1>0, <1>13 DEF WriteChunk, Directory
  <2> QED
    BY <1>0, <2>1, <2>2
<1>14. ASSUME NEW w \in Workers, Fsync(w)
       PROVE  FinalInv'
  <2>1. /\ main = "Join" /\ UNCHANGED <<vol, completed, main>>
        /\ dur'.final = dur.final /\ dur'.part = vol.part
    BY <1>0, <1>14 DEF Fsync, SyncChunk, Directory
  <2> QED
    BY <1>0, <2>1
<1>15. ASSUME NEW w \in Workers, Mark(w)
       PROVE  FinalInv'
  <2>1. main = "Join" /\ UNCHANGED <<vol, dur, main>>
    BY <1>0, <1>15 DEF Mark
  <2> QED
    BY <1>0, <2>1
<1>16. ASSUME NEW w \in Workers, WorkerFlush(w)
       PROVE  FinalInv'
  <2>1. /\ main = "Join" /\ UNCHANGED <<dur, completed, main>>
        /\ vol'.part = vol.part /\ vol'.final = vol.final /\ vol'.data = vol.data
    BY <1>0, <1>16, FlushStep DEF WorkerFlush
  <2> QED
    BY <1>0, <2>1
<1>17. ASSUME NEW w \in Workers,
              \/ LoopTest(w) \/ Claim(w) \/ Fetch(w) \/ Lock(w) \/ Fail(w)
              \/ FetchFails(w) \/ DiskFails(w)
       PROVE  FinalInv'
  BY <1>1, <1>17 DEF LoopTest, Claim, Fetch, Lock, Fail, FetchFails, DiskFails, FlushFails
<1>18. ASSUME NEW c \in Chunks, Rot(c)
       PROVE  FinalInv'
  <2>1. /\ vol.final = "absent" /\ main # "Publish" /\ UNCHANGED <<completed, main>>
        /\ vol'.part = vol.part /\ vol'.resume = vol.resume /\ vol'.final = vol.final
        /\ dur'.part = dur.part /\ dur'.resume = dur.resume /\ dur'.final = dur.final
    BY <1>0, <1>18 DEF Rot, Directory
  <2> QED
    BY <1>0, <2>1
<1>19. CASE OtherManifest
  <2>1. /\ dur' = vol' /\ UNCHANGED main /\ main = "Down"
        /\ vol'.final = "published" => vol'.data = Chunks
    BY <1>19, OtherManifestLeaves DEF Inv
  <2> QED
    BY <1>0, <2>1
<1> QED
  BY <1>2, <1>3, <1>4, <1>5, <1>6, <1>7, <1>8, <1>9, <1>10, <1>11, <1>12, <1>13, <1>14,
     <1>15, <1>16, <1>17, <1>18, <1>19
  DEF Next, MainStep, WorkerStep, Failure

-----------------------------------------------------------------------------
(* Theorems.                                                               *)

\* The inductive invariant holds before the first run.
LEMMA InvInit == Init => Inv
<1> SUFFICES ASSUME Init
             PROVE  Inv
  OBVIOUS
<1>1. TypeOK
  BY TypeInit
<1>2. /\ dur = vol /\ vol.data = {} /\ vol.marks = {} /\ vol.final # "published"
  BY DEF Init, DirectoryInit, InitialDirectories, EmptyDirectory
<1>3. \A w \in Workers : worker[w].pc = "Off"
  BY DEF Init, NoWork
<1>4. \A t \in Threads : flush[t].step = "idle"
  BY DEF Init, StoreInit, NoFlush
<1>5. DiskInv
  BY <1>2 DEF DiskInv, Safe
<1>6. StoreInv
  BY DEF Init, StoreInit, StoreInv, Safe, CleanIsPersisted
<1>7. FlushInv
  BY <1>4, WorkersAssumption DEF FlushInv
<1>8. WorkerInv
  BY <1>3 DEF WorkerInv, Critical, Working, OneWorkerPerChunk
<1>9. DispatchInv
  <2>1. \A c \in Chunks : ~(c < 0)
    BY NAssumption DEF Chunks
  <2> QED
    BY <1>3, <2>1 DEF Init, DispatchInv
<1>10. FinalInv
  BY <1>2 DEF Init, FinalInv, FinalIsVerified
<1> QED
  BY <1>1, <1>5, <1>6, <1>7, <1>8, <1>9, <1>10 DEF Inv

\* run() keeps its inductive invariant, whatever fails: every chunk recorded as
\* complete is safe, one worker at a time writes and flushes, and no chunk that
\* was handed out is forgotten.
THEOREM Invariance == Spec => []Inv
<1>1. Inv /\ [Next]_vars => Inv'
  <2>1. Inv => TypeOK /\ WorkerInv
    BY DEF Inv
  <2> QED
    BY <2>1, TypeStep, DiskStep, StoreStep, FlushInvStep, WorkerStepInv, DispatchStep,
       FinalStep DEF Inv
<1> QED
  BY <1>1, InvInit, PTL DEF Spec

\* The state of run() has its types.
THEOREM TypeCorrect == Spec => []TypeOK
<1>1. Inv => TypeOK
  BY DEF Inv
<1> QED
  BY <1>1, Invariance, PTL

\* write_verified_chunk and flush() never let a resume file list a chunk whose
\* bytes a power loss would take, however many workers and crashes there are.
THEOREM ResumeSafety == Spec => []ResumeOnlyDurable
<1>1. Inv => ResumeOnlyDurable
  BY DEF Inv, DiskInv, Safe, ResumeOnlyDurable
<1> QED
  BY <1>1, Invariance, PTL

\* flush() clears dirty_ only when the resume file holds what memory holds.
THEOREM CleanSafety == Spec => []CleanIsPersisted
<1>1. Inv => CleanIsPersisted
  BY DEF Inv, StoreInv
<1> QED
  BY <1>1, Invariance, PTL

\* After the join of workers none of which failed, all_complete() is true.
THEOREM JoinSafety == Spec => []JoinMeansComplete
<1>1. Inv => JoinMeansComplete
  <2> SUFFICES ASSUME Inv, \A w \in Workers : worker[w].pc = "Done", failure = NoWorker
               PROVE  completed = Chunks
    BY DEF JoinMeansComplete, AllComplete
  <2>1. ~failed /\ completed \in SUBSET Chunks /\ next_index \in Nat
    BY DEF Inv, DispatchInv, TypeOK, StoreTypeOK
  <2>2. next_index >= N
    BY <2>1, WorkersAssumption DEF Inv, DispatchInv
  <2>3. \A c \in Chunks : c < next_index
    BY <2>1, <2>2, NAssumption DEF Chunks
  <2>4. \A c \in Chunks : c \in completed
    BY <2>1, <2>3 DEF Inv, DispatchInv, Working
  <2> QED
    BY <2>1, <2>4
<1> QED
  BY <1>1, Invariance, PTL

\* The chunks in work are distinct and not complete.
THEOREM DispatchSafety == Spec => []OneWorkerPerChunk
<1>1. Inv => OneWorkerPerChunk
  BY DEF Inv, WorkerInv
<1> QED
  BY <1>1, Invariance, PTL

\* A final file that run() has published is the manifest's file, durably.
THEOREM FinalSafety == Spec => []FinalIsVerified
<1>1. Inv => FinalIsVerified
  BY DEF Inv, FinalInv
<1> QED
  BY <1>1, Invariance, PTL

\* No step of run(), and no crash of it, makes a resume file an orphan.
THEOREM OrphanSafety == Spec => NeverOrphaned
<1>1. Inv /\ Inv' /\ [Next]_vars => (Orphan(vol') => Orphan(vol)) /\ (Orphan(dur') => Orphan(dur))
  <2> SUFFICES ASSUME Inv, Inv', [Next]_vars, Orphan(vol')
               PROVE  Orphan(vol)
    BY DEF Inv, FinalInv
  <2> USE DEF Orphan, diskVars, mainVars, Goto, Throw
  <2>0. /\ main' \in {"Down", "Leave"}
        /\ vol \in Directory /\ dur \in Directory
        /\ Main \in Threads
        /\ \A w \in Workers : worker[w].pc \notin {"Off", "Done"} => main = "Join"
    BY WorkersAssumption DEF Inv, TypeOK, FinalInv, WorkerInv
  <2>1. CASE \/ vol'.resume = vol.resume /\ vol'.part = vol.part /\ vol'.final = vol.final
             \/ vol' = dur
    BY <2>1 DEF Inv, FinalInv
  <2>2. CASE \/ EndAtOnce \/ Leave \/ MainFails \/ Crash \/ Writeback \/ UNCHANGED vars
    BY <2>1, <2>2 DEF EndAtOnce, Leave, MainFails, Crash, Writeback, JournalCommit, vars
  <2>3. CASE MainFlush \/ MainFlushFails
    <3>1. main \in {"RevalidateFlush", "FinalFlush", "CatchFlush"}
      BY <2>3 DEF MainFlush, MainFlushFails
    <3>2. FlushReturns(Main) \/ FlushFails(Main)
      BY <2>0, <2>3, <3>1 DEF MainFlush, MainFlushFails
    <3> QED
      BY <2>0, <2>1, <3>2, FlushStep
  <2>4. CASE RemoveResume
    BY <2>0, <2>4 DEF RemoveResume, Directory
  <2>5. CASE \/ PreparePartial \/ SizePartial \/ Load \/ Revalidate \/ StartServer \/ Announce
             \/ JoinWorkers \/ VerifyFile \/ Publish \/ SizePartialFails
    BY <2>0, <2>5 DEF PreparePartial, SizePartial, Load, Revalidate, StartServer, Announce,
       JoinWorkers, VerifyFile, Publish, SizePartialFails
  <2>6. ASSUME NEW w \in Workers, WorkerStep(w) \/ FetchFails(w) \/ DiskFails(w)
        PROVE  FALSE
    <3>1. worker[w].pc \notin {"Off", "Done"} /\ UNCHANGED main
      BY <2>6 DEF WorkerStep, LoopTest, Claim, Fetch, Lock, WriteChunk, Fsync, Mark,
         WorkerFlush, Fail, FetchFails, DiskFails
    <3> QED
      BY <2>0, <3>1
  <2>7. ASSUME NEW c \in Chunks, Rot(c)
        PROVE  Orphan(vol)
    BY <2>0, <2>1, <2>7 DEF Rot, Directory
  <2>8. ~OtherManifest
    BY OtherManifestLeaves DEF Inv
  <2> QED
    BY <2>2, <2>3, <2>4, <2>5, <2>6, <2>7, <2>8 DEF Next, MainStep, Failure
<1> QED
  BY <1>1, Invariance, PTL DEF Spec, NeverOrphaned
=============================================================================
