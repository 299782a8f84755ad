--------------------------- MODULE RefinementProofs ---------------------------
(***************************************************************************)
(* Proof that run() implements VerifiedDownload, for any number of chunks, *)
(* workers and failures.                                                   *)
(***************************************************************************)
EXTENDS DownloadProofs, DownloadRefinement

\* What Inv says of the files, and of the chunks that are complete, at each step
\* of run().
LEMMA KnownOfDirectory ==
  ASSUME Inv
  PROVE  /\ vol \in Directory /\ dur \in Directory
         /\ vol.data \subseteq Chunks /\ vol.marks \subseteq Chunks
         /\ completed \subseteq Chunks /\ dur.data \subseteq vol.data
         /\ Main \in Threads /\ Workers \subseteq Threads
         /\ \A w \in Workers : worker[w].pc \notin {"Off", "Done"} => main = "Join"
         /\ main \in {"Serve", "Announce", "Join"} => vol.marks \subseteq completed
         /\ main \in {"FinalFlush", "Hash", "Publish"} => completed = Chunks
         /\ main \notin {"Down", "Remove", "Leave"} => vol.final = "absent"
<1>1. /\ vol \in Directory /\ dur \in Directory /\ completed \subseteq Chunks
      /\ Main \in Threads /\ Workers \subseteq Threads
  BY WorkersAssumption DEF Inv, TypeOK, StoreTypeOK
<1>2. vol.data \subseteq Chunks /\ vol.marks \subseteq Chunks
  BY <1>1 DEF Directory
<1> QED
  BY <1>1, <1>2 DEF Inv, DiskInv, WorkerInv, StoreInv, FinalInv, AllComplete

\* Every step preserves what the refinement needs beyond Inv.
LEMMA RefinementStep == Inv /\ RefinementInv /\ [Next]_vars => RefinementInv'
<1> SUFFICES ASSUME Inv, RefinementInv, [Next]_vars
             PROVE  RefinementInv'
  OBVIOUS
<1> USE DEF RefinementInv, saved, diskVars, storeVars, mainVars, Goto, Throw
<1>0. /\ vol \in Directory /\ dur \in Directory
      /\ vol.data \subseteq Chunks /\ vol.marks \subseteq Chunks
      /\ completed \subseteq Chunks /\ dur.data \subseteq vol.data
      /\ Main \in Threads /\ Workers \subseteq Threads
      /\ \A w \in Workers : worker[w].pc \notin {"Off", "Done"} => main = "Join"
      /\ main \in {"Serve", "Announce", "Join"} => vol.marks \subseteq completed
      /\ main \in {"FinalFlush", "Hash", "Publish"} => completed = Chunks
      /\ main \notin {"Down", "Remove", "Leave"} => vol.final = "absent"
  BY KnownOfDirectory
<1>1. CASE UNCHANGED <<vol, dur, completed, dirty, main>>
  BY <1>1
<1>2. CASE EndAtOnce \/ UNCHANGED vars
  BY <1>1, <1>2 DEF EndAtOnce, vars
<1>3. CASE PreparePartial \/ SizePartial \/ SizePartialFails
  <2>1. UNCHANGED dur /\ vol'.final = vol.final /\ main' \in {"Size", "Load"}
    BY <1>0, <1>3 DEF PreparePartial, SizePartial, SizePartialFails, Directory
  <2> QED
    BY <2>1
<1>4. CASE Load \/ StartServer
  BY <1>4 DEF Load, StartServer
<1>5. CASE Revalidate
  <2>1. /\ UNCHANGED <<vol, dur>> /\ main' \in {"Serve", "RevalidateFlush"}
        /\ completed' = completed \cap vol.data /\ completed = vol.marks
    BY <1>5 DEF Revalidate, MarkIncomplete, Stale, Inv, StoreInv
  <2> QED
    BY <2>1
<1>6. CASE Announce \/ JoinWorkers \/ VerifyFile \/ MainFails
  BY <1>0, <1>6 DEF Announce, JoinWorkers, VerifyFile, MainFails
<1>7. CASE Publish \/ RemoveResume
  <2>1. /\ UNCHANGED dur /\ main' \in {"Remove", "Leave"}
        /\ \/ vol'.final = vol.final
           \/ vol.final = "absent" /\ vol'.final = "published"
    BY <1>0, <1>7 DEF Publish, RemoveResume, Directory
  <2> QED
    BY <2>1
<1>8. CASE MainFlush
  <2>1. CASE (FlushSnapshot(Main) \/ FlushWrite(Main)) /\ UNCHANGED main
    <3>1. main \in {"RevalidateFlush", "FinalFlush", "CatchFlush"}
      BY <1>8 DEF MainFlush
    <3>2. /\ UNCHANGED <<dur, completed>> /\ vol'.final = vol.final
          /\ vol'.marks \in {vol.marks, completed} /\ vol'.data = vol.data
      BY <1>0, <2>1, FlushStep
    <3> QED
      BY <2>1, <3>1, <3>2
  <2>2. CASE FlushReturns(Main)
    <3>1. flush[Main].step = "confirm" => flush[Main].revision = revision
      BY <1>0 DEF Inv, FlushInv
    <3>2. dirty' = FALSE /\ UNCHANGED <<vol, dur, completed>>
      BY <2>2, <3>1 DEF FlushReturns, Inv, TypeOK, StoreTypeOK
    <3> QED
      BY <1>8, <3>2 DEF MainFlush
  <2> QED
    BY <1>8, <2>1, <2>2 DEF MainFlush
<1>9. CASE MainFlushFails
  BY <1>0, <1>9, FlushStep DEF MainFlushFails
<1>10. CASE Leave \/ Crash
  <2>1. UNCHANGED dur /\ vol' \in {vol, dur} /\ main' = "Down"
    BY <1>10 DEF Leave, Crash, Exit
  <2> QED
    BY <2>1
<1>11. CASE Writeback
  <2>1. UNCHANGED <<vol, completed, dirty, main>> /\ dur'.final = vol.final
    BY <1>0, <1>11 DEF Writeback, JournalCommit, Directory
  <2> QED
    BY <2>1
<1>12. ASSUME NEW w \in Workers, WorkerStep(w) \/ FetchFails(w) \/ DiskFails(w)
       PROVE  RefinementInv'
  <2>1. worker[w].pc \notin {"Off", "Done"} /\ UNCHANGED main
    BY <1>12 DEF WorkerStep, LoopTest, Claim, Fetch, Lock, WriteChunk, Fsync, Mark,
       WorkerFlush, Fail, FetchFails, DiskFails
  <2>2. CASE UNCHANGED <<vol, dur>>
    BY <1>0, <2>1, <2>2
  <2>3. CASE WriteChunk(w) \/ Fsync(w)
    <3>1. vol'.final = vol.final /\ dur'.final = dur.final
      BY <1>0, <2>3 DEF WriteChunk, Fsync, SyncChunk, Directory
    <3> QED
      BY <1>0, <2>1, <3>1
  <2>4. CASE WorkerFlush(w)
    <3>1. vol'.final = vol.final /\ UNCHANGED dur
      BY <1>0, <2>4, FlushStep DEF WorkerFlush
    <3> QED
      BY <1>0, <2>1, <3>1
  <2>5. CASE \/ LoopTest(w) \/ Claim(w) \/ Fetch(w) \/ Lock(w) \/ Mark(w) \/ Fail(w)
             \/ FetchFails(w) \/ DiskFails(w)
    BY <2>2, <2>5 DEF LoopTest, Claim, Fetch, Lock, Mark, Fail, FetchFails, DiskFails,
       FlushFails
  <2> QED
    BY <1>12, <2>3, <2>4, <2>5 DEF WorkerStep
<1>13. ASSUME NEW c \in Chunks, Rot(c)
       PROVE  RefinementInv'
  <2>1. /\ vol'.marks = vol.marks /\ vol'.data = vol.data \ {c} /\ vol'.final = vol.final
        /\ dur'.final = dur.final /\ UNCHANGED <<completed, dirty, main>>
    BY <1>0, <1>13 DEF Rot, Directory
  <2> QED
    BY <2>1
<1>14. CASE OtherManifest
  <2>1. dur' = vol' /\ main' = "Down"
    BY <1>14, OtherManifestLeaves DEF Inv
  <2> QED
    BY <2>1
<1> QED
  BY <1>2, <1>3, <1>4, <1>5, <1>6, <1>7, <1>8, <1>9, <1>10, <1>11, <1>12, <1>13, <1>14
  DEF Next, MainStep, Failure

\* A clean store after the final flush, a flush that drops nothing in place, and
\* foreign files only from others: what the refinement rests on, always.
THEOREM RefinementInvariance == Spec => []RefinementInv
<1>1. Init => RefinementInv
  BY DEF Init, DirectoryInit, RefinementInv
<1> QED
  BY <1>1, RefinementStep, Invariance, PTL DEF Spec

\* Only a crash says "killed", and it ends the run.
LEMMA AliveStep == Alive /\ [Next]_vars => Alive'
<1> SUFFICES ASSUME Alive, [Next]_vars
             PROVE  Alive'
  OBVIOUS
<1> USE DEF Alive, mainVars
<1>1. CASE UNCHANGED <<main, result>>
  BY <1>1
<1>2. CASE Exit(result) \/ Exit("killed")
  BY <1>2 DEF Exit
<1>3. CASE EndAtOnce \/ PreparePartial
  BY <1>3 DEF EndAtOnce, PreparePartial
<1>4. CASE MainStep
  BY <1>2, <1>4 DEF MainStep, SizePartial, Load, Revalidate, StartServer, Announce,
     JoinWorkers, VerifyFile, Publish, RemoveResume, MainFlush, Leave, Goto, Throw
<1>5. CASE SizePartialFails \/ MainFails \/ MainFlushFails \/ Crash
  BY <1>2, <1>5 DEF SizePartialFails, MainFails, MainFlushFails, Crash, Goto, Throw
<1>6. ASSUME NEW w \in Workers, WorkerStep(w) \/ FetchFails(w) \/ DiskFails(w)
      PROVE  Alive'
  BY <1>1, <1>6 DEF WorkerStep, LoopTest, Claim, Fetch, Lock, WriteChunk, Fsync, Mark,
     WorkerFlush, Fail, FetchFails, DiskFails
<1>7. CASE OtherManifest \/ Writeback \/ (\E c \in Chunks : Rot(c)) \/ UNCHANGED vars
  BY <1>1, <1>7 DEF OtherManifest, Writeback, Rot, vars
<1> QED
  BY <1>3, <1>4, <1>5, <1>6, <1>7 DEF Next, Failure

\* A step of run(), of its workers or of their environment is one that
\* VerifiedDownload allows, or one it does not see.
LEMMA StepSimulation ==
  ASSUME Inv, RefinementInv, Alive, [Next]_vars
  PROVE  [Abstract!Next]_Abstract!vars
<1> USE DEF saved, diskVars, storeVars, mainVars, Goto, Throw
<1>0. /\ vol \in Directory /\ dur \in Directory
      /\ vol.data \subseteq Chunks /\ vol.marks \subseteq Chunks
      /\ completed \subseteq Chunks /\ dur.data \subseteq vol.data
      /\ Main \in Threads /\ Workers \subseteq Threads
      /\ \A w \in Workers : worker[w].pc \notin {"Off", "Done"} => main = "Join"
      /\ main \in {"Serve", "Announce", "Join"} => vol.marks \subseteq completed
      /\ main \in {"FinalFlush", "Hash", "Publish"} => completed = Chunks
      /\ main \notin {"Down", "Remove", "Leave"} => vol.final = "absent"
  BY KnownOfDirectory
<1>a. Alive'
  BY AliveStep
<1>b. main # "Down" /\ main' # "Down" => result # "killed" /\ result' # "killed"
  BY <1>a DEF Alive
<1>1. CASE /\ UNCHANGED <<main, result>> \/ (main # "Down" /\ main' # "Down")
           /\ vol'.data = vol.data /\ vol'.marks = vol.marks /\ vol'.final = vol.final
  BY <1>1, <1>b DEF Abstract!vars
<1>2. CASE Writeback \/ UNCHANGED vars
  BY <1>1, <1>2 DEF Writeback, JournalCommit, vars
<1>20. CASE EndAtOnce
  <2>1. UNCHANGED <<vol, main>> /\ main = "Down" /\ result' # "killed"
    BY <1>20 DEF EndAtOnce
  <2> QED
    BY <2>1 DEF Abstract!Next, Abstract!Refuse
<1>3. CASE PreparePartial
  <2>1. /\ main = "Down" /\ main' \in {"Load", "Size"} /\ vol.final = "absent"
        /\ vol'.data = vol.data /\ vol'.marks = vol.marks /\ vol'.final = vol.final
    BY <1>0, <1>3 DEF PreparePartial, Directory
  <2> QED
    BY <1>a, <2>1 DEF Abstract!Next, Abstract!Begin, Alive
<1>4. CASE SizePartial
  <2>1. /\ main = "Size" /\ main' = "Load"
        /\ vol'.data = vol.data /\ vol'.marks = vol.marks /\ vol'.final = vol.final
    BY <1>0, <1>4 DEF SizePartial, Directory
  <2> QED
    BY <1>1, <2>1
<1>5. CASE \/ Load \/ Revalidate \/ StartServer \/ Announce \/ JoinWorkers \/ VerifyFile
           \/ SizePartialFails \/ MainFails \/ MainFlushFails
  <2>1. UNCHANGED vol /\ main # "Down" /\ main' # "Down"
    BY <1>5 DEF Load, Revalidate, StartServer, Announce, JoinWorkers, VerifyFile,
       SizePartialFails, MainFails, MainFlushFails, FlushFails
  <2> QED
    BY <1>1, <2>1
<1>6. CASE Publish
  <2>1. /\ main = "Publish" /\ main' = "Remove"
        /\ vol'.data = vol.data /\ vol'.marks = vol.marks /\ vol'.final = "published"
    BY <1>0, <1>6 DEF Publish, Directory
  <2>2. vol.marks = Chunks /\ vol.data = Chunks
    BY <1>0, <2>1 DEF Inv, StoreInv, CleanIsPersisted, FinalInv, RefinementInv
  <2> QED
    BY <1>0, <1>b, <2>1, <2>2 DEF Abstract!Next, Abstract!Deliver
<1>7. CASE RemoveResume
  <2>1. /\ main = "Remove" /\ main' = "Leave"
        /\ vol'.data = vol.data /\ vol'.marks = {} /\ vol'.final = vol.final
    BY <1>0, <1>7 DEF RemoveResume, Directory
  <2>2. vol.final = "published"
    BY <2>1 DEF Inv, FinalInv
  <2> QED
    BY <1>b, <2>1, <2>2 DEF Abstract!Next, Abstract!Discard
<1>8. ASSUME NEW t \in Threads, FlushWrite(t), UNCHANGED main,
             main \in {"RevalidateFlush", "FinalFlush", "CatchFlush", "Join"}
      PROVE  [Abstract!Next]_Abstract!vars
  <2>1. /\ vol'.data = vol.data /\ vol'.marks = completed /\ vol'.final = vol.final
    BY <1>8, FlushStep
  <2>2. saved \subseteq completed /\ vol.final = "absent"
    BY <1>0, <1>8 DEF RefinementInv
  <2> QED
    BY <1>8, <1>b, <2>1, <2>2 DEF Abstract!Next, Abstract!Save
<1>9. CASE MainFlush
  <2>1. CASE FlushWrite(Main) /\ UNCHANGED main
    BY <1>0, <1>8, <1>9, <2>1 DEF MainFlush
  <2>2. CASE UNCHANGED vol
    BY <1>1, <1>9, <2>2 DEF MainFlush
  <2> QED
    BY <1>9, <2>1, <2>2 DEF MainFlush, FlushSnapshot, FlushReturns
<1>10. CASE Leave
  <2>1. UNCHANGED vol /\ main = "Leave" /\ main' = "Down" /\ result' # "killed"
    BY <1>10 DEF Leave, Exit, Alive
  <2> QED
    BY <2>1 DEF Abstract!Next, Abstract!End
<1>11. CASE Crash
  <2>1. vol' \in {vol, dur} /\ main' = "Down" /\ result' = "killed"
    BY <1>11 DEF Crash, Exit
  <2>2. vol.final = "published" => vol'.data = vol.data
    BY <2>1 DEF Inv, FinalInv, FinalIsVerified
  <2>3. vol'.final = vol.final \/ (vol.final = "published" /\ vol'.final = "absent")
    BY <1>0, <2>1 DEF Inv, FinalInv, RefinementInv, Directory
  <2> QED
    BY <1>0, <2>1, <2>2, <2>3 DEF Abstract!Next, Abstract!Crash
<1>12. ASSUME NEW w \in Workers, WriteChunk(w)
       PROVE  [Abstract!Next]_Abstract!vars
  <2>1. /\ worker[w].match /\ main = "Join" /\ worker[w].chunk \notin completed
        /\ worker[w].chunk \in Chunks /\ UNCHANGED main
    BY <1>0, <1>12 DEF WriteChunk, Inv, WorkerInv, OneWorkerPerChunk, Working
  <2>2. /\ vol'.data = vol.data \cup {worker[w].chunk}
        /\ vol'.marks = vol.marks /\ vol'.final = vol.final
    BY <1>0, <1>12, <2>1 DEF WriteChunk, Directory
  <2> QED
    BY <1>0, <1>b, <2>1, <2>2 DEF Abstract!Next, Abstract!Obtain
<1>13. ASSUME NEW w \in Workers, WorkerFlush(w)
       PROVE  [Abstract!Next]_Abstract!vars
  <2>1. main = "Join" /\ UNCHANGED main
    BY <1>0, <1>13 DEF WorkerFlush
  <2>2. CASE FlushWrite(w)
    BY <1>0, <1>8, <2>1, <2>2
  <2> QED
    BY <1>1, <1>13, <2>1, <2>2 DEF WorkerFlush, FlushSnapshot, FlushReturns
<1>14. ASSUME NEW w \in Workers,
              \/ LoopTest(w) \/ Claim(w) \/ Fetch(w) \/ Lock(w) \/ Fsync(w) \/ Mark(w)
              \/ Fail(w) \/ FetchFails(w) \/ DiskFails(w)
       PROVE  [Abstract!Next]_Abstract!vars
  BY <1>0, <1>1, <1>14 DEF LoopTest, Claim, Fetch, Lock, Fsync, Mark, Fail, FetchFails,
     DiskFails, FlushFails
<1>15. ASSUME NEW c \in Chunks, Rot(c)
       PROVE  [Abstract!Next]_Abstract!vars
  <2>1. /\ vol'.marks = vol.marks /\ vol'.data = vol.data \ {c} /\ vol'.final = vol.final
        /\ vol.final = "absent" /\ c \in vol.data /\ UNCHANGED <<main, result>>
    BY <1>0, <1>15 DEF Rot, Directory
  <2> QED
    BY <2>1 DEF Abstract!Next, Abstract!Damage
<1>16. CASE OtherManifest
  <2>0. UNCHANGED result
    BY <1>16 DEF OtherManifest
  <2>1. /\ vol' \in Directory /\ vol.final = "absent" /\ main = "Down" /\ main' = "Down"
        /\ vol'.final = "published" => vol'.data = Chunks
    BY <1>16, OtherManifestLeaves DEF Inv
  <2>2. vol'.data \subseteq Chunks /\ vol'.final \in {"absent", "foreign", "published"}
    BY <2>1 DEF Directory
  <2> QED
    BY <2>0, <2>1, <2>2 DEF Abstract!Next, Abstract!Disturb
<1> QED
  BY <1>2, <1>3, <1>4, <1>5, <1>6, <1>7, <1>9, <1>10, <1>11, <1>12, <1>13, <1>14, <1>15,
     <1>16, <1>20
  DEF Next, MainStep, WorkerStep, Failure

\* run() implements VerifiedDownload: whatever its threads, its files and their
\* environment do, verified chunks are only added or saved by a run, the file
\* appears when every chunk has been saved, and only a crash or others take
\* anything back.
THEOREM Refinement == Spec => Implements
<1>1. Init => Abstract!Init
  BY DEF Init, DirectoryInit, InitialDirectories, EmptyDirectory, Abstract!Init, saved
<1>2. Init => Alive
  BY DEF Init, Alive
<1>3. Inv /\ RefinementInv /\ Alive /\ [Next]_vars => [Abstract!Next]_Abstract!vars
  BY StepSimulation
<1> QED
  BY <1>1, <1>2, <1>3, AliveStep, Invariance, RefinementInvariance, PTL DEF Spec, Implements, Abstract!Spec
=============================================================================
