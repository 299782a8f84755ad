----------------------------- MODULE ResumeStore -----------------------------
(***************************************************************************)
(* ResumeStore: the chunks of a download that are known to be complete, in *)
(* memory and in <swarm_id>.resume.  Every method holds the store's mutex, *)
(* so each is one step, except flush(): it takes its snapshot under the    *)
(* mutex, writes the file without it, and takes it again to clear dirty_.  *)
(***************************************************************************)
EXTENDS OutputDirectory, FiniteSets

CONSTANT Threads        \* the threads that call flush()

VARIABLES
  completed,            \* completed_, as the set of complete chunks
  revision,             \* revision_
  dirty,                \* dirty_
  flush                 \* the locals of each thread's call of flush()

storeVars == <<completed, revision, dirty, flush>>

FlushFrame == [step : {"idle", "write", "confirm"},
               chunks : SUBSET Chunks, revision : Nat]

NoFlush == [step |-> "idle", chunks |-> {}, revision |-> 0]

StoreTypeOK ==
  /\ completed \in SUBSET Chunks
  /\ revision \in Nat
  /\ dirty \in BOOLEAN
  /\ flush \in [Threads -> FlushFrame]

\* No store: the process is not running, or has not loaded it yet.
StoreInit ==
  /\ completed = {}
  /\ revision = 0
  /\ dirty = TRUE
  /\ flush = [t \in Threads |-> NoFlush]

-----------------------------------------------------------------------------
\* load_or_create and load_existing.  Only write_atomic writes the file, so a
\* file that exists is well formed and belongs to this swarm, whose id names it.
LoadOrCreate ==
  /\ completed' = vol.marks
  /\ revision' = 0
  /\ dirty' = ~vol.resume
  /\ UNCHANGED flush

MarkComplete(i) ==
  /\ completed' = completed \cup {i}
  /\ revision' = IF i \in completed THEN revision ELSE revision + 1
  /\ dirty' = (dirty \/ i \notin completed)
  /\ UNCHANGED flush

\* mark_incomplete of every chunk of S, from a thread that runs alone.
MarkIncomplete(S) ==
  /\ completed' = completed \ S
  /\ revision' = revision + Cardinality(S \cap completed)
  /\ dirty' = (dirty \/ S \cap completed # {})
  /\ UNCHANGED flush

AllComplete == completed = Chunks

-----------------------------------------------------------------------------
\* flush(): the snapshot and its revision, under the mutex.
FlushSnapshot(t) ==
  /\ flush[t].step = "idle"
  /\ dirty
  /\ flush' = [flush EXCEPT ![t] = [step |-> "write", chunks |-> completed,
                                    revision |-> revision]]
  /\ UNCHANGED <<diskVars, completed, revision, dirty>>

\* write_atomic: the rename at its end is what others can see of it.
FlushWrite(t) ==
  /\ flush[t].step = "write"
  /\ vol' = [vol EXCEPT !.resume = TRUE, !.marks = flush[t].chunks]
  /\ flush' = [flush EXCEPT ![t].step = "confirm"]
  /\ UNCHANGED <<dur, completed, revision, dirty>>

\* write_atomic throws: the resume file is the one it was, and so is dirty_.
FlushFails(t) ==
  /\ flush[t].step = "write"
  /\ flush' = [flush EXCEPT ![t] = NoFlush]
  /\ UNCHANGED <<diskVars, completed, revision, dirty>>

\* flush() returns: at once if nothing is dirty, or after the write, when it
\* clears dirty_ unless a chunk was marked meanwhile.
FlushReturns(t) ==
  /\ \/ flush[t].step = "idle" /\ ~dirty /\ UNCHANGED dirty
     \/ flush[t].step = "confirm" /\ dirty' = (dirty /\ revision # flush[t].revision)
  /\ flush' = [flush EXCEPT ![t] = NoFlush]
  /\ UNCHANGED <<diskVars, completed, revision>>
=============================================================================
