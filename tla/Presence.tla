------------------------------- MODULE Presence -------------------------------
(***************************************************************************)
(* How a running download makes its chunks known: the announces of the     *)
(* main thread, of the workers and of the heartbeat thread of run(), which *)
(* overtake one another on their way to the tracker, and stop_heartbeat(). *)
(* Workers are reduced to what matters here: they complete chunks, then    *)
(* announce.  The tracker is its record of this peer, which it may lose.   *)
(***************************************************************************)
EXTENDS Integers, FiniteSets

CONSTANTS
  Chunks, Workers,
  Main, Heartbeat,      \* the other two threads of run()
  MaxListed,            \* how many chunk indices fit in an announce header
  MaxFaults             \* bound: announces and records that are lost or late

ASSUME PresenceAssumption ==
  /\ IsFiniteSet(Chunks) /\ Main # Heartbeat /\ {Main, Heartbeat} \cap Workers = {}
  /\ MaxListed \in Nat /\ MaxFaults \in Nat

Threads == Workers \cup {Main, Heartbeat}

VARIABLES
  completed,            \* the chunks that the resume store says are complete
  heartbeat_running,
  pc,                   \* where each thread is
  message,              \* the chunk list that each thread is announcing
  late,                 \* announces given up by their sender and still on the way
  listed,               \* the chunks the tracker lists for this peer
  faults

vars == <<completed, heartbeat_running, pc, message, late, listed, faults>>

Announcement == {"Announce", "AskAll", "Await"}

TypeOK ==
  /\ completed \subseteq Chunks /\ heartbeat_running \in BOOLEAN
  /\ DOMAIN pc = Threads
  /\ pc[Main] \in Announcement \cup {"Spawn", "Join", "Stop", "Notify", "JoinHeartbeat", "Done"}
  /\ pc[Heartbeat] \in Announcement \cup {"Off", "Test", "Predicate", "Block", "Asleep", "Done"}
  /\ \A w \in Workers : pc[w] \in Announcement \cup {"Off", "Work", "Done"}
  /\ message \in [Threads -> SUBSET Chunks]
  /\ late \subseteq SUBSET Chunks
  /\ listed \subseteq Chunks
  /\ faults \in 0 .. MaxFaults

\* Some chunks may be complete from an earlier run.
Init ==
  /\ completed \in SUBSET Chunks
  /\ heartbeat_running = FALSE
  /\ pc = [t \in Threads |-> IF t = Main THEN "Announce" ELSE "Off"]
  /\ message = [t \in Threads |-> {}]
  /\ late = {} /\ listed = {} /\ faults = 0

Goto(t, step) == pc' = [pc EXCEPT ![t] = step]

Fault == faults < MaxFaults /\ faults' = faults + 1

-----------------------------------------------------------------------------
(* announce_current(), by any thread.                                      *)

\* What each thread does after its announce, and after an exception from it: a
\* worker and the heartbeat log it, the main thread leaves run().
AfterAnnounce(t) == IF t = Main THEN "Spawn" ELSE IF t = Heartbeat THEN "Test" ELSE "Work"

GivingUp(t) == IF t = Main THEN "Stop" ELSE IF t = Heartbeat THEN "Done" ELSE "Work"
AfterError(t) == IF t = Main THEN "Stop" ELSE AfterAnnounce(t)

\* resume.completed_chunks(): the first lock of the store's mutex.
ReadChunks(t) ==
  /\ pc[t] = "Announce"
  /\ message' = [message EXCEPT ![t] = completed]
  /\ Goto(t, "AskAll")
  /\ UNCHANGED <<completed, heartbeat_running, late, listed, faults>>

\* resume.all_complete(): the second.  More chunks may be complete by now, but
\* the list is replaced by "all" only if all are.
AllButOne == Cardinality(completed) + 1 >= Cardinality(Chunks)
AllComplete == completed = Chunks

\* encode_chunk_list, and the header's length, which announce() checks before
\* it connects.
Send(t) ==
  /\ pc[t] = "AskAll"
  /\ message' = [message EXCEPT ![t] = IF AllComplete THEN Chunks ELSE @]
  /\ Goto(t, IF AllComplete \/ Cardinality(message[t]) <= MaxListed
             THEN "Await" ELSE AfterError(t))
  /\ UNCHANGED <<completed, heartbeat_running, late, listed, faults>>

\* The tracker records the announce, and its OK is read.
Deliver(t) ==
  /\ pc[t] = "Await"
  /\ listed' = message[t]
  /\ Goto(t, AfterAnnounce(t))
  /\ UNCHANGED <<completed, heartbeat_running, message, late, faults>>

\* The announce fails: the tracker never gets it, or it does after the timeout.
AnnounceFails(t) ==
  /\ pc[t] = "Await"
  /\ Fault
  /\ late' \in {late, late \cup {message[t]}}
  /\ Goto(t, AfterError(t))
  /\ UNCHANGED <<completed, heartbeat_running, message, listed>>

-----------------------------------------------------------------------------
(* The threads of run().                                                   *)

\* heartbeat_running.store(true); the heartbeat and the workers are created.
Spawn ==
  /\ pc[Main] = "Spawn"
  /\ heartbeat_running' = TRUE
  /\ pc' = [t \in Threads |-> IF t = Main THEN "Join" ELSE IF t = Heartbeat THEN "Test" ELSE "Work"]
  /\ UNCHANGED <<completed, message, late, listed, faults>>

\* A worker verifies and marks a chunk, and announces.
Complete(w) ==
  /\ pc[w] = "Work"
  /\ \E c \in Chunks \ completed : completed' = completed \cup {c}
  /\ Goto(w, "Announce")
  /\ UNCHANGED <<heartbeat_running, message, late, listed, faults>>

\* A worker returns: there are no more chunks for it, or it has failed.
Return(w) ==
  /\ pc[w] = "Work"
  /\ Goto(w, "Done")
  /\ UNCHANGED <<completed, heartbeat_running, message, late, listed, faults>>

JoinWorkers ==
  /\ pc[Main] = "Join"
  /\ \A w \in Workers : pc[w] = "Done"
  /\ Goto(Main, "Stop")
  /\ UNCHANGED <<completed, heartbeat_running, message, late, listed, faults>>

\* stop_heartbeat(): the flag is cleared, and the condition notified, without
\* heartbeat_mutex.
StopHeartbeat ==
  /\ pc[Main] = "Stop"
  /\ heartbeat_running' = FALSE
  /\ Goto(Main, "Notify")
  /\ UNCHANGED <<completed, message, late, listed, faults>>

Notify ==
  /\ pc[Main] = "Notify"
  /\ pc' = [pc EXCEPT ![Main] = "JoinHeartbeat",
                      ![Heartbeat] = IF @ = "Asleep" THEN "Predicate" ELSE @]
  /\ UNCHANGED <<completed, heartbeat_running, message, late, listed, faults>>

DetachHeartbeat ==
  /\ pc[Main] = "JoinHeartbeat"
  /\ Goto(Main, "Done")
  /\ UNCHANGED <<completed, heartbeat_running, message, late, listed, faults>>
JoinHeartbeat ==
  /\ pc[Main] = "JoinHeartbeat"
  /\ pc[Heartbeat] \in {"Off", "Done"}
  /\ Goto(Main, "Done")
  /\ UNCHANGED <<completed, heartbeat_running, message, late, listed, faults>>

-----------------------------------------------------------------------------
(* The heartbeat thread.                                                   *)

\* The test of the loop and, in wait_for, the test before each sleep.
HeartbeatTest ==
  /\ \/ /\ pc[Heartbeat] = "Test"
        /\ Goto(Heartbeat, IF heartbeat_running THEN "Predicate" ELSE "Done")
     \/ /\ pc[Heartbeat] = "Predicate"
        /\ Goto(Heartbeat, IF heartbeat_running THEN "Block" ELSE "Done")
  /\ UNCHANGED <<completed, heartbeat_running, message, late, listed, faults>>

HeartbeatSleep ==
  /\ pc[Heartbeat] = "Block"
  /\ Goto(Heartbeat, "Asleep")
  /\ UNCHANGED <<completed, heartbeat_running, message, late, listed, faults>>

NeverTimesOut == FALSE
\* The interval is over: wait_for returns the predicate.
HeartbeatWakes ==
  /\ pc[Heartbeat] = "Asleep"
  /\ Goto(Heartbeat, IF heartbeat_running THEN "Announce" ELSE "Done")
  /\ UNCHANGED <<completed, heartbeat_running, message, late, listed, faults>>

-----------------------------------------------------------------------------
(* The tracker.                                                            *)

DeliverLate ==
  \E m \in late :
    /\ listed' = m /\ late' = late \ {m}
    /\ UNCHANGED <<completed, heartbeat_running, pc, message, faults>>

\* The record expires, or the tracker restarts with none.
Forget ==
  /\ listed # {}
  /\ Fault
  /\ listed' = {}
  /\ UNCHANGED <<completed, heartbeat_running, pc, message, late>>

Announcing(t) == ReadChunks(t) \/ Send(t) \/ Deliver(t)

MainStep == Announcing(Main) \/ Spawn \/ JoinWorkers \/ StopHeartbeat \/ Notify \/ JoinHeartbeat

HeartbeatStep == Announcing(Heartbeat) \/ HeartbeatTest \/ HeartbeatSleep \/ HeartbeatWakes

Next ==
  \/ MainStep \/ HeartbeatStep \/ DeliverLate \/ Forget
  \/ \E w \in Workers : Announcing(w) \/ Complete(w) \/ Return(w)
  \/ \E t \in Threads : AnnounceFails(t)

\* Threads run, and wait_for times out.  The properties do without the workers
\* ever completing a chunk or returning: their retries may take long.
Spec == Init /\ [][Next]_vars
FairSpec ==
  /\ Spec
  /\ WF_vars(MainStep) /\ WF_vars(HeartbeatStep)
  /\ \A w \in Workers : WF_vars(Announcing(w))

-----------------------------------------------------------------------------
(* Properties.                                                             *)

\* The tracker never lists a chunk that is not verified, although each announce
\* reads the store twice and announces arrive in any order.
NeverOverAdvertised == \A m \in late \cup {listed} : m \subseteq completed

\* When run() returns or throws, no thread that it created is still running: they
\* hold references to its local variables.
NothingOutlivesRun == pc[Main] = "Done" => \A t \in Threads : pc[t] \in {"Off", "Done"}

\* A verified chunk is listed in the end, and again after an older announce
\* has replaced the record or the tracker has lost it, as long as run() lasts.
Lasts == pc[Main] \in Announcement \cup {"Spawn", "Join"}
EventuallyListed ==
  \A c \in Chunks : c \in completed \ listed /\ Lasts ~> c \in listed \/ ~Lasts

\* stop_heartbeat() returns although its notification can be lost: the heartbeat
\* thread then sleeps for at most one interval.
StopReturns == pc[Main] = "Stop" ~> pc[Main] = "Done"

=============================================================================
