---------------------------- MODULE PresenceProofs ----------------------------
(***************************************************************************)
(* Proofs that a download never advertises a chunk it has not verified,    *)
(* and that no thread outlives run(), for any chunks, workers, losses and  *)
(* delays.                                                                 *)
(***************************************************************************)
EXTENDS Presence, TLAPS

\* The messages on their way are the part that NeverOverAdvertised leaves out.
AdvertisedInv == message \in [Threads -> SUBSET completed] /\ NeverOverAdvertised

\* A chunk list is read once and may be replaced by "all" later: it is verified
\* at either time, and stays so, because run() only adds to the store.
LEMMA AdvertisedStep == AdvertisedInv /\ [Next]_vars => AdvertisedInv'
<1> SUFFICES ASSUME AdvertisedInv, [Next]_vars
             PROVE  AdvertisedInv'
  OBVIOUS
<1> USE DEF AdvertisedInv, NeverOverAdvertised
<1>0. Main \in Threads /\ Heartbeat \in Threads /\ Workers \subseteq Threads
  BY DEF Threads
<1>1. CASE UNCHANGED <<completed, message, late, listed>>
  BY <1>1
<1>2. ASSUME NEW t \in Threads, ReadChunks(t)
      PROVE  AdvertisedInv'
  BY <1>2 DEF ReadChunks
<1>3. ASSUME NEW t \in Threads, Send(t)
      PROVE  AdvertisedInv'
  BY <1>3 DEF Send, AllComplete
<1>4. ASSUME NEW t \in Threads, Deliver(t) \/ AnnounceFails(t)
      PROVE  AdvertisedInv'
  BY <1>4 DEF Deliver, AnnounceFails
<1>5. ASSUME NEW t \in Threads, Announcing(t)
      PROVE  AdvertisedInv'
  BY <1>2, <1>3, <1>4, <1>5 DEF Announcing
<1>6. CASE MainStep
  BY <1>0, <1>1, <1>5, <1>6 DEF MainStep, Spawn, JoinWorkers, StopHeartbeat, Notify, JoinHeartbeat
<1>7. CASE HeartbeatStep
  BY <1>0, <1>1, <1>5, <1>7 DEF HeartbeatStep, HeartbeatTest, HeartbeatSleep, HeartbeatWakes
<1>8. ASSUME NEW w \in Workers, Complete(w) \/ Return(w)
      PROVE  AdvertisedInv'
  <2>1. completed \subseteq completed' /\ UNCHANGED <<message, late, listed>>
    BY <1>8 DEF Complete, Return
  <2> QED
    BY <2>1
<1>9. CASE DeliverLate \/ Forget
  BY <1>9 DEF DeliverLate, Forget
<1> QED
  BY <1>0, <1>1, <1>4, <1>5, <1>6, <1>7, <1>8, <1>9 DEF Next, vars

\* The tracker never lists a chunk for this peer that it has not verified, and
\* nothing on the way to it would make it do so.
THEOREM AdvertisedSafety == Spec => []NeverOverAdvertised
<1>1. Init => AdvertisedInv
  BY DEF Init, AdvertisedInv, NeverOverAdvertised
<1>2. AdvertisedInv => NeverOverAdvertised
  BY DEF AdvertisedInv
<1> QED
  BY <1>1, <1>2, AdvertisedStep, PTL DEF Spec

-----------------------------------------------------------------------------
(* Where the threads are.                                                  *)

StepsOf(t) ==
  Announcement \cup
    (IF t = Main THEN {"Spawn", "Join", "Stop", "Notify", "JoinHeartbeat", "Done"}
     ELSE IF t = Heartbeat THEN {"Off", "Test", "Predicate", "Block", "Asleep", "Done"}
     ELSE {"Off", "Work", "Done"})

\* The threads exist from Spawn on, the workers until JoinWorkers, and the
\* heartbeat thread until JoinHeartbeat.
Quiet(p) == \A w \in Workers : p[w] \in {"Off", "Done"}
ThreadInv ==
  /\ DOMAIN pc = Threads /\ \A t \in Threads : pc[t] \in StepsOf(t)
  /\ pc[Main] \in Announcement \cup {"Spawn"} => \A t \in Threads \ {Main} : pc[t] = "Off"
  /\ pc[Main] \in {"Stop", "Notify", "JoinHeartbeat", "Done"} => Quiet(pc)
  /\ pc[Main] = "Done" => pc[Heartbeat] \in {"Off", "Done"}

LEMMA ThreadNames ==
  /\ Main \in Threads /\ Heartbeat \in Threads /\ Workers \subseteq Threads
  /\ Main # Heartbeat /\ Main \notin Workers /\ Heartbeat \notin Workers
BY PresenceAssumption DEF Threads

\* A thread other than the main one goes on.
LEMMA OtherMoves ==
  ASSUME ThreadInv, NEW t \in Threads \ {Main}, NEW step \in StepsOf(t), Goto(t, step),
         pc[t] \notin {"Off", "Done"}
  PROVE  ThreadInv'
<1>1. /\ DOMAIN pc' = Threads /\ pc'[t] = step /\ pc'[Main] = pc[Main]
      /\ \A u \in Threads \ {t} : pc'[u] = pc[u]
  BY ThreadNames DEF Goto, ThreadInv
<1>2. pc[Main] \notin Announcement \cup {"Spawn"}
  BY DEF ThreadInv
<1>3. Quiet(pc) => t \notin Workers
  BY DEF Quiet
<1>4. Quiet(pc) => Quiet(pc')
  BY <1>1, <1>3, ThreadNames DEF Quiet
<1>5. pc[Main] = "Done" => FALSE
  BY <1>3, ThreadNames DEF ThreadInv, Threads
<1>6. \A u \in Threads : pc'[u] \in StepsOf(u)
  BY <1>1 DEF ThreadInv
<1> QED  BY <1>1, <1>2, <1>4, <1>5, <1>6 DEF ThreadInv

\* The main thread goes on in its announce, or out of it.
LEMMA MainMoves ==
  ASSUME ThreadInv, NEW step \in StepsOf(Main), Goto(Main, step),
         \/ pc[Main] \in Announcement /\ step \in Announcement \cup {"Spawn", "Stop"}
         \/ step = "Stop" /\ Quiet(pc)
         \/ pc[Main] = "Stop" /\ step = "Notify"
         \/ pc[Main] = "JoinHeartbeat" /\ step = "Done" /\ pc[Heartbeat] \in {"Off", "Done"}
  PROVE  ThreadInv'
<1>1. /\ DOMAIN pc' = Threads /\ pc'[Main] = step
      /\ \A u \in Threads \ {Main} : pc'[u] = pc[u]
  BY ThreadNames DEF Goto, ThreadInv
<1>2. Quiet(pc) => Quiet(pc')
  BY <1>1, ThreadNames DEF Quiet
<1>3. \A u \in Threads : pc'[u] \in StepsOf(u)
  BY <1>1 DEF ThreadInv
<1>4. CASE pc[Main] \in Announcement /\ step \in Announcement \cup {"Spawn", "Stop"}
  <2>1. \A t \in Threads \ {Main} : pc[t] = "Off"
    BY <1>4 DEF ThreadInv
  <2>2. Quiet(pc)
    BY <2>1, ThreadNames DEF Quiet
  <2>3. step # "Done"
    BY <1>4 DEF Announcement
  <2> QED  BY <1>1, <1>2, <1>3, <2>1, <2>2, <2>3 DEF ThreadInv
<1>5. CASE step \in {"Stop", "Notify", "Done"} /\ Quiet(pc) /\ (step = "Done" => pc[Heartbeat] \in {"Off", "Done"})
  BY <1>1, <1>2, <1>3, <1>5, ThreadNames DEF ThreadInv, Announcement
<1> QED  BY <1>4, <1>5 DEF ThreadInv

LEMMA ThreadStep == ThreadInv /\ [Next]_vars => ThreadInv'
<1> SUFFICES ASSUME ThreadInv, [Next]_vars PROVE ThreadInv'
  OBVIOUS
<1>1. CASE UNCHANGED pc
  BY <1>1 DEF ThreadInv, Quiet
<1>2. ASSUME NEW t \in Threads, Announcing(t) \/ AnnounceFails(t)
      PROVE  ThreadInv'
  <2>1. /\ pc[t] \in Announcement
        /\ \E step \in {"AskAll", "Await", AfterAnnounce(t), AfterError(t)} : Goto(t, step)
    BY <1>2 DEF Announcing, ReadChunks, Send, Deliver, AnnounceFails, Announcement
  <2>2. PICK step \in {"AskAll", "Await", AfterAnnounce(t), AfterError(t)} : Goto(t, step)
    BY <2>1
  <2>3. step \in StepsOf(t)
    BY <2>2, ThreadNames DEF StepsOf, AfterAnnounce, AfterError, Announcement
  <2>4. CASE t = Main
    <3>1. step \in Announcement \cup {"Spawn", "Stop"}
      BY <2>2, <2>4 DEF AfterAnnounce, AfterError, Announcement
    <3> QED  BY <2>1, <2>2, <2>3, <2>4, <3>1, MainMoves
  <2>5. CASE t # Main
    <3>1. pc[t] \notin {"Off", "Done"}
      BY <2>1 DEF Announcement
    <3> QED  BY <2>2, <2>3, <2>5, <3>1, OtherMoves
  <2> QED  BY <2>4, <2>5
<1>3. CASE Spawn
  <2>1. /\ pc' = [t \in Threads |-> IF t = Main THEN "Join" ELSE IF t = Heartbeat THEN "Test" ELSE "Work"]
    BY <1>3 DEF Spawn
  <2>2. DOMAIN pc' = Threads /\ pc'[Main] = "Join"
    BY <2>1, ThreadNames
  <2>3. \A t \in Threads : pc'[t] \in StepsOf(t)
    BY <2>1 DEF StepsOf
  <2> QED  BY <2>2, <2>3 DEF ThreadInv, Announcement
<1>4. CASE JoinWorkers
  <2>1. Quiet(pc) /\ Goto(Main, "Stop") /\ "Stop" \in StepsOf(Main)
    BY <1>4 DEF JoinWorkers, Quiet, StepsOf
  <2> QED  BY <2>1, MainMoves
<1>5. CASE StopHeartbeat
  <2>1. pc[Main] = "Stop" /\ Goto(Main, "Notify") /\ "Notify" \in StepsOf(Main)
    BY <1>5 DEF StopHeartbeat, StepsOf
  <2> QED  BY <2>1, MainMoves
<1>6. CASE Notify
  <2>1. /\ DOMAIN pc' = Threads /\ pc[Main] = "Notify" /\ pc'[Main] = "JoinHeartbeat"
        /\ pc'[Heartbeat] \in {pc[Heartbeat], "Predicate"}
        /\ \A w \in Workers : pc'[w] = pc[w]
    BY <1>6, ThreadNames DEF Notify, ThreadInv
  <2>2. Quiet(pc')
    BY <2>1 DEF ThreadInv, Quiet
  <2>3. \A t \in Threads : pc'[t] \in StepsOf(t)
    <3>1. "JoinHeartbeat" \in StepsOf(Main) /\ "Predicate" \in StepsOf(Heartbeat)
      BY ThreadNames DEF StepsOf
    <3> QED  BY <2>1, <3>1, ThreadNames DEF ThreadInv, Threads
  <2> QED  BY <2>1, <2>2, <2>3 DEF ThreadInv, Announcement
<1>7. CASE JoinHeartbeat
  <2>1. /\ pc[Main] = "JoinHeartbeat" /\ Goto(Main, "Done") /\ "Done" \in StepsOf(Main)
        /\ pc[Heartbeat] \in {"Off", "Done"}
    BY <1>7 DEF JoinHeartbeat, StepsOf
  <2> QED  BY <2>1, MainMoves
<1>8. CASE HeartbeatTest \/ HeartbeatSleep \/ HeartbeatWakes
  <2>1. PICK step \in {"Predicate", "Block", "Asleep", "Announce", "Done"} : Goto(Heartbeat, step)
    BY <1>8 DEF HeartbeatTest, HeartbeatSleep, HeartbeatWakes
  <2>2. pc[Heartbeat] \notin {"Off", "Done"}
    BY <1>8 DEF HeartbeatTest, HeartbeatSleep, HeartbeatWakes
  <2>3. step \in StepsOf(Heartbeat)
    BY <2>1, ThreadNames DEF StepsOf, Announcement
  <2> QED  BY <2>1, <2>2, <2>3, ThreadNames, OtherMoves
<1>9. ASSUME NEW w \in Workers, Complete(w) \/ Return(w)
      PROVE  ThreadInv'
  <2>1. PICK step \in {"Announce", "Done"} : Goto(w, step)
    BY <1>9 DEF Complete, Return
  <2>2. pc[w] \notin {"Off", "Done"}
    BY <1>9 DEF Complete, Return
  <2>3. step \in StepsOf(w) /\ w \in Threads \ {Main}
    BY <2>1, ThreadNames DEF StepsOf, Announcement
  <2> QED  BY <2>1, <2>2, <2>3, OtherMoves
<1>10. CASE DeliverLate \/ Forget
  BY <1>1, <1>10 DEF DeliverLate, Forget
<1> QED
  BY <1>1, <1>2, <1>3, <1>4, <1>5, <1>6, <1>7, <1>8, <1>9, <1>10, ThreadNames
  DEF Next, vars, MainStep, HeartbeatStep

LEMMA InitThreads == Init => ThreadInv
<1> SUFFICES ASSUME Init PROVE ThreadInv
  OBVIOUS
<1>1. pc = [t \in Threads |-> IF t = Main THEN "Announce" ELSE "Off"]
  BY DEF Init
<1>2. DOMAIN pc = Threads /\ pc[Main] = "Announce" /\ \A t \in Threads \ {Main} : pc[t] = "Off"
  BY <1>1, ThreadNames
<1>3. \A t \in Threads : pc[t] \in StepsOf(t)
  BY <1>2 DEF StepsOf, Announcement
<1> QED  BY <1>2, <1>3 DEF ThreadInv

\* However run() ends, it has joined the workers and the heartbeat thread, or
\* has never started them.
THEOREM LifetimeSafety == Spec => []NothingOutlivesRun
<1>1. ThreadInv => NothingOutlivesRun
  <2> SUFFICES ASSUME ThreadInv, pc[Main] = "Done", NEW t \in Threads PROVE pc[t] \in {"Off", "Done"}
    BY DEF NothingOutlivesRun
  <2> QED  BY DEF ThreadInv, Quiet, Threads
<1> QED
  BY <1>1, InitThreads, ThreadStep, PTL DEF Spec

\* Every thread keeps to its own steps, the store and the tracker to the chunks
\* of the manifest.
THEOREM TypeCorrect == Spec => []TypeOK
<1> DEFINE Data == /\ completed \subseteq Chunks /\ heartbeat_running \in BOOLEAN
                   /\ faults \in 0 .. MaxFaults
<1>1. Init => Data
  <2>1. 0 \in 0 .. MaxFaults
    BY PresenceAssumption
  <2>2. Init => completed \subseteq Chunks /\ heartbeat_running = FALSE /\ faults = 0
    BY DEF Init
  <2> QED  BY <2>1, <2>2
<1>2. Data /\ [Next]_vars => Data'
  <2> SUFFICES ASSUME Data, [Next]_vars PROVE Data'
    OBVIOUS
  <2>1. completed' \subseteq Chunks
    BY DEF Next, vars, MainStep, HeartbeatStep, Announcing, ReadChunks, Send, Deliver, AnnounceFails,
           Spawn, JoinWorkers, StopHeartbeat, Notify, JoinHeartbeat, HeartbeatTest, HeartbeatSleep,
           HeartbeatWakes, Complete, Return, DeliverLate, Forget
  <2>2. heartbeat_running' \in {heartbeat_running, TRUE, FALSE}
    BY DEF Next, vars, MainStep, HeartbeatStep, Announcing, ReadChunks, Send, Deliver, AnnounceFails,
           Spawn, JoinWorkers, StopHeartbeat, Notify, JoinHeartbeat, HeartbeatTest, HeartbeatSleep,
           HeartbeatWakes, Complete, Return, DeliverLate, Forget
  <2>3. faults' = faults \/ Fault
    BY DEF Next, vars, MainStep, HeartbeatStep, Announcing, ReadChunks, Send, Deliver, AnnounceFails,
           Spawn, JoinWorkers, StopHeartbeat, Notify, JoinHeartbeat, HeartbeatTest, HeartbeatSleep,
           HeartbeatWakes, Complete, Return, DeliverLate, Forget
  <2>4. faults' \in 0 .. MaxFaults
    BY <2>3, PresenceAssumption DEF Fault
  <2> QED  BY <2>1, <2>2, <2>4
<1>3. Data /\ AdvertisedInv /\ ThreadInv => TypeOK
  <2> SUFFICES ASSUME Data, AdvertisedInv, ThreadInv PROVE TypeOK
    OBVIOUS
  <2>1. pc[Main] \in StepsOf(Main) /\ pc[Heartbeat] \in StepsOf(Heartbeat)
        /\ \A w \in Workers : pc[w] \in StepsOf(w)
    BY ThreadNames DEF ThreadInv
  <2>2. /\ pc[Main] \in Announcement \cup {"Spawn", "Join", "Stop", "Notify", "JoinHeartbeat", "Done"}
        /\ pc[Heartbeat] \in Announcement \cup {"Off", "Test", "Predicate", "Block", "Asleep", "Done"}
        /\ \A w \in Workers : pc[w] \in Announcement \cup {"Off", "Work", "Done"}
    BY <2>1, ThreadNames DEF StepsOf
  <2>3. message \in [Threads -> SUBSET Chunks] /\ late \subseteq SUBSET Chunks /\ listed \subseteq Chunks
    BY DEF AdvertisedInv, NeverOverAdvertised
  <2>4. DOMAIN pc = Threads
    BY DEF ThreadInv
  <2> QED  BY <2>2, <2>3, <2>4 DEF TypeOK
<1>4. Init => AdvertisedInv
  BY DEF Init, AdvertisedInv, NeverOverAdvertised
<1> HIDE DEF Data
<1> QED
  BY <1>1, <1>2, <1>3, <1>4, InitThreads, ThreadStep, AdvertisedStep, PTL DEF Spec
=============================================================================
