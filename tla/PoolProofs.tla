------------------------------ MODULE PoolProofs ------------------------------
(***************************************************************************)
(* Proofs about ConnectionPool: the counter, the limit, what stop() leaves *)
(* and that no wakeup is lost, for any number of workers and clients and   *)
(* any limit.                                                              *)
(***************************************************************************)
EXTENDS ConnectionPool, FiniteSetTheorems, TLAPS

\* As much of the types as the counts need.
PoolTypes ==
  /\ outstanding \in Int
  /\ queue \in Seq(Clients \cup {Nobody})
  /\ held \in [Workers \cup {Acceptor} -> Clients \cup {Nobody}]
  /\ mutex \in Workers \cup {Acceptor, Nobody}
  /\ DOMAIN worker = Workers /\ backlog \subseteq Clients

\* What start() and stop() may rely on at each of their steps.
PhaseInv ==
  /\ owner \in {"Idle", "Listen", "Spawn", "Drain", "NotifyAll", "JoinWorkers"} =>
       acceptor = "None"
  /\ owner \in {"Idle", "Listen", "Spawn", "NotifyAll", "JoinWorkers"} => queue = <<>>
  /\ owner \in {"Idle", "Listen"} => \A w \in Workers : worker[w] = "None"

\* Whoever holds queue_mutex_ is where the code holds it.
MutexInv ==
  /\ mutex = Acceptor => acceptor \in {"Push", "Undo"}
  /\ \A w \in Workers : mutex = w => worker[w] \in {"Test", "Block", "Take"}

\* A connection that has been counted and not refused has its place.
RoomInv ==
  acceptor \in {"Enqueue", "Push", "Undo"} => Len(queue) + Cardinality(Active) < MaxConnections

PoolInv == PoolTypes /\ PhaseInv /\ MutexInv /\ Accounting /\ Bounded /\ RoomInv

\* Lengths and cardinalities are numbers.
LEMMA Counts ==
  ASSUME PoolTypes
  PROVE  Len(queue) \in Nat /\ IsFiniteSet(Active) /\ Cardinality(Active) \in Nat
<1>1. Active \in SUBSET Workers
  BY DEF Active
<1>2. IsFiniteSet(Active)
  BY <1>1, FS_Subset, PoolAssumption
<1> QED
  BY <1>2, FS_CardinalityType DEF PoolTypes

\* A step of a worker that begins to serve a connection, or neither begins nor ends.
LEMMA ActiveStep ==
  ASSUME PoolTypes, NEW w \in Workers, NEW step, worker' = [worker EXCEPT ![w] = step]
  PROVE  /\ (worker[w] \in {"Serve", "Finish"} <=> step \in {"Serve", "Finish"})
              => Active' = Active
         /\ worker[w] \notin {"Serve", "Finish"} /\ step \in {"Serve", "Finish"}
              => Cardinality(Active') = Cardinality(Active) + 1
<1>1. IsFiniteSet(Active)
  BY Counts
<1>2. CASE worker[w] \in {"Serve", "Finish"} <=> step \in {"Serve", "Finish"}
  <2>1. Active' = Active
    BY <1>2 DEF Active, PoolTypes
  <2> QED
    BY <1>2, <2>1
<1>3. CASE worker[w] \notin {"Serve", "Finish"} /\ step \in {"Serve", "Finish"}
  <2>1. Active' = Active \cup {w} /\ w \notin Active
    BY <1>3 DEF Active, PoolTypes
  <2> QED
    BY <1>1, <1>3, <2>1, FS_AddElement
<1> QED
  BY <1>2, <1>3

\* Every step keeps types, phases and the mutex.
LEMMA StructureStep ==
  PoolTypes /\ PhaseInv /\ MutexInv /\ [Next]_vars => (PoolTypes /\ PhaseInv /\ MutexInv)'
<1> SUFFICES ASSUME PoolTypes, PhaseInv, MutexInv, [Next]_vars
             PROVE  (PoolTypes /\ PhaseInv /\ MutexInv)'
  OBVIOUS
<1>0. Acceptor \notin Workers /\ Nobody \notin Workers /\ Nobody # Acceptor
  BY PoolAssumption
<1> USE DEF PoolTypes, PhaseInv, MutexInv
<1>1. CASE Start \/ Listen \/ Spawn \/ CallStop
  BY <1>0, <1>1 DEF Start, Listen, Spawn, CallStop
<1>2. CASE ClearRunning \/ Shutdown \/ JoinAcceptor
  BY <1>0, <1>2 DEF ClearRunning, Shutdown, JoinAcceptor
<1>3. CASE Drain
  <2>1. Len(queue) \in Int /\ <<>> \in Seq(Clients \cup {Nobody})
    OBVIOUS
  <2> QED
    BY <1>0, <1>3, <2>1 DEF Drain
<1>4. CASE NotifyAll \/ JoinWorkers
  <2>1. CASE NotifyAll
    BY <1>0, <2>1 DEF NotifyAll
  <2>2. CASE JoinWorkers
    BY <1>0, <2>2 DEF JoinWorkers
  <2> QED
    BY <1>4, <2>1, <2>2
<1>5. CASE AcceptLoop \/ Accept \/ AcceptFails \/ NotifyOne
  <2>1. CASE AcceptLoop \/ AcceptFails
    BY <1>0, <2>1 DEF AcceptLoop, AcceptFails
  <2>2. CASE Accept
    BY <1>0, <2>2 DEF Accept
  <2>3. CASE NotifyOne
    BY <1>0, <2>3 DEF NotifyOne
  <2> QED
    BY <1>5, <2>1, <2>2, <2>3
<1>6. CASE Count \/ Refuse \/ Enqueue \/ Undo
  BY <1>0, <1>6 DEF Count, Refuse, Enqueue, Undo
<1>7. CASE Push
  <2>1. Append(queue, held[Acceptor]) \in Seq(Clients \cup {Nobody})
    OBVIOUS
  <2> QED
    BY <1>0, <1>7, <2>1 DEF Push
<1>8. ASSUME NEW w \in Workers, Enter(w) \/ Test(w) \/ Block(w) \/ SpuriousWakeup(w)
      PROVE  (PoolTypes /\ PhaseInv /\ MutexInv)'
  BY <1>0, <1>8 DEF Enter, Test, Block, SpuriousWakeup
<1>9. ASSUME NEW w \in Workers, Take(w)
      PROVE  (PoolTypes /\ PhaseInv /\ MutexInv)'
  <2>1. queue # <<>> => /\ Head(queue) \in Clients \cup {Nobody}
                        /\ Tail(queue) \in Seq(Clients \cup {Nobody})
    OBVIOUS
  <2> QED
    BY <1>0, <1>9, <2>1 DEF Take
<1>10. ASSUME NEW w \in Workers, Serve(w) \/ Finish(w)
       PROVE  (PoolTypes /\ PhaseInv /\ MutexInv)'
  BY <1>0, <1>10 DEF Serve, Finish
<1>11. CASE (\E c \in Clients : Connect(c)) \/ UNCHANGED vars
  BY <1>11 DEF Connect, vars
<1> QED
  BY <1>1, <1>2, <1>3, <1>4, <1>5, <1>6, <1>7, <1>8, <1>9, <1>10, <1>11
  DEF Next, Stopping, AcceptorStep, WorkerStep

\* Every step keeps the counts.
LEMMA CountStep == PoolInv /\ [Next]_vars => (Accounting /\ Bounded /\ RoomInv)'
<1> SUFFICES ASSUME PoolInv, [Next]_vars
             PROVE  (Accounting /\ Bounded /\ RoomInv)'
  OBVIOUS
<1>0. /\ Len(queue) \in Nat /\ Cardinality(Active) \in Nat /\ outstanding \in Int
      /\ MaxConnections \in Nat \ {0} /\ PoolTypes
  BY Counts, PoolAssumption DEF PoolInv, PoolTypes
<1>a. /\ outstanding = Len(queue) + Cardinality(Active) + InAccept
      /\ Len(queue) + Cardinality(Active) <= MaxConnections
      /\ acceptor \in {"Enqueue", "Push", "Undo"} =>
           Len(queue) + Cardinality(Active) < MaxConnections
  BY DEF PoolInv, Accounting, Bounded, RoomInv
<1> USE DEF Accounting, Bounded, RoomInv, InAccept
<1>1. CASE /\ UNCHANGED <<outstanding, queue>> /\ Active' = Active
           /\ acceptor' = acceptor \/ (acceptor' \in {"None", "Loop", "Accept", "Count", "Done"}
                                      /\ acceptor \notin {"Busy", "Enqueue", "Push", "Undo"})
  BY <1>a, <1>1
<1>2. CASE Start \/ Listen \/ CallStop \/ ClearRunning \/ Shutdown \/ JoinAcceptor
  BY <1>1, <1>2 DEF Start, Listen, CallStop, ClearRunning, Shutdown, JoinAcceptor, Active
<1>3. CASE Spawn
  <2>1. CASE \E w \in Workers : /\ worker[w] = "None" /\ UNCHANGED acceptor
                               /\ worker' = [worker EXCEPT ![w] = "Enter"]
    <3>1. PICK w \in Workers : worker[w] = "None" /\ worker' = [worker EXCEPT ![w] = "Enter"]
      BY <2>1
    <3>2. worker[w] \in {"Serve", "Finish"} <=> "Enter" \in {"Serve", "Finish"}
      BY <3>1
    <3>3. Active' = Active
      BY <1>0, <3>1, <3>2, ActiveStep
    <3>4. UNCHANGED <<outstanding, queue, acceptor>>
      BY <1>3, <2>1 DEF Spawn
    <3> QED
      BY <1>1, <3>3, <3>4
  <2>2. CASE acceptor' = "Loop" /\ UNCHANGED worker
    BY <1>1, <1>3, <2>2 DEF Spawn, Active, PoolInv, PhaseInv
  <2> QED
    BY <1>3, <2>1, <2>2 DEF Spawn
<1>4. CASE Drain
  <2>1. acceptor = "None" /\ UNCHANGED acceptor /\ Active' = Active
    BY <1>4 DEF Drain, PoolInv, PhaseInv, Active
  <2>2. outstanding' = outstanding - Len(queue) /\ queue' = <<>> /\ Len(<<>>) = 0
    BY <1>4 DEF Drain
  <2> QED
    BY <1>0, <1>a, <2>1, <2>2
<1>5. CASE NotifyAll \/ JoinWorkers
  <2>1. Active' = Active
    BY <1>0, <1>5 DEF NotifyAll, JoinWorkers, Active, PoolTypes
  <2> QED
    BY <1>1, <1>5, <2>1 DEF NotifyAll, JoinWorkers
<1>6. CASE AcceptLoop \/ Accept \/ AcceptFails
  BY <1>1, <1>6 DEF AcceptLoop, Accept, AcceptFails, Active
<1>7. CASE NotifyOne
  <2>1. Active' = Active
    BY <1>0, <1>7 DEF NotifyOne, Active, PoolTypes
  <2> QED
    BY <1>1, <1>7, <2>1 DEF NotifyOne
<1>8. CASE Count \/ Refuse \/ Enqueue \/ Undo
  <2>1. Active' = Active /\ UNCHANGED queue
    BY <1>8 DEF Count, Refuse, Enqueue, Undo, Active
  <2> QED
    BY <1>0, <1>a, <1>8, <2>1 DEF Count, Refuse, Enqueue, Undo, Full
<1>9. CASE Push
  <2>1. /\ Active' = Active /\ UNCHANGED outstanding
        /\ acceptor = "Push" /\ acceptor' = "NotifyOne"
        /\ queue' = Append(queue, held[Acceptor])
    BY <1>9 DEF Push, Active
  <2>2. Len(queue') = Len(queue) + 1
    BY <1>0, <2>1 DEF PoolTypes
  <2> QED
    BY <1>0, <1>a, <2>1, <2>2
<1>10. ASSUME NEW w \in Workers, WorkerStep(w) \/ SpuriousWakeup(w)
       PROVE  (Accounting /\ Bounded /\ RoomInv)'
  <2>1. CASE Enter(w) \/ Test(w) \/ Block(w) \/ Serve(w) \/ SpuriousWakeup(w)
    <3>0. PICK step : /\ worker' = [worker EXCEPT ![w] = step]
                      /\ worker[w] \in {"Serve", "Finish"} <=> step \in {"Serve", "Finish"}
      <4>1. CASE Enter(w) \/ Block(w) \/ SpuriousWakeup(w)
        BY <4>1 DEF Enter, Block, SpuriousWakeup
      <4>2. CASE Test(w)
        <5>1. worker[w] = "Test" /\ (\/ worker' = [worker EXCEPT ![w] = "Take"]
                                    \/ worker' = [worker EXCEPT ![w] = "Block"])
          BY <4>2 DEF Test
        <5> QED
          BY <5>1
      <4>3. CASE Serve(w)
        BY <4>3 DEF Serve
      <4> QED
        BY <2>1, <4>1, <4>2, <4>3
    <3>1. Active' = Active
      BY <1>0, <3>0, ActiveStep
    <3> QED
      BY <1>1, <2>1, <3>1 DEF Enter, Test, Block, Serve, SpuriousWakeup
  <2>2. CASE Take(w) /\ (~running \/ queue = <<>>)
    <3>1. Active' = Active
      BY <1>0, <2>2, ActiveStep DEF Take
    <3> QED
      BY <1>1, <2>2, <3>1 DEF Take
  <2>3. CASE Take(w) /\ ~(~running \/ queue = <<>>)
    <3>1. Cardinality(Active') = Cardinality(Active) + 1
      <4>1. worker[w] = "Take" /\ worker' = [worker EXCEPT ![w] = "Serve"]
        BY <2>3 DEF Take
      <4> QED
        BY <1>0, <4>1, ActiveStep
    <3>2. Len(queue') = Len(queue) - 1 /\ UNCHANGED <<outstanding, acceptor>>
      BY <1>0, <2>3 DEF Take, PoolTypes
    <3> QED
      BY <1>0, <1>a, <3>1, <3>2
  <2>4. CASE Finish(w)
    <3>1. Cardinality(Active') = Cardinality(Active) - 1
      <4>1. Active' = Active \ {w} /\ w \in Active
        BY <1>0, <2>4 DEF Finish, Active, PoolTypes
      <4> QED
        BY <1>0, <4>1, Counts, FS_RemoveElement
    <3>2. outstanding' = outstanding - 1 /\ UNCHANGED <<queue, acceptor>>
      BY <2>4 DEF Finish
    <3> QED
      BY <1>0, <1>a, <3>1, <3>2
  <2> QED
    BY <1>10, <2>1, <2>2, <2>3, <2>4 DEF WorkerStep
<1>11. CASE (\E c \in Clients : Connect(c)) \/ UNCHANGED vars
  BY <1>1, <1>11 DEF Connect, vars, Active
<1> QED
  BY <1>2, <1>3, <1>4, <1>5, <1>6, <1>7, <1>8, <1>9, <1>10, <1>11
  DEF Next, Stopping, AcceptorStep

\* The invariant holds always.
LEMMA PoolInvariance == Spec => []PoolInv
<1>1. Init => PoolInv
  <2> SUFFICES ASSUME Init
               PROVE  PoolInv
    OBVIOUS
  <2>1. Active = {} /\ Len(queue) = 0 /\ InAccept = 0
    BY DEF Init, Active, InAccept
  <2>2. Accounting /\ Bounded /\ RoomInv
    BY <2>1, FS_EmptySet, PoolAssumption DEF Init, Accounting, Bounded, RoomInv
  <2>3. PoolTypes /\ PhaseInv /\ MutexInv
    BY PoolAssumption DEF Init, PoolTypes, PhaseInv, MutexInv
  <2> QED
    BY <2>2, <2>3 DEF PoolInv
<1>2. PoolInv /\ [Next]_vars => PoolInv'
  BY StructureStep, CountStep DEF PoolInv
<1> QED
  BY <1>1, <1>2, PTL DEF Spec

-----------------------------------------------------------------------------
\* outstanding_connections_ is exact at every step of every thread.
THEOREM AccountingSafety == Spec => []Accounting
<1>1. PoolInv => Accounting
  BY DEF PoolInv
<1> QED
  BY <1>1, PoolInvariance, PTL

\* No more than max_connections clients are queued or served.
THEOREM BoundSafety == Spec => []Bounded
<1>1. PoolInv => Bounded
  BY DEF PoolInv
<1> QED
  BY <1>1, PoolInvariance, PTL

\* When stop() has returned nothing is left over: no thread, connection, count
\* or lock.
THEOREM QuiescentSafety == Spec => []Quiescent
<1>1. PoolInv => Quiescent
  <2> SUFFICES ASSUME PoolInv, owner = "Idle"
               PROVE  /\ outstanding = 0 /\ queue = <<>> /\ mutex = Nobody /\ acceptor = "None"
                      /\ \A w \in Workers : worker[w] = "None"
    BY DEF Quiescent
  <2>1. acceptor = "None" /\ queue = <<>> /\ \A w \in Workers : worker[w] = "None"
    BY DEF PoolInv, PhaseInv
  <2>2. mutex = Nobody
    BY <2>1 DEF PoolInv, PoolTypes, MutexInv
  <2>3. Active = {} /\ Len(queue) = 0 /\ InAccept = 0
    BY <2>1 DEF Active, InAccept
  <2>4. outstanding = 0
    BY <2>3, FS_EmptySet DEF PoolInv, Accounting
  <2> QED
    BY <2>1, <2>2, <2>4
<1> QED
  BY <1>1, PoolInvariance, PTL

-----------------------------------------------------------------------------
(* The steps of the threads, and what the accept thread holds.             *)

AcceptorSteps == {"None", "Loop", "Accept", "Count", "Busy", "Enqueue", "Push", "Undo",
                  "NotifyOne", "Done"}
WorkerSteps == {"None", "Enter", "Test", "Block", "Waiting", "Take", "Serve", "Finish", "Done"}
OwnerSteps == {"Idle", "Listen", "Spawn", "Up", "Stop", "Shutdown", "JoinAcceptor", "Drain",
               "NotifyAll", "JoinWorkers"}

\* From accept_tcp to the queue, or to its refusal, the connection is in hand.
HeldInv ==
  /\ running \in BOOLEAN /\ listener \in {"none", "open", "shut"}
  /\ owner \in OwnerSteps /\ acceptor \in AcceptorSteps /\ worker \in [Workers -> WorkerSteps]
  /\ queue \in Seq(Clients)
  /\ acceptor \in {"Count", "Busy", "Enqueue", "Push", "Undo"} => held[Acceptor] \in Clients

LEMMA HeldStep == PoolTypes /\ HeldInv /\ [Next]_vars => HeldInv'
<1> SUFFICES ASSUME PoolTypes, HeldInv, [Next]_vars
             PROVE  HeldInv'
  OBVIOUS
<1>0. Acceptor \notin Workers /\ held \in [Workers \cup {Acceptor} -> Clients \cup {Nobody}]
  BY PoolAssumption DEF PoolTypes
<1>1. CASE Start \/ Listen \/ CallStop \/ ClearRunning \/ Shutdown \/ JoinAcceptor
  BY <1>1 DEF Start, Listen, CallStop, ClearRunning, Shutdown, JoinAcceptor, HeldInv, OwnerSteps, AcceptorSteps
<1>2. CASE Spawn
  <2>1. worker' \in [Workers -> WorkerSteps]
    BY <1>2 DEF Spawn, HeldInv, WorkerSteps
  <2> QED
    BY <1>2, <2>1 DEF Spawn, HeldInv, OwnerSteps, AcceptorSteps
<1>3. CASE Drain
  BY <1>3 DEF Drain, HeldInv, OwnerSteps
<1>4. CASE NotifyAll \/ JoinWorkers
  <2>1. worker' \in [Workers -> WorkerSteps]
    BY <1>4 DEF NotifyAll, JoinWorkers, HeldInv, WorkerSteps
  <2> QED
    BY <1>4, <2>1 DEF NotifyAll, JoinWorkers, HeldInv, OwnerSteps
<1>5. CASE AcceptLoop \/ AcceptFails \/ Count \/ Enqueue
  BY <1>5 DEF AcceptLoop, AcceptFails, Count, Enqueue, HeldInv, AcceptorSteps
<1>6. CASE Accept
  <2>1. acceptor' = "Count" => held'[Acceptor] \in Clients
    BY <1>0, <1>6 DEF Accept, PoolTypes
  <2> QED
    BY <1>6, <2>1 DEF Accept, HeldInv, AcceptorSteps
<1>7. CASE Refuse \/ Undo
  BY <1>7 DEF Refuse, Undo, HeldInv, AcceptorSteps
<1>8. CASE Push
  <2>1. Append(queue, held[Acceptor]) \in Seq(Clients)
    BY <1>8 DEF Push, HeldInv
  <2> QED
    BY <1>8, <2>1 DEF Push, HeldInv, AcceptorSteps
<1>9. CASE NotifyOne
  <2>1. worker' \in [Workers -> WorkerSteps]
    BY <1>9 DEF NotifyOne, HeldInv, WorkerSteps
  <2> QED
    BY <1>9, <2>1 DEF NotifyOne, HeldInv, AcceptorSteps
<1>10. ASSUME NEW w \in Workers, WorkerStep(w) \/ SpuriousWakeup(w)
       PROVE  HeldInv'
  <2>1. worker' \in [Workers -> WorkerSteps] /\ UNCHANGED <<running, listener, owner, acceptor>>
    BY <1>10 DEF WorkerStep, SpuriousWakeup, Enter, Test, Block, Take, Serve, Finish, HeldInv, WorkerSteps
  <2>2. held'[Acceptor] = held[Acceptor]
    BY <1>0, <1>10 DEF WorkerStep, SpuriousWakeup, Enter, Test, Block, Take, Serve, Finish
  <2>3. queue' \in Seq(Clients)
    <3>1. queue' = queue \/ (queue # <<>> /\ queue' = Tail(queue))
      BY <1>10 DEF WorkerStep, SpuriousWakeup, Enter, Test, Block, Take, Serve, Finish
    <3> QED
      BY <3>1 DEF HeldInv
  <2> QED
    BY <2>1, <2>2, <2>3 DEF HeldInv
<1>11. CASE (\E c \in Clients : Connect(c)) \/ UNCHANGED vars
  BY <1>11 DEF Connect, vars, HeldInv
<1> QED
  BY <1>1, <1>2, <1>3, <1>4, <1>5, <1>6, <1>7, <1>8, <1>9, <1>10, <1>11
  DEF Next, Stopping, AcceptorStep

\* The counter stays between 0 and one more than max_connections, which an
\* unsigned integer holds, and only connections are queued.
THEOREM TypeCorrect == Spec => []TypeOK
<1>1. Init => HeldInv
  <2> SUFFICES ASSUME Init PROVE HeldInv
    OBVIOUS
  <2>1. worker \in [Workers -> WorkerSteps] /\ queue \in Seq(Clients)
    BY DEF Init, WorkerSteps
  <2>2. running = FALSE /\ listener = "none" /\ owner = "Idle" /\ acceptor = "None"
    BY DEF Init
  <2>3. owner \in OwnerSteps /\ acceptor \in AcceptorSteps
    BY <2>2 DEF OwnerSteps, AcceptorSteps
  <2> QED
    BY <2>1, <2>2, <2>3 DEF HeldInv
<1>2. PoolInv /\ HeldInv => TypeOK
  <2> SUFFICES ASSUME PoolInv, HeldInv PROVE TypeOK
    OBVIOUS
  <2>1. outstanding \in 0 .. MaxConnections + 1
    <3>1. /\ Len(queue) \in Nat /\ Cardinality(Active) \in Nat /\ MaxConnections \in Nat
      BY Counts, PoolAssumption DEF PoolInv
    <3>2. /\ outstanding = Len(queue) + Cardinality(Active) + InAccept
          /\ Len(queue) + Cardinality(Active) <= MaxConnections /\ InAccept \in {0, 1}
      BY DEF PoolInv, Accounting, Bounded, InAccept
    <3> HIDE DEF InAccept
    <3> QED
      BY <3>1, <3>2
  <2> QED
    BY <2>1 DEF PoolInv, PoolTypes, HeldInv, TypeOK, OwnerSteps, AcceptorSteps, WorkerSteps
<1>3. PoolInv => PoolTypes
  BY DEF PoolInv
<1> QED
  BY <1>1, <1>2, <1>3, HeldStep, PoolInvariance, PTL DEF Spec

-----------------------------------------------------------------------------
(* Wakeups.                                                                *)

\* queue_mutex_ is held exactly where the code holds it.
LockInv ==
  /\ acceptor \in {"Push", "Undo"} <=> mutex = Acceptor
  /\ \A w \in Workers : worker[w] \in {"Test", "Block", "Take"} <=> mutex = w

\* What a worker has seen under the mutex is still so while it holds it.
SeenInv ==
  running => \A w \in Workers : /\ worker[w] = "Block" => queue = <<>>
                                /\ worker[w] = "Take" => queue # <<>>
                                /\ worker[w] # "Done"

\* Workers are there before the accept thread, and as long as it.
AliveInv ==
  /\ running <=> owner \in {"Listen", "Spawn", "Up", "Stop"}
  /\ acceptor # "None" => \A w \in Workers : worker[w] # "None"
  /\ queue # <<>> => acceptor # "None" \/ owner = "Drain"

AwakeInv ==
  /\ NoLostWakeup
  /\ owner = "NotifyAll" => \A w \in Workers : worker[w] # "Block"

WakeInv == LockInv /\ SeenInv /\ AliveInv /\ AwakeInv

\* A worker moves, and the others stay where they are.
LEMMA WorkerMoves ==
  ASSUME PoolTypes, NEW w \in Workers, NEW step, worker' = [worker EXCEPT ![w] = step]
  PROVE  worker'[w] = step /\ \A u \in Workers \ {w} : worker'[u] = worker[u]
BY DEF PoolTypes

LEMMA LockStep == PoolTypes /\ PhaseInv /\ LockInv /\ [Next]_vars => LockInv'
<1> SUFFICES ASSUME PoolTypes, PhaseInv, LockInv, [Next]_vars
             PROVE  LockInv'
  OBVIOUS
<1>0. Acceptor \notin Workers /\ Nobody \notin Workers /\ Nobody # Acceptor
  BY PoolAssumption
<1>1. CASE /\ UNCHANGED <<mutex, worker>>
           /\ acceptor' \in {"Push", "Undo"} <=> acceptor \in {"Push", "Undo"}
  BY <1>1 DEF LockInv
<1>2. CASE Start \/ Listen \/ CallStop \/ ClearRunning \/ Shutdown \/ JoinAcceptor \/ Drain
  BY <1>1, <1>2 DEF Start, Listen, CallStop, ClearRunning, Shutdown, JoinAcceptor, Drain
<1>3. CASE Spawn
  <2>1. CASE UNCHANGED acceptor /\ \E w \in Workers : worker[w] = "None" /\ worker' = [worker EXCEPT ![w] = "Enter"]
    BY <1>3, <2>1, WorkerMoves DEF Spawn, LockInv
  <2>2. CASE acceptor' = "Loop" /\ UNCHANGED worker
    BY <1>1, <1>3, <2>2 DEF Spawn, PhaseInv
  <2> QED
    BY <1>3, <2>1, <2>2 DEF Spawn
<1>4. CASE NotifyAll \/ JoinWorkers
  <2>1. /\ UNCHANGED <<mutex, acceptor>>
        /\ \A w \in Workers : worker'[w] \in {"Test", "Block", "Take"} <=> worker[w] \in {"Test", "Block", "Take"}
    BY <1>4 DEF NotifyAll, JoinWorkers
  <2> QED
    BY <2>1 DEF LockInv
<1>5. CASE AcceptLoop \/ Accept \/ AcceptFails \/ Count \/ Refuse
  BY <1>1, <1>5 DEF AcceptLoop, Accept, AcceptFails, Count, Refuse
<1>6. CASE Enqueue \/ Push \/ Undo
  BY <1>0, <1>6 DEF Enqueue, Push, Undo, LockInv
<1>7. CASE NotifyOne
  <2>1. /\ UNCHANGED mutex /\ acceptor = "NotifyOne" /\ acceptor' = "Loop"
        /\ \A w \in Workers : worker'[w] \in {"Test", "Block", "Take"} <=> worker[w] \in {"Test", "Block", "Take"}
    BY <1>7, WorkerMoves DEF NotifyOne
  <2> QED
    BY <2>1 DEF LockInv
<1>8. ASSUME NEW w \in Workers, WorkerStep(w) \/ SpuriousWakeup(w)
      PROVE  LockInv'
  <2>1. CASE Enter(w)
    BY <1>0, <2>1, WorkerMoves DEF Enter, LockInv
  <2>2. CASE Test(w)
    BY <1>0, <2>2, WorkerMoves DEF Test, LockInv
  <2>3. CASE Block(w)
    <3>1. /\ worker[w] = "Block" /\ worker'[w] = "Waiting" /\ mutex' = Nobody /\ UNCHANGED acceptor
          /\ \A u \in Workers \ {w} : worker'[u] = worker[u]
      BY <2>3, WorkerMoves DEF Block
    <3>2. mutex = w
      BY <3>1 DEF LockInv
    <3> QED
      BY <1>0, <3>1, <3>2 DEF LockInv
  <2>4. CASE Take(w)
    <3>1. PICK step \in {"Done", "Serve"} : worker' = [worker EXCEPT ![w] = step]
      BY <2>4 DEF Take
    <3>2. worker[w] = "Take" /\ mutex' = Nobody /\ UNCHANGED acceptor
      BY <2>4 DEF Take
    <3> QED
      BY <1>0, <3>1, <3>2, WorkerMoves DEF LockInv
  <2>5. CASE Serve(w) \/ Finish(w) \/ SpuriousWakeup(w)
    BY <1>0, <2>5, WorkerMoves DEF Serve, Finish, SpuriousWakeup, LockInv
  <2> QED
    BY <1>8, <2>1, <2>2, <2>3, <2>4, <2>5 DEF WorkerStep
<1>9. CASE (\E c \in Clients : Connect(c)) \/ UNCHANGED vars
  BY <1>1, <1>9 DEF Connect, vars
<1> QED
  BY <1>2, <1>3, <1>4, <1>5, <1>6, <1>7, <1>8, <1>9 DEF Next, Stopping, AcceptorStep

\* Only the holder of the mutex changes the queue, and running_ is set only
\* when there are no workers.
LEMMA SeenStep == PoolTypes /\ PhaseInv /\ LockInv /\ SeenInv /\ [Next]_vars => SeenInv'
<1> SUFFICES ASSUME PoolTypes, PhaseInv, LockInv, SeenInv, [Next]_vars, running'
             PROVE  \A w \in Workers : /\ worker'[w] = "Block" => queue' = <<>>
                                       /\ worker'[w] = "Take" => queue' # <<>>
                                       /\ worker'[w] # "Done"
  BY DEF SeenInv
<1>0. Acceptor \notin Workers /\ Nobody \notin Workers /\ Nobody # Acceptor
  BY PoolAssumption
<1>1. CASE UNCHANGED <<running, queue, worker>>
  BY <1>1 DEF SeenInv
<1>2. CASE Start
  BY <1>2 DEF Start, PhaseInv
<1>3. CASE Listen \/ CallStop \/ ClearRunning \/ Shutdown \/ JoinAcceptor
  BY <1>1, <1>3 DEF Listen, CallStop, ClearRunning, Shutdown, JoinAcceptor
<1>4. CASE Spawn \/ NotifyAll \/ JoinWorkers \/ NotifyOne
  <2>1. /\ UNCHANGED <<running, queue>>
        /\ \A w \in Workers : worker'[w] = worker[w] \/ worker'[w] \in {"Enter", "None"}
    BY <1>4, WorkerMoves DEF Spawn, NotifyAll, JoinWorkers, NotifyOne
  <2> QED
    BY <2>1 DEF SeenInv
<1>5. CASE Drain \/ Push
  <2>1. /\ UNCHANGED <<running, worker>>
        /\ mutex \in {Nobody, Acceptor}
    BY <1>5 DEF Drain, Push, LockInv
  <2>2. \A w \in Workers : worker[w] \notin {"Block", "Take"}
    BY <1>0, <2>1 DEF LockInv
  <2> QED
    BY <2>1, <2>2 DEF SeenInv
<1>6. CASE AcceptLoop \/ Accept \/ AcceptFails \/ Count \/ Refuse \/ Enqueue \/ Undo
  BY <1>1, <1>6 DEF AcceptLoop, Accept, AcceptFails, Count, Refuse, Enqueue, Undo
<1>7. ASSUME NEW w \in Workers, WorkerStep(w) \/ SpuriousWakeup(w)
      PROVE  \A u \in Workers : /\ worker'[u] = "Block" => queue' = <<>>
                                /\ worker'[u] = "Take" => queue' # <<>>
                                /\ worker'[u] # "Done"
  <2>1. CASE Test(w)
    BY <2>1, WorkerMoves DEF Test, SeenInv
  <2>2. CASE Take(w)
    <3>1. running /\ mutex = w /\ queue # <<>>
      BY <2>2 DEF Take, LockInv, SeenInv
    <3>2. worker' = [worker EXCEPT ![w] = "Serve"]
      BY <2>2, <3>1 DEF Take
    <3>3. \A u \in Workers \ {w} : worker[u] \notin {"Block", "Take"}
      BY <3>1 DEF LockInv
    <3>4. worker'[w] = "Serve" /\ \A u \in Workers \ {w} : worker'[u] = worker[u]
      BY <3>2, WorkerMoves
    <3>5. \A u \in Workers : worker'[u] \notin {"Block", "Take"}
      BY <3>3, <3>4
    <3>6. \A u \in Workers : worker'[u] # "Done"
      BY <3>1, <3>4 DEF SeenInv
    <3> QED
      BY <3>5, <3>6
  <2>3. CASE Enter(w) \/ Block(w) \/ Serve(w) \/ Finish(w) \/ SpuriousWakeup(w)
    <3>1. PICK step \in {"Test", "Waiting", "Finish", "Enter"} : worker' = [worker EXCEPT ![w] = step]
      BY <2>3 DEF Enter, Block, Serve, Finish, SpuriousWakeup
    <3>2. UNCHANGED <<running, queue>>
      BY <2>3 DEF Enter, Block, Serve, Finish, SpuriousWakeup
    <3> QED
      BY <3>1, <3>2, WorkerMoves DEF SeenInv
  <2> QED
    BY <1>7, <2>1, <2>2, <2>3 DEF WorkerStep
<1>8. CASE (\E c \in Clients : Connect(c)) \/ UNCHANGED vars
  BY <1>1, <1>8 DEF Connect, vars
<1> QED
  BY <1>2, <1>3, <1>4, <1>5, <1>6, <1>7, <1>8 DEF Next, Stopping, AcceptorStep

LEMMA AliveStep == PoolTypes /\ PhaseInv /\ AliveInv /\ [Next]_vars => AliveInv'
<1> SUFFICES ASSUME PoolTypes, PhaseInv, AliveInv, [Next]_vars
             PROVE  AliveInv'
  OBVIOUS
<1>1. CASE Start \/ Listen \/ CallStop \/ ClearRunning \/ Shutdown
  BY <1>1 DEF Start, Listen, CallStop, ClearRunning, Shutdown, AliveInv, PhaseInv
<1>2. CASE JoinAcceptor \/ Drain
  BY <1>2 DEF JoinAcceptor, Drain, AliveInv, PhaseInv
<1>3. CASE Spawn
  <2>1. UNCHANGED <<running, queue>> /\ owner = "Spawn" /\ owner' \in {"Spawn", "Up"} /\ queue = <<>>
    BY <1>3 DEF Spawn, PhaseInv
  <2>2. acceptor' # "None" => \A w \in Workers : worker'[w] # "None"
    BY <1>3 DEF Spawn, PhaseInv
  <2> QED
    BY <2>1, <2>2 DEF AliveInv
<1>4. CASE NotifyAll \/ JoinWorkers
  <2>1. UNCHANGED <<running, queue, acceptor>> /\ acceptor = "None" /\ queue = <<>>
    BY <1>4 DEF NotifyAll, JoinWorkers, PhaseInv
  <2>2. owner \in {"NotifyAll", "JoinWorkers"} /\ owner' \in {"JoinWorkers", "Idle"}
    BY <1>4 DEF NotifyAll, JoinWorkers
  <2> QED
    BY <2>1, <2>2 DEF AliveInv
<1>5. CASE AcceptLoop \/ Accept \/ AcceptFails \/ Count \/ Refuse \/ Enqueue \/ Undo \/ Push
  <2>1. UNCHANGED <<running, owner, worker>> /\ acceptor # "None" /\ acceptor' # "None"
    BY <1>5 DEF AcceptLoop, Accept, AcceptFails, Count, Refuse, Enqueue, Undo, Push
  <2> QED
    BY <2>1 DEF AliveInv
<1>6. CASE NotifyOne
  <2>1. UNCHANGED <<running, owner, queue>> /\ acceptor # "None" /\ acceptor' # "None"
    BY <1>6 DEF NotifyOne
  <2>2. \A w \in Workers : worker'[w] \in {worker[w], "Enter"}
    BY <1>6, WorkerMoves DEF NotifyOne
  <2> QED
    BY <2>1, <2>2 DEF AliveInv
<1>7. ASSUME NEW w \in Workers, WorkerStep(w) \/ SpuriousWakeup(w)
      PROVE  AliveInv'
  <2>1. UNCHANGED <<running, owner, acceptor>> /\ (queue' = queue \/ queue # <<>>)
    BY <1>7 DEF WorkerStep, Enter, Test, Block, Take, Serve, Finish, SpuriousWakeup
  <2>2. \E step \in {"Test", "Take", "Block", "Waiting", "Done", "Serve", "Finish", "Enter"} :
          worker' = [worker EXCEPT ![w] = step]
    BY <1>7 DEF WorkerStep, Enter, Test, Block, Take, Serve, Finish, SpuriousWakeup
  <2>3. \A u \in Workers : worker[u] # "None" => worker'[u] # "None"
    BY <2>2, WorkerMoves
  <2> QED
    BY <2>1, <2>3 DEF AliveInv
<1>8. CASE (\E c \in Clients : Connect(c)) \/ UNCHANGED vars
  BY <1>8 DEF Connect, vars, AliveInv
<1> QED
  BY <1>1, <1>2, <1>3, <1>4, <1>5, <1>6, <1>7, <1>8 DEF Next, Stopping, AcceptorStep

Coming(step) == step \notin {"None", "Block", "Waiting", "Done"}

LEMMA AwakeStep == PoolTypes /\ PhaseInv /\ WakeInv /\ [Next]_vars => AwakeInv'
<1> SUFFICES ASSUME PoolTypes, PhaseInv, LockInv, SeenInv, AliveInv, AwakeInv, [Next]_vars
             PROVE  AwakeInv'
  BY DEF WakeInv
<1>0. /\ Acceptor \notin Workers /\ Nobody \notin Workers /\ Nobody # Acceptor
      /\ \E w : w \in Workers
  <2>1. Workers # {}
    BY PoolAssumption, FS_EmptySet
  <2> QED
    BY <2>1, PoolAssumption
\* The two halves of the invariant, and what keeps them.
<1>a. ASSUME running' /\ queue' # <<>> /\ acceptor' # "NotifyOne" => \E w \in Workers : Coming(worker'[w]),
             owner' = "JoinWorkers" => \A w \in Workers : worker'[w] \notin {"Block", "Waiting"},
             owner' = "NotifyAll" => \A w \in Workers : worker'[w] # "Block"
      PROVE  AwakeInv'
  BY <1>a DEF AwakeInv, NoLostWakeup, Coming
<1>b. /\ running /\ queue # <<>> /\ acceptor # "NotifyOne" => \E w \in Workers : Coming(worker[w])
      /\ owner = "JoinWorkers" => \A w \in Workers : worker[w] \notin {"Block", "Waiting"}
      /\ owner = "NotifyAll" => \A w \in Workers : worker[w] # "Block"
  BY DEF AwakeInv, NoLostWakeup, Coming
<1>1. CASE Start \/ Listen \/ Spawn \/ CallStop
  <2>1. owner' \notin {"JoinWorkers", "NotifyAll"}
    BY <1>1 DEF Start, Listen, Spawn, CallStop
  <2>2. CASE Start \/ Listen \/ Spawn
    <3>1. queue' = <<>>
      BY <2>2 DEF Start, Listen, Spawn, PhaseInv
    <3> QED
      BY <1>a, <2>1, <3>1
  <2>3. CASE CallStop
    BY <1>a, <1>b, <2>1, <2>3 DEF CallStop
  <2> QED
    BY <1>1, <2>2, <2>3
<1>2. CASE ClearRunning \/ Shutdown \/ JoinAcceptor
  <2>1. ~running' /\ owner' \notin {"JoinWorkers", "NotifyAll"}
    BY <1>2 DEF ClearRunning, Shutdown, JoinAcceptor, AliveInv
  <2> QED
    BY <1>a, <2>1
<1>3. CASE Drain
  <2>1. queue' = <<>> /\ owner' = "NotifyAll" /\ UNCHANGED worker /\ mutex = Nobody
    BY <1>3 DEF Drain
  <2>2. \A w \in Workers : worker[w] # "Block"
    BY <1>0, <2>1 DEF LockInv
  <2> QED
    BY <1>a, <2>1, <2>2
<1>4. CASE NotifyAll
  <2>1. queue' = <<>> /\ owner' = "JoinWorkers" /\ owner = "NotifyAll"
    BY <1>4 DEF NotifyAll, PhaseInv
  <2>2. \A w \in Workers : worker'[w] \notin {"Block", "Waiting"}
    BY <1>4, <1>b, <2>1 DEF NotifyAll
  <2> QED
    BY <1>a, <2>1, <2>2
<1>5. CASE JoinWorkers
  <2>1. queue' = <<>> /\ owner' = "Idle"
    BY <1>5 DEF JoinWorkers, PhaseInv
  <2> QED
    BY <1>a, <2>1
<1>6. CASE AcceptLoop \/ Accept \/ AcceptFails \/ Count \/ Refuse \/ Enqueue \/ Undo
  <2>1. UNCHANGED <<running, owner, worker, queue>> /\ acceptor # "NotifyOne"
    BY <1>6 DEF AcceptLoop, Accept, AcceptFails, Count, Refuse, Enqueue, Undo
  <2> QED
    BY <1>a, <1>b, <2>1
<1>7. CASE Push
  <2>1. UNCHANGED <<running, owner, worker>> /\ acceptor' = "NotifyOne"
    BY <1>7 DEF Push
  <2> QED
    BY <1>a, <1>b, <2>1
\* If nobody sleeps, every worker will look at the queue again.
<1>8. CASE NotifyOne
  <2>1. UNCHANGED <<running, owner, queue>> /\ acceptor = "NotifyOne" /\ owner \notin {"JoinWorkers", "NotifyAll"}
    BY <1>8 DEF NotifyOne, PhaseInv
  <2>2. CASE \E w \in Workers : worker[w] = "Waiting" /\ worker' = [worker EXCEPT ![w] = "Enter"]
    <3>1. \E w \in Workers : worker'[w] = "Enter"
      BY <2>2, WorkerMoves
    <3> QED
      BY <1>a, <2>1, <3>1 DEF Coming
  <2>3. CASE UNCHANGED worker /\ ~\E w \in Workers : worker[w] = "Waiting"
    <3>1. running /\ queue # <<>> => \A w \in Workers : Coming(worker[w])
      BY <2>1, <2>3 DEF SeenInv, AliveInv, Coming
    <3> QED
      BY <1>0, <1>a, <2>1, <2>3, <3>1
  <2> QED
    BY <1>8, <2>2, <2>3 DEF NotifyOne
<1>9. ASSUME NEW w \in Workers, WorkerStep(w) \/ SpuriousWakeup(w)
      PROVE  AwakeInv'
  <2>0. UNCHANGED <<running, owner, acceptor>>
    BY <1>9 DEF WorkerStep, Enter, Test, Block, Take, Serve, Finish, SpuriousWakeup
  <2>1. CASE Enter(w) \/ Serve(w) \/ Finish(w) \/ SpuriousWakeup(w)
    <3>1. PICK step \in {"Test", "Finish", "Enter"} : worker' = [worker EXCEPT ![w] = step]
      BY <2>1 DEF Enter, Serve, Finish, SpuriousWakeup
    <3>2. worker'[w] = step /\ \A u \in Workers \ {w} : worker'[u] = worker[u]
      BY <3>1, WorkerMoves
    <3>3. Coming(worker'[w]) /\ worker'[w] \notin {"Block", "Waiting"}
      BY <3>1, <3>2 DEF Coming
    <3> QED
      BY <1>a, <1>b, <2>0, <3>2, <3>3
  <2>2. CASE Test(w)
    <3>1. worker' = [worker EXCEPT ![w] = IF ~running \/ queue # <<>> THEN "Take" ELSE "Block"] /\ UNCHANGED queue
      BY <2>2 DEF Test
    <3>2. /\ worker'[w] = IF ~running \/ queue # <<>> THEN "Take" ELSE "Block"
          /\ \A u \in Workers \ {w} : worker'[u] = worker[u]
      BY <3>1, WorkerMoves
    <3>3. owner \in {"JoinWorkers", "NotifyAll"} => ~running
      BY DEF AliveInv
    <3>4. running /\ queue # <<>> => Coming(worker'[w])
      BY <3>2 DEF Coming
    <3>5. owner \in {"JoinWorkers", "NotifyAll"} => worker'[w] = "Take"
      BY <3>2, <3>3
    <3> QED
      BY <1>a, <1>b, <2>0, <3>1, <3>2, <3>4, <3>5
  <2>3. CASE Block(w)
    <3>1. worker[w] = "Block" /\ UNCHANGED queue /\ worker' = [worker EXCEPT ![w] = "Waiting"]
      BY <2>3 DEF Block
    <3>2. running => queue = <<>>
      BY <3>1 DEF SeenInv
    <3>3. owner \notin {"JoinWorkers", "NotifyAll"}
      BY <1>b, <3>1
    <3> QED
      BY <1>a, <2>0, <3>1, <3>2, <3>3
  <2>4. CASE Take(w)
    <3>1. PICK step \in {"Serve", "Done"} : worker' = [worker EXCEPT ![w] = step]
      BY <2>4 DEF Take
    <3>2. worker'[w] = step /\ \A u \in Workers \ {w} : worker'[u] = worker[u]
      BY <3>1, WorkerMoves
    <3>3. running => worker'[w] = "Serve"
      <4>1. running => queue # <<>>
        BY <2>4 DEF Take, SeenInv
      <4>2. running => worker' = [worker EXCEPT ![w] = "Serve"]
        BY <2>4, <4>1 DEF Take
      <4> QED
        BY <4>2, WorkerMoves
    <3>4. running => Coming(worker'[w])
      BY <3>3 DEF Coming
    <3>5. worker'[w] \notin {"Block", "Waiting"}
      BY <3>1, <3>2
    <3> QED
      BY <1>a, <1>b, <2>0, <3>2, <3>4, <3>5
  <2> QED
    BY <1>9, <2>1, <2>2, <2>3, <2>4 DEF WorkerStep
<1>10. CASE (\E c \in Clients : Connect(c)) \/ UNCHANGED vars
  <2>1. UNCHANGED <<running, owner, worker, queue, acceptor>>
    BY <1>10 DEF Connect, vars
  <2> QED
    BY <1>a, <1>b, <2>1
<1> QED
  BY <1>1, <1>2, <1>3, <1>4, <1>5, <1>6, <1>7, <1>8, <1>9, <1>10 DEF Next, Stopping, AcceptorStep

\* No interleaving of the accept thread, the workers and stop() leaves a queued
\* connection to sleeping workers, or stop() waiting for one.
THEOREM WakeupSafety == Spec => []NoLostWakeup
<1>1. Init => WakeInv
  <2> SUFFICES ASSUME Init PROVE WakeInv
    OBVIOUS
  <2>1. /\ running = FALSE /\ queue = <<>> /\ mutex = Nobody /\ owner = "Idle" /\ acceptor = "None"
        /\ \A w \in Workers : worker[w] = "None"
    BY DEF Init
  <2>2. Nobody \notin Workers /\ Nobody # Acceptor
    BY PoolAssumption
  <2> QED
    BY <2>1, <2>2 DEF WakeInv, LockInv, SeenInv, AliveInv, AwakeInv, NoLostWakeup
<1>2. PoolInv /\ WakeInv /\ [Next]_vars => WakeInv'
  BY LockStep, SeenStep, AliveStep, AwakeStep DEF PoolInv, WakeInv
<1>3. WakeInv => NoLostWakeup
  BY DEF WakeInv, AwakeInv
<1> QED
  BY <1>1, <1>2, <1>3, PoolInvariance, PTL DEF Spec
=============================================================================
