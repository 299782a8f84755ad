---------------------------- MODULE ConnectionPool ----------------------------
(***************************************************************************)
(* The accept thread, the queue of connections and the worker threads that *)
(* PeerServer and TrackerServer share line for line, from start() to       *)
(* stop(), and again.  TrackerServer::stop() also stores 0 in the counter  *)
(* at its end: Quiescent shows that this changes nothing.                  *)
(***************************************************************************)
EXTENDS Integers, FiniteSets, SequencesExt

CONSTANTS
  Workers,              \* worker_threads_
  Clients,              \* connections a client may open, one at a time each
  MaxConnections,       \* max_connections
  Acceptor, Nobody      \* the accept thread as an owner of queue_mutex_; no owner

\* The constructor of TrackerServer and start() of PeerServer see to it.
ASSUME PoolAssumption ==
  /\ IsFiniteSet(Workers) /\ Acceptor \notin Workers /\ Nobody \notin Workers \cup {Acceptor}
  /\ MaxConnections \in Nat \ {0} /\ Cardinality(Workers) \in 1 .. MaxConnections

VARIABLES
  running,              \* running_
  listener,             \* listener_
  outstanding,          \* outstanding_connections_
  queue,                \* queue_, of clients
  mutex,                \* the owner of queue_mutex_
  owner,                \* where the thread that calls start() and stop() is
  acceptor,             \* where accept_thread_ is
  worker,               \* where each of worker_threads_ is
  held,                 \* the connection that the acceptor or a worker holds
  backlog               \* connections the kernel has not yet handed to accept()

vars == <<running, listener, outstanding, queue, mutex, owner, acceptor, worker, held, backlog>>

TypeOK ==
  /\ running \in BOOLEAN
  /\ listener \in {"none", "open", "shut"}
  /\ outstanding \in 0 .. MaxConnections + 1
  /\ queue \in Seq(Clients)
  /\ mutex \in Workers \cup {Acceptor, Nobody}
  /\ owner \in {"Idle", "Listen", "Spawn", "Up", "Stop", "Shutdown", "JoinAcceptor", "Drain",
                "NotifyAll", "JoinWorkers"}
  /\ acceptor \in {"None", "Loop", "Accept", "Count", "Busy", "Enqueue", "Push", "Undo",
                   "NotifyOne", "Done"}
  /\ worker \in [Workers -> {"None", "Enter", "Test", "Block", "Waiting", "Take", "Serve",
                             "Finish", "Done"}]
  /\ held \in [Workers \cup {Acceptor} -> Clients \cup {Nobody}]
  /\ backlog \subseteq Clients

Init ==
  /\ running = FALSE /\ listener = "none" /\ outstanding = 0 /\ queue = <<>>
  /\ mutex = Nobody /\ owner = "Idle" /\ acceptor = "None"
  /\ worker = [w \in Workers |-> "None"]
  /\ held = [t \in Workers \cup {Acceptor} |-> Nobody]
  /\ backlog = {}

-----------------------------------------------------------------------------
(* start() and stop(), by the thread that owns the server.                 *)

Start ==
  /\ owner = "Idle"
  /\ running' = TRUE
  /\ owner' = "Listen"
  /\ UNCHANGED <<listener, outstanding, queue, mutex, acceptor, worker, held, backlog>>

Listen ==
  /\ owner = "Listen"
  /\ listener' = "open"
  /\ owner' = "Spawn"
  /\ UNCHANGED <<running, outstanding, queue, mutex, acceptor, worker, held, backlog>>

\* The workers are started one by one, and then the accept thread.
Spawn ==
  /\ owner = "Spawn"
  /\ \/ \E w \in Workers : /\ worker[w] = "None"
                           /\ worker' = [worker EXCEPT ![w] = "Enter"]
                           /\ UNCHANGED <<owner, acceptor>>
     \/ /\ \A w \in Workers : worker[w] # "None"
        /\ acceptor' = "Loop"
        /\ owner' = "Up"
        /\ UNCHANGED worker
  /\ UNCHANGED <<running, listener, outstanding, queue, mutex, held, backlog>>

\* listen_tcp or the creation of a thread throws, and start() calls stop(); or
\* the owner calls stop() some time later.
CallStop ==
  /\ owner \in {"Listen", "Spawn", "Up"}
  /\ owner' = "Stop"
  /\ UNCHANGED <<running, listener, outstanding, queue, mutex, acceptor, worker, held, backlog>>

ClearRunning ==
  /\ owner = "Stop"
  /\ running' = FALSE
  /\ owner' = "Shutdown"
  /\ UNCHANGED <<listener, outstanding, queue, mutex, acceptor, worker, held, backlog>>

Shutdown ==
  /\ owner = "Shutdown"
  /\ listener' = IF listener = "open" THEN "shut" ELSE listener
  /\ owner' = "JoinAcceptor"
  /\ UNCHANGED <<running, outstanding, queue, mutex, acceptor, worker, held, backlog>>

\* The join, and listener_.close(), which resets what is left in the backlog.
JoinAcceptor ==
  /\ owner = "JoinAcceptor"
  /\ acceptor \in {"None", "Done"}
  /\ acceptor' = "None"
  /\ listener' = "none" /\ backlog' = {}
  /\ owner' = "Drain"
  /\ UNCHANGED <<running, outstanding, queue, mutex, worker, held>>

DrainUnlocked ==
  /\ owner = "Drain"
  /\ outstanding' = outstanding - Len(queue) /\ queue' = <<>>
  /\ owner' = "NotifyAll"
  /\ UNCHANGED <<running, listener, mutex, acceptor, worker, held, backlog>>
DrainForgets ==
  /\ owner = "Drain" /\ mutex = Nobody
  /\ queue' = <<>>
  /\ owner' = "NotifyAll"
  /\ UNCHANGED <<running, listener, outstanding, mutex, acceptor, worker, held, backlog>>
\* The queue is emptied under the mutex.  A worker that has seen running_ before
\* it was cleared is asleep, and not about to be, when the mutex is free.
Drain ==
  /\ owner = "Drain"
  /\ mutex = Nobody
  /\ outstanding' = outstanding - Len(queue) /\ queue' = <<>>
  /\ owner' = "NotifyAll"
  /\ UNCHANGED <<running, listener, mutex, acceptor, worker, held, backlog>>

NotifyAll ==
  /\ owner = "NotifyAll"
  /\ worker' = [w \in Workers |-> IF worker[w] = "Waiting" THEN "Enter" ELSE worker[w]]
  /\ owner' = "JoinWorkers"
  /\ UNCHANGED <<running, listener, outstanding, queue, mutex, acceptor, held, backlog>>

JoinWorkers ==
  /\ owner = "JoinWorkers"
  /\ \A w \in Workers : worker[w] \in {"None", "Done"}
  /\ worker' = [w \in Workers |-> "None"]
  /\ owner' = "Idle"
  /\ UNCHANGED <<running, listener, outstanding, queue, mutex, acceptor, held, backlog>>

-----------------------------------------------------------------------------
(* accept_loop()                                                           *)

AcceptLoop ==
  /\ acceptor = "Loop"
  /\ acceptor' = IF running THEN "Accept" ELSE "Done"
  /\ UNCHANGED <<running, listener, outstanding, queue, mutex, owner, worker, held, backlog>>

\* accept_tcp returns a connection, or throws because the listener is shut down.
Accept ==
  /\ acceptor = "Accept"
  /\ \/ /\ listener = "open"
        /\ \E c \in backlog : backlog' = backlog \ {c} /\ held' = [held EXCEPT ![Acceptor] = c]
        /\ acceptor' = "Count"
     \/ /\ listener = "shut"
        /\ acceptor' = "Loop"
        /\ UNCHANGED <<backlog, held>>
  /\ UNCHANGED <<running, listener, outstanding, queue, mutex, owner, worker>>

\* accept_tcp or set_socket_timeout throws: the loop goes on without a client.
AcceptFails ==
  /\ acceptor = "Accept"
  /\ \E gone \in SUBSET backlog : Cardinality(gone) <= 1 /\ backlog' = backlog \ gone
  /\ acceptor' = "Loop"
  /\ UNCHANGED <<running, listener, outstanding, queue, mutex, owner, worker, held>>

\* current >= max_connections
FullByOne(current) == current > MaxConnections
Full(current) == current >= MaxConnections

Count ==
  /\ acceptor = "Count"
  /\ outstanding' = outstanding + 1
  /\ acceptor' = IF Full(outstanding) THEN "Busy" ELSE "Enqueue"
  /\ UNCHANGED <<running, listener, queue, mutex, owner, worker, held, backlog>>

\* The client is told "busy".
Refuse ==
  /\ acceptor = "Busy"
  /\ outstanding' = outstanding - 1
  /\ held' = [held EXCEPT ![Acceptor] = Nobody]
  /\ acceptor' = "Loop"
  /\ UNCHANGED <<running, listener, queue, mutex, owner, worker, backlog>>

\* The queue is locked and running_ is tested again.
Enqueue ==
  /\ acceptor = "Enqueue"
  /\ mutex = Nobody /\ mutex' = Acceptor
  /\ acceptor' = IF running THEN "Push" ELSE "Undo"
  /\ UNCHANGED <<running, listener, outstanding, queue, owner, worker, held, backlog>>

Push ==
  /\ acceptor = "Push"
  /\ queue' = Append(queue, held[Acceptor])
  /\ held' = [held EXCEPT ![Acceptor] = Nobody]
  /\ mutex' = Nobody
  /\ acceptor' = "NotifyOne"
  /\ UNCHANGED <<running, listener, outstanding, owner, worker, backlog>>

\* The server is stopping: the connection is closed unanswered.
Undo ==
  /\ acceptor = "Undo"
  /\ outstanding' = outstanding - 1
  /\ held' = [held EXCEPT ![Acceptor] = Nobody]
  /\ mutex' = Nobody
  /\ acceptor' = "Loop"
  /\ UNCHANGED <<running, listener, queue, owner, worker, backlog>>

NotifyNobody ==
  /\ acceptor = "NotifyOne"
  /\ acceptor' = "Loop"
  /\ UNCHANGED <<running, listener, outstanding, queue, mutex, owner, worker, held, backlog>>
NotifyOne ==
  /\ acceptor = "NotifyOne"
  /\ IF \E w \in Workers : worker[w] = "Waiting"
     THEN \E w \in Workers : worker[w] = "Waiting" /\ worker' = [worker EXCEPT ![w] = "Enter"]
     ELSE UNCHANGED worker
  /\ acceptor' = "Loop"
  /\ UNCHANGED <<running, listener, outstanding, queue, mutex, owner, held, backlog>>

-----------------------------------------------------------------------------
(* worker_loop()                                                           *)

\* The unique_lock is taken, at the top of the loop or after a wakeup.
Enter(w) ==
  /\ worker[w] = "Enter"
  /\ mutex = Nobody /\ mutex' = w
  /\ worker' = [worker EXCEPT ![w] = "Test"]
  /\ UNCHANGED <<running, listener, outstanding, queue, owner, acceptor, held, backlog>>

\* The predicate of wait(), evaluated with the lock held.
Test(w) ==
  /\ worker[w] = "Test"
  /\ worker' = [worker EXCEPT ![w] = IF ~running \/ queue # <<>> THEN "Take" ELSE "Block"]
  /\ UNCHANGED <<running, listener, outstanding, queue, mutex, owner, acceptor, held, backlog>>

\* wait() releases the lock and sleeps in one step.
Block(w) ==
  /\ worker[w] = "Block"
  /\ mutex' = Nobody
  /\ worker' = [worker EXCEPT ![w] = "Waiting"]
  /\ UNCHANGED <<running, listener, outstanding, queue, owner, acceptor, held, backlog>>

SpuriousWakeup(w) ==
  /\ worker[w] = "Waiting"
  /\ worker' = [worker EXCEPT ![w] = "Enter"]
  /\ UNCHANGED <<running, listener, outstanding, queue, mutex, owner, acceptor, held, backlog>>

\* The test after the wait: return, or pop a connection.
Take(w) ==
  /\ worker[w] = "Take"
  /\ mutex' = Nobody
  /\ IF ~running \/ queue = <<>>
     THEN worker' = [worker EXCEPT ![w] = "Done"] /\ UNCHANGED <<queue, held>>
     ELSE /\ worker' = [worker EXCEPT ![w] = "Serve"]
          /\ held' = [held EXCEPT ![w] = Head(queue)]
          /\ queue' = Tail(queue)
  /\ UNCHANGED <<running, listener, outstanding, owner, acceptor, backlog>>

\* serve_connection or handle_connection returns, and the socket is closed.
Serve(w) ==
  /\ worker[w] = "Serve"
  /\ worker' = [worker EXCEPT ![w] = "Finish"]
  /\ held' = [held EXCEPT ![w] = Nobody]
  /\ UNCHANGED <<running, listener, outstanding, queue, mutex, owner, acceptor, backlog>>

FinishUncounted(w) ==
  /\ worker[w] = "Finish"
  /\ worker' = [worker EXCEPT ![w] = "Enter"]
  /\ UNCHANGED <<running, listener, outstanding, queue, mutex, owner, acceptor, held, backlog>>
Finish(w) ==
  /\ worker[w] = "Finish"
  /\ outstanding' = outstanding - 1
  /\ worker' = [worker EXCEPT ![w] = "Enter"]
  /\ UNCHANGED <<running, listener, queue, mutex, owner, acceptor, held, backlog>>

-----------------------------------------------------------------------------
\* A client with no open connection opens one.
Connect(c) ==
  /\ listener = "open"
  /\ c \notin backlog \cup ToSet(queue) \cup {held[t] : t \in Workers \cup {Acceptor}}
  /\ backlog' = backlog \cup {c}
  /\ UNCHANGED <<running, listener, outstanding, queue, mutex, owner, acceptor, worker, held>>

Stopping == ClearRunning \/ Shutdown \/ JoinAcceptor \/ Drain \/ NotifyAll \/ JoinWorkers

AcceptorStep ==
  AcceptLoop \/ Accept \/ Count \/ Refuse \/ Enqueue \/ Push \/ Undo \/ NotifyOne

WorkerStep(w) == Enter(w) \/ Test(w) \/ Block(w) \/ Take(w) \/ Serve(w) \/ Finish(w)

Next ==
  \/ Start \/ Listen \/ Spawn \/ CallStop \/ Stopping
  \/ AcceptorStep \/ AcceptFails
  \/ \E w \in Workers : WorkerStep(w) \/ SpuriousWakeup(w)
  \/ \E c \in Clients : Connect(c)

\* Every thread that can run runs.  A connection that is being served ends: its
\* socket has a timeout of 3 seconds.  Nothing makes clients connect, the owner
\* stop, or a wakeup be spurious.
Spec == Init /\ [][Next]_vars
FairSpec ==
  /\ Spec
  /\ WF_vars(Stopping) /\ WF_vars(AcceptorStep)
  /\ \A w \in Workers : WF_vars(WorkerStep(w))

-----------------------------------------------------------------------------
(* Properties.                                                             *)

\* Connections being served, including one whose answer is just complete.
Active == {w \in Workers : worker[w] \in {"Serve", "Finish"}}
InAccept == IF acceptor \in {"Busy", "Enqueue", "Push", "Undo"} THEN 1 ELSE 0

\* The counter is exact at every step of every thread: nothing leaks capacity,
\* so a client is told "busy" only when max_connections others are in hand.
Accounting == outstanding = Len(queue) + Cardinality(Active) + InAccept

\* max_connections bounds "queued and active" clients (docs/runbook.md).
Bounded == Len(queue) + Cardinality(Active) <= MaxConnections

\* When stop() returns, or start() has failed, no thread, no connection and no
\* count is left over, so that start() may be called again.
Quiescent ==
  owner = "Idle" =>
    /\ outstanding = 0 /\ queue = <<>> /\ mutex = Nobody /\ acceptor = "None"
    /\ \A w \in Workers : worker[w] = "None"

\* No wakeup is lost.  While a connection is queued some worker is on its way to
\* the queue, unless notify_one is still to come; and when stop() joins the
\* workers, none is asleep or about to be.
NoLostWakeup ==
  /\ running /\ queue # <<>> /\ acceptor # "NotifyOne" =>
       \E w \in Workers : worker[w] \notin {"None", "Block", "Waiting", "Done"}
  /\ owner = "JoinWorkers" => \A w \in Workers : worker[w] \notin {"Block", "Waiting"}

\* stop() returns: its notify_all cannot come between a worker's test of
\* running_ and its sleep, and the join of the accept thread does not wait for
\* another client.
StopReturns == owner = "Stop" ~> owner = "Idle"

\* A queued connection is taken by a worker, or closed by stop().
QueuedIsServed == \A c \in Clients : c \in ToSet(queue) ~> c \notin ToSet(queue)
=============================================================================
